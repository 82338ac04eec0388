------------------------------ MODULE MCUnread ------------------------------
(* A small instance of Unread: a few events and starts of the watcher.     *)
EXTENDS Unread
=============================================================================
