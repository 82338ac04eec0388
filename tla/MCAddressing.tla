---------------------------- MODULE MCAddressing -----------------------------
(* Self and two people called bob, one after the other; the first has two   *)
(* Claude sessions and one of a harness whose name is not its own slug,     *)
(* which may be named what counting calls the second Claude session.        *)
EXTENDS Addressing, TLC

CONSTANTS me, b1, b2, c1, c2, m

Words == {"me", "bob", "claude", "my_agent", "my-agent", "claude-2"}
Count == [x \in Words |-> <<x, x \o "-2", x \o "-3">>]
AllTexts == UNION {{Count[x][n] : n \in 1..3} : x \in Words}
            \cup {"0000", "1111", "2222", "a-label"}
Names == (me :> "me") @@ (b1 :> "bob") @@ (b2 :> "bob")
Keys == (me :> "0000") @@ (b1 :> "1111") @@ (b2 :> "2222")
Owners == [x \in AllTexts |-> {u \in {me, b1, b2} : Keys[u] = x}]
Enrolled == (me :> {}) @@ (b1 :> {c1, c2, m}) @@ (b2 :> {c1})
Harnesses == (c1 :> "claude") @@ (c2 :> "claude") @@ (m :> "my_agent")
Places == (m :> 1) @@ (c1 :> 2) @@ (c2 :> 3)
Nicknames == [l \in {c1, c2, m} |-> IF l = m THEN {"claude-2"} ELSE {}]
Slugs == [x \in AllTexts \cup {c1, c2, m} |->
  CASE x = "my_agent" -> "my-agent"
    [] x = "my_agent-2" -> "my-agent-2"
    [] x = "my_agent-3" -> "my-agent-3"
    [] x \in {c1, c2, m} -> "a-label"
    [] OTHER -> x]
Order == [x \in AllTexts |-> CASE x \in {"claude", "my_agent"} -> 1
                               [] OTHER -> 2]
=============================================================================
