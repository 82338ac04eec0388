SPECIFICATION Spec
CONSTANTS
  p = p
  q = q
  a = a
  b = b
  here = here
  there = there
  People = {p, q}
  Agents = {a, b}
  Home <- HomeOfEach
  Bindings <- TwoBindings
  Letters <- FourLetters
  NONE = NONE
  MaxMail = 4
  MaxWritten = 2
  MaxOwner = 1
INVARIANT RepliesAreBounded
INVARIANT AnsweredOnce
INVARIANT NeverAnswersItself
INVARIANT SessionFits
PROPERTY VerdictIsFinal
PROPERTY SwitchIsTheOwners
