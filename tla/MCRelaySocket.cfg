SPECIFICATION FairSpec
CONSTANTS
  Channels = {c1}
  Callers = {q1, q2}
  Attempts = {a1, a2}
  Sends = {s1}
  None = None
  MaxUnanswered = 2
  MaxPipe = 2
INVARIANTS
  JoinIsReal
  HandedOverOnce
  WaitingIsHeld
  LeftStaysLeft
  ConfirmedIsDone
PROPERTIES
  CallsAnswered
CHECK_DEADLOCK FALSE
