SPECIFICATION Spec
CONSTANTS
  Requests = {r1, r2, r3}
  Free = 2
  Base = 4
  Cap = 16
  Overflow = 7
  MaxCrashes = 2
INVARIANTS
  TypeOK
  OnlyUnanswered
  NotLockedOut
  RetryAfterHonoured
PROPERTIES
  SlidingWindow
