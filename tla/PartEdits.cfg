SPECIFICATION Spec
CONSTANTS
  Users = {u1, u2}
  Requests = {r1, r2}
  Capacities = {1}
  EndTimes = {1}
  MaxTime = 0
  Payloads <- EditPayloads
  HasAdmins = TRUE
INVARIANTS
  FlushStands
  DeadlocksAreReplacements
PROPERTIES
  FreshIsSerial
  NoticeFirst
SYMMETRY RequestSymmetry
