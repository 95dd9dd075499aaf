SPECIFICATION Spec
CONSTANTS
  Users = {u1, u2}
  Requests = {r1}
  Capacities = {1}
  EndTimes = {1}
  MaxTime = 0
  Payloads <- AllPayloads
  HasAdmins = TRUE
PROPERTIES
  EditRefusedWhenOverfull
