SPECIFICATION Spec
CONSTANTS
  Users = {u1, u2}
  Requests = {r1}
  Capacities = {2}
  EndTimes = {1}
  MaxTime = 0
  Payloads <- NoPayloads
  HasAdmins = TRUE
PROPERTIES
  NoticeCountCurrent
