SPECIFICATION Spec
CONSTANTS
  Users = {u1, u2, u3}
  Requests = {r1}
  Capacities = {1, 2, 4}
  EndTimes = {1, 2}
  MaxTime = 1
  Payloads <- AllPayloads
  HasAdmins = TRUE
  Others <- ThreeOthers
  StartDate <- TwoDates
INVARIANTS
  TypeOK
  FiltersAgree
  HistogramsSound
  AdminAgrees
  UserAgrees
PROPERTIES
  SerialRoster
  FreshIsSerial
  CardKept
