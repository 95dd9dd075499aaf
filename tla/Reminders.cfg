SPECIFICATION Spec
CONSTANTS
  Users = {u1, u2}
  Batches = {b1, b2}
  MaxEdits = 4
  MaxFailures = 1
INVARIANTS
  TypeOK
  RemindedOnce
  MarkedIsMailed
PROPERTIES
  EventuallyReminded
