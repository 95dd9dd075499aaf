SPECIFICATION Spec
CONSTANTS
  Emails = {e1, e2, e3}
  Tokens = {t1, t2}
  Accounts = {a1, a2, a3}
  Requests = {r1, r2}
  None = None
INVARIANTS
  TypeOK
  EmailUnique
PROPERTIES
  ConflictTold
SYMMETRY Symmetry
CHECK_DEADLOCK FALSE
