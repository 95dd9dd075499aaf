SPECIFICATION Spec
CONSTANTS
  Passwords = {old, new}
  Tokens = {t1, t2}
  Requests = {r1, r2}
PROPERTIES
  RecoveredPasswordStays
SYMMETRY Symmetry
