SPECIFICATION Spec
CONSTANTS
  Passwords = {old, new}
  Tokens = {t1, t2}
  Requests = {r1, r2}
INVARIANTS
  TypeOK
  TokenOnce
PROPERTIES
  PasswordKept
  LoginCurrent
SYMMETRY Symmetry
