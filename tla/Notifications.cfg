SPECIFICATION Spec
CONSTANTS
  Users = {u1, u2}
  Addresses = {a1, a2}
  Notices = {n1, n2}
  Plans <- AnyAndOne
  AddressBooks <- Books
  Tabs = {t1, t2}
  Tasks = {k1}
  None = None
  MaxTurns = 2
INVARIANTS
  TypeOK
  CommittedFirst
  NothingSilent
  PagesComplete
PROPERTIES
  Addressed
  AtMostOnce
  AckKept
CHECK_DEADLOCK FALSE
