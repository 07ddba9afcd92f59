\* A coordinator who keeps access without a second factor.
CONSTANTS
  m1 = m1
  u1 = u1
  t1 = t1
  t2 = t2
  NoUser = NoUser
  Enrollments = {m1}
  Users = {u1}
  Tasks = {t1, t2}
  Requests = {"enroll", "promote", "mfa"}
  MaxCloses = 0
SPECIFICATION Spec
SYMMETRY Symmetry
CHECK_DEADLOCK FALSE
INVARIANTS
  CoordinatorsHaveMfa
