\* Two transactions at a time.
CONSTANTS
  m1 = m1
  m2 = m2
  m3 = m3
  u1 = u1
  u2 = u2
  u3 = u3
  t1 = t1
  t2 = t2
  NoUser = NoUser
  Enrollments = {m1, m2, m3}
  Users = {u1, u2, u3}
  Tasks = {t1, t2}
  Requests = {"enroll", "role", "promote", "remove", "correct", "close", "delete"}
  MaxCloses = 2
SPECIFICATION Spec
SYMMETRY Symmetry
CHECK_DEADLOCK FALSE
INVARIANTS
  SeasonAgreesWithMembers
PROPERTIES
  CallsAreAtomic
