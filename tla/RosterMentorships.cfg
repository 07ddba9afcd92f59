\* A mentorship of a removed member, or of a student who has become a mentor.
CONSTANTS
  m1 = m1
  m2 = m2
  u1 = u1
  u2 = u2
  t1 = t1
  t2 = t2
  NoUser = NoUser
  Enrollments = {m1, m2}
  Users = {u1, u2}
  Tasks = {t1, t2}
  Requests = {"enroll", "role", "remove", "mentor"}
  MaxCloses = 0
SPECIFICATION Spec
SYMMETRY Symmetry
CHECK_DEADLOCK FALSE
INVARIANTS
  LiveMentorshipsAreValid
