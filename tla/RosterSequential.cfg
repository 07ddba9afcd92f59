\* One transaction at a time: mentorships and coordinators are as the triggers say.
CONSTANTS
  m1 = m1
  m2 = m2
  m3 = m3
  u1 = u1
  u2 = u2
  u3 = u3
  t1 = t1
  NoUser = NoUser
  Enrollments = {m1, m2, m3}
  Users = {u1, u2, u3}
  Tasks = {t1}
  Requests = {"enroll", "role", "promote", "remove", "correct", "close", "delete", "mfa", "mentor", "reassign"}
  MaxCloses = 2
SPECIFICATION Spec
SYMMETRY Symmetry
CHECK_DEADLOCK FALSE
INVARIANTS
  LiveMentorshipsAreValid
  CoordinatorsHaveMfa
