\* Invitations: two requests at a time, two invitations to one address, two users who
\* may have it one after the other, two links.
\* Participation: two people and two enrollments over two seasons and three moments,
\* changed three times.
\* SigningKeys: two keys, two validations, five moments.
\* RateLimits: two windows and more, requests beyond both quotas.
CONSTANTS
  i1 = i1
  i2 = i2
  u1 = u1
  u2 = u2
  e1 = e1
  t1 = t1
  t2 = t2
  NoEmail = NoEmail
  NoUser = NoUser
  Invites = {i1, i2}
  Users = {u1, u2}
  Emails = {e1}
  Tasks = {t1, t2}
  MaxLinks = 2
  Subjects = {u1, u2}
  SeasonNumbers = {1, 2}
  EnrollmentIds = {i1, i2}
  MaxTime = 3
  MaxEdits = 3
  k1 = k1
  k2 = k2
  Kids = {k1, k2}
  Calls = {t1, t2}
  TTL = 2
  Timeout = 1
  LastMoment = 5
  MaxRotations = 2
  Window = 3
  Quota = 2
  LastInstant = 8
  MaxAsked = 8
SPECIFICATION BackendSpec
SYMMETRY BackendSymmetry
CHECK_DEADLOCK FALSE
INVARIANTS
  BackendTypeOK
  AcceptedOnce
  SentIsCurrent
  DeletedIsEmpty
  OpenPeriodIsCurrent
  CountedIsOffered
  WithdrawnKeysStop
  PublishedKeysWork
  QuotaIsKept
PROPERTIES
  AddresseeAccepts
  PastIsSettled
