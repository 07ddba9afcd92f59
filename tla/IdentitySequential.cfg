\* One transaction of the API at a time, from sign-up to past the erasure of the
\* account: what the mirror then promises.
CONSTANTS
  h1 = h1
  e1 = e1
  e2 = e2
  NoEmail = NoEmail
  Handlers = {h1}
  Emails = {e1, e2}
  Requests = {"verify", "email", "revoke", "suspend", "delete"}
  MaxEvents = 4
  MaxCrashes = 0
SPECIFICATION Spec
SYMMETRY Symmetry
CHECK_DEADLOCK FALSE
INVARIANTS
  NewestIsMirrored
