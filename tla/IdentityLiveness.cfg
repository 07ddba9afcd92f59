\* The mirror catches up whatever posts and answers are lost, whichever revocation fails,
\* and when the service dies on the way.
CONSTANTS
  h1 = h1
  e1 = e1
  e2 = e2
  NoEmail = NoEmail
  Handlers = {h1}
  Emails = {e1, e2}
  Requests = {"email"}
  MaxEvents = 3
  MaxCrashes = 1
SPECIFICATION FairSpec
CHECK_DEADLOCK FALSE
PROPERTIES
  VersionCatchesUp
