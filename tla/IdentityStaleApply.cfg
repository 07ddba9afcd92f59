\* Two transactions: an older event changes the mirror after a newer one.
CONSTANTS
  h1 = h1
  h2 = h2
  e1 = e1
  NoEmail = NoEmail
  Handlers = {h1, h2}
  Emails = {e1}
  Requests = {"verify", "revoke", "suspend", "delete"}
  MaxEvents = 3
  MaxCrashes = 0
SPECIFICATION Spec
SYMMETRY Symmetry
CHECK_DEADLOCK FALSE
PROPERTIES
  NoStaleApply
