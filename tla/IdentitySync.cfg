\* Safety of the mirror with two transactions of the API at a time.
CONSTANTS
  h1 = h1
  h2 = h2
  e1 = e1
  NoEmail = NoEmail
  Handlers = {h1, h2}
  Emails = {e1}
  Requests = {"mfa", "suspend", "delete", "sign_in"}
  MaxEvents = 3
  MaxCrashes = 0
SPECIFICATION Spec
SYMMETRY Symmetry
CHECK_DEADLOCK FALSE
INVARIANTS
  RevocationHolds
  NoUnavailableAccess
  AppliedAtMostOnce
PROPERTIES
  KeepsContract
  OnlyStaleReadersUndoErasure
