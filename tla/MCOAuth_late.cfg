SPECIFICATION OAuthSpec
CONSTANTS
  Tabs = {c1, c2}
  Callers = {c1, c2}
  In <- MCIn
  Lane = Lane
  Nothing = Nothing
  MaxToken = 3
  Flows = {}
  Budget <- MCUndisturbed
SYMMETRY Symmetry
INVARIANTS StaleIsNotReused
CHECK_DEADLOCK FALSE
