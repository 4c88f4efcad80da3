SPECIFICATION Spec
CONSTANTS
  c1 = c1
  p = p
  Nobody = Nobody
  Contexts = {c1, c2}
  Callers = {p, q}
  At <- MCOneTab
  MaxSession = 3
  Settings <- MCSettings
INVARIANT SessionsAreKept
CHECK_DEADLOCK FALSE
