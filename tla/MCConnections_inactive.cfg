SPECIFICATION Spec
CONSTANTS
  c1 = c1
  p = p
  Nobody = Nobody
  Contexts = {c1}
  Callers = {p}
  At <- MCOneTab
  MaxSession = 3
  Settings <- MCQuiet
PROPERTY DisconnectedStays
CHECK_DEADLOCK FALSE
