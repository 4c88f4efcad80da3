SPECIFICATION MCSpec
CONSTANTS
  c1 = c1
  p = p
  Nobody = Nobody
  Contexts = {c1, c2}
  Callers = {p}
  At <- MCOneTab
  MaxSession = 3
  Settings <- MCLively
  Collections = {x1, x2}
  Readers = {r1}
  LiveCalls = {l1, l2}
  Manners <- MCManners
  l1 = l1
  l2 = l2
  Entries = {e1, e2, e3}
  Effective = {e1, e2}
  Occasions <- MCOccasions
  e1 = e1
  e2 = e2
  e3 = e3
INVARIANTS
  StateTyped
  RuntimeOutlivesAll
  OverlayFollows
PROPERTIES
  ClientSettles
CHECK_DEADLOCK FALSE
