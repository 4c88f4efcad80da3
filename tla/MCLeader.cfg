SPECIFICATION MCSpec
CONSTANTS
  Contexts = {c1, c2}
  Tabs = {t1, t2}
  Callers = {d1, d2, d3}
  Other = d3
  Second = t2
  In <- MCIn
  Ids = {a, b}
  Nobody = Nobody
  Nothing = Nothing
  Settings <- MCSettings
  Lane = Lane
  MaxToken = 2
  Flows = {f}
  Budget <- MCOnce
INVARIANTS
  StateTyped
  ExecutingIsHead
  ClaimIsCurrent
  ClientsCanRely
  RunsBounded
  StorageIsListed
PROPERTIES
  ImplementsQueue
  WritesAreKept
  LiveSessionIsKept
SYMMETRY LeaderSymmetry
CHECK_DEADLOCK FALSE
