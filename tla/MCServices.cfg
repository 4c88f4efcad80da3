SPECIFICATION MCSpec
CONSTANTS
  None = None
  A = A
  B = B
  Services = {A, B}
  Calls = {1, 2, 3, 4}
  Uses <- MCCyclic
  MaxServes = 1
  Contexts = {n1, n2}
  Envelopes = {e1, e2, e3}
  RowKeys = {k1, k2}
  Gone = Gone
  Writes <- MCWrites
  Asker <- MCAsker
  Messages = {m1, m2, m3}
  Sender <- MCSender
  Signatures <- MCSignatures
  Predicates <- MCPredicates
  Capacity = 3
  MaxPending = 2
  Nobody = Nobody
  Unread = Unread
  Broken = Broken
  Budget <- MCBudget
  Lower <- MCLower
  n1 = n1
  n2 = n2
  e1 = e1
  e2 = e2
  e3 = e3
  m1 = m1
  m2 = m2
  m3 = m3
  k1 = k1
  k2 = k2
  Clients = {w1}
  Requests = {r1, r2}
  By <- MCBy
  Versions <- MCVersions
  MaxEvents = 1
  Mishaps = 1
  w1 = w1
  r1 = r1
  r2 = r2
INVARIANTS
  StateTyped
  LanesSerial
  LanesInOrder
  ConnectionsHold
  CollectionAgrees
PROPERTIES
  RejectedStaysOut
  IndexComplete
  ServicesSettle
CHECK_DEADLOCK FALSE
