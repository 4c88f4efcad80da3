SPECIFICATION MCSpec
CONSTANTS
  Scenarios <- MCScenarios
  Setups <- MCSetups
  Users = {u1}
  OntologyKeys = {k1, k2}
  Owner <- MCOwner
  Callers = {q1, q2}
  Instances = 2
  Courses <- MCCourses
  u1 = u1
  k1 = k1
  k2 = k2
  q1 = q1
  q2 = q2
  ObjectKeys = {o1, o2}
  MaxEdits = 3
  EditPage = 1
  Ways <- MCWays
  o1 = o1
  o2 = o2
  ObjectSets = {s1, s2}
  Consumers = {c1, c2, c3}
  SetOf <- MCSetOf
  Plots <- MCPlots
  s1 = s1
  s2 = s2
  c1 = c1
  c2 = c2
  c3 = c3
INVARIANTS
  StateTyped
  AcceptedRuns
  PartiesAgree
  NothingIsLost
  CollectionFollows
  NoChangeIsMissed
  AttachmentsHold
PROPERTIES
  DescribedIsValid
  AwaitedIsShown
  BackendsSettle
CHECK_DEADLOCK FALSE
