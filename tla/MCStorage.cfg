SPECIFICATION MCSpec
CONSTANTS
  None = None
  NoOne = NoOne
  Nothing = Nothing
  Nodes = {n1, n2}
  Repeated = Repeated
  Single = Single
  Calls = {Repeated, Single}
  MaxAttempts <- MCAttempts
  Contexts = {c1, c2}
  Local = Local
  Stored = Stored
  Foreign = Foreign
  Blobs <- MCBlobs
  RemoteOf <- MCRemoteOf
  PageSize = 2
  Settings <- MCSettings
  Ids = {"a", "b"}
  Applications <- MCApplications
  Listed = 1
  Collectors = {d1, d2}
  Inline = Inline
  Plans <- MCPlans
  w1 = w1
  w2 = w2
INVARIANTS
  StateTyped
  ServedUnderLock
  CallersAreServed
  RecordsKeepBytes
  StoreMatchesDatabase
PROPERTY StorageSettles
CHECK_DEADLOCK FALSE
