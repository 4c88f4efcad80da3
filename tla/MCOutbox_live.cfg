SPECIFICATION FairSpec
CONSTANTS
  Contexts = {c1, c2}
  Ids = {a}
  Nobody = Nobody
  Settings <- MCSettling
PROPERTIES Drains CompletionsSettle
CHECK_DEADLOCK FALSE
