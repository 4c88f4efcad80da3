SPECIFICATION MCLateSpec
CONSTANTS
  ObjectKeys = {o1}
  MaxEdits = 3
  EditPage = 1
  Ways <- MCLateWay
  o1 = o1
  o2 = o2
INVARIANTS Reconciles
CHECK_DEADLOCK FALSE
