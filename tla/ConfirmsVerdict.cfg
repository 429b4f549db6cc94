\* A Multiple answer overtakes a single one.
CONSTANTS
  l1 = l1
  l2 = l2
  Listener <- MCListener
  Capacity = 1
  Ahead = 0
  MaxPublish = 3
SPECIFICATION Spec
CHECK_DEADLOCK FALSE
INVARIANT
  ToldTheAnswer
