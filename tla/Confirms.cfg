\* Two listeners that keep receiving, on Go channels of one element; three
\* publishings, of which one may be answered before it is counted.
CONSTANTS
  l1 = l1
  l2 = l2
  Listener <- MCListener
  Capacity = 1
  Ahead = 1
  MaxPublish = 3
SPECIFICATION LiveSpec
\* When all is published, answered and received, nothing is left to do.
CHECK_DEADLOCK FALSE
INVARIANTS
  TypeOK
  ToldInOrder
  SequencerIsTidy
PROPERTIES
  NothingHeldBack
  MutexIsReleased
