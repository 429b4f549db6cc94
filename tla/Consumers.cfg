\* Two goroutines use the object, two tags, three registrations, three sends.
CONSTANTS
  parser = parser
  other = other
  t1 = t1
  t2 = t2
  Caller <- MCCaller
  Tag <- MCTag
  NoCaller = NoCaller
  MaxAdd = 3
  MaxSend = 3
SPECIFICATION Spec
\* Deadlock freedom is CallsReturn; at the bounds all stops.
CHECK_DEADLOCK FALSE
INVARIANTS
  NoChannelMisuse
  RegisteredIsServed
  NothingLostOrReordered
PROPERTIES
  ImplementsQueues
  CallsReturn
  CancelledEnds
