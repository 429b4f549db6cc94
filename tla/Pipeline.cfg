\* Two tags, three registrations, four deliveries, one cancellation.
CONSTANTS
  Parser = parser
  Caller = {parser}
  NoCaller = NoCaller
  t1 = t1
  t2 = t2
  Tag <- MCTag
  NoTag = NoTag
  NoMsg = NoMsg
  Capacity = 1
  MaxAdd = 3
  MaxSend = 4
  MaxCancel = 1
SPECIFICATION PipelineSpec
\* At the bounds, when all is handled, everything waits.
CHECK_DEADLOCK FALSE
INVARIANTS
  PipelineTypeOK
  TagOrder
PROPERTIES
  ImplementsPipelineQueues
  DispatchReturns
  DeliveredIsHandled
  ForwardersEnd
