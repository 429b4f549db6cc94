\* Every frame sequence of length MaxWire on one channel.
CONSTANTS
  deliver = deliver
  return = return
  cancel = cancel
  p1 = p1
  o1 = o1
  o2 = o2
  hugeSize = 9
  NoMessage = NoMessage
  Chan <- MCChan
  ContentMethod <- MCContentMethod
  PlainMethod <- MCPlainMethod
  Properties <- MCProperties
  Octet <- MCOctet
  FrameIn <- MCFrameIn
  MaxSlice = 4
  MaxWire = 6
SPECIFICATION Spec
\* Every channel is full of frames at the bound, or the program has panicked.
CHECK_DEADLOCK FALSE
INVARIANTS
  TypeOK
  HandlerKnowsPlace
  DispatchedIsSpelled
  SpelledIsDispatched
