\* A client that publishes on the channel of its deliveries; nothing is lost.
CONSTANTS
  d1 = d1
  d2 = d2
  d3 = d3
  q1 = q1
  q2 = q2
  q3 = q3
  NoMessage = NoMessage
  Chan <- MCChan
  Port <- MCPort
  Id <- MCId
  Host <- MCHost
  Server <- MCServer
  ContentMethod <- MCContentMethod
  PlainMethod <- MCPlainMethod
  Properties <- MCContentMethod
  Octet <- MCOctet
  FrameIn <- MCNone
  MaxSlice = 4
  MaxWire = 0
  Deliveries <- MCDeliveries
  Publishings <- MCPublishings
  Ack <- MCAck
  Open <- MCOpen
  Prefetch = 1
  Captures <- MCTwoWay
  MaxBody = 2
SPECIFICATION CaptureSpec
SYMMETRY MCSymmetry
\* The peers stop when everything is sent and acknowledged.
CHECK_DEADLOCK FALSE
INVARIANT
  ContentIsIntact
