\* Two packets, each from any cut of a stream to any later one.
CONSTANTS
  Streams <- MCStreams
  Cuts <- MCCuts
  MaxPackets = 2
SPECIFICATION Spec
\* The capture ends.
CHECK_DEADLOCK FALSE
INVARIANTS
  TypeOK
  OnlySentFrames
  AlignedPacketIsRead
PROPERTY
  ParseReturns
