\* Two runs of the program, one after the other, of one publishing each.
CONSTANTS
  early = early
  foreign = foreign
  Earlier <- MCEarlier
  Unreadable <- MCUnreadable
  NoMsg = NoMsg
  Prefetch = 1
  Runs = 2
  MaxPublish = 1
  MaxRunning = 1
SPECIFICATION Spec
\* When both runs have ended nothing happens any more.
CHECK_DEADLOCK FALSE
INVARIANTS
  TypeOK
  RepeatsAreBounded
PROPERTIES
  PublishedIsReceived
  ImplementsWorkQueue
  InterruptEnds
  QueuedIsHandled
