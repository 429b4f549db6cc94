SPECIFICATION Spec
CONSTANTS
  Half32 <- MCHalf32
  Content <- MCContent
  Fields <- MCFields
  Scripts <- MCScripts
INVARIANTS
  FramesAreCarried
  ReaderInStep
  ValidatedIsWritten
CHECK_DEADLOCK FALSE
