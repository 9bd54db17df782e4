SPECIFICATION Spec
CHECK_DEADLOCK FALSE
CONSTANTS
  Letters <- MCLetters
  EWords <- MCEWords
  Sources <- MCSources
INVARIANTS
  Located
  Respelled
  RoundTrip
  Canonical
  Splits
