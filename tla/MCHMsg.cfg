\* Every picture of up to three elements and every choice of those the receiver
\* wants; a socket's buffer that has room for two elements of 8 bytes.
SPECIFICATION Spec
CONSTANTS
  Letters <- MCLetters
  MaxElements = 3
  Header = 40
  MaxAM = 56
  Nothing = Nothing
INVARIANTS
  BufferEnough
  RoundTrip
  LeftBehind
CHECK_DEADLOCK FALSE
