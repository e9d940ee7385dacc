\* Three threads contend for the two ends, connect and disconnect again and
\* again while messages and signals are on their way.
SPECIFICATION Spec
CONSTANTS
  Pipes = {p1, p2, p3}
  Room <- MCRoom
  MaxMsgs = 2
  None = None
SYMMETRY Symmetry
INVARIANTS
  OneUserPerSide
  EndpointsHeld
  MessagesConserved
  SignalsConserved
  ErrorJustified
CHECK_DEADLOCK FALSE
