\* A client and a server send each other messages of both shapes at the same
\* time, and receive; two array addresses, so that a freed one is handed out
\* again.
SPECIFICATION FairSpec
CONSTANTS
  Clients = {c1}
  Servers = {s1}
  Frames = {f1, f2}
  Sizes <- MCSizes
  MaxAM = 2
  MaxSends = 2
  UINT64_MAX = UINT64_MAX
  Nothing = Nothing
INVARIANTS
  TypeOK
  AnswersAccounted
  PiecesHaveRoom
  ArraysAccounted
PROPERTIES
  RefinesMail
  SendReturns
  AllReceived
CHECK_DEADLOCK FALSE
