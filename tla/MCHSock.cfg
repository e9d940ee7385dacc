\* Three sockets that can each be server or client, one endpoint to fight for,
\* and sockets destroyed only when the job is quiet.
SPECIFICATION QuietSpec
CONSTANTS
  Sockets = {s1, s2, s3}
  Mailboxes = {m1, m2, m3}
  Endpoints = {e1}
  UINT64_MAX = UINT64_MAX
  Freed = Freed
  Room = 1
SYMMETRY Symmetry
INVARIANTS
  TypeOK
  RepliesAwaited
  ConnectHonest
  NoDangling
CHECK_DEADLOCK FALSE
