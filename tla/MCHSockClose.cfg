\* A server that nobody is connected to is destroyed; a client that was
\* connecting is then given its address.
SPECIFICATION CarefulSpec
CONSTANTS
  Sockets = {s1, s2}
  Mailboxes = {m1, m2}
  Endpoints = {e1}
  UINT64_MAX = UINT64_MAX
  Freed = Freed
  Room = 1
INVARIANTS
  PushSound
CHECK_DEADLOCK FALSE
