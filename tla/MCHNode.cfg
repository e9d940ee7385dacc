\* Two nodes start, meet, part and end in every order, while one connects to
\* the other; the latter, the home node, has one socket more than it has ids,
\* two words in its bitmap, and endpoints enough for its hash table to grow.
SPECIFICATION NodeSpec
CONSTANTS
  Sockets = {t1, t2, t3, t4, t5}
  Words = 2
  WordBits = 2
  Endpoints <- MCEndpoints
  NULL = NULL
  N = 2
  Callers = {1}
  Meets = TRUE
SYMMETRY Symmetry
INVARIANTS
  NodeTypeOK
  StatusTrue
  NoIdLost
  EndpointsLeadHome
  PeersKnown
  RegistryThere
  TableTrue
