\* The program has no barrier of its own: a node ends while another connects.
SPECIFICATION NodeSpec
CONSTANTS
  Sockets = {t1}
  Words = 1
  WordBits = 1
  Endpoints <- MCEndpoints
  NULL = NULL
  N = 2
  Callers = {1}
  Meets = FALSE
INVARIANTS
  ContextThere
