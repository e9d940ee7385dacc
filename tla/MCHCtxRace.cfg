\* Two threads create sockets at the same time.
SPECIFICATION Spec
CONSTANTS
  Sockets = {t1, t2}
  Words = 1
  WordBits = 4
  Endpoints = {e1}
  NULL = NULL
INVARIANTS
  StatusTrue
CHECK_DEADLOCK FALSE
