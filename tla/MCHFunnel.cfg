\* Two producers and four node addresses: two pushes can stand between their
\* exchange and their link while the consumer frees a node and a later push
\* gets the freed address again.
SPECIFICATION FairSpec
CONSTANTS
  Producers = {p1, p2}
  Values = {a, b}
  Nodes = {n1, n2, n3, n4}
  Null = Null
INVARIANTS
  TypeOK
  ListShape
  NoUseAfterFree
  NodesAccounted
PROPERTIES
  RefinesMailbox
  Delivery
CHECK_DEADLOCK FALSE
