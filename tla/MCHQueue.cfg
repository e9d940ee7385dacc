\* A ring of four slots, so that both indices wrap while the other side lags,
\* and three items, so that a swap of any two is visible.
SPECIFICATION Spec
CONSTANTS
  Items = {a, b, c}
  NoItem = NoItem
  Capacity = 3
  Size = 4
INVARIANTS
  TypeOK
  SlotRaceFree
  CursorsConservative
PROPERTIES
  RefinesFifo
