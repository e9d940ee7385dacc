\* hqueue_new(4): a power of two, so the ring gets no slot more.
SPECIFICATION Spec
CONSTANTS
  Items = {a}
  NoItem = NoItem
  Capacity = 4
  Size = 4
PROPERTIES
  CapacityHonoured
