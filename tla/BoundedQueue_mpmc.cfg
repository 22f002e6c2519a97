\* Two producers and two consumers on a queue of two, one closer.
SPECIFICATION Spec
CONSTANTS
  Producers = {p1, p2}
  Consumers = {c1, c2}
  Closers = {k1}
  Items = {a, b}
  NoItem = NoItem
  NoThread = NoThread
  Capacity = 2
  MaxPushes = 4
SYMMETRY Symmetry
INVARIANTS
  QueueIsWindow
  NoStrandedItem
  FalseHasReason
