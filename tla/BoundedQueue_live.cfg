\* A queue of encoder_example with one consumer more: one producer, two consumers,
\* main as closer; the capacity is 1, reached from an argument of 0.
SPECIFICATION FairSpec
CONSTANTS
  Producers = {p1}
  Consumers = {c1, c2}
  Closers = {k1}
  Items = {a, b}
  NoItem = NoItem
  NoThread = NoThread
  Capacity = 0
  MaxPushes = 2
PROPERTIES
  Refinement
  PushReturns
  WaiterServed
  ShutdownReleases
