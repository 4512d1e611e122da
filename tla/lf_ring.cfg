\* Two producers and a consumer on a queue of two entries.
CONSTANTS
  p1 = p1  p2 = p2  c1 = c1  c2 = c2
  Producers = {p1, p2}
  Consumers = {c1}
  Half <- MCHalf
  Remap <- MCRemap
  IndexRemap <- MCIndexRemap
  MaxCalls <- MCCalls
  NoValue = nothing
SPECIFICATION Spec
CHECK_DEADLOCK FALSE
INVARIANTS IndexOnce NoneLeftBehind
PROPERTY DeliversOnceInOrder
