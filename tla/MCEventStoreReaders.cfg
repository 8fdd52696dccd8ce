SPECIFICATION StoreSpec
CONSTANTS
  Streams = {1, 2}
  EventIds = {e1, e2, e3, e4, e5}
  NoEvent = NoEvent
  Writers = {w1}
  Readers = {r1}
  NoWriter = NoWriter
  Limits = {1, 2}
  Reused = {}
SYMMETRY StoreSymmetry
CHECK_DEADLOCK FALSE
INVARIANTS
  PagesFormSnapshot
  ReadsSeeWholePairs
