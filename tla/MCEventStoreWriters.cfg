SPECIFICATION StoreSpec
CONSTANTS
  Streams = {1, 2}
  EventIds = {e1, e2, e3}
  NoEvent = NoEvent
  Writers = {w1, w2}
  Readers = {}
  NoWriter = NoWriter
  Limits = {1}
  Reused = {e1}
SYMMETRY StoreSymmetry
CHECK_DEADLOCK FALSE
INVARIANTS
  StreamsAreGapless
  PairsAreWhole
  CausesPrecede
  AnswersAreFinal
