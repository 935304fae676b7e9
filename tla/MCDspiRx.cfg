SPECIFICATION DspiFairSpec
CONSTANTS
  Buffer = {b1, b2}
  NULL = NULL
  Half = 2
  MaxSamples = 12
INVARIANTS
  BuffersConserved
  ChunksInOrder
  HalvesAccounted
PROPERTY
  BuffersComeBack
CHECK_DEADLOCK FALSE
