\* A network that loses, duplicates and reorders; a frame more than the
\* channels hold; two goroutines that encode.
SPECIFICATION Spec
CONSTANTS
  NoKey = NoKey
  Key = k
  ChannelBufferSize = 2
  Cells = 1
  Control = {ping}
  MaxFrames = 3
  MaxControl = 1
INVARIANTS RxAtMostTx OvertakenBounded
PROPERTY ForwardsInOrder
\* The number of frames is bounded.
CHECK_DEADLOCK FALSE
