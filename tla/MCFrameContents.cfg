\* Two frames, which recvLoop receives into one buffer.
SPECIFICATION Spec
CONSTANTS
  NoKey = NoKey
  Key = k
  ChannelBufferSize = 2
  Cells = 2
  Control = {ping}
  MaxFrames = 2
  MaxControl = 0
INVARIANT InjectedIntact
\* The number of frames is bounded.
CHECK_DEADLOCK FALSE
