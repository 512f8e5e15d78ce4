\* Frames at, below and above both limits; two keys and none.
CONSTANTS
  NoKey = NoKey
  Keys = {k1, k2}
  FrameSizes = {13, 14, 31, 60, 1514, 1515}
  MaxNonce = 2
  PutUint64 <- BigEndian
SPECIFICATION Spec
INVARIANTS
  RoundTrip
PROPERTY CodecAbstracts
\* The number of messages is bounded.
CHECK_DEADLOCK FALSE
