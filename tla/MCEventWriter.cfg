\* The channel is full with two events; two discoveries emit around Close.
SPECIFICATION FairSpec
CONSTANTS
  Discoveries = {d1, d2}
  BufferSize = 2
  MaxEvents = 4
INVARIANT CloseDrains
PROPERTIES WritesInOrder CloseReturns
\* After Close nothing is left to do.
CHECK_DEADLOCK FALSE
