\* One Run() call, every interleaving of its goroutines.
CONSTANTS
  Modes = {"listen", "connect"}
  ChannelBufferSize = 1
  MaxMissedPongs = 2
  StatsInterval = 1
  PeerMessages = {"frame", "pong", "bye"}
SPECIFICATION Spec
INVARIANTS
  EventOrder
  ReturnReported
  ByeOnlyOnShutdown
  PeerLossExplained
  CrashOnlyInTeardown
\* Run returns and the process ends: the model may stop.
PROPERTY KeepsContract
CHECK_DEADLOCK FALSE
