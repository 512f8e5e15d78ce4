\* The same bridge with one missed PONG and a peer that only says BYE: the
\* leads-to properties are about the context and the disconnect.  A listener
\* may have its capture from the start, as a connector does.
CONSTANTS
  Modes = {"listen"}
  ChannelBufferSize = 1
  MaxMissedPongs = 1
  StatsInterval = 0
  PeerMessages = {"bye"}
SPECIFICATION FairSpec
PROPERTIES
  ShutdownReturns
  PeerLossClosesTransport
CHECK_DEADLOCK FALSE
