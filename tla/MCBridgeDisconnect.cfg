\* Does a peer disconnect make Run return?
CONSTANTS
  Modes = {"listen"}
  ChannelBufferSize = 1
  MaxMissedPongs = 1
  StatsInterval = 0
  PeerMessages = {"bye"}
SPECIFICATION FairSpec
PROPERTY DisconnectReturns
CHECK_DEADLOCK FALSE
