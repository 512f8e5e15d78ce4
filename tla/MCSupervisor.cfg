\* Both modes: foreground and background discovery, two Xboxes, two processes,
\* backoff past the end of the table.
SPECIFICATION FairSpec
CONSTANTS
  LossReturns = TRUE
  Modes = {"listen", "connect"}
  MACs = {x1, x2}
  NoMAC = NoMAC
  MaxConnections = 6
  MaxDiscoveries = 3
  MaxStarts = 2
INVARIANTS MACIsReal CaptureReleased HandOverAccepted
PROPERTIES BackoffGrows SignalEnds
\* The user may leave the process stopped.
CHECK_DEADLOCK FALSE
