\* Long enough for a peer to be given up twice over; two samples leave a
\* window of three.
CONSTANTS
  PingInterval = 3
  PongTimeout = 1
  MaxMissedPongs = 3
  MaxInFlight = 2
  MaxTime = 26
  Durations <- SomeDurations
  WindowSize = 3
  MaxSamples = 5
SPECIFICATION Spec
INVARIANTS
  SilenceBound
  GiveUpNotEarly
  RTTBelowInterval
  AverageOfLastSamples
  SpikeIsHalfMore
\* The clock stops at MaxTime.
CHECK_DEADLOCK FALSE
