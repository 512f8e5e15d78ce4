\* Periodic statistics on: three keys, three frames.
CONSTANTS
  StatsInterval = 30
  MaxEnters = 3
  MaxFrames = 3
SPECIFICATION ConsoleFairSpec
INVARIANTS
  PacketsAtMostOneAhead
  IdleEnterKept
PROPERTIES
  IdleEnterAnswered
  ConsoleEnds
\* After the shutdown nothing is left to do.
CHECK_DEADLOCK FALSE
