\* Every choice of keys, one restart of each process.
CONSTANTS
  NoKey = NoKey
  Keys = {k1, k2}
  FixedPort = TRUE
  MaxNonce = 3
  MaxChallenge = 2
  MaxRestart = 1
SPECIFICATION Spec
SYMMETRY KeySymmetry
INVARIANTS
  KeysMustMatch
  ChallengeAgreement
  InOrderOnce
\* Restarts and messages are bounded.
CHECK_DEADLOCK FALSE
