----------------------------- MODULE KeepAlive -----------------------------
(***************************************************************************)
(* The PING/PONG exchange that measures the round trip time and detects a   *)
(* dead peer: pingLoop and handlePong of one bridge, handlePing of the      *)
(* other, and a network that loses, duplicates, delays and reorders.  Time  *)
(* is discrete; a timestamp is the time of sending, and 0 is "no ping        *)
(* pending", as in the code.  Module Stats has what becomes of a sample.     *)
(***************************************************************************)
EXTENDS Stats, FiniteSets

CONSTANTS
  PingInterval,     \* period of pingLoop's ticker
  PongTimeout,      \* declared beside PingInterval; nothing reads it
  MaxMissedPongs,
  MaxInFlight,      \* bound: PINGs (and PONGs) in the network at once
  MaxTime           \* bound: length of a behaviour

ASSUME KeepAliveAssumption ==
  /\ PingInterval \in Nat \ {0}
  /\ PongTimeout \in Nat
  /\ MaxMissedPongs \in Nat \ {0}
  /\ MaxInFlight \in Nat
  /\ MaxTime \in Nat

VARIABLES
  now,           \* the clock
  nextTick,      \* when the ticker fires next
  pendingPing,   \* timestamp of the ping without an answer yet, or 0
  missedPongs,
  pings,         \* PINGs in the network, by timestamp
  pongs,         \* PONGs in the network, by timestamp
  lastRTT,       \* the last sample given to AddRTTSample
  lastPongAt,    \* history: when a PONG last counted (or the session began)
  gaveUpAt       \* history: when the peer was first declared unresponsive

vars == <<now, nextTick, pendingPing, missedPongs, pings, pongs, lastRTT,
          lastPongAt, gaveUpAt>>

Never == -1
gaveUp == gaveUpAt # Never

TypeOK ==
  /\ now \in Nat /\ nextTick \in Nat
  /\ pendingPing \in Nat /\ missedPongs \in Nat
  /\ pings \subseteq Nat /\ pongs \subseteq Nat
  /\ lastRTT \in Nat /\ lastPongAt \in Nat
  /\ gaveUpAt \in Nat \cup {Never}

Init ==
  /\ now = 0 /\ nextTick = PingInterval
  /\ pendingPing = 0 /\ missedPongs = 0
  /\ pings = {} /\ pongs = {}
  /\ lastRTT = 0 /\ lastPongAt = 0 /\ gaveUpAt = Never

\* The network takes a message, or loses it at once.
Transmit(net, m) == {net} \cup (IF Cardinality(net) < MaxInFlight
                                  THEN {net \cup {m}} ELSE {})

-----------------------------------------------------------------------------
\* The clock; it does not run past a tick that pingLoop has to serve.
Elapse ==
  /\ now < nextTick /\ now < MaxTime
  /\ now' = now + 1
  /\ UNCHANGED <<nextTick, pendingPing, missedPongs, pings, pongs, lastRTT,
                 lastPongAt, gaveUpAt>>

\* Mutant: > for >= in the test against MaxMissedPongs.
TooManyMissedLate(missed) == missed > MaxMissedPongs

TooManyMissed(missed) == missed >= MaxMissedPongs

\* pingLoop's tick: sendPing counts the ping that is still pending as missed,
\* and either gives up (leaving it pending) or sends the next one.
sendPing ==
  LET missed == IF pendingPing # 0 THEN missedPongs + 1 ELSE missedPongs IN
  /\ now = nextTick
  /\ nextTick' = nextTick + PingInterval
  /\ missedPongs' = missed
  /\ IF pendingPing # 0 /\ TooManyMissed(missed)
       THEN /\ gaveUpAt' = IF gaveUp THEN gaveUpAt ELSE now
            /\ UNCHANGED <<pendingPing, pings>>
       ELSE /\ pendingPing' = now
            /\ pings' \in Transmit(pings, now)
            /\ UNCHANGED gaveUpAt
  /\ UNCHANGED <<now, pongs, lastRTT, lastPongAt>>

\* The peer's handlePing echoes the timestamp; the network may have
\* delivered one of several copies.
handlePing(timestamp) ==
  /\ timestamp \in pings
  /\ pings' \in {pings, pings \ {timestamp}}
  /\ pongs' \in Transmit(pongs, timestamp)
  /\ UNCHANGED <<now, nextTick, pendingPing, missedPongs, lastRTT, lastPongAt,
                 gaveUpAt>>

\* Mutant: a PONG counts whichever ping it answers.
Answers_AnyPing(timestamp) == pendingPing # 0

\* handlePong's two early returns: nothing pending, or another timestamp.
Answers(timestamp) == pendingPing # 0 /\ timestamp = pendingPing

\* Mutant: the miss counter survives an answer.
ClearPending_KeepMisses ==
  /\ pendingPing' = 0
  /\ UNCHANGED missedPongs

ClearPending ==
  /\ pendingPing' = 0
  /\ missedPongs' = 0

RTT(timestamp) == now - timestamp

handlePong(timestamp) ==
  /\ timestamp \in pongs
  /\ pongs' \in {pongs, pongs \ {timestamp}}
  /\ IF Answers(timestamp)
       THEN /\ ClearPending
            /\ lastRTT' = RTT(timestamp)
            /\ lastPongAt' = now
       ELSE UNCHANGED <<pendingPing, missedPongs, lastRTT, lastPongAt>>
  /\ UNCHANGED <<now, nextTick, pings, gaveUpAt>>

\* A message in flight is lost.
Lose ==
  /\ \/ \E m \in pings : pings' = pings \ {m} /\ UNCHANGED pongs
     \/ \E m \in pongs : pongs' = pongs \ {m} /\ UNCHANGED pings
  /\ UNCHANGED <<now, nextTick, pendingPing, missedPongs, lastRTT, lastPongAt,
                 gaveUpAt>>

Next ==
  \/ Elapse \/ sendPing \/ Lose
  \/ \E m \in pings : handlePing(m)
  \/ \E m \in pongs : handlePong(m)

Spec == Init /\ [][Next]_vars

-----------------------------------------------------------------------------
\* A silent peer is found out: while it has not been given up, the last PONG
\* that counted is at most MaxMissedPongs + 1 intervals old, whatever old
\* PONGs the network still delivers.
SilenceBound ==
  ~gaveUp => now - lastPongAt <= (MaxMissedPongs + 1) * PingInterval

\* A peer is not given up early: MaxMissedPongs whole intervals have passed
\* without a PONG that counted (the last disjunct: one came after that), so
\* misses spread over a session never add up.
GiveUpNotEarly ==
  gaveUp => \/ gaveUpAt - lastPongAt >= MaxMissedPongs * PingInterval
            \/ lastPongAt >= gaveUpAt

\* Until the peer is given up no RTT sample exceeds the ping interval: a
\* PONG is never matched with an older or a newer ping than its own.
RTTBelowInterval == ~gaveUp => lastRTT <= PingInterval

\* AddRTTSample keeps the average up to date with one addition and one
\* subtraction: when handlePong has given it the sample lastRTT, the average
\* is the mean of the last WindowSize samples, however many samples the
\* session had before and even if the clock was set back during one of them.
AverageOfLastSamples == lastRTT \notin WrongAverage

\* handlePong saves the previous sample, adds the new one and then looks for
\* a spike: it reports the sample lastRTT as a spike exactly when it exceeds
\* the sample before it by half, and never after one that is zero or negative.
SpikeIsHalfMore == lastRTT \notin WrongSpike

\* "PongTimeout is how long to wait for a pong response.": a PONG that takes
\* longer does not count as an answer.
PongWithinTimeout == lastRTT <= PongTimeout
=============================================================================
