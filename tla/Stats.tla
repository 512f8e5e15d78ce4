------------------------------- MODULE Stats -------------------------------
(***************************************************************************)
(* The round trip statistics of one session: what handlePong does with each *)
(* sample it measures, as operators on the RTT fields of bridge.Stats, and  *)
(* reference definitions of what they are meant to compute.  A sample is    *)
(* the difference of two wall clock readings, so it is negative when the    *)
(* clock was set back while the PING was on its way.                        *)
(***************************************************************************)
EXTENDS Integers, Sequences

CONSTANTS
  Durations,           \* the samples that occur
  WindowSize,          \* samples averaged, 20 in the code
  MaxSamples           \* bound: samples of a session

ASSUME StatsAssumption ==
  /\ Durations \subseteq Int
  /\ WindowSize \in Nat \ {0} /\ MaxSamples \in Nat

NewStats ==
  [RTTCurrent |-> 0, RTTAvg |-> 0, rttSamples |-> <<>>, rttSum |-> 0,
   previousRTT |-> 0]

\* Division of the code's integers: towards zero.
Quotient(a, n) == IF a >= 0 THEN a \div n ELSE -((-a) \div n)

\* Mutant: the sample that leaves the window stays in the sum.
AddRTTSample_KeepSum(s, rtt) ==
  LET longer == Append(s.rttSamples, rtt)
      kept == IF Len(longer) > WindowSize THEN Tail(longer) ELSE longer
      sum == s.rttSum + rtt IN
  [RTTCurrent |-> rtt, RTTAvg |-> Quotient(sum, Len(kept)),
   rttSamples |-> kept, rttSum |-> sum, previousRTT |-> s.previousRTT]

AddRTTSample(s, rtt) ==
  LET longer == Append(s.rttSamples, rtt)
      full == Len(longer) > WindowSize
      kept == IF full THEN Tail(longer) ELSE longer
      sum == s.rttSum + rtt - (IF full THEN Head(longer) ELSE 0) IN
  [RTTCurrent |-> rtt, RTTAvg |-> Quotient(sum, Len(kept)),
   rttSamples |-> kept, rttSum |-> sum, previousRTT |-> s.previousRTT]

\* RTTSpikeThreshold is one half.
CheckRTTSpike(s) ==
  /\ Len(s.rttSamples) >= 2 /\ s.previousRTT # 0
  /\ s.previousRTT > 0
  /\ 2 * (s.RTTCurrent - s.previousRTT) > s.previousRTT

\* The field is called lastRTT in the code.
SetLastRTT(s, rtt) == [s EXCEPT !.previousRTT = rtt]

\* Mutant: the last sample is stored after it has been replaced.
Sampled_LastAfter(s, rtt) ==
  LET added == AddRTTSample(s, rtt) IN SetLastRTT(added, added.RTTCurrent)

\* handlePong, once the PONG is known to answer the pending PING.
Sampled(s, rtt) == AddRTTSample(SetLastRTT(s, s.RTTCurrent), rtt)

\* The statistics of a session with these samples.
StatsAfter(samples) ==
  LET after[n \in 0..Len(samples)] ==
        IF n = 0 THEN NewStats ELSE Sampled(after[n - 1], samples[n]) IN
  after[Len(samples)]

-----------------------------------------------------------------------------
Sessions == UNION {[1..n -> Durations] : n \in 1..MaxSamples}

Latest(samples) == samples[Len(samples)]

Total(samples) ==
  LET sum[n \in 0..Len(samples)] ==
        IF n = 0 THEN 0 ELSE sum[n - 1] + samples[n] IN
  sum[Len(samples)]

LastSamples(samples) ==
  SubSeq(samples, IF Len(samples) > WindowSize
                    THEN Len(samples) - WindowSize + 1 ELSE 1, Len(samples))

Mean(samples) == Quotient(Total(samples), Len(samples))

\* The samples that, at the end of some session, leave an RTTAvg that is not
\* the mean of the last samples.
WrongAverage ==
  {Latest(s) : s \in {samples \in Sessions :
     StatsAfter(samples).RTTAvg # Mean(LastSamples(samples))}}

\* "the percentage increase to trigger a spike warning": the last sample
\* exceeds the one before it by half, and that one was positive.
HalfMore(samples) ==
  /\ Len(samples) >= 2
  /\ LET before == samples[Len(samples) - 1] IN
       before > 0 /\ 2 * Latest(samples) > 3 * before

\* The samples that, at the end of some session, are reported as a spike and
\* should not be, or should be and are not.
WrongSpike ==
  {Latest(s) : s \in {samples \in Sessions :
     CheckRTTSpike(StatsAfter(samples)) # HalfMore(samples)}}
=============================================================================
