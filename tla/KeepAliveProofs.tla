-------------------------- MODULE KeepAliveProofs --------------------------
(***************************************************************************)
(* Proofs about KeepAlive for every interval, miss limit and network.  The  *)
(* inductive invariant places the last PONG that counted, in intervals      *)
(* before the next tick, by the number of pongs missed so far.  Then the    *)
(* round trip statistics, by induction over the samples of a session, and   *)
(* the device: every part opens the same one, and leaves no handle open.    *)
(***************************************************************************)
EXTENDS KeepAlive, Device, WellFoundedInduction, TLAPS

\* The clock stays within one interval of the ticker, and no timestamp is
\* ahead of the clock.
ClockInv ==
  /\ now <= nextTick /\ nextTick <= now + PingInterval
  /\ PingInterval <= nextTick
  /\ pendingPing <= now /\ lastPongAt <= now
  /\ gaveUp => gaveUpAt <= now

\* With m pongs missed and a ping pending, the last PONG that counted is
\* between m + 1 and m + 2 intervals before the next tick.
MissInv ==
  ~gaveUp =>
    \/ /\ pendingPing = 0 /\ missedPongs = 0
       /\ nextTick <= lastPongAt + PingInterval
    \/ /\ pendingPing # 0 /\ pendingPing = nextTick - PingInterval
       /\ missedPongs < MaxMissedPongs
       /\ lastPongAt + (missedPongs + 1) * PingInterval <= nextTick
       /\ nextTick <= lastPongAt + (missedPongs + 2) * PingInterval

IInv ==
  /\ TypeOK
  /\ ClockInv
  /\ MissInv
  /\ GiveUpNotEarly
  /\ RTTBelowInterval

-----------------------------------------------------------------------------
\* One more interval.
LEMMA MulStep ==
  ASSUME NEW m \in Nat, NEW p \in Nat
  PROVE  /\ m * p \in Nat
         /\ (m + 1) * p = m * p + p
         /\ (m + 2) * p = (m + 1) * p + p
         /\ (m + 3) * p = (m + 2) * p + p
OBVIOUS

\* Fewer intervals are no longer.
LEMMA MulMono ==
  ASSUME NEW m \in Nat, NEW n \in Nat, NEW p \in Nat, m <= n
  PROVE  m * p <= n * p
OBVIOUS

\* A fresh session, with the ticker just started, satisfies the invariant.
LEMMA InitInv == Init => IInv
BY KeepAliveAssumption
   DEF Init, IInv, TypeOK, ClockInv, MissInv, GiveUpNotEarly,
       RTTBelowInterval, gaveUp, Never

\* Time, ticks, deliveries and losses preserve the invariant.
LEMMA StepInv == IInv /\ [Next]_vars => IInv'
<1> SUFFICES ASSUME IInv, [Next]_vars PROVE IInv'
  OBVIOUS
<1> USE KeepAliveAssumption
<1> USE DEF IInv, TypeOK, ClockInv, MissInv, GiveUpNotEarly, RTTBelowInterval,
        gaveUp, Never
<1>1. CASE Elapse
  BY <1>1 DEF Elapse
<1>2. CASE sendPing
  <2> DEFINE missed == IF pendingPing # 0 THEN missedPongs + 1 ELSE missedPongs
  <2>1. /\ now = nextTick /\ nextTick' = nextTick + PingInterval
        /\ missedPongs' = missed
        /\ UNCHANGED <<now, pongs, lastRTT, lastPongAt>>
    BY <1>2 DEF sendPing
  <2>2. CASE pendingPing # 0 /\ TooManyMissed(missed)
    <3>1. /\ gaveUpAt' = IF gaveUp THEN gaveUpAt ELSE now
          /\ UNCHANGED <<pendingPing, pings>>
      BY <1>2, <2>2 DEF sendPing
    <3>2. gaveUp' /\ TypeOK' /\ ClockInv'
      BY <2>1, <3>1
    <3>3. GiveUpNotEarly'
      <4>1. CASE gaveUp
        BY <2>1, <3>1, <4>1
      <4>2. CASE ~gaveUp
        <5>1. missedPongs + 1 = MaxMissedPongs
          BY <2>2, <4>2 DEF TooManyMissed
        <5>2. lastPongAt + MaxMissedPongs * PingInterval <= nextTick
          BY <2>2, <4>2, <5>1
        <5> QED
          BY <2>1, <3>1, <4>2, <5>2
      <4> QED
        BY <4>1, <4>2
    <3> QED
      BY <3>2, <3>3, Zenon
  <2>3. CASE ~(pendingPing # 0 /\ TooManyMissed(missed))
    <3>1. /\ pendingPing' = now /\ pings' \in Transmit(pings, now)
          /\ UNCHANGED gaveUpAt
      BY <1>2, <2>3 DEF sendPing
    <3>2. pings' \subseteq Nat
      BY <3>1 DEF Transmit
    <3>3. TypeOK' /\ ClockInv' /\ GiveUpNotEarly' /\ RTTBelowInterval'
      BY <2>1, <3>1, <3>2
    <3>4. MissInv'
      <4> SUFFICES ASSUME ~gaveUp PROVE MissInv'
        BY <3>1
      <4>1. now # 0 /\ pendingPing' = nextTick' - PingInterval
        BY <2>1, <3>1
      <4>2. CASE pendingPing = 0
        BY <2>1, <4>1, <4>2, MulStep
      <4>3. CASE pendingPing # 0
        <5>1. missedPongs' = missedPongs + 1 /\ missedPongs' < MaxMissedPongs
          BY <2>1, <2>3, <4>3 DEF TooManyMissed
        <5>2. /\ lastPongAt + (missedPongs + 1) * PingInterval <= nextTick
              /\ nextTick <= lastPongAt + (missedPongs + 2) * PingInterval
          BY <4>3
        <5>3. /\ (missedPongs + 2) * PingInterval
                   = (missedPongs + 1) * PingInterval + PingInterval
              /\ (missedPongs + 3) * PingInterval
                   = (missedPongs + 2) * PingInterval + PingInterval
          BY MulStep
        <5>4. /\ lastPongAt' + (missedPongs' + 1) * PingInterval <= nextTick'
              /\ nextTick' <= lastPongAt' + (missedPongs' + 2) * PingInterval
          BY <2>1, <5>1, <5>2, <5>3
        <5> QED
          BY <3>1, <4>1, <5>1, <5>4
      <4> QED
        BY <4>2, <4>3
    <3> QED
      BY <3>3, <3>4, Zenon
  <2> QED
    BY <2>2, <2>3
<1>3. CASE Lose
  BY <1>3, Zenon DEF Lose
<1>4. CASE \E m \in pings : handlePing(m)
  <2>1. PICK m \in pings : handlePing(m)
    BY <1>4
  <2>2. pongs' \subseteq Nat /\ pings' \subseteq Nat
    BY <2>1 DEF handlePing, Transmit
  <2> QED
    BY <2>1, <2>2 DEF handlePing
<1>5. CASE \E m \in pongs : handlePong(m)
  <2>1. PICK m \in pongs : handlePong(m)
    BY <1>5
  <2>2. CASE Answers(m)
    BY <2>1, <2>2 DEF handlePong, Answers, ClearPending, RTT
  <2>3. CASE ~Answers(m)
    BY <2>1, <2>3 DEF handlePong
  <2> QED
    BY <2>2, <2>3
<1>6. CASE UNCHANGED vars
  BY <1>6 DEF vars
<1> QED
  BY <1>1, <1>2, <1>3, <1>4, <1>5, <1>6, Zenon DEF Next

\* The invariant holds in every reachable state.
LEMMA Invariance == Spec => []IInv
BY InitInv, StepInv, PTL DEF Spec

-----------------------------------------------------------------------------
\* All variables keep their types; in particular no RTT sample is negative.
THEOREM TypeCorrect == Spec => []TypeOK
BY Invariance, PTL DEF IInv

\* sendPing gives a silent peer up within MaxMissedPongs + 1 intervals of
\* the last PONG handlePong accepted.
THEOREM SilenceDetected == Spec => []SilenceBound
<1>1. IInv => SilenceBound
  <2> SUFFICES ASSUME IInv, ~gaveUp
               PROVE  now - lastPongAt <= (MaxMissedPongs + 1) * PingInterval
    BY DEF SilenceBound
  <2> USE KeepAliveAssumption DEF IInv, TypeOK, ClockInv, MissInv
  <2>1. /\ MaxMissedPongs * PingInterval \in Nat
        /\ (MaxMissedPongs + 1) * PingInterval
             = MaxMissedPongs * PingInterval + PingInterval
    BY MulStep
  <2>2. CASE pendingPing = 0
    BY <2>1, <2>2
  <2>3. CASE pendingPing # 0
    <3>1. missedPongs + 2 <= MaxMissedPongs + 1
      BY <2>3
    <3>2. (missedPongs + 2) * PingInterval
            <= (MaxMissedPongs + 1) * PingInterval
      <4>1. missedPongs + 2 \in Nat /\ MaxMissedPongs + 1 \in Nat
        OBVIOUS
      <4> QED
        BY <3>1, <4>1, MulMono
    <3> QED
      BY <2>1, <2>3, <3>2
  <2> QED
    BY <2>2, <2>3
<1> QED
  BY <1>1, Invariance, PTL

\* sendPing never gives up a peer whose PONG was accepted less than
\* MaxMissedPongs intervals ago.
THEOREM NoEarlyGiveUp == Spec => []GiveUpNotEarly
BY Invariance, PTL DEF IInv

\* No RTT sample taken while the peer is considered alive exceeds
\* PingInterval: handlePong only accepts the PONG of the latest ping.
THEOREM SamplesBounded == Spec => []RTTBelowInterval
BY Invariance, PTL DEF IInv

-----------------------------------------------------------------------------
\* The round trip statistics.

\* A nonempty set of numbers has a least element.
LEMMA LeastElement ==
  ASSUME NEW T \in SUBSET Nat, T # {}
  PROVE  \E n \in T : \A m \in T : n <= m
<1>. DEFINE Less == {p \in Nat \X Nat : p[1] < p[2]}
<1>1. IsWellFoundedOn(Less, Nat)
  BY NatLessThanWellFounded, Zenon DEF OpToRel
<1>2. \A x, y \in Nat : <<y, x>> \in Less <=> y < x
  OBVIOUS
<1>. HIDE DEF Less
<1>3. PICK x \in T : \A y \in T : ~ (<<y, x>> \in Less)
  BY <1>1, WFMin, Zenon
<1>4. ASSUME NEW y \in T PROVE x <= y
  <2>1. x \in Nat /\ y \in Nat
    OBVIOUS
  <2>2. ~ (y < x)
    BY <1>2, <1>3, <2>1, Zenon
  <2>. QED
    BY <2>1, <2>2
<1>. QED
  BY <1>4

\* Induction up to k, with the set of the numbers that have the property.
LEMMA UpTo ==
  ASSUME NEW k \in Nat, NEW A, 0 \in A,
         \A n \in 1..k : n - 1 \in A => n \in A
  PROVE  \A n \in 0..k : n \in A
<1>. DEFINE T == {n \in 0..k : n \notin A}
<1>1. SUFFICES ASSUME T # {} PROVE FALSE
  OBVIOUS
<1>2. PICK n \in T : \A m \in T : n <= m
  <2>1. T \in SUBSET Nat
    OBVIOUS
  <2>. HIDE DEF T
  <2>. QED
    BY <1>1, <2>1, LeastElement
<1>3. n \in 1..k
  BY <1>2
<1>4. n - 1 \notin T
  <2>. HIDE DEF T
  <2>. QED
    BY <1>2, <1>3
<1>. QED
  BY <1>2, <1>3, <1>4

\* The values a loop goes through in k steps: it starts with a, and step n
\* takes x to G[x][n].
Loops(S, a, G, k) ==
  {f \in [0..k -> S] : f[0] = a /\ \A n \in 1..k : f[n] = G[f[n - 1]][n]}

\* Every loop can be run to its end.
LEMMA LoopExists ==
  ASSUME NEW S, NEW a \in S, NEW G \in [S -> [Nat -> S]], NEW k \in Nat
  PROVE  Loops(S, a, G, k) # {}
<1>. DEFINE A == {j \in 0..k : Loops(S, a, G, j) # {}}
<1>1. 0 \in A
  <2>1. [n \in 0..0 |-> a] \in Loops(S, a, G, 0)
    BY DEF Loops
  <2>. QED
    BY <2>1
<1>2. ASSUME NEW j \in 1..k, j - 1 \in A PROVE j \in A
  <2>1. PICK f : f \in Loops(S, a, G, j - 1)
    BY <1>2
  <2>2. /\ f \in [0..(j - 1) -> S] /\ f[0] = a
        /\ \A n \in 1..(j - 1) : f[n] = G[f[n - 1]][n]
    BY <2>1 DEF Loops
  <2>. DEFINE g == [n \in 0..j |-> IF n = j THEN G[f[j - 1]][j] ELSE f[n]]
  <2>3. g \in [0..j -> S] /\ g[0] = a
    <3>1. f[j - 1] \in S
      BY <2>2
    <3>2. G[f[j - 1]][j] \in S
      BY <3>1
    <3>3. \A n \in 0..j : n # j => n \in 0..(j - 1) /\ f[n] \in S
      BY <2>2
    <3>4. g \in [0..j -> S]
      BY <3>2, <3>3
    <3>5. 0 \in 0..j /\ 0 # j
      OBVIOUS
    <3>6. g[0] = a
      BY <2>2, <3>5
    <3>. QED
      BY <3>4, <3>6
  <2>4. ASSUME NEW n \in 1..j PROVE g[n] = G[g[n - 1]][n]
    <3>1. n \in 0..j /\ n - 1 \in 0..j /\ n - 1 # j
      OBVIOUS
    <3>2. g[n - 1] = f[n - 1]
      BY <3>1
    <3>3. CASE n = j
      BY <3>1, <3>2, <3>3
    <3>4. CASE n # j
      <4>1. n \in 1..(j - 1) /\ g[n] = f[n]
        BY <3>1, <3>4
      <4>. QED
        BY <2>2, <3>2, <4>1
    <3>. QED
      BY <3>3, <3>4, Zenon
  <2>5. g \in Loops(S, a, G, j)
    <3>. HIDE DEF g
    <3>. QED
      BY <2>3, <2>4 DEF Loops
  <2>. QED
    BY <2>5
<1>. QED
  <2>. HIDE DEF A
  <2>1. \A n \in 0..k : n \in A
    BY <1>1, <1>2, UpTo, Zenon
  <2>2. k \in A
    BY <2>1
  <2>. QED
    BY <2>2 DEF A

\* P[i] is the sum of the first i of the samples t.
Sums(t, P) ==
  /\ P \in [0..Len(t) -> Int] /\ P[0] = 0
  /\ \A n \in 1..Len(t) : P[n] = P[n - 1] + t[n]

\* Total is computed by adding one sample after the other.
LEMMA TotalFacts ==
  ASSUME NEW t \in Seq(Int)
  PROVE  \E P : Sums(t, P) /\ Total(t) = P[Len(t)]
<1>. DEFINE L == Len(t)
            Eq(f) == f = [n \in 0..L |-> IF n = 0 THEN 0 ELSE f[n - 1] + t[n]]
            sum == CHOOSE f : Eq(f)
<1>1. L \in Nat /\ \A n \in 1..L : t[n] \in Int
  OBVIOUS
<1>2. Total(t) = sum[L]
  BY DEF Total
<1>3. \E f : Eq(f)
  <2>. DEFINE G == [x \in Int |-> [n \in Nat |-> IF n \in 1..L THEN x + t[n] ELSE x]]
  <2>1. G \in [Int -> [Nat -> Int]] /\ 0 \in Int
    BY <1>1
  <2>2. PICK f : f \in Loops(Int, 0, G, L)
    <3>. HIDE DEF G, L, Eq, sum
    <3>1. Loops(Int, 0, G, L) # {}
      BY <1>1, <2>1, LoopExists, Zenon
    <3>. QED
      BY <3>1
  <2>3. /\ f \in [0..L -> Int] /\ f[0] = 0
        /\ \A n \in 1..L : f[n] = G[f[n - 1]][n]
    BY <2>2, Zenon DEF Loops
  <2>4. ASSUME NEW n \in 1..L PROVE f[n] = f[n - 1] + t[n]
    <3>1. n \in Nat /\ n - 1 \in 0..L /\ f[n - 1] \in Int
      BY <1>1, <2>3, SMTT(30)
    <3>2. G[f[n - 1]][n] = f[n - 1] + t[n]
      BY <3>1, SMTT(30)
    <3>. QED
      BY <2>3, <3>2, Zenon
  <2>5. Eq(f)
    BY <1>1, <2>3, <2>4
  <2>. QED
    BY <2>5, SMTT(30)
<1>4. Eq(sum)
  <2>. HIDE DEF Eq
  <2>. QED
    BY <1>3
<1>. HIDE DEF sum
<1>5. /\ DOMAIN sum = 0..L /\ sum[0] = 0
      /\ \A n \in 1..L : sum[n] = sum[n - 1] + t[n]
  BY <1>1, <1>4, SMTT(30)
<1>. HIDE DEF L
<1>6. \A n \in 0..L : sum[n] \in Int
  <2>. DEFINE A == {n \in 0..L : sum[n] \in Int}
  <2>1. 0 \in A
    BY <1>1, <1>5
  <2>2. ASSUME NEW n \in 1..L, n - 1 \in A PROVE n \in A
    BY <1>1, <1>5, <2>2
  <2>. HIDE DEF A
  <2>3. \A n \in 0..L : n \in A
    BY <1>1, <2>1, <2>2, UpTo, Zenon
  <2>. QED
    BY <2>3 DEF A
<1>. QED
  <2>1. sum \in [0..L -> Int]
    BY <1>4, <1>6, Zenon DEF L
  <2>2. Sums(t, sum)
    BY <1>5, <2>1, Zenon DEF L, Sums
  <2>. QED
    BY <1>2, <2>2 DEF L

\* The RTT fields of bridge.Stats with a window that is not too long.
StatsRecord ==
  {s \in [RTTCurrent : Int, RTTAvg : Int, rttSamples : Seq(Int), rttSum : Int,
          previousRTT : Int] : Len(s.rttSamples) <= WindowSize}

\* The quotient of an integer is one.
LEMMA QuotientInt ==
  ASSUME NEW a \in Int, NEW n \in Nat \ {0}
  PROVE  Quotient(a, n) \in Int
BY DEF Quotient

\* The window that grows: the new sample is the last.
LEMMA AppendFacts ==
  ASSUME NEW w \in Seq(Int), NEW x \in Int
  PROVE  /\ Append(w, x) \in Seq(Int) /\ Len(Append(w, x)) = Len(w) + 1
         /\ \A i \in 1..Len(w) : Append(w, x)[i] = w[i]
         /\ Append(w, x)[Len(w) + 1] = x
OBVIOUS

\* The window that slides: the first sample leaves, the new one is the last.
LEMMA SlideFacts ==
  ASSUME NEW w \in Seq(Int), NEW x \in Int, Len(w) > 0
  PROVE  /\ Tail(Append(w, x)) = Append(Tail(w), x)
         /\ Head(Append(w, x)) = w[1]
         /\ Append(Tail(w), x) \in Seq(Int)
         /\ Len(Append(Tail(w), x)) = Len(w)
         /\ \A i \in 1..(Len(w) - 1) : Append(Tail(w), x)[i] = w[i + 1]
         /\ Append(Tail(w), x)[Len(w)] = x
<1>1. Tail(Append(w, x)) = Append(Tail(w), x) /\ Head(Append(w, x)) = w[1]
  BY SMTT(30)
<1>2. /\ Append(Tail(w), x) \in Seq(Int)
      /\ Len(Append(Tail(w), x)) = Len(w)
      /\ \A i \in 1..(Len(w) - 1) : Append(Tail(w), x)[i] = w[i + 1]
      /\ Append(Tail(w), x)[Len(w)] = x
  OBVIOUS
<1>. QED
  BY <1>1, <1>2, Zenon

\* What one sample does to the statistics.
LEMMA SampledFacts ==
  ASSUME NEW s \in StatsRecord, NEW rtt \in Int
  PROVE  LET t == Sampled(s, rtt)
             n == Len(s.rttSamples) IN
         /\ t \in StatsRecord
         /\ t.RTTCurrent = rtt /\ t.previousRTT = s.RTTCurrent
         /\ t.RTTAvg = Quotient(t.rttSum, Len(t.rttSamples))
         /\ n < WindowSize =>
              /\ t.rttSamples = Append(s.rttSamples, rtt)
              /\ t.rttSum = s.rttSum + rtt
         /\ n = WindowSize =>
              /\ t.rttSamples = Append(Tail(s.rttSamples), rtt)
              /\ t.rttSum = s.rttSum + rtt - s.rttSamples[1]
<1>. DEFINE n == Len(s.rttSamples)
            longer == Append(s.rttSamples, rtt)
            full == Len(longer) > WindowSize
            kept == IF full THEN Tail(longer) ELSE longer
            sum == s.rttSum + rtt - (IF full THEN Head(longer) ELSE 0)
            t == [RTTCurrent |-> rtt, RTTAvg |-> Quotient(sum, Len(kept)),
                  rttSamples |-> kept, rttSum |-> sum,
                  previousRTT |-> s.RTTCurrent]
<1>1. /\ s.RTTCurrent \in Int /\ s.rttSum \in Int /\ s.rttSamples \in Seq(Int)
      /\ n \in Nat /\ n <= WindowSize /\ WindowSize \in Nat \ {0}
  BY StatsAssumption DEF StatsRecord
<1>2. Sampled(s, rtt) = t
  BY Zenon DEF Sampled, SetLastRTT, AddRTTSample, StatsRecord
<1>3. /\ longer \in Seq(Int) /\ Len(longer) = n + 1
      /\ \A i \in 1..n : longer[i] = s.rttSamples[i]
  BY <1>1
<1>4. full <=> n = WindowSize
  BY <1>1, <1>3
<1>5. ~full => kept = longer /\ sum = s.rttSum + rtt
  BY <1>1
<1>6. full => /\ kept = Append(Tail(s.rttSamples), rtt)
              /\ sum = s.rttSum + rtt - s.rttSamples[1]
  <2>1. ASSUME full
        PROVE  /\ Tail(longer) = Append(Tail(s.rttSamples), rtt)
               /\ Head(longer) = s.rttSamples[1]
    BY <1>1, <1>4, <2>1, SlideFacts, SMTT(30)
  <2>. QED
    BY <2>1
<1>7. kept \in Seq(Int) /\ Len(kept) \in Nat \ {0} /\ Len(kept) <= WindowSize
  <2>1. Tail(longer) \in Seq(Int) /\ Len(Tail(longer)) = n
    <3>. HIDE DEF longer, n
    <3>. QED
      BY <1>1, <1>3, SMTT(30)
  <2>2. CASE full
    BY <1>1, <1>4, <2>1, <2>2
  <2>3. CASE ~full
    <3>1. kept = longer /\ n < WindowSize
      BY <1>1, <1>4, <2>3
    <3>. HIDE DEF kept, longer, n
    <3>. QED
      BY <1>1, <1>3, <3>1
  <2>. QED
    BY <2>2, <2>3, Zenon
<1>8. sum \in Int
  BY <1>1, <1>3, <1>4, SMTT(30)
<1>. HIDE DEF kept, sum, longer, full
<1>9. t \in StatsRecord
  BY <1>1, <1>7, <1>8, QuotientInt DEF StatsRecord
<1>. QED
  BY <1>1, <1>2, <1>4, <1>5, <1>6, <1>9 DEF longer

\* StatsAfter is computed by taking in one sample after the other.
LEMMA AfterFacts ==
  ASSUME NEW t \in Seq(Int)
  PROVE  \E f \in [0..Len(t) -> StatsRecord] :
           /\ f[0] = NewStats
           /\ \A n \in 1..Len(t) : f[n] = Sampled(f[n - 1], t[n])
           /\ StatsAfter(t) = f[Len(t)]
<1>. DEFINE L == Len(t)
            Eq(f) == f = [n \in 0..L |-> IF n = 0 THEN NewStats
                                        ELSE Sampled(f[n - 1], t[n])]
            after == CHOOSE f : Eq(f)
<1>1. L \in Nat /\ \A n \in 1..L : t[n] \in Int
  OBVIOUS
<1>2. StatsAfter(t) = after[L]
  BY DEF StatsAfter
<1>3. \A s \in StatsRecord, rtt \in Int : Sampled(s, rtt) \in StatsRecord
  BY SampledFacts
<1>4. NewStats \in StatsRecord
  BY StatsAssumption DEF NewStats, StatsRecord
<1>5. \E f : Eq(f)
  <2>. DEFINE G == [s \in StatsRecord |->
                     [n \in Nat |-> IF n \in 1..L THEN Sampled(s, t[n]) ELSE s]]
  <2>1. G \in [StatsRecord -> [Nat -> StatsRecord]]
    BY <1>1, <1>3
  <2>2. PICK f : f \in Loops(StatsRecord, NewStats, G, L)
    <3>. HIDE DEF G, L, Eq, after
    <3>1. Loops(StatsRecord, NewStats, G, L) # {}
      BY <1>1, <1>4, <2>1, LoopExists, Zenon
    <3>. QED
      BY <3>1
  <2>3. /\ f \in [0..L -> StatsRecord] /\ f[0] = NewStats
        /\ \A n \in 1..L : f[n] = G[f[n - 1]][n]
    BY <2>2, Zenon DEF Loops
  <2>4. ASSUME NEW n \in 1..L PROVE f[n] = Sampled(f[n - 1], t[n])
    <3>1. n \in Nat /\ n - 1 \in 0..L /\ f[n - 1] \in StatsRecord
      BY <1>1, <2>3, SMTT(30)
    <3>2. G[f[n - 1]][n] = Sampled(f[n - 1], t[n])
      BY <3>1
    <3>. QED
      BY <2>3, <3>2, Zenon
  <2>5. Eq(f)
    BY <1>1, <2>3, <2>4
  <2>. QED
    BY <2>5, SMTT(30)
<1>6. Eq(after)
  <2>. HIDE DEF Eq
  <2>. QED
    BY <1>5
<1>. HIDE DEF after
<1>7. /\ after = [n \in 0..L |-> after[n]] /\ after[0] = NewStats
      /\ \A n \in 1..L : after[n] = Sampled(after[n - 1], t[n])
  BY <1>1, <1>6, SMTT(30)
<1>. HIDE DEF L
<1>8. \A n \in 0..L : after[n] \in StatsRecord
  <2>. DEFINE A == {n \in 0..L : after[n] \in StatsRecord}
  <2>1. 0 \in A
    BY <1>1, <1>4, <1>7
  <2>2. ASSUME NEW n \in 1..L, n - 1 \in A PROVE n \in A
    <3>1. after[n - 1] \in StatsRecord /\ t[n] \in Int /\ n \in 0..L
      BY <1>1, <2>2
    <3>2. after[n] = Sampled(after[n - 1], t[n])
      BY <1>7, Zenon
    <3>. QED
      BY <1>3, <3>1, <3>2
  <2>. HIDE DEF A
  <2>3. \A n \in 0..L : n \in A
    BY <1>1, <2>1, <2>2, UpTo, Zenon
  <2>. QED
    BY <2>3 DEF A
<1>9. after \in [0..L -> StatsRecord]
  BY <1>7, <1>8
<1>10. /\ after[0] = NewStats
       /\ \A n \in 1..L : after[n] = Sampled(after[n - 1], t[n])
       /\ StatsAfter(t) = after[L]
  BY <1>2, <1>7, Zenon
<1>. QED
  BY <1>9, <1>10, Zenon DEF L

\* The number of samples in the window after n of them.
Kept(n) == IF n < WindowSize THEN n ELSE WindowSize

\* w holds the last of the first n samples of t, in order.
Holds(w, t, n) ==
  /\ Len(w) = Kept(n)
  /\ \A i \in 1..Kept(n) : w[i] = t[n - Kept(n) + i]

\* The window slides by one sample.
LEMMA StepWindow ==
  ASSUME NEW t \in Seq(Int), NEW n \in 1..Len(t), NEW w \in Seq(Int),
         Holds(w, t, n - 1)
  PROVE  /\ Len(w) < WindowSize => Holds(Append(w, t[n]), t, n)
         /\ Len(w) = WindowSize => Holds(Append(Tail(w), t[n]), t, n)
<1>1. WindowSize \in Nat /\ WindowSize > 0
  BY StatsAssumption
<1>2. t[n] \in Int /\ n \in Nat /\ n > 0 /\ Len(w) \in Nat
  OBVIOUS
<1>3. ASSUME Len(w) < WindowSize PROVE Holds(Append(w, t[n]), t, n)
  <2>. DEFINE v == Append(w, t[n])
  <2>1. Kept(n - 1) = n - 1 /\ Kept(n) = n
    BY <1>1, <1>2, <1>3 DEF Kept, Holds
  <2>2. Len(w) = n - 1 /\ \A i \in 1..(n - 1) : w[i] = t[i]
    <3>1. /\ Len(w) = n - 1
          /\ \A i \in 1..(n - 1) : w[i] = t[(n - 1) - (n - 1) + i]
      BY <2>1, Zenon DEF Holds
    <3>2. \A i \in 1..(n - 1) : (n - 1) - (n - 1) + i = i
      BY <1>2
    <3>. QED
      BY <3>1, <3>2, Zenon
  <2>3. /\ Len(v) = Len(w) + 1 /\ \A i \in 1..Len(w) : v[i] = w[i]
        /\ v[Len(w) + 1] = t[n]
    BY <1>2, AppendFacts
  <2>. HIDE DEF v
  <2>4. Len(v) = n /\ \A i \in 1..n : v[i] = t[i]
    BY <1>2, <2>2, <2>3, SMTT(30)
  <2>. QED
    BY <1>2, <2>1, <2>4, SMTT(30) DEF Holds, v
<1>4. ASSUME Len(w) = WindowSize PROVE Holds(Append(Tail(w), t[n]), t, n)
  <2>. DEFINE v == Append(Tail(w), t[n])
              W == WindowSize
  <2>1. Kept(n - 1) = W /\ Kept(n) = W
    BY <1>1, <1>2, <1>4 DEF Kept, Holds
  <2>2. Len(w) = W /\ \A i \in 1..W : w[i] = t[(n - 1) - W + i]
    BY <1>4, <2>1, Zenon DEF Holds
  <2>3. /\ Len(v) = W /\ \A i \in 1..(W - 1) : v[i] = w[i + 1]
        /\ v[W] = t[n]
    BY <1>1, <1>2, <1>4, SlideFacts
  <2>. HIDE DEF v
  <2>4. \A i \in 1..(W - 1) : v[i] = t[n - W + i]
    <3>. TAKE i \in 1..(W - 1)
    <3>1. i + 1 \in 1..W /\ (n - 1) - W + (i + 1) = n - W + i
      BY <1>1, <1>2
    <3>. QED
      BY <2>2, <2>3, <3>1, Zenon
  <2>5. v[W] = t[n - W + W]
    BY <1>1, <1>2, <2>3
  <2>6. \A i \in 1..W : v[i] = t[n - W + i]
    BY <1>1, <2>4, <2>5, SMTT(30)
  <2>. QED
    BY <2>1, <2>3, <2>6, Zenon DEF Holds, v
<1>. QED
  BY <1>3, <1>4

\* s is what the statistics must be after the first n samples of t: the window
\* holds the last ones, with their sum, and RTTCurrent and the last RTT are the
\* last two.
Tracked(s, t, P, n) ==
  /\ Holds(s.rttSamples, t, n)
  /\ s.rttSum = P[n] - P[n - Kept(n)]
  /\ n > 0 => /\ s.RTTCurrent = t[n]
              /\ s.RTTAvg = Quotient(s.rttSum, Kept(n))
  /\ n = 0 => s.RTTCurrent = 0
  /\ n >= 2 => s.previousRTT = t[n - 1]
  /\ n < 2 => s.previousRTT = 0

\* A sample keeps the statistics exact.
LEMMA StepExact ==
  ASSUME NEW t \in Seq(Int), NEW P, Sums(t, P),
         NEW n \in 1..Len(t), NEW s \in StatsRecord, Tracked(s, t, P, n - 1)
  PROVE  Tracked(Sampled(s, t[n]), t, P, n)
<1>. DEFINE L == Len(t)
            u == Sampled(s, t[n])
            w == s.rttSamples
            W == WindowSize
            c == Kept(n - 1)
<1>1. L \in Nat /\ n \in Nat /\ n > 0 /\ n <= L /\ \A i \in 1..L : t[i] \in Int
  OBVIOUS
<1>2. W \in Nat /\ W > 0
  BY StatsAssumption
<1>3. w \in Seq(Int) /\ s.rttSum \in Int /\ Len(w) <= W
  BY DEF StatsRecord
<1>4. /\ P[n] = P[n - 1] + t[n]
      /\ \A i \in 0..L : P[i] \in Int
      /\ \A i \in 1..L : P[i] = P[i - 1] + t[i]
  BY Zenon DEF Sums
<1>5. /\ Holds(w, t, n - 1) /\ Len(w) = c
      /\ s.rttSum = P[n - 1] - P[(n - 1) - c]
      /\ n - 1 > 0 => s.RTTCurrent = t[n - 1]
      /\ n - 1 = 0 => s.RTTCurrent = 0
  BY DEF Tracked, Holds
<1>6. /\ u \in StatsRecord /\ u.RTTCurrent = t[n]
      /\ u.previousRTT = s.RTTCurrent
      /\ u.RTTAvg = Quotient(u.rttSum, Len(u.rttSamples))
      /\ Len(w) < W => /\ u.rttSamples = Append(w, t[n])
                       /\ u.rttSum = s.rttSum + t[n]
      /\ Len(w) = W => /\ u.rttSamples = Append(Tail(w), t[n])
                       /\ u.rttSum = s.rttSum + t[n] - w[1]
  BY <1>1, SampledFacts, ZenonT(30)
<1>. HIDE DEF u, w, L
<1>7. Holds(u.rttSamples, t, n)
  <2>1. /\ Len(w) < W => Holds(Append(w, t[n]), t, n)
        /\ Len(w) = W => Holds(Append(Tail(w), t[n]), t, n)
    BY <1>3, <1>5, StepWindow, SMTT(30)
  <2>2. Len(w) < W \/ Len(w) = W
    BY <1>2, <1>3
  <2>. QED
    BY <1>6, <2>1, <2>2, Zenon
<1>8. u.rttSum = P[n] - P[n - Kept(n)]
  <2>1. CASE n <= W
    <3>1. c = n - 1 /\ Kept(n) = n /\ Len(w) < W
      BY <1>1, <1>2, <1>5, <2>1 DEF Kept
    <3>. HIDE DEF c
    <3>2. s.rttSum = P[n - 1] - P[0] /\ n - Kept(n) = 0
      BY <1>1, <1>5, <3>1
    <3>3. P[n - 1] \in Int /\ P[0] \in Int /\ t[n] \in Int
      BY <1>1, <1>4
    <3>4. u.rttSum = P[n] - P[0]
      BY <1>4, <1>6, <3>1, <3>2, <3>3, SMTT(30)
    <3>. QED
      BY <3>2, <3>4
  <2>2. CASE n > W
    <3>1. c = W /\ Kept(n) = W /\ Len(w) = W
      BY <1>1, <1>2, <1>5, <2>2 DEF Kept
    <3>. DEFINE m == n - W
    <3>2. m \in 1..L /\ (n - 1) - W = m - 1 /\ (n - 1) - W + 1 = m
      BY <1>1, <1>2, <2>2
    <3>3. w[1] = t[m]
      <4>1. \A i \in 1..W : w[i] = t[(n - 1) - W + i]
        BY <1>5, <3>1, Zenon DEF Holds
      <4>. QED
        BY <1>2, <3>2, <4>1
    <3>. HIDE DEF c, m
    <3>4. /\ P[m] = P[m - 1] + t[m] /\ P[m] \in Int /\ P[m - 1] \in Int
          /\ P[n - 1] \in Int /\ t[n] \in Int /\ t[m] \in Int
      BY <1>1, <1>4, <3>2
    <3>5. s.rttSum = P[n - 1] - P[m - 1]
      BY <1>5, <3>1, <3>2
    <3>6. u.rttSum = s.rttSum + t[n] - t[m]
      BY <1>6, <3>1, <3>3
    <3>7. P[n] = P[n - 1] + t[n]
      BY <1>4
    <3>8. u.rttSum = P[n] - P[m]
      BY <3>4, <3>5, <3>6, <3>7, SMTT(30)
    <3>. QED
      BY <3>1, <3>8 DEF m
  <2>. QED
    BY <1>1, <1>2, <2>1, <2>2
<1>9. u.RTTAvg = Quotient(u.rttSum, Kept(n))
  BY <1>6, <1>7 DEF Holds
<1>10. /\ n >= 2 => u.previousRTT = t[n - 1]
       /\ n < 2 => u.previousRTT = 0
  BY <1>1, <1>5, <1>6
<1>. QED
  BY <1>1, <1>6, <1>7, <1>8, <1>9, <1>10, SMTT(30) DEF Tracked, u

\* The statistics are exact after every session.
LEMMA AlwaysExact ==
  ASSUME NEW t \in Seq(Int), NEW P, Sums(t, P)
  PROVE  Tracked(StatsAfter(t), t, P, Len(t))
<1>. DEFINE L == Len(t)
<1>1. PICK f \in [0..L -> StatsRecord] :
        /\ f[0] = NewStats
        /\ \A n \in 1..L : f[n] = Sampled(f[n - 1], t[n])
        /\ StatsAfter(t) = f[L]
  BY AfterFacts
<1>2. L \in Nat
  OBVIOUS
<1>. DEFINE A == {n \in 0..L : Tracked(f[n], t, P, n)}
<1>3. 0 \in A
  <2>1. Kept(0) = 0
    BY StatsAssumption DEF Kept
  <2>2. P[0] - P[0] = 0
    BY <1>2 DEF Sums
  <2>3. Holds(NewStats.rttSamples, t, 0)
    BY <2>1 DEF Holds, NewStats
  <2>4. Tracked(NewStats, t, P, 0)
    BY <2>1, <2>2, <2>3 DEF Tracked, NewStats
  <2>. QED
    BY <1>1, <1>2, <2>4
<1>4. ASSUME NEW n \in 1..L, n - 1 \in A PROVE n \in A
  <2>1. Tracked(f[n - 1], t, P, n - 1) /\ n - 1 \in 0..L /\ n \in 0..L
    BY <1>4
  <2>2. f[n - 1] \in StatsRecord /\ f[n] = Sampled(f[n - 1], t[n])
    BY <1>1, <2>1, Zenon
  <2>3. Tracked(Sampled(f[n - 1], t[n]), t, P, n)
    BY <2>1, <2>2, StepExact
  <2>. QED
    BY <2>1, <2>2, <2>3
<1>. HIDE DEF A
<1>5. L \in A
  <2>1. \A n \in 0..L : n \in A
    BY <1>2, <1>3, <1>4, UpTo, Zenon
  <2>. QED
    BY <1>2, <2>1
<1>. QED
  BY <1>1, <1>5 DEF A

\* The sum of the last samples is the difference of two sums from the start.
LEMMA TotalOfLast ==
  ASSUME NEW t \in Seq(Int), Len(t) > 0, NEW P, Sums(t, P)
  PROVE  /\ Total(LastSamples(t)) = P[Len(t)] - P[Len(t) - Kept(Len(t))]
         /\ Len(LastSamples(t)) = Kept(Len(t))
<1>. DEFINE L == Len(t)
            c == Kept(L)
            lo == L - c
            v == LastSamples(t)
<1>1. /\ L \in Nat /\ c \in Nat /\ lo \in Nat /\ L = lo + c
  BY StatsAssumption DEF Kept
<1>2. v = SubSeq(t, lo + 1, L)
  <2>1. CASE L > WindowSize
    <3>1. c = WindowSize
      BY <2>1, StatsAssumption DEF Kept
    <3>2. lo + 1 = L - WindowSize + 1
      BY <3>1
    <3>. QED
      BY <2>1, <3>2, Zenon DEF LastSamples
  <2>2. CASE ~(L > WindowSize)
    <3>1. c = L
      BY <2>2, StatsAssumption DEF Kept
    <3>2. lo + 1 = 1
      BY <1>1, <3>1
    <3>. QED
      BY <2>2, <3>2, Zenon DEF LastSamples
  <2>. QED
    BY <2>1, <2>2
<1>. HIDE DEF c, lo, v
<1>3. v \in Seq(Int) /\ Len(v) = c /\ \A i \in 1..c : v[i] = t[lo + i]
  BY <1>1, <1>2
<1>4. PICK Q : Sums(v, Q) /\ Total(v) = Q[c]
  BY <1>3, TotalFacts, SMTT(30)
<1>5. /\ Q[0] = 0 /\ \A i \in 1..c : Q[i] = Q[i - 1] + v[i]
  BY <1>3, <1>4 DEF Sums
<1>6. /\ \A i \in 0..L : P[i] \in Int
      /\ \A i \in 1..L : P[i] = P[i - 1] + t[i]
      /\ \A i \in 1..L : t[i] \in Int
  BY SMTT(30) DEF Sums
<1>. DEFINE A == {i \in 0..c : Q[i] = P[lo + i] - P[lo]}
<1>7. 0 \in A
  BY <1>1, <1>5, <1>6
<1>8. ASSUME NEW i \in 1..c, i - 1 \in A PROVE i \in A
  <2>1. lo + i \in 1..L /\ lo + i - 1 = lo + (i - 1) /\ lo \in 0..L /\ lo + (i - 1) \in 0..L
    BY <1>1
  <2>2. Q[i - 1] = P[lo + (i - 1)] - P[lo] /\ Q[i] = Q[i - 1] + t[lo + i]
    BY <1>3, <1>5, <1>8, SMTT(30)
  <2>3. /\ P[lo + i] = P[lo + (i - 1)] + t[lo + i]
        /\ P[lo] \in Int /\ P[lo + (i - 1)] \in Int /\ t[lo + i] \in Int
    BY <1>6, <2>1
  <2>4. Q[i] = P[lo + i] - P[lo]
    BY <2>2, <2>3, SMTT(30)
  <2>. QED
    BY <1>1, <2>4
<1>. HIDE DEF A
<1>9. c \in A
  <2>1. \A i \in 0..c : i \in A
    BY <1>1, <1>7, <1>8, UpTo, Zenon
  <2>. QED
    BY <1>1, <2>1
<1>. QED
  BY <1>1, <1>3, <1>4, <1>9 DEF A, v, c, lo

\* After any session of at least one sample, of any length, RTTAvg is the mean
\* of the last WindowSize samples: AddRTTSample's running sum never drifts,
\* with negative samples too.
THEOREM AverageIsMean ==
  \A t \in Seq(Int) : t # <<>> =>
    StatsAfter(t).RTTAvg = Mean(LastSamples(t))
<1>. SUFFICES ASSUME NEW t \in Seq(Int), t # <<>>
              PROVE  StatsAfter(t).RTTAvg = Mean(LastSamples(t))
  OBVIOUS
<1>1. Len(t) > 0 /\ Len(t) \in Nat
  OBVIOUS
<1>2. PICK P : Sums(t, P)
  BY TotalFacts
<1>3. /\ StatsAfter(t).rttSum = P[Len(t)] - P[Len(t) - Kept(Len(t))]
      /\ StatsAfter(t).RTTAvg = Quotient(StatsAfter(t).rttSum, Kept(Len(t)))
  BY <1>1, <1>2, AlwaysExact DEF Tracked
<1>4. /\ Total(LastSamples(t)) = P[Len(t)] - P[Len(t) - Kept(Len(t))]
      /\ Len(LastSamples(t)) = Kept(Len(t))
  BY <1>1, <1>2, TotalOfLast
<1>. QED
  BY <1>3, <1>4 DEF Mean

\* After any session of at least one sample CheckRTTSpike reports a spike
\* exactly when the last sample exceeds the one before it by half and that one
\* was positive.  A window of one sample would never report a spike: the
\* code's holds 20.
THEOREM SpikeIsExact ==
  ASSUME WindowSize >= 2
  PROVE  \A t \in Seq(Int) : t # <<>> =>
           (CheckRTTSpike(StatsAfter(t)) <=> HalfMore(t))
<1>. SUFFICES ASSUME NEW t \in Seq(Int), t # <<>>
              PROVE  CheckRTTSpike(StatsAfter(t)) <=> HalfMore(t)
  OBVIOUS
<1>. DEFINE L == Len(t)
            s == StatsAfter(t)
<1>1. L > 0 /\ L \in Nat /\ \A i \in 1..L : t[i] \in Int
  OBVIOUS
<1>2. PICK P : Sums(t, P)
  BY TotalFacts
<1>3. /\ Len(s.rttSamples) = Kept(L) /\ s.RTTCurrent = t[L]
      /\ L >= 2 => s.previousRTT = t[L - 1]
      /\ L < 2 => s.previousRTT = 0
  BY <1>1, <1>2, AlwaysExact DEF Tracked, Holds
<1>4. Kept(L) >= 2 <=> L >= 2
  BY <1>1, StatsAssumption DEF Kept
<1>. HIDE DEF s, L
<1>5. CASE L >= 2
  <2>1. t[L - 1] \in Int /\ t[L] \in Int
    BY <1>1, <1>5
  <2>2. CheckRTTSpike(s) <=> t[L - 1] > 0 /\ 2 * (t[L] - t[L - 1]) > t[L - 1]
    BY <1>3, <1>4, <1>5, <2>1, SMTT(30) DEF CheckRTTSpike
  <2>3. HalfMore(t) <=> t[L - 1] > 0 /\ 2 * t[L] > 3 * t[L - 1]
    BY <1>5 DEF HalfMore, Latest, L
  <2>4. 2 * (t[L] - t[L - 1]) > t[L - 1] <=> 2 * t[L] > 3 * t[L - 1]
    BY <2>1, SMTT(30)
  <2>. QED
    BY <2>2, <2>3, <2>4, Zenon DEF s
<1>6. CASE ~(L >= 2)
  BY <1>3, <1>4, <1>6 DEF CheckRTTSpike, HalfMore, s, L
<1>. QED
  BY <1>5, <1>6

\* The sessions that the model tells apart are sequences of integers.
LEMMA SessionsAreSequences ==
  ASSUME NEW s \in Sessions
  PROVE  s \in Seq(Int) /\ s # <<>>
<1>1. PICK n \in 1..MaxSamples : s \in [1..n -> Durations]
  BY DEF Sessions
<1>2. n \in Nat /\ n > 0
  BY StatsAssumption
<1>3. s \in [1..n -> Int]
  BY <1>1, StatsAssumption, Zenon
<1>4. s \in Seq(Int) /\ Len(s) = n
  BY <1>2, <1>3
<1>. QED
  BY <1>2, <1>4

\* AddRTTSample keeps RTTAvg the mean of the last samples.
THEOREM AverageStaysExact == Spec => []AverageOfLastSamples
<1>1. WrongAverage = {}
  BY AverageIsMean, SessionsAreSequences DEF WrongAverage
<1>2. AverageOfLastSamples
  BY <1>1 DEF AverageOfLastSamples
<1>. QED
  BY <1>2, PTL

\* handlePong warns of a spike exactly when there is one.
THEOREM SpikesAreReported == WindowSize >= 2 /\ Spec => []SpikeIsHalfMore
<1>. SUFFICES ASSUME WindowSize >= 2 PROVE Spec => []SpikeIsHalfMore
  OBVIOUS
<1>1. ASSUME NEW s \in Sessions
      PROVE  CheckRTTSpike(StatsAfter(s)) = HalfMore(s)
  <2>1. CheckRTTSpike(StatsAfter(s)) <=> HalfMore(s)
    BY SpikeIsExact, SessionsAreSequences
  <2>. QED
    BY <2>1 DEF CheckRTTSpike, HalfMore
<1>2. WrongSpike = {}
  BY <1>1, Zenon DEF WrongSpike
<1>3. SpikeIsHalfMore
  BY <1>2 DEF SpikeIsHalfMore
<1>. QED
  BY <1>3, PTL

-----------------------------------------------------------------------------
(* The device. *)

\* A loop that returns at the first device that passes returns the first.
LEMMA FirstFacts ==
  ASSUME NEW S \in SUBSET (Nat \ {0})
  PROVE  /\ First(S) = 0 <=> S = {}
         /\ S # {} => First(S) \in S /\ \A j \in S : First(S) <= j
<1>1. CASE S = {}
  BY <1>1 DEF First
<1>2. CASE S # {}
  <2>1. \E i \in S : \A j \in S : i <= j
    BY <1>2, LeastElement
  <2>2. First(S) \in S /\ \A j \in S : First(S) <= j
    BY <1>2, <2>1, Zenon DEF First
  <2>. QED
    BY <1>2, <2>2, Zenon
<1>. QED
  BY <1>1, <1>2

\* What a list of devices is.
IsList(list) == Len(list) \in Nat /\ DOMAIN list = 1..Len(list)

\* The rule by which a device answers to a name: 1 by its name, 2 by its name
\* in another case, 3 by its description, 4 not at all.
Rule(device, name) ==
  IF device.name = name THEN 1
  ELSE IF ToLower(device.name) = ToLower(name) THEN 2
  ELSE IF ToLower(name) \in device.description THEN 3 ELSE 4

\* i is the first of the devices that answer by the strongest rule; 0: no
\* device answers.
BestMatch(i, name) ==
  IF \A j \in DOMAIN devices : Rule(devices[j], name) = 4
    THEN i = 0
    ELSE /\ i \in DOMAIN devices
         /\ Rule(devices[i], name) # 4
         /\ \A j \in DOMAIN devices :
              \/ Rule(devices[i], name) < Rule(devices[j], name)
              \/ Rule(devices[i], name) = Rule(devices[j], name) /\ i <= j

\* The three loops of FindInterface, one after the other, find that device.
LEMMA LookUpIsBest ==
  ASSUME NEW name, IsList(devices)
  PROVE  BestMatch(FindInterface(name), name)
<1>. DEFINE E == {i \in DOMAIN devices : devices[i].name = name}
            F == {i \in DOMAIN devices : ToLower(devices[i].name) = ToLower(name)}
            D == {i \in DOMAIN devices : ToLower(name) \in devices[i].description}
            R(i) == Rule(devices[i], name)
<1>1. E \in SUBSET (Nat \ {0}) /\ F \in SUBSET (Nat \ {0}) /\ D \in SUBSET (Nat \ {0})
  BY DEF IsList
<1>2. FindInterface(name) =
        IF First(E) # 0 THEN First(E) ELSE IF First(F) # 0 THEN First(F) ELSE First(D)
  BY Zenon DEF FindInterface, Exact, Folded, Described
<1>3. \A i \in DOMAIN devices :
        /\ i \in Nat
        /\ R(i) = 1 <=> i \in E
        /\ R(i) = 2 <=> i \in F \ E
        /\ R(i) = 3 <=> i \in D \ (E \cup F)
        /\ R(i) = 4 <=> i \notin E \cup F \cup D
        /\ R(i) \in 1..4
  <2>. TAKE i \in DOMAIN devices
  <2>1. i \in Nat
    BY DEF IsList
  <2>2. R(i) = IF i \in E THEN 1 ELSE IF i \in F THEN 2 ELSE IF i \in D THEN 3 ELSE 4
    BY Zenon DEF Rule
  <2>. HIDE DEF E, F, D, R
  <2>. QED
    BY <2>1, <2>2
<1>4. E \subseteq DOMAIN devices /\ F \subseteq DOMAIN devices /\ D \subseteq DOMAIN devices
  BY Zenon
<1>5. E \subseteq F
  BY DEF ToLower
<1>6. \A i \in DOMAIN devices : Rule(devices[i], name) = R(i)
  OBVIOUS
<1>7. /\ First(E) = 0 <=> E = {}
      /\ E # {} => First(E) \in E /\ \A j \in E : First(E) <= j
      /\ First(F) = 0 <=> F = {}
      /\ F # {} => First(F) \in F /\ \A j \in F : First(F) <= j
      /\ First(D) = 0 <=> D = {}
      /\ D # {} => First(D) \in D /\ \A j \in D : First(D) <= j
  BY <1>1, FirstFacts, Zenon
<1>. DEFINE i == FindInterface(name)
<1>8. CASE E # {}
  <2>1. i \in E /\ \A j \in E : i <= j
    BY <1>2, <1>7, <1>8, Zenon
  <2>. HIDE DEF E, F, D, R, i
  <2>2. i \in DOMAIN devices /\ R(i) = 1
    BY <1>3, <1>4, <2>1
  <2>3. \A j \in DOMAIN devices : R(i) < R(j) \/ (R(i) = R(j) /\ i <= j)
    BY <1>3, <2>1, <2>2
  <2>. QED
    BY <2>2, <2>3 DEF BestMatch, R, i
<1>9. CASE E = {} /\ F # {}
  <2>1. i \in F /\ \A j \in F : i <= j
    BY <1>2, <1>7, <1>9, Zenon
  <2>. HIDE DEF E, F, D, R, i
  <2>2. i \in DOMAIN devices /\ R(i) = 2
    BY <1>3, <1>4, <1>9, <2>1
  <2>3. \A j \in DOMAIN devices : R(i) < R(j) \/ (R(i) = R(j) /\ i <= j)
    BY <1>3, <1>9, <2>1, <2>2
  <2>. QED
    BY <2>2, <2>3 DEF BestMatch, R, i
<1>10. CASE E = {} /\ F = {} /\ D # {}
  <2>1. i \in D /\ \A j \in D : i <= j
    BY <1>2, <1>7, <1>10, Zenon
  <2>. HIDE DEF E, F, D, R, i
  <2>2. i \in DOMAIN devices /\ R(i) = 3
    BY <1>3, <1>4, <1>10, <2>1
  <2>3. \A j \in DOMAIN devices : R(i) < R(j) \/ (R(i) = R(j) /\ i <= j)
    BY <1>3, <1>10, <2>1, <2>2
  <2>. QED
    BY <2>2, <2>3 DEF BestMatch, R, i
<1>11. CASE E = {} /\ F = {} /\ D = {}
  <2>1. i = 0
    BY <1>2, <1>7, <1>11, Zenon
  <2>. HIDE DEF E, F, D, R, i
  <2>2. \A j \in DOMAIN devices : R(j) = 4
    BY <1>3, <1>11
  <2>. QED
    BY <2>1, <2>2 DEF BestMatch, R, i
<1>. QED
  BY <1>8, <1>9, <1>10, <1>11, Zenon

\* FindInterface returns a device of the list, or none.
LEMMA LookUpRange ==
  ASSUME NEW name, IsList(devices)
  PROVE  FindInterface(name) \in 0..Len(devices)
<1>1. BestMatch(FindInterface(name), name)
  BY LookUpIsBest
<1>. QED
  BY <1>1 DEF BestMatch, IsList

\* capture and discovery have a look-up each; they agree.
LEMMA LookUpsAgree ==
  ASSUME NEW name
  PROVE  findInterface(name) = FindInterface(name)
BY Zenon DEF findInterface, FindInterface

\* Every look-up since main's has had the result that main reported.
LookUpInv ==
  /\ DOMAIN iface = Caller /\ caller \in Caller
  /\ pc # "find" => found = FindInterface(ifaceName)
  /\ pc = "find" => \A c \in Caller : iface[c] = 0
  /\ SameInterface

\* The handles that are open at each step of an opening.
HandleInv ==
  /\ caller \in Caller
  /\ pc \in {"find", "create", "configure", "activate", "filter", "read",
             "open", "closed", "failed"}
  /\ inactive = IF pc \in {"configure", "activate", "filter", "read"}
                  THEN {caller} ELSE {}
  /\ handles = IF pc \in {"filter", "read", "open"} THEN {caller} ELSE {}
  /\ pc = "read" => caller = "discovery"
  /\ pc = "open" => caller = "capture"

\* The flag and the list of devices do not change, nor what they mean.
LEMMA LookUpStable ==
  ASSUME [DeviceNext]_deviceVars
  PROVE  /\ UNCHANGED <<devices, ifaceName>>
         /\ FindInterface(ifaceName)' = FindInterface(ifaceName)
<1>1. UNCHANGED <<devices, ifaceName>>
  BY Zenon DEF DeviceNext, deviceVars, Find, Create, Configure, Activate,
         SetBPFFilter, Read, Close, CancelDiscovery
<1>. QED
  BY <1>1 DEF FindInterface, Exact, Folded, Described, ToLower, First

\* Every step keeps the look-ups equal.
LEMMA StepLookUp == LookUpInv /\ [DeviceNext]_deviceVars => LookUpInv'
<1>. SUFFICES ASSUME LookUpInv, [DeviceNext]_deviceVars PROVE LookUpInv'
  OBVIOUS
<1>. USE DEF LookUpInv, SameInterface, Caller
<1>0. FindInterface(ifaceName)' = FindInterface(ifaceName)
  BY LookUpStable
<1>1. CASE Find
  <2>1. /\ pc = "find" /\ pc' # "find" /\ found' = FindInterface(ifaceName)
        /\ iface' = iface /\ caller' \in {"discovery", "capture"}
    BY <1>1 DEF Find
  <2>. QED
    BY <1>0, <2>1
<1>2. CASE Create
  <2>1. /\ pc = "create" /\ pc' # "find" /\ found' = found /\ caller' = caller
        /\ \/ iface' = iface
           \/ iface' = [iface EXCEPT ![caller] = FindInterface(ifaceName)]
    BY <1>2, LookUpsAgree DEF Create, GiveUp
  <2>. QED
    BY <1>0, <2>1
<1>3. CASE /\ UNCHANGED <<found, iface>> /\ caller' \in Caller
           /\ pc' = "find" <=> pc = "find"
  BY <1>0, <1>3, SMTT(30)
<1>4. CASE Configure \/ Activate \/ SetBPFFilter \/ Read \/ Close
             \/ CancelDiscovery \/ UNCHANGED deviceVars
  BY <1>3, <1>4, Zenon
     DEF Configure, Activate, SetBPFFilter, Read, Close, CancelDiscovery, GiveUp, deviceVars
<1>. QED
  BY <1>1, <1>2, <1>4 DEF DeviceNext

\* main, discovery and capture open the interface that main reported, though
\* each looks the flag up for itself.
THEOREM OneInterface == DeviceSpec => []SameInterface
<1>1. DeviceInit => LookUpInv
  BY DEF DeviceInit, LookUpInv, SameInterface, Caller
<1>2. LookUpInv => SameInterface
  BY DEF LookUpInv
<1>. QED
  BY <1>1, <1>2, StepLookUp, PTL DEF DeviceSpec

\* Every step opens or closes exactly the handles of its place.
LEMMA StepHandles == HandleInv /\ [DeviceNext]_deviceVars => HandleInv'
<1>. SUFFICES ASSUME HandleInv, [DeviceNext]_deviceVars PROVE HandleInv'
  OBVIOUS
<1>. USE DEF HandleInv, Caller, GiveUp
<1>1. CASE Find
  BY <1>1 DEF Find
<1>2. CASE Create
  BY <1>2 DEF Create
<1>3. CASE Configure
  BY <1>3 DEF Configure
<1>4. CASE Activate
  BY <1>4 DEF Activate
<1>5. CASE SetBPFFilter
  BY <1>5 DEF SetBPFFilter
<1>6. CASE Read
  BY <1>6 DEF Read
<1>7. CASE Close
  BY <1>7 DEF Close
<1>8. CASE CancelDiscovery \/ UNCHANGED deviceVars
  BY <1>8, Zenon DEF CancelDiscovery, deviceVars
<1>. QED
  BY <1>1, <1>2, <1>3, <1>4, <1>5, <1>6, <1>7, <1>8, Zenon
     DEF DeviceNext

\* Whichever step of capture.New or Discover fails, no pcap handle is left
\* open, and an open capture has exactly its own.
THEOREM NoHandleLeaks == DeviceSpec => []HandlesReleased
<1>1. DeviceInit => HandleInv
  BY DEF DeviceInit, HandleInv, Caller
<1>2. HandleInv => HandlesReleased
  BY DEF HandleInv, HandlesReleased
<1>. QED
  BY <1>1, <1>2, StepHandles, PTL DEF DeviceSpec

\* Every step of an opening keeps the types.
LEMMA StepDeviceTypes == DeviceTypeOK /\ [DeviceNext]_deviceVars => DeviceTypeOK'
<1>. SUFFICES ASSUME DeviceTypeOK, [DeviceNext]_deviceVars PROVE DeviceTypeOK'
  OBVIOUS
<1>. USE DEF DeviceTypeOK, Caller, GiveUp
<1>0. IsList(devices)
  BY DeviceAssumption DEF IsList
<1>. DEFINE d == FindInterface(ifaceName)
<1>1. d \in 0..Len(devices)
  BY <1>0, LookUpRange
<1>2. CASE Find
  BY <1>1, <1>2 DEF Find
<1>3. CASE Create
  <2>1. iface' = iface \/ iface' = [iface EXCEPT ![caller] = d]
    BY <1>3, LookUpsAgree, Zenon DEF Create
  <2>. HIDE DEF d
  <2>2. iface' \in [Caller -> 0..Len(devices)]
    BY <1>1, <2>1
  <2>. QED
    BY <1>3, <2>2, Zenon DEF Create
<1>4. CASE Configure \/ Activate \/ SetBPFFilter
  BY <1>4, Zenon DEF Configure, Activate, SetBPFFilter
<1>5. CASE Read
  BY <1>5, Zenon DEF Read, IsStation
<1>6. CASE Close \/ CancelDiscovery
  BY <1>6, Zenon DEF Close, CancelDiscovery
<1>7. CASE UNCHANGED deviceVars
  BY <1>7 DEF deviceVars
<1>. QED
  BY <1>2, <1>3, <1>4, <1>5, <1>6, <1>7, Zenon DEF DeviceNext

\* The variables of an opening keep their types; among them, the index of a
\* look-up never leaves the list of devices.
THEOREM DeviceTypes == DeviceSpec => []DeviceTypeOK
<1>1. DeviceInit => DeviceTypeOK
  <2>. SUFFICES ASSUME DeviceInit PROVE DeviceTypeOK
    OBVIOUS
  <2>1. Len(devices) \in Nat
    BY DeviceAssumption DEF DeviceInit
  <2>2. 0 \in 0..Len(devices)
    BY <2>1
  <2>. QED
    BY <2>2, Zenon DEF DeviceInit, DeviceTypeOK, Caller
<1>. QED
  BY <1>1, StepDeviceTypes, PTL DEF DeviceSpec

\* What main reports, and each part then opens, is the first of the devices
\* that answer to the flag by the strongest rule of FindInterface.
THEOREM FlagNamesBestMatch == DeviceSpec => [](pc # "find" => BestMatch(found, ifaceName))
<1>1. DeviceInit => LookUpInv
  BY DEF DeviceInit, LookUpInv, SameInterface, Caller
<1>2. DeviceTypeOK /\ LookUpInv => (pc # "find" => BestMatch(found, ifaceName))
  <2>. SUFFICES ASSUME DeviceTypeOK, LookUpInv, pc # "find"
                PROVE  BestMatch(found, ifaceName)
    OBVIOUS
  <2>1. IsList(devices)
    BY DeviceAssumption DEF IsList, DeviceTypeOK
  <2>2. found = FindInterface(ifaceName)
    BY DEF LookUpInv
  <2>. QED
    BY <2>1, <2>2, LookUpIsBest
<1>. QED
  BY <1>1, <1>2, StepLookUp, DeviceTypes, PTL DEF DeviceSpec

=============================================================================
