--------------------------- MODULE ProcessProofs ---------------------------
(***************************************************************************)
(* Proofs about what a process has beside its bridge, for every value of    *)
(* the constants.  The event writer implements LossyFifo and Close drains   *)
(* the channel; the console keeps an Enter that finds it idle, and no line  *)
(* shows packets without their bytes, but for the last one.                 *)
(***************************************************************************)
EXTENDS EventWriter, Console, TLAPS

-----------------------------------------------------------------------------
(* The event writer. *)

\* The channel is in order, and newer than what the writer has received,
\* which is newer than what it has written.
OrderInv ==
  /\ \A i \in DOMAIN events : events[i] \in 1..offered
  /\ \A i, j \in DOMAIN events : i < j => events[i] < events[j]
  /\ \A id \in writing :
       /\ Queue!Latest(lines) < id /\ id \in 1..offered
       /\ \A i \in DOMAIN events : id < events[i]
  /\ Queue!Latest(lines) <= offered
  /\ \A i \in DOMAIN events : Queue!Latest(lines) < events[i]

InChannel == {events[i] : i \in DOMAIN events}

\* An event that was in the channel when Close was called is still there, or
\* in the writer's hands, or done with; once the writer returns, the latter.
CloseInv ==
  /\ queuedAtClose \subseteq InChannel \cup writing \cup Written \cup failed
  /\ \A e1, e2 \in writing : e1 = e2
  /\ writer = "returned" => writing = {}
  /\ writer # "select" => done
  /\ done => closer # "open"
  /\ writer = "returned" => queuedAtClose \subseteq Written \cup failed
  /\ closer = "closed" => writer = "returned"

IInv == TypeOK /\ OrderInv /\ CloseInv

-----------------------------------------------------------------------------
\* A send on the channel adds the event at the end, or nothing.
LEMMA QueuedFacts ==
  ASSUME NEW id \in Nat, TypeOK
  PROVE  /\ Queued(id) \in Seq(Nat) /\ Len(Queued(id)) <= BufferSize
         /\ \A i \in DOMAIN events : i \in DOMAIN Queued(id) /\ Queued(id)[i] = events[i]
         /\ \A i \in DOMAIN Queued(id) :
              \/ i \in DOMAIN events /\ Queued(id)[i] = events[i]
              \/ /\ Queued(id)[i] = id
                 /\ \A j \in DOMAIN Queued(id) : j <= i
BY EventWriterAssumption DEF Queued, TypeOK

\* A receive takes the first event and shifts the others.
LEMMA TailFacts ==
  ASSUME NEW S, NEW q \in Seq(S), q # <<>>
  PROVE  /\ Tail(q) \in Seq(S) /\ Len(Tail(q)) = Len(q) - 1
         /\ 1 \in DOMAIN q /\ q[1] = Head(q) /\ Head(q) \in S
         /\ \A i \in DOMAIN q : i = 1 \/ (i - 1 \in DOMAIN Tail(q) /\ Tail(q)[i - 1] = q[i])
         /\ \A i \in DOMAIN Tail(q) :
              i \in Nat /\ i > 0 /\ i + 1 \in DOMAIN q /\ Tail(q)[i] = q[i + 1]
OBVIOUS

\* A line more.
LEMMA LatestFacts ==
  ASSUME NEW q \in Seq(Nat), NEW n \in Nat
  PROVE  /\ Queue!Latest(q) \in Nat
         /\ Queue!Latest(Append(q, n)) = n
         /\ Append(q, n) \in Seq(Nat)
         /\ {Append(q, n)[i] : i \in DOMAIN Append(q, n)} = {q[i] : i \in DOMAIN q} \cup {n}
<1>1. Queue!Latest(q) \in Nat
  BY DEF Queue!Latest
<1>2. /\ Append(q, n) \in Seq(Nat) /\ Append(q, n) # <<>>
      /\ Append(q, n)[Len(Append(q, n))] = n
  OBVIOUS
<1>3. {Append(q, n)[i] : i \in DOMAIN Append(q, n)} = {q[i] : i \in DOMAIN q} \cup {n}
  <2>1. \A i \in DOMAIN q : i \in DOMAIN Append(q, n) /\ Append(q, n)[i] = q[i]
    OBVIOUS
  <2>2. Len(q) + 1 \in DOMAIN Append(q, n) /\ Append(q, n)[Len(q) + 1] = n
    OBVIOUS
  <2>3. \A i \in DOMAIN Append(q, n) : i \in DOMAIN q \/ i = Len(q) + 1
    OBVIOUS
  <2>. QED
    BY <2>1, <2>2, <2>3, Zenon
<1>. QED
  BY <1>1, <1>2, <1>3, Zenon DEF Queue!Latest

\* The invariant holds at first: nothing is queued.
LEMMA InitIInv == Init => IInv
<1>. SUFFICES ASSUME Init PROVE IInv
  OBVIOUS
<1>1. TypeOK
  <2>1. <<>> \in Seq(Nat) /\ Len(<<>>) <= BufferSize
    BY EventWriterAssumption
  <2>. QED
    BY <2>1, 0 \in Nat, Zenon DEF Init, TypeOK
<1>2. DOMAIN events = {} /\ Queue!Latest(lines) = 0
  BY DEF Init, Queue!Latest
<1>3. OrderInv
  BY <1>2 DEF Init, OrderInv
<1>4. CloseInv
  BY DEF Init, CloseInv
<1>. QED
  BY <1>1, <1>3, <1>4 DEF IInv

\* An event reaches the channel.
LEMMA EmitInv ==
  ASSUME IInv, Emit, searching' \subseteq searching
  PROVE  IInv'
<1>1. offered \in Nat /\ offered' = offered + 1 /\ offered' \in Nat
  BY DEF IInv, TypeOK, Emit
<1>2. /\ UNCHANGED <<done, writer, writing, lines, failed, closer, queuedAtClose>>
      /\ events' = Queued(offered')
  BY DEF Emit
<1>3. /\ events' \in Seq(Nat) /\ Len(events') <= BufferSize
      /\ \A i \in DOMAIN events : i \in DOMAIN events' /\ events'[i] = events[i]
      /\ \A i \in DOMAIN events' :
           \/ i \in DOMAIN events /\ events'[i] = events[i]
           \/ events'[i] = offered' /\ \A j \in DOMAIN events' : j <= i
  <2>. DEFINE n == offered'
  <2>1. n \in Nat /\ TypeOK /\ events' = Queued(n)
    BY <1>1, <1>2 DEF IInv
  <2>. HIDE DEF n
  <2>2. /\ Queued(n) \in Seq(Nat) /\ Len(Queued(n)) <= BufferSize
        /\ \A i \in DOMAIN events : i \in DOMAIN Queued(n) /\ Queued(n)[i] = events[i]
        /\ \A i \in DOMAIN Queued(n) :
             \/ i \in DOMAIN events /\ Queued(n)[i] = events[i]
             \/ Queued(n)[i] = n /\ \A j \in DOMAIN Queued(n) : j <= i
    BY <2>1, QueuedFacts, Zenon
  <2>. QED
    BY <2>1, <2>2, Zenon DEF n
<1>4. TypeOK'
  BY <1>1, <1>2, <1>3 DEF IInv, TypeOK
<1>5. \A n \in 1..offered : n \in 1..offered' /\ n < offered'
  BY <1>1
<1>6. Queue!Latest(lines)' = Queue!Latest(lines) /\ Queue!Latest(lines) \in Nat
  BY <1>2, LatestFacts, 0 \in Nat DEF IInv, TypeOK
<1>7. OrderInv'
  <2>1. \A i \in DOMAIN events' : events'[i] \in 1..offered'
    BY <1>1, <1>3, <1>5 DEF IInv, OrderInv
  <2>2. \A i, j \in DOMAIN events' : i < j => events'[i] < events'[j]
    <3>. SUFFICES ASSUME NEW i \in DOMAIN events', NEW j \in DOMAIN events', i < j
                  PROVE  events'[i] < events'[j]
      OBVIOUS
    <3>1. i \in Nat /\ j \in Nat
      BY <1>3
    <3>2. i \in DOMAIN events /\ events'[i] = events[i]
      BY <1>3, <3>1
    <3>. QED
      BY <1>3, <1>5, <3>1, <3>2 DEF IInv, OrderInv
  <2>3. \A id \in writing : \A i \in DOMAIN events' : id < events'[i]
    BY <1>3, <1>5 DEF IInv, OrderInv
  <2>4. /\ Queue!Latest(lines) <= offered'
        /\ \A i \in DOMAIN events' : Queue!Latest(lines) < events'[i]
    BY <1>1, <1>3, <1>6 DEF IInv, OrderInv
  <2>. QED
    BY <1>2, <1>5, <1>6, <2>1, <2>2, <2>3, <2>4, Zenon DEF IInv, OrderInv
<1>8. CloseInv'
  <2>1. InChannel \subseteq InChannel'
    BY <1>3 DEF InChannel
  <2>2. Written' = Written
    BY <1>2 DEF Written
  <2>. QED
    BY <1>2, <2>1, <2>2 DEF IInv, CloseInv
<1>. QED
  BY <1>4, <1>7, <1>8 DEF IInv

\* The writer takes the oldest event.
LEMMA ReceiveInv ==
  ASSUME IInv, Receive
  PROVE  IInv'
<1>. DEFINE h == Head(events)
<1>1. events \in Seq(Nat) /\ events # <<>> /\ writing' = {h}
  BY DEF IInv, TypeOK, Receive
<1>2. /\ events' \in Seq(Nat) /\ Len(events') = Len(events) - 1
      /\ 1 \in DOMAIN events /\ events[1] = h /\ h \in Nat
      /\ \A i \in DOMAIN events :
           i = 1 \/ (i - 1 \in DOMAIN events' /\ events'[i - 1] = events[i])
      /\ \A i \in DOMAIN events' :
           /\ i \in Nat /\ i > 0 /\ i + 1 \in DOMAIN events
           /\ events'[i] = events[i + 1]
  BY <1>1, TailFacts DEF Receive
<1>. HIDE DEF h
<1>3. TypeOK'
  <2>1. Len(events') <= BufferSize
    BY <1>1, <1>2, EventWriterAssumption DEF IInv, TypeOK
  <2>. QED
    BY <1>1, <1>2, <2>1 DEF IInv, TypeOK, Receive
<1>4. Queue!Latest(lines)' = Queue!Latest(lines)
  BY DEF Receive
<1>5. OrderInv'
  <2>1. \A i \in DOMAIN events' : 1 < i + 1
    BY <1>2
  <2>2. \A i, j \in DOMAIN events' : i < j => i + 1 < j + 1
    BY <1>2
  <2>3. \A i \in DOMAIN events' : h < events'[i]
    <3>1. \A j \in DOMAIN events : 1 < j => h < events[j]
      BY <1>2, Zenon DEF IInv, OrderInv
    <3>. QED
      BY <1>2, <2>1, <3>1, Zenon
  <2>4. \A i, j \in DOMAIN events' : i < j => events'[i] < events'[j]
    BY <1>2, <2>2, Zenon DEF IInv, OrderInv
  <2>. QED
    BY <1>1, <1>2, <1>4, <2>3, <2>4 DEF IInv, OrderInv, Receive
<1>6. CloseInv'
  <2>1. InChannel \subseteq InChannel' \cup {h}
    BY <1>2, SMTT(30) DEF InChannel
  <2>2. writing' = {h} /\ writing = {} /\ Written' = Written
    BY <1>1, Zenon DEF Written, Receive
  <2>. QED
    BY <2>1, <2>2 DEF IInv, CloseInv, Receive
<1>. QED
  BY <1>3, <1>5, <1>6 DEF IInv

\* A line is written, or lost.
LEMMA WriteInv ==
  ASSUME IInv, Write
  PROVE  IInv'
<1>1. PICK id \in writing :
        /\ writing' = {}
        /\ \/ lines' = Append(lines, id) /\ UNCHANGED failed
           \/ failed' = failed \cup {id} /\ UNCHANGED lines
        /\ UNCHANGED <<searching, offered, events, done, writer, closer,
                       queuedAtClose>>
  BY DEF Write
<1>2. id \in Nat /\ id \in 1..offered /\ lines \in Seq(Nat) /\ offered \in Nat
  BY DEF IInv, TypeOK, OrderInv
<1>3. Queue!Latest(lines) \in Nat /\ Queue!Latest(lines) < id
  BY <1>2, LatestFacts DEF IInv, OrderInv
<1>4. /\ lines' \in Seq(Nat) /\ failed' \subseteq Nat
      /\ Queue!Latest(lines)' \in {Queue!Latest(lines), id}
      /\ Written' \cup failed' = Written \cup failed \cup {id}
  <2>1. CASE lines' = Append(lines, id) /\ UNCHANGED failed
    <3>0. LET all == Append(lines, id) IN
          /\ all \in Seq(Nat) /\ Queue!Latest(all) = id
          /\ {all[i] : i \in DOMAIN all} = {lines[i] : i \in DOMAIN lines} \cup {id}
      BY <1>2, LatestFacts, Zenon
    <3>1. /\ lines' \in Seq(Nat) /\ Queue!Latest(lines') = id
          /\ Written' = Written \cup {id}
      BY <2>1, <3>0, Zenon DEF Written
    <3>. QED
      BY <2>1, <3>1 DEF IInv, TypeOK
  <2>2. CASE failed' = failed \cup {id} /\ UNCHANGED lines
    <3>1. Written' = Written
      BY <2>2 DEF Written
    <3>. QED
      BY <1>2, <2>2, <3>1, Zenon DEF IInv, TypeOK
  <2>. QED
    BY <1>1, <2>1, <2>2
<1>5. TypeOK'
  <2>1. writing' = {}
    BY <1>1
  <2>. QED
    BY <1>1, <1>4, <2>1 DEF IInv, TypeOK
<1>6. OrderInv'
  BY <1>1, <1>2, <1>3, <1>4, SMTT(30) DEF IInv, OrderInv
<1>7. CloseInv'
  <2>1. writing \subseteq {id}
    BY DEF IInv, CloseInv
  <2>2. InChannel' = InChannel
    BY <1>1 DEF InChannel
  <2>3. queuedAtClose' \subseteq InChannel' \cup Written' \cup failed'
    BY <1>1, <1>4, <2>1, <2>2 DEF IInv, CloseInv
  <2>4. writer # "returned" /\ writing' = {}
    BY <1>1 DEF IInv, CloseInv
  <2>. QED
    BY <1>1, <2>3, <2>4 DEF IInv, CloseInv
<1>. QED
  BY <1>5, <1>6, <1>7 DEF IInv

\* The other steps: Close, and the writer on its way out.
LEMMA CloseStepsInv ==
  ASSUME IInv, CloseBegin \/ CloseEnd \/ SeesDone \/ Drained
  PROVE  IInv'
<1>1. TypeOK'
  <2>1. CASE CloseBegin
    <3>1. queuedAtClose' \subseteq Nat
      <4>1. \A i \in DOMAIN events : events[i] \in 1..offered
        BY DEF IInv, OrderInv
      <4>2. \A n \in 1..offered : n \in Nat
        BY DEF IInv, TypeOK
      <4>. QED
        BY <2>1, <4>1, <4>2 DEF CloseBegin
    <3>. QED
      BY <2>1, <3>1 DEF IInv, TypeOK, CloseBegin
  <2>2. CASE CloseEnd \/ SeesDone \/ Drained
    BY <2>2, Zenon DEF IInv, TypeOK, CloseEnd, SeesDone, Drained
  <2>. QED
    BY <2>1, <2>2
<1>2. OrderInv'
  BY DEF IInv, OrderInv, CloseBegin, CloseEnd, SeesDone, Drained
<1>3. InChannel' = InChannel /\ writing' = writing /\ Written' = Written
  BY DEF InChannel, Written, CloseBegin, CloseEnd, SeesDone, Drained
<1>4. CloseInv'
  <2>1. CASE CloseBegin
    <3>1. queuedAtClose' = InChannel
      BY <2>1 DEF CloseBegin, InChannel
    <3>2. writer # "returned"
      BY <2>1 DEF IInv, CloseInv, CloseBegin
    <3>. QED
      BY <1>3, <2>1, <3>1, <3>2 DEF IInv, CloseInv, CloseBegin
  <2>2. CASE CloseEnd
    BY <1>3, <2>2 DEF IInv, CloseInv, CloseEnd
  <2>3. CASE SeesDone
    BY <1>3, <2>3 DEF IInv, CloseInv, SeesDone
  <2>4. CASE Drained
    <3>1. InChannel = {} /\ writing = {}
      BY <2>4 DEF InChannel, Drained
    <3>2. done
      BY <2>4 DEF IInv, CloseInv, Drained
    <3>. QED
      BY <1>3, <2>4, <3>1, <3>2 DEF IInv, CloseInv, Drained
  <2>. QED
    BY <2>1, <2>2, <2>3, <2>4
<1>. QED
  BY <1>1, <1>2, <1>4 DEF IInv

\* Every step keeps the invariant.
LEMMA StepInv ==
  ASSUME IInv, [Next]_vars
  PROVE  IInv'
<1>1. CASE MainEmits \/ \E d \in Discoveries : DiscoveryEmits(d)
  BY <1>1, EmitInv DEF MainEmits, DiscoveryEmits
<1>2. CASE UNCHANGED vars
  BY <1>2, Zenon DEF vars, IInv, TypeOK, OrderInv, CloseInv, InChannel, Written, Queue!Latest
<1>. QED
  BY <1>1, <1>2, ReceiveInv, WriteInv, CloseStepsInv, Zenon DEF Next

-----------------------------------------------------------------------------
\* The channel never holds more than its capacity, whoever emits.
THEOREM TypeCorrect == Spec => []TypeOK
<1>1. IInv /\ [Next]_vars => IInv'
  BY StepInv
<1>2. IInv => TypeOK
  BY DEF IInv
<1>. QED
  BY InitIInv, <1>1, <1>2, PTL DEF Spec

\* When Close returns, what was in the channel when it was called is written.
THEOREM CloseDrainsTheChannel == Spec => []CloseDrains
<1>1. IInv /\ [Next]_vars => IInv'
  BY StepInv
<1>2. IInv => CloseDrains
  BY DEF IInv, CloseInv, CloseDrains
<1>. QED
  BY InitIInv, <1>1, <1>2, PTL DEF Spec

\* The log is a lossy queue of the events: every step is an Emit that
\* reaches the channel, a line written in order, or invisible.
THEOREM EventWriterImplementsLossyFifo == Spec => WritesInOrder
<1>1. Init => Queue!Init
  BY DEF Init, Queue!Init
<1>2. IInv /\ [Next]_vars => IInv'
  BY StepInv
<1>3. IInv /\ [Next]_vars => [Queue!Next]_<<offered, lines>>
  <2>. SUFFICES ASSUME IInv, [Next]_vars PROVE [Queue!Next]_<<offered, lines>>
    OBVIOUS
  <2>1. CASE Emit
    BY <2>1 DEF Emit, Queue!Next, Queue!Offer
  <2>2. CASE Write
    <3>1. PICK id \in writing : Write!(id)
      BY <2>2 DEF Write
    <3>2. Queue!Latest(lines) < id /\ id \in 1..offered
      BY DEF IInv, OrderInv
    <3>3. offered \in Nat
      BY DEF IInv, TypeOK
    <3>4. CASE lines' = Append(lines, id)
      BY <3>1, <3>2, <3>3, <3>4 DEF Queue!Next, Queue!Deliver
    <3>. QED
      BY <3>1, <3>4
  <2>3. CASE UNCHANGED <<offered, lines>>
    BY <2>3
  <2>4. CASE ~Write /\ ~Emit
    BY <2>4, Zenon DEF Next, MainEmits, DiscoveryEmits, Receive, SeesDone, Drained,
                CloseBegin, CloseEnd, vars
  <2>. QED
    BY <2>1, <2>2, <2>3, <2>4
<1>. QED
  BY InitIInv, <1>1, <1>2, <1>3, PTL DEF Spec, WritesInOrder, Queue!Spec

-----------------------------------------------------------------------------
(* The console. *)

Counts == [packets : Nat, bytes : Nat]

\* sendLoop adds to the packets first, and its next frame comes after the
\* bytes of the last one; between the two loads of printStats the packets it
\* has read are at most one ahead of the bytes it will read.
LoadsInv ==
  /\ TxPackets \in Nat /\ TxBytes \in Nat
  /\ TxBytes <= TxPackets /\ TxPackets <= TxBytes + 1
  /\ read \in Counts /\ shown \in Counts
  /\ statsLoop = "bytes" => read.packets <= TxBytes + 1
  /\ PacketsAtMostOneAhead

\* The steps that touch neither the counters nor what printStats has read.
LEMMA CountersAlone ==
  ASSUME PressEnter \/ ReadError \/ Cancel \/ TickerTicks \/ Stdin
           \/ StdinLoop \/ Park \/ TakeTick \/ StatsLoopEnds
           \/ UNCHANGED consoleVars
  PROVE  /\ UNCHANGED <<TxPackets, TxBytes, read, shown>>
         /\ statsLoop' = "bytes" => statsLoop = "bytes"
BY Zenon DEF PressEnter, ReadError, Cancel, TickerTicks, Stdin, ReadKey,
       OfferKey, StdinLoop, Signal, StdinLoopEnds, Park, TakeTick,
       StatsLoopEnds, consoleVars, counters

\* Every step of the console keeps the packets one ahead at most.
LEMMA StepLoads == LoadsInv /\ [ConsoleNext]_consoleVars => LoadsInv'
<1>. SUFFICES ASSUME LoadsInv, [ConsoleNext]_consoleVars PROVE LoadsInv'
  OBVIOUS
<1>. USE DEF LoadsInv, Counts, PacketsAtMostOneAhead
<1>1. CASE PrintPackets
  BY <1>1 DEF PrintPackets, Loaded, counters
<1>2. CASE PrintBytes
  BY <1>2 DEF PrintBytes, Loaded, counters
<1>3. CASE CountSent
  BY <1>3 DEF CountSent
<1>4. CASE /\ UNCHANGED <<TxPackets, TxBytes, read, shown>>
           /\ statsLoop' = "bytes" => statsLoop = "bytes"
  BY <1>4
<1>. QED
  BY <1>1, <1>2, <1>3, <1>4, CountersAlone DEF ConsoleNext, StatsLoop

\* The packets of a line of printStats are never more than one ahead of its
\* bytes, however many frames sendLoop counts between the two loads; the bytes
\* may be ahead of the packets.
THEOREM LinesCountTheBytes == ConsoleSpec => []PacketsAtMostOneAhead
<1>1. ConsoleInit => LoadsInv
  BY DEF ConsoleInit, LoadsInv, Counts, PacketsAtMostOneAhead
<1>2. LoadsInv => PacketsAtMostOneAhead
  BY DEF LoadsInv
<1>. QED
  BY <1>1, <1>2, StepLoads, PTL DEF ConsoleSpec

\* One of these keys was pressed on an idle console.
Marked(enters) == \E i \in 1..Len(enters) : enters[i] = TRUE

\* An Enter that was pressed on an idle console is in front of all others, so
\* neither of the two sends meets a busy receiver, unless statsLoop is on its
\* way to a line or the bridge stops.
EnterInv ==
  /\ stdin \in Seq(BOOLEAN) /\ reader \in Seq(BOOLEAN)
  /\ stdinLoop \in {"parked", "signal", "ended"}
  /\ ctxDone \in BOOLEAN /\ held \in BOOLEAN
  /\ "ended" \in {stdinLoop, statsLoop} => ctxDone = TRUE
  /\ \A i \in 1..Len(stdin) : stdin[i] = TRUE => i = 1
  /\ Marked(stdin) => reader = <<>>
  /\ Marked(stdin) \/ Marked(reader) => stdinLoop # "signal"
  /\ held = TRUE => stdinLoop = "signal"
  /\ Marked(stdin) \/ Marked(reader) \/ held = TRUE
       => statsLoop \in {"parked", "packets", "ended"}
  /\ lostIdle = FALSE

\* A key is added at the end, and read at the front.
LEMMA KeyFacts ==
  ASSUME NEW s \in Seq(BOOLEAN)
  PROVE  /\ Append(s, TRUE) \in Seq(BOOLEAN) /\ Append(s, FALSE) \in Seq(BOOLEAN)
         /\ Marked(Append(s, FALSE)) <=> Marked(s)
         /\ \A i \in 1..Len(Append(s, FALSE)) :
              Append(s, FALSE)[i] = TRUE => i \in 1..Len(s) /\ s[i] = TRUE
         /\ s # <<>> =>
              /\ Tail(s) \in Seq(BOOLEAN) /\ Head(s) = s[1] /\ 1 \in 1..Len(s)
              /\ s[1] \in BOOLEAN
              /\ \A i \in 1..Len(Tail(s)) :
                   i + 1 \in 1..Len(s) /\ i + 1 # 1 /\ Tail(s)[i] = s[i + 1]
BY DEF Marked

\* The goroutine on stdin holds the one key it has read.
LEMMA OneKeyFacts ==
  ASSUME NEW b \in BOOLEAN
  PROVE  <<b>> \in Seq(BOOLEAN) /\ (Marked(<<b>>) => b = TRUE)
BY DEF Marked

\* No key is no marked key.
LEMMA NoKeyFacts == <<>> \in Seq(BOOLEAN) /\ ~Marked(<<>>)
BY DEF Marked

\* printStats answers every key.
LEMMA AnsweredFacts ==
  ASSUME NEW s \in Seq(BOOLEAN), NEW t, t = [i \in DOMAIN s |-> FALSE]
  PROVE  t \in Seq(BOOLEAN) /\ ~Marked(t) /\ \A i \in 1..Len(t) : t[i] = FALSE
<1>1. Len(s) \in Nat /\ t \in [1..Len(s) -> BOOLEAN]
  OBVIOUS
<1>2. t \in Seq(BOOLEAN) /\ Len(t) = Len(s)
  BY <1>1
<1>3. \A i \in 1..Len(t) : t[i] = FALSE
  BY <1>2
<1>. QED
  BY <1>2, <1>3 DEF Marked

\* Every step keeps an Enter of an idle console in front.
LEMMA StepEnter == EnterInv /\ [ConsoleNext]_consoleVars => EnterInv'
<1>. SUFFICES ASSUME EnterInv, [ConsoleNext]_consoleVars PROVE EnterInv'
  OBVIOUS
<1>. USE DEF EnterInv, Reading
<1>1. CASE PressEnter
  <2>1. UNCHANGED <<ctxDone, reader, stdinLoop, held, statsLoop, lostIdle>>
    BY <1>1 DEF PressEnter
  <2>2. CASE Idle
    <3>1. /\ stdin' = <<TRUE>> /\ reader = <<>> /\ stdinLoop = "parked"
          /\ statsLoop = "parked"
      <4>1. Idle = TRUE
        BY <2>2 DEF Idle
      <4>2. stdin' = Append(stdin, TRUE)
        BY <1>1, <4>1, Zenon DEF PressEnter
      <4>3. Append(<<>>, TRUE) = <<TRUE>>
        OBVIOUS
      <4>4. /\ stdin = <<>> /\ reader = <<>> /\ stdinLoop = "parked"
            /\ statsLoop = "parked"
        BY <2>2 DEF Idle
      <4>. QED
        BY <4>2, <4>3, <4>4
    <3>2. \A i \in 1..Len(stdin') : i = 1
      BY <3>1
    <3>. QED
      BY <2>1, <3>1, <3>2, OneKeyFacts, NoKeyFacts
  <2>3. CASE ~Idle
    <3>1. Idle = FALSE
      BY <2>3 DEF Idle
    <3>2. stdin' = Append(stdin, FALSE)
      BY <1>1, <3>1, Zenon DEF PressEnter
    <3>3. Marked(stdin)' <=> Marked(stdin)
      BY <3>2, KeyFacts, Zenon
    <3>4. Marked(reader)' <=> Marked(reader)
      BY <2>1
    <3>. QED
      BY <2>1, <3>2, <3>3, <3>4, KeyFacts, Zenon
  <2>. QED
    BY <2>2, <2>3, Zenon
<1>2. CASE ReadKey
  <2>1. /\ reader = <<>> /\ reader' = <<stdin[1]>> /\ stdin[1] \in BOOLEAN
        /\ 1 \in 1..Len(stdin) /\ stdin' \in Seq(BOOLEAN)
        /\ \A i \in 1..Len(stdin') :
             i + 1 \in 1..Len(stdin) /\ i + 1 # 1 /\ stdin'[i] = stdin[i + 1]
    BY <1>2, KeyFacts DEF ReadKey
  <2>2. UNCHANGED <<ctxDone, stdinLoop, held, statsLoop, lostIdle>>
    BY <1>2 DEF ReadKey
  <2>3. \A i \in 1..Len(stdin') : stdin'[i] # TRUE
    BY <2>1, Zenon
  <2>4. ~Marked(stdin')
    BY <2>3, Zenon DEF Marked
  <2>5. reader' \in Seq(BOOLEAN) /\ (Marked(reader') => Marked(stdin))
    BY <2>1, OneKeyFacts DEF Marked
  <2>. QED
    BY <2>1, <2>2, <2>3, <2>4, <2>5, Zenon
<1>3. CASE OfferKey
  <2>1. /\ reader' = <<>> /\ UNCHANGED <<ctxDone, stdin, statsLoop>>
        /\ reader # <<>>
    BY <1>3 DEF OfferKey
  <2>2. ~Marked(stdin) /\ ~Marked(stdin)' /\ ~Marked(reader)' /\ reader' \in Seq(BOOLEAN)
    BY <2>1, NoKeyFacts
  <2>3. reader[1] \in BOOLEAN /\ (reader[1] = TRUE => Marked(reader))
    BY <2>1, KeyFacts DEF Marked
  <2>4. CASE stdinLoop = "parked"
    <3>1. stdinLoop' = "signal" /\ held' = reader[1] /\ lostIdle' = lostIdle
      BY <1>3, <2>4 DEF OfferKey
    <3>. QED
      BY <2>1, <2>2, <2>3, <2>4, <3>1
  <2>5. CASE stdinLoop # "parked"
    <3>1. /\ UNCHANGED <<stdinLoop, held>>
          /\ lostIdle' = (lostIdle \/ (reader[1] /\ ~ctxDone /\ statsLoop # "packets"))
      BY <1>3, <2>5 DEF OfferKey, Dropped
    <3>2. reader[1] = FALSE \/ ctxDone = TRUE
      BY <2>3, <2>5
    <3>3. lostIdle' = FALSE
      BY <3>1, <3>2, Zenon
    <3>. QED
      BY <2>1, <2>2, <3>1, <3>3
  <2>. QED
    BY <2>4, <2>5, Zenon
<1>4. CASE Signal
  <2>1. /\ UNCHANGED <<ctxDone, stdin, reader>> /\ held' = FALSE
        /\ stdinLoop = "signal" /\ stdinLoop' = "parked"
        /\ ~Marked(stdin)' /\ ~Marked(reader)'
    BY <1>4 DEF Signal
  <2>2. /\ statsLoop' \in {statsLoop, "packets"}
        /\ \/ lostIdle' = lostIdle
           \/ /\ statsLoop # "parked"
              /\ lostIdle' = (lostIdle \/ (held /\ ~ctxDone /\ statsLoop # "packets"))
    BY <1>4 DEF Signal, SignalReceived, Dropped
  <2>3. statsLoop \in {"parked", "packets"} \/ held = FALSE \/ ctxDone = TRUE
    OBVIOUS
  <2>4. lostIdle' = FALSE
    BY <2>2, <2>3, Zenon
  <2>. QED
    BY <2>1, <2>2, <2>4, Zenon
<1>5. CASE PrintPackets
  <2>1. /\ stdin' = [i \in DOMAIN stdin |-> FALSE]
        /\ reader' = [i \in DOMAIN reader |-> FALSE]
        /\ held' = FALSE /\ statsLoop' = "bytes"
        /\ UNCHANGED <<ctxDone, stdinLoop, lostIdle>>
    BY <1>5 DEF PrintPackets
  <2>2. /\ stdin' \in Seq(BOOLEAN) /\ ~Marked(stdin')
        /\ \A i \in 1..Len(stdin') : stdin'[i] = FALSE
    BY <2>1, AnsweredFacts, Zenon
  <2>3. reader' \in Seq(BOOLEAN) /\ ~Marked(reader')
    BY <2>1, AnsweredFacts, Zenon
  <2>. QED
    BY <2>1, <2>2, <2>3, Zenon
<1>6. CASE PrintBytes \/ Park \/ TakeTick \/ StatsLoopEnds
  <2>1. /\ UNCHANGED <<ctxDone, stdin, reader, stdinLoop, held, lostIdle>>
        /\ \/ statsLoop \notin {"parked", "packets", "ended"} /\ statsLoop' # "ended"
           \/ statsLoop' = "packets"
           \/ statsLoop' = "ended" /\ ctxDone = TRUE
    BY <1>6 DEF PrintBytes, Park, TakeTick, StatsLoopEnds, InSelect, keys
  <2>2. Marked(stdin)' = Marked(stdin) /\ Marked(reader)' = Marked(reader)
    BY <2>1
  <2>. QED
    BY <2>1, <2>2
<1>7. CASE Cancel \/ CountSent \/ TickerTicks \/ ReadError \/ StdinLoopEnds
  <2>1. /\ UNCHANGED <<stdin, reader, held, statsLoop, lostIdle>>
        /\ ctxDone' \in {ctxDone, TRUE}
        /\ stdinLoop' = stdinLoop \/ (stdinLoop' = "ended" /\ ctxDone' = TRUE)
        /\ stdinLoop # stdinLoop' => stdinLoop = "parked"
    BY <1>7, Zenon DEF Cancel, CountSent, TickerTicks, ReadError, StdinLoopEnds, keys
  <2>2. Marked(stdin)' = Marked(stdin) /\ Marked(reader)' = Marked(reader)
    BY <2>1
  <2>. QED
    BY <2>1, <2>2, Zenon
<1>8. CASE UNCHANGED consoleVars
  BY <1>8 DEF consoleVars, Marked
<1>. QED
  BY <1>1, <1>2, <1>3, <1>4, <1>5, <1>6, <1>7, <1>8, Zenon
     DEF ConsoleNext, Stdin, StdinLoop, StatsLoop

\* stdinLoop and the goroutine on stdin lose no Enter that was pressed on an
\* idle console, although neither of their sends waits for the receiver.
THEOREM IdleEntersAreKept == ConsoleSpec => []IdleEnterKept
<1>1. ConsoleInit => EnterInv
  <2>1. 1..Len(<<>>) = {}
    OBVIOUS
  <2>. QED
    BY <2>1, NoKeyFacts, Zenon DEF ConsoleInit, EnterInv, Reading
<1>2. EnterInv => IdleEnterKept
  BY DEF EnterInv, IdleEnterKept
<1>. QED
  BY <1>1, <1>2, StepEnter, PTL DEF ConsoleSpec

\* The types of what the goroutines hand each other, and those of the numbers
\* and the lines.
KeyTypes ==
  /\ ctxDone \in BOOLEAN /\ tick \in BOOLEAN /\ lostIdle \in BOOLEAN
  /\ stdinErr \in BOOLEAN /\ stdin \in Seq(BOOLEAN)
  /\ reader \in {Reading, <<TRUE>>, <<FALSE>>}
  /\ stdinLoop \in {"parked", "signal", "ended"} /\ held \in BOOLEAN
CountTypes ==
  /\ pressed \in 0..MaxEnters /\ Len(stdin) <= pressed
  /\ statsLoop \in {"none", "select", "parked", "packets", "bytes", "ended"}
  /\ TxPackets \in 0..MaxFrames /\ TxBytes \in 0..MaxFrames
  /\ TxBytes <= TxPackets
  /\ read \in Line /\ shown \in Line
  /\ unanswered \in {"no", "pressed", "printing"}

\* A key is added, read, or answered.
LEMMA KeyTypeFacts ==
  ASSUME NEW q \in Seq(BOOLEAN), NEW b \in BOOLEAN
  PROVE  /\ Append(q, b) \in Seq(BOOLEAN) /\ Len(Append(q, b)) = Len(q) + 1
         /\ Len(q) \in Nat
         /\ q # <<>> => /\ Tail(q) \in Seq(BOOLEAN) /\ Len(Tail(q)) <= Len(q)
                        /\ Head(q) \in BOOLEAN
OBVIOUS

\* A function on 1..n is a sequence.
LEMMA FunctionIsSeq ==
  ASSUME NEW n \in Nat, NEW f \in [1..n -> BOOLEAN]
  PROVE  f \in Seq(BOOLEAN) /\ Len(f) = n
OBVIOUS

\* printStats answers the keys that are on their way, and drops none.
LEMMA AnsweredTypes ==
  ASSUME NEW q \in Seq(BOOLEAN), NEW t, t = [i \in DOMAIN q |-> FALSE]
  PROVE  t \in Seq(BOOLEAN) /\ Len(t) = Len(q)
<1>1. Len(q) \in Nat /\ t \in [1..Len(q) -> BOOLEAN]
  OBVIOUS
<1>. QED
  BY <1>1

\* The goroutine on stdin holds no key or one.
LEMMA ReaderFacts ==
  ASSUME NEW r \in {<<>>, <<TRUE>>, <<FALSE>>}
  PROVE  /\ [i \in DOMAIN r |-> FALSE] \in {<<>>, <<FALSE>>}
         /\ r # <<>> => r[1] \in BOOLEAN
<1>1. CASE r = <<>>
  BY <1>1
<1>2. ASSUME NEW b \in BOOLEAN, r = <<b>>
      PROVE  [i \in DOMAIN r |-> FALSE] = <<FALSE>> /\ r[1] \in BOOLEAN
  <2>1. DOMAIN r = {1} /\ r[1] = b
    BY <1>2
  <2>2. [i \in {1} |-> FALSE] = <<FALSE>>
    <3>. DEFINE f == [i \in {1} |-> FALSE]
                g == <<FALSE>>
    <3>1. f \in Seq(BOOLEAN) /\ Len(f) = 1 /\ f[1] = FALSE
      <4>1. f \in [1..1 -> BOOLEAN] /\ f[1] = FALSE
        OBVIOUS
      <4>. HIDE DEF f
      <4>. QED
        BY <4>1, FunctionIsSeq, 1 \in Nat, Zenon
    <3>2. g \in Seq(BOOLEAN) /\ Len(g) = 1 /\ g[1] = FALSE
      OBVIOUS
    <3>. HIDE DEF f, g
    <3>3. f = g
      BY <3>1, <3>2
    <3>. QED
      BY <3>3, Zenon DEF f, g
  <2>. QED
    BY <2>1, <2>2, Zenon
<1>. QED
  BY <1>1, <1>2, Zenon

\* Every step keeps the types of the keys.
LEMMA StepKeyTypes ==
  ASSUME KeyTypes, [ConsoleNext]_consoleVars
  PROVE  KeyTypes'
<1>. USE DEF KeyTypes, Reading
<1>1. CASE PressEnter
  <2>1. Idle \in BOOLEAN
    BY Zenon DEF Idle
  <2>2. Append(stdin, Idle) \in Seq(BOOLEAN)
    BY <2>1, KeyTypeFacts
  <2>. QED
    BY <1>1, <2>2, Zenon DEF PressEnter
<1>2. CASE Cancel \/ CountSent \/ TickerTicks \/ ReadError \/ StdinLoopEnds
  BY <1>2, ZenonT(30) DEF Cancel, CountSent, TickerTicks, ReadError, StdinLoopEnds, keys
<1>3. CASE ReadKey
  <2>1. Tail(stdin) \in Seq(BOOLEAN) /\ Head(stdin) \in BOOLEAN
    BY <1>3, KeyTypeFacts DEF ReadKey
  <2>2. <<Head(stdin)>> \in {<<TRUE>>, <<FALSE>>}
    BY <2>1, Zenon
  <2>. QED
    BY <1>3, <2>1, <2>2, Zenon DEF ReadKey
<1>4. CASE OfferKey
  <2>1. reader[1] \in BOOLEAN
    BY <1>4, ReaderFacts, Zenon DEF OfferKey
  <2>2. held' \in BOOLEAN /\ lostIdle' \in BOOLEAN
    BY <1>4, <2>1, Zenon DEF OfferKey, Dropped
  <2>. QED
    BY <1>4, <2>2, Zenon DEF OfferKey
<1>5. CASE Signal
  <2>1. lostIdle' \in BOOLEAN
    BY <1>5, Zenon DEF Signal, Dropped
  <2>. QED
    BY <1>5, <2>1, Zenon DEF Signal
<1>6. CASE Park \/ TakeTick \/ StatsLoopEnds \/ PrintBytes
  BY <1>6, ZenonT(30) DEF Park, TakeTick, StatsLoopEnds, PrintBytes, keys
<1>7. CASE PrintPackets
  <2>1. stdin' \in Seq(BOOLEAN)
    BY <1>7, AnsweredTypes, Zenon DEF PrintPackets
  <2>2. reader' \in {<<>>, <<FALSE>>}
    BY <1>7, ReaderFacts, Zenon DEF PrintPackets
  <2>. QED
    BY <1>7, <2>1, <2>2, Zenon DEF PrintPackets
<1>8. CASE UNCHANGED consoleVars
  BY <1>8, Zenon DEF consoleVars
<1>. QED
  BY <1>1, <1>2, <1>3, <1>4, <1>5, <1>6, <1>7, <1>8, Zenon
     DEF ConsoleNext, Stdin, StdinLoop, StatsLoop

\* Every step keeps the types of the numbers.
LEMMA StepCountTypes ==
  ASSUME KeyTypes, CountTypes, [ConsoleNext]_consoleVars
  PROVE  CountTypes'
<1>. USE ConsoleAssumption DEF CountTypes
<1>0. stdin \in Seq(BOOLEAN) /\ Len(stdin) \in Nat
  BY DEF KeyTypes
<1>1. CASE PressEnter
  <2>1. Idle \in BOOLEAN
    BY Zenon DEF Idle
  <2>2. Len(stdin') = Len(stdin) + 1
    BY <1>0, <1>1, <2>1, KeyTypeFacts DEF PressEnter
  <2>. QED
    BY <1>0, <1>1, <2>2 DEF PressEnter, counters
<1>2. CASE CountSent
  BY <1>2 DEF CountSent, keys
<1>3. CASE Cancel \/ TickerTicks \/ ReadError \/ StdinLoopEnds \/ OfferKey
  BY <1>3, Zenon
     DEF Cancel, TickerTicks, ReadError, StdinLoopEnds, OfferKey, keys, counters
<1>4. CASE ReadKey
  <2>1. Len(stdin') \in Nat /\ Len(stdin') <= Len(stdin)
    BY <1>0, <1>4, KeyTypeFacts, TRUE \in BOOLEAN DEF ReadKey
  <2>. QED
    BY <1>0, <1>4, <2>1 DEF ReadKey, counters
<1>5. CASE Signal
  BY <1>5 DEF Signal, counters
<1>6. CASE Park \/ TakeTick \/ StatsLoopEnds
  BY <1>6 DEF Park, TakeTick, StatsLoopEnds, keys, counters
<1>7. CASE PrintPackets
  <2>1. Len(stdin') = Len(stdin)
    BY <1>0, <1>7, AnsweredTypes DEF PrintPackets
  <2>2. read' \in Line
    BY <1>7, Zenon DEF PrintPackets, Loaded, Line
  <2>. QED
    BY <1>7, <2>1, <2>2 DEF PrintPackets, counters
<1>8. CASE PrintBytes
  <2>1. read' \in Line
    BY <1>8, Zenon DEF PrintBytes, Loaded, Line
  <2>. QED
    BY <1>8, <2>1 DEF PrintBytes, keys, counters
<1>9. CASE UNCHANGED consoleVars
  BY <1>9 DEF consoleVars
<1>. QED
  BY <1>1, <1>2, <1>3, <1>4, <1>5, <1>6, <1>7, <1>8, <1>9, Zenon
     DEF ConsoleNext, Stdin, StdinLoop, StatsLoop

\* The variables of the console keep their types; among them, sendLoop never
\* has counted more bytes than it counted frames.
THEOREM ConsoleTypes == ConsoleSpec => []ConsoleTypeOK
<1>1. ConsoleInit => KeyTypes /\ CountTypes
  <2>. SUFFICES ASSUME ConsoleInit PROVE KeyTypes /\ CountTypes
    OBVIOUS
  <2>1. <<>> \in Seq(BOOLEAN) /\ Len(<<>>) = 0
    OBVIOUS
  <2>2. KeyTypes
    BY <2>1, Zenon DEF ConsoleInit, KeyTypes
  <2>3. CountTypes
    BY <2>1, ConsoleAssumption DEF ConsoleInit, CountTypes, Line
  <2>. QED
    BY <2>2, <2>3
<1>2. KeyTypes /\ CountTypes => ConsoleTypeOK
  BY Zenon DEF KeyTypes, CountTypes, ConsoleTypeOK
<1>3. KeyTypes /\ CountTypes /\ [ConsoleNext]_consoleVars => (KeyTypes /\ CountTypes)'
  BY StepKeyTypes, StepCountTypes
<1>. QED
  BY <1>1, <1>2, <1>3, PTL DEF ConsoleSpec

=============================================================================
