---------------------------- MODULE BridgeProofs ----------------------------
(***************************************************************************)
(* Proofs about Bridge, for every capacity, miss limit and statistics       *)
(* interval.  The safety properties follow from one inductive invariant     *)
(* that ties the program counter of Run to everything the goroutines share. *)
(***************************************************************************)
EXTENDS Bridge, TLAPS

E1 == <<"CONNECTING">>
E2 == <<"CONNECTING", "CONNECTED">>
E3 == <<"CONNECTING", "CONNECTED", "DISCONNECTED">>

\* Nobody is between the two halves of setState, or c alone is.
NoEmit == [c \in Callers |-> {}]
Only(c, s) == [x \in Callers |-> IF x = c THEN {s} ELSE {}]

\* c has changed the state to s and emits it, or has done so.
Due(c, s, before, after) ==
  \/ toEmit = Only(c, s) /\ emitted = before
  \/ toEmit = NoEmit /\ emitted = after

\* State and events against the progress of Run: at most one goroutine at a
\* time has an event to emit, and while the loops run it is one of them.
EventsInv ==
  /\ run = "idle" => state = "DISCONNECTED" /\ toEmit = NoEmit /\ emitted = <<>>
  /\ run = "handshake" =>
       state = "CONNECTING" /\ Due("run", "CONNECTING", <<>>, E1)
  /\ run = "start" => state = "CONNECTED" /\ Due("run", "CONNECTED", E1, E2)
  /\ run \in Connected =>
       \/ state = "CONNECTED" /\ toEmit = NoEmit /\ emitted = E2
       \/ /\ state = "DISCONNECTED"
          /\ \E c \in {"recv", "ping"} : Due(c, "DISCONNECTED", E2, E3)
  /\ run = "return" => state = "DISCONNECTED" /\ Due("run", "DISCONNECTED", E2, E3)
  /\ run = "returned" =>
       /\ toEmit = NoEmit
       /\ \/ outcome = "none" /\ state = "CONNECTING" /\ emitted = E1
          \/ outcome # "none" /\ state = "DISCONNECTED" /\ emitted = E3

\* A handler that has lost the peer is on its way to close b.done, or somebody
\* has closed it, before the loop may end.
LossInv ==
  /\ \A l \in {"recv", "ping"} :
       /\ toEmit[l] # {} => pc[l] = "closing"
       /\ pc[l] = "closing" => state = "DISCONNECTED"
  /\ run \in Connected /\ state = "DISCONNECTED" /\ Running =>
       doneBy = "once" \/ \E l \in {"recv", "ping"} : pc[l] = "closing"

\* Which branch Run took, and why it could.
OutcomeInv ==
  /\ run \in {"idle", "handshake", "start", "select", "decide"} => outcome = "none"
  /\ run \in Teardown \cup {"return"} => outcome # "none"
  /\ run \in {"bye", "closeDone"} => outcome = "app"
  /\ run = "decide" => ctxDone \/ done
  /\ outcome = "app" => ctxDone
  /\ byeSent => outcome = "app"
  /\ ret = "peerDisconnected" => outcome = "peer"

\* Who closed b.done, and on what evidence.
DoneInv ==
  /\ doneBy = "once" => cause # "none"
  /\ doneBy = "run" => outcome = "app"
  /\ run \in {"closeTransport", "closeCapture", "wait", "return"} /\ outcome = "app"
       => doneBy = "run"
  /\ outcome = "peer" => cause # "none"

\* The goroutines live inside Connected; transport and capture are closed
\* only by the teardown.
LifeInv ==
  /\ run \notin Connected => AllStopped
  /\ run \in {"closeCapture", "wait"} => trans = "closed"
  /\ capture = "closed" => run \in {"wait", "return", "returned"}

\* A loop ends only on a cancelled context; a handler that closes b.done has
\* reported the loss before.
StopInv ==
  /\ run = "idle" => doneBy = "nobody"
  /\ run \in Connected \cup {"return"} => pc["recv"] # "off"
  /\ \A l \in Loops : pc[l] = "stopped" => ctxDone
  /\ doneBy = "once" => state = "DISCONNECTED"
  /\ outcome = "peer" => state = "DISCONNECTED"
  /\ run = "returned" <=> ret # "none"

PanicInv ==
  /\ panicked # "no" => run \in Teardown
  /\ panicked = "closeOfClosed" => ctxDone

\* All of it but the types and the events.
Control ==
  /\ LossInv
  /\ OutcomeInv
  /\ DoneInv
  /\ LifeInv
  /\ StopInv
  /\ PanicInv

IInv == TypeOK /\ EventsInv /\ Control

-----------------------------------------------------------------------------
\* A sequence that extends s by one element e is Append(s, e).
LEMMA AppendIs ==
  ASSUME NEW S, NEW s \in Seq(S), NEW e \in S, NEW t \in Seq(S),
         Len(t) = Len(s) + 1, \A i \in 1..Len(s) : t[i] = s[i], t[Len(t)] = e
  PROVE  Append(s, e) = t
OBVIOUS

\* The three transitions setState reports, as appended events.
LEMMA EventAppend ==
  /\ Append(<<>>, "CONNECTING") = E1
  /\ Append(E1, "CONNECTED") = E2
  /\ Append(E2, "DISCONNECTED") = E3
<1> DEFINE S == {"CONNECTING", "CONNECTED", "DISCONNECTED"}
<1>1. E1 \in Seq(S) /\ Len(E1) = 1
  BY DEF E1
<1>2. E2 \in Seq(S) /\ Len(E2) = 2 /\ E2[1] = E1[1] /\ E2[2] = "CONNECTED"
  BY DEF E1, E2
<1>3. /\ E3 \in Seq(S) /\ Len(E3) = 3 /\ E3[1] = E2[1] /\ E3[2] = E2[2]
      /\ E3[3] = "DISCONNECTED"
  BY DEF E2, E3
<1>4. "CONNECTED" \in S /\ "DISCONNECTED" \in S
  OBVIOUS
<1> HIDE DEF S
<1>5. Append(<<>>, "CONNECTING") = E1
  BY DEF E1
<1>6. Append(E1, "CONNECTED") = E2
  <2>1. /\ Len(E2) = Len(E1) + 1 /\ E2[Len(E2)] = "CONNECTED"
        /\ \A i \in 1..Len(E1) : E2[i] = E1[i]
    BY <1>1, <1>2
  <2> QED
    BY <1>1, <1>2, <1>4, <2>1, AppendIs, Zenon
<1>7. Append(E2, "DISCONNECTED") = E3
  <2>1. /\ Len(E3) = Len(E2) + 1 /\ E3[Len(E3)] = "DISCONNECTED"
        /\ \A i \in 1..Len(E2) : E3[i] = E2[i]
    BY <1>2, <1>3
  <2> QED
    BY <1>2, <1>3, <1>4, <2>1, AppendIs, Zenon
<1> QED
  BY <1>5, <1>6, <1>7

\* What the two halves of setState do to toEmit.
LEMMA EmitFacts ==
  /\ NoEmit \in [Callers -> {{}} \cup {{s} : s \in State}]
  /\ \A c \in Callers : NoEmit[c] = {} /\ [NoEmit EXCEPT ![c] = {}] = NoEmit
  /\ \A c \in Callers, s \in State :
       /\ [NoEmit EXCEPT ![c] = {s}] = Only(c, s)
       /\ Only(c, s) \in [Callers -> {{}} \cup {{t} : t \in State}]
       /\ Only(c, s)[c] = {s} /\ [Only(c, s) EXCEPT ![c] = {}] = NoEmit
       /\ \A d \in Callers \ {c} :
            Only(c, s)[d] = {} /\ [Only(c, s) EXCEPT ![d] = {}] = Only(c, s)
<1>1. NoEmit \in [Callers -> {{}} \cup {{s} : s \in State}]
  BY DEF NoEmit
<1>2. ASSUME NEW c \in Callers
      PROVE  NoEmit[c] = {} /\ [NoEmit EXCEPT ![c] = {}] = NoEmit
  BY DEF NoEmit
<1>3. ASSUME NEW c \in Callers, NEW s \in State
      PROVE  /\ [NoEmit EXCEPT ![c] = {s}] = Only(c, s)
             /\ Only(c, s) \in [Callers -> {{}} \cup {{t} : t \in State}]
             /\ Only(c, s)[c] = {s} /\ [Only(c, s) EXCEPT ![c] = {}] = NoEmit
  BY Zenon DEF NoEmit, Only
<1>4. ASSUME NEW c \in Callers, NEW s \in State, NEW d \in Callers \ {c}
      PROVE  Only(c, s)[d] = {} /\ [Only(c, s) EXCEPT ![d] = {}] = Only(c, s)
  BY DEF NoEmit, Only
<1> QED
  BY <1>1, <1>2, <1>3, <1>4

\* Out of setState, c has emitted the event that was due.
LEMMA DueDone ==
  ASSUME NEW c \in Callers, NEW s \in State, NEW before, NEW after,
         Due(c, s, before, after), StateSet(c)
  PROVE  toEmit = NoEmit /\ emitted = after
BY EmitFacts DEF Due, StateSet

\* Emit by c, which has set the state to s, of the event that is due.
LEMMA DueEmit ==
  ASSUME NEW c \in Callers, NEW s \in State, NEW before, NEW after,
         Due(c, s, before, after), Append(before, s) = after, Emit(c)
  PROVE  toEmit' = NoEmit /\ emitted' = after
BY EmitFacts DEF Due, Emit

\* A bridge fresh from New satisfies the invariant.
LEMMA InitInv == Init => IInv
<1> SUFFICES ASSUME Init PROVE IInv
  OBVIOUS
<1> USE DEF Init
<1>1. TypeOK
  <2>1. capture \in {"unset", "open"} /\ disc \in {"off", "search"}
    OBVIOUS
  <2>2. ctxDone \in BOOLEAN /\ byeSent \in BOOLEAN /\ pendingPing \in BOOLEAN
    BY Zenon
  <2>3. /\ emitted \in Seq(State)
        /\ framesToSend \in 0..ChannelBufferSize
        /\ framesToInject \in 0..ChannelBufferSize
        /\ missedPongs \in 0..MaxMissedPongs
    BY BridgeAssumption
  <2>4. toEmit \in [Callers -> {{}} \cup {{s} : s \in State}]
    BY EmitFacts DEF NoEmit
  <2> QED
    BY <2>1, <2>2, <2>3, <2>4 DEF TypeOK, State
<1>2. EventsInv /\ OutcomeInv /\ DoneInv
  BY DEF EventsInv, NoEmit, OutcomeInv, DoneInv, Connected, Teardown
<1>3. LossInv /\ LifeInv /\ StopInv /\ PanicInv
  BY DEF LossInv, LifeInv, StopInv, PanicInv, AllStopped, Callers, Connected,
         Teardown, Loops
<1> QED
  BY <1>1, <1>2, <1>3 DEF IInv, Control

\* setState by c, as the other conjuncts of the invariant see it.
LEMMA SetStateFacts ==
  ASSUME TypeOK, NEW c \in Callers, NEW s \in State, setState(c, s)
  PROVE  /\ state' = s /\ emitted' = emitted
         /\ toEmit' \in [Callers -> {{}} \cup {{t} : t \in State}]
         /\ \A d \in Callers \ {c} : toEmit'[d] = toEmit[d]
BY DEF TypeOK, setState

\* And Emit by c.
LEMMA EmitKeeps ==
  ASSUME TypeOK, NEW c \in Callers, Emit(c)
  PROVE  /\ toEmit' \in [Callers -> {{}} \cup {{t} : t \in State}]
         /\ \A d \in Callers : toEmit'[d] # {} => toEmit[d] # {}
         /\ emitted' \in Seq(State)
<1>1. PICK s \in toEmit[c] : emitted' = Append(emitted, s)
  BY DEF Emit
<1>2. s \in State
  BY <1>1 DEF TypeOK
<1>3. emitted' \in Seq(State)
  BY <1>1, <1>2 DEF TypeOK
<1>4. toEmit' = [toEmit EXCEPT ![c] = {}]
  BY DEF Emit
<1> QED
  BY <1>3, <1>4 DEF TypeOK

\* The steps of Run that change neither the state nor its events, and the
\* steps of the others that do not.
RunQuietly ==
  SelectWake \/ Decide \/ SendBye \/ CloseDone \/ CloseTransport \/ CloseCapture
OthersQuietly ==
  \/ CaptureStep \/ SendFrame \/ InjectStep
  \/ Check("recv") \/ RecvNothing \/ RecvError \/ handleFrame
  \/ \E type \in PeerMessages : RecvMessage(type)
  \/ \E matching \in BOOLEAN : handlePong(matching)
  \/ SignalLoss("recv", "bye") \/ SignalLoss("ping", "unresponsive") \/ sendPing
  \/ \E l \in Loops : Stop(l)
  \/ Cancel \/ DiscoveryStep

\* What Run and the others leave alone in those steps.
LEMMA QuietSteps ==
  /\ RunQuietly => run \in Connected /\ run' \in Connected /\ UNCHANGED stVars
  /\ OthersQuietly => UNCHANGED <<runVars, stVars>>
<1>1. RunQuietly => run \in Connected /\ run' \in Connected /\ UNCHANGED stVars
  BY Zenon DEF RunQuietly, SelectWake, Decide, SendBye, CloseDone, CloseTransport,
               CloseCapture, Connected, Teardown
<1>2. OthersQuietly => UNCHANGED <<runVars, stVars>>
  BY Zenon DEF OthersQuietly, CaptureStep, InjectStep, DiscoveryStep, CaptureReady, Check,
               CaptureRead, SendFrame, InjectFrame, RecvNothing, RecvError, RecvMessage,
               handleFrame, handlePong, SignalLoss, sendPing, Stop, Cancel,
               DiscoverError, DiscoverFound, OpenFailed, SetCapture
<1> QED
  BY <1>1, <1>2

\* What follows for the step of either lemma about Next.
LEMMA Steps ==
  [Next]_vars =>
    \/ RunQuietly \/ OthersQuietly \/ UNCHANGED vars
    \/ RunStart \/ HandshakeOk \/ HandshakeFailed \/ StartLoops \/ WaitAll \/ Return
    \/ handleBye \/ PingGiveUp
    \/ Emit("run") \/ Emit("recv") \/ Emit("ping")
BY Zenon DEF Next, RunQuietly, OthersQuietly, RunStep, RecvStep, PingStep, GiveUpStep

\* The events keep up with the state.
LEMMA StepEvents == IInv /\ [Next]_vars => EventsInv'
<1> SUFFICES ASSUME IInv, [Next]_vars PROVE EventsInv'
  OBVIOUS
<1> USE DEF IInv, Control
<1>1. CASE RunQuietly
  <2>1. run \in Connected /\ run' \in Connected /\ UNCHANGED <<state, toEmit, emitted>>
    BY <1>1, QuietSteps DEF stVars
  <2> QED
    BY <2>1 DEF EventsInv, Due, Connected, Teardown
<1>2. CASE OthersQuietly \/ UNCHANGED vars
  <2>1. UNCHANGED <<run, outcome, state, toEmit, emitted>>
    BY <1>2, QuietSteps, Zenon DEF vars, runVars, stVars
  <2> QED
    BY <2>1 DEF EventsInv, Due
<1>3. CASE RunStart
  <2>1. toEmit = NoEmit /\ emitted = <<>> /\ state = "DISCONNECTED"
    BY <1>3 DEF RunStart, EventsInv
  <2>2. toEmit' = Only("run", "CONNECTING") /\ emitted' = <<>> /\ state' = "CONNECTING"
    BY <1>3, <2>1, EmitFacts DEF RunStart, setState, Callers, State
  <2> QED
    BY <1>3, <2>2 DEF RunStart, EventsInv, Due, Connected, Teardown
<1>4. CASE HandshakeOk
  <2>1. toEmit = NoEmit /\ emitted = E1 /\ state = "CONNECTING"
    BY <1>4, DueDone DEF HandshakeOk, EventsInv, Callers, State
  <2>2. toEmit' = Only("run", "CONNECTED") /\ emitted' = E1 /\ state' = "CONNECTED"
    BY <1>4, <2>1, EmitFacts DEF HandshakeOk, setState, Callers, State
  <2> QED
    BY <1>4, <2>2 DEF HandshakeOk, EventsInv, Due, Connected, Teardown
<1>5. CASE HandshakeFailed
  <2>1. toEmit = NoEmit /\ emitted = E1 /\ state = "CONNECTING"
    BY <1>5, DueDone DEF HandshakeFailed, EventsInv, Callers, State
  <2>2. outcome = "none"
    BY <1>5 DEF HandshakeFailed, OutcomeInv
  <2> QED
    BY <1>5, <2>1, <2>2 DEF HandshakeFailed, stVars, EventsInv, Connected, Teardown
<1>6. CASE StartLoops
  <2>1. toEmit = NoEmit /\ emitted = E2 /\ state = "CONNECTED"
    BY <1>6, DueDone DEF StartLoops, EventsInv, Callers, State
  <2> QED
    BY <1>6, <2>1 DEF StartLoops, stVars, EventsInv, Connected, Teardown
<1>7. CASE WaitAll
  <2>1. StateSet("recv") /\ StateSet("ping")
    BY <1>7 DEF WaitAll, AllStopped, Loops, LossInv, StateSet
  <2>2. \/ state = "CONNECTED" /\ toEmit = NoEmit /\ emitted = E2
        \/ state = "DISCONNECTED" /\ toEmit = NoEmit /\ emitted = E3
    BY <1>7, <2>1, DueDone DEF WaitAll, EventsInv, Connected, Teardown, Callers, State
  <2>3. Due("run", "DISCONNECTED", E2, E3)' /\ state' = "DISCONNECTED"
    BY <1>7, <2>2, EmitFacts DEF WaitAll, setState, Due, Callers, State
  <2> QED
    BY <1>7, <2>3 DEF WaitAll, EventsInv, Connected, Teardown
<1>8. CASE Return
  <2>1. toEmit = NoEmit /\ emitted = E3 /\ state = "DISCONNECTED"
    BY <1>8, DueDone DEF Return, EventsInv, Callers, State
  <2>2. outcome # "none"
    BY <1>8 DEF Return, OutcomeInv
  <2> QED
    BY <1>8, <2>1, <2>2 DEF Return, stVars, EventsInv, Connected, Teardown
<1>9. CASE handleBye \/ PingGiveUp
  <2>1. PICK c \in {"recv", "ping"} : setState(c, "DISCONNECTED") /\ pc[c] # "closing"
    BY <1>9, Zenon DEF handleBye, PingGiveUp, At
  <2>2. run \in Connected /\ UNCHANGED <<run, outcome>>
    BY <1>9 DEF handleBye, PingGiveUp, At, LifeInv, AllStopped, Loops, runVars
  <2>3. CASE state = "CONNECTED"
    <3>1. toEmit = NoEmit /\ emitted = E2
      BY <2>2, <2>3 DEF EventsInv
    <3>2. toEmit' = Only(c, "DISCONNECTED") /\ emitted' = E2 /\ state' = "DISCONNECTED"
      BY <2>1, <2>3, <3>1, EmitFacts DEF setState, Callers, State
    <3> QED
      BY <2>2, <3>2 DEF EventsInv, Due, Connected, Teardown
  <2>4. CASE state = "DISCONNECTED"
    <3>1. PICK d \in {"recv", "ping"} : Due(d, "DISCONNECTED", E2, E3)
      BY <2>2, <2>4 DEF EventsInv
    <3>2. toEmit[c] = {}
      BY <2>1 DEF LossInv
    <3>3. toEmit' = toEmit /\ emitted' = emitted /\ state' = "DISCONNECTED"
      BY <2>1, <2>4, <3>2 DEF setState, TypeOK, Callers
    <3> QED
      BY <2>2, <3>1, <3>3 DEF EventsInv, Due, Connected, Teardown
  <2> QED
    BY <2>2, <2>3, <2>4 DEF EventsInv
<1>10. CASE Emit("run")
  <2>1. toEmit["run"] # {} /\ UNCHANGED <<run, outcome, state>>
    BY <1>10 DEF Emit, runVars
  <2>2. CASE run \in Connected \cup {"idle", "returned"}
    <3>1. toEmit = NoEmit \/ \E c \in {"recv", "ping"} : toEmit = Only(c, "DISCONNECTED")
      BY <2>2 DEF EventsInv, Due
    <3> QED
      BY <2>1, <3>1, EmitFacts DEF Callers, State
  <2>3. CASE run = "handshake"
    <3>1. toEmit' = NoEmit /\ emitted' = E1 /\ state = "CONNECTING"
      BY <1>10, <2>3, EventAppend, DueEmit DEF EventsInv, Callers, State
    <3> QED
      BY <2>1, <2>3, <3>1 DEF EventsInv, Due, Connected, Teardown
  <2>4. CASE run = "start"
    <3>1. toEmit' = NoEmit /\ emitted' = E2 /\ state = "CONNECTED"
      BY <1>10, <2>4, EventAppend, DueEmit DEF EventsInv, Callers, State
    <3> QED
      BY <2>1, <2>4, <3>1 DEF EventsInv, Due, Connected, Teardown
  <2>5. CASE run = "return"
    <3>1. toEmit' = NoEmit /\ emitted' = E3 /\ state = "DISCONNECTED"
      BY <1>10, <2>5, EventAppend, DueEmit DEF EventsInv, Callers, State
    <3> QED
      BY <2>1, <2>5, <3>1 DEF EventsInv, Due, Connected, Teardown
  <2> QED
    BY <2>2, <2>3, <2>4, <2>5 DEF TypeOK
<1>11. ASSUME NEW c \in {"recv", "ping"}, Emit(c) PROVE EventsInv'
  <2>1. toEmit[c] # {} /\ UNCHANGED <<run, outcome, state>>
    BY <1>11 DEF Emit, runVars
  <2>2. run \in Connected
    BY <2>1 DEF LossInv, LifeInv, AllStopped, Loops
  <2>3. state = "DISCONNECTED"
    BY <2>1 DEF LossInv
  <2>4. PICK d \in {"recv", "ping"} : Due(d, "DISCONNECTED", E2, E3)
    BY <2>2, <2>3 DEF EventsInv
  <2>5. d = c
    BY <2>1, <2>4, EmitFacts DEF Due, Callers, State
  <2>6. toEmit' = NoEmit /\ emitted' = E3
    BY <1>11, <2>4, <2>5, EventAppend, DueEmit DEF Callers, State
  <2> QED
    BY <2>1, <2>2, <2>3, <2>6 DEF EventsInv, Due, Connected, Teardown
<1> QED
  BY <1>1, <1>2, <1>3, <1>4, <1>5, <1>6, <1>7, <1>8, <1>9, <1>10, <1>11, Steps, Zenon

\* What EventsInv says of the state alone.
LEMMA StateAt ==
  ASSUME EventsInv
  PROVE  /\ run = "handshake" => state = "CONNECTING"
         /\ run = "start" => state = "CONNECTED"
         /\ run = "return" => state = "DISCONNECTED"
         /\ run = "returned" => (outcome # "none" <=> state = "DISCONNECTED")
BY DEF EventsInv

\* What the control part of the invariant is about, apart from pc.
ctlVars == <<ctxDone, runVars, doneVars, state, toEmit, panicked, trans, capture>>

\* A live goroutine l goes on to `to', and does nothing else that matters.
Moved(l, to) ==
  /\ pc[l] \notin {"off", "stopped", "closing"}
  /\ to \notin {"off", "closing"} /\ (to = "stopped" => ctxDone)
  /\ Goto(l, to)
  /\ UNCHANGED ctlVars

\* A goroutine that goes round its loop, or ends on a cancelled context, keeps
\* the control part of the invariant.
LEMMA MovedControl ==
  ASSUME TypeOK, Control, NEW l \in Loops, NEW to, Moved(l, to)
  PROVE  Control'
<1> USE DEF Moved, ctlVars, runVars, doneVars
<1>1. /\ pc'[l] = to
      /\ \A k \in Loops : pc'[k] = pc[k] \/ k = l
  BY DEF TypeOK, Goto
<1>2. run \in Connected
  BY DEF Control, LifeInv, AllStopped
<1>3. LossInv'
  BY <1>1 DEF Control, LossInv, Running, Loops
<1>4. OutcomeInv' /\ DoneInv' /\ PanicInv'
  BY DEF Control, OutcomeInv, DoneInv, PanicInv, done
<1>5. LifeInv'
  BY <1>2 DEF Control, LifeInv
<1>6. StopInv'
  BY <1>1 DEF Control, StopInv, Loops
<1> QED
  BY <1>3, <1>4, <1>5, <1>6 DEF Control

\* A step that leaves the control alone.
LEMMA StillControl ==
  ASSUME Control, UNCHANGED ctlVars, UNCHANGED pc
  PROVE  Control'
BY DEF Control, LossInv, OutcomeInv, DoneInv, LifeInv, StopInv, PanicInv, ctlVars,
       runVars, doneVars, done, Running, AllStopped

\* The goroutines going round their loops.
Rounds ==
  \/ CaptureReady("capture") \/ CaptureReady("inject")
  \/ Check("capture") \/ Check("recv") \/ RecvNothing \/ RecvError
  \/ \E type \in PeerMessages : RecvMessage(type)
  \/ handleFrame \/ \E matching \in BOOLEAN : handlePong(matching)
  \/ \E l \in Loops : Stop(l)

\* Each of these steps moves one live goroutine and nothing else.
LEMMA RoundsMove == Rounds => \E l \in Loops : \E to : Moved(l, to)
<1> SUFFICES ASSUME Rounds PROVE \E l \in Loops : \E to : Moved(l, to)
  OBVIOUS
<1>1. {"capture", "inject", "recv"} \subseteq Loops
  BY DEF Loops
<1>2. CASE CaptureReady("capture") \/ CaptureReady("inject")
  BY <1>1, <1>2, Zenon DEF CaptureReady, At, Moved, ctlVars, stVars, ioVars
<1>3. CASE Check("capture") \/ Check("recv")
  BY <1>1, <1>3, Zenon DEF Check, At, Moved, ctlVars, stVars, ioVars
<1>4. CASE RecvNothing \/ handleFrame \/ \E matching \in BOOLEAN : handlePong(matching)
  BY <1>1, <1>4, Zenon
  DEF RecvNothing, handleFrame, handlePong, At, Moved, ctlVars, stVars, ioVars
<1>5. CASE RecvError
  <2>1. CASE ctxDone
    BY <1>1, <1>5, <2>1, Zenon DEF RecvError, At, Moved, ctlVars, stVars, ioVars
  <2>2. CASE ~ctxDone
    BY <1>1, <1>5, <2>2, Zenon DEF RecvError, At, Moved, ctlVars, stVars, ioVars
  <2> QED
    BY <2>1, <2>2
<1>6. CASE \E type \in PeerMessages : RecvMessage(type)
  <2>1. PICK type \in PeerMessages : RecvMessage(type)
    BY <1>6
  <2>2. type \notin {"off", "closing", "stopped"}
    BY BridgeAssumption
  <2> QED
    BY <1>1, <2>1, <2>2, Zenon DEF RecvMessage, At, Moved, ctlVars, stVars, ioVars
<1>7. CASE \E l \in Loops : Stop(l)
  BY <1>7, Zenon DEF Stop, At, Moved, ctlVars, stVars, ioVars
<1> QED
  BY <1>2, <1>3, <1>4, <1>5, <1>6, <1>7, Zenon DEF Rounds

\* Run keeps the control part of the invariant.
LEMMA RunControl ==
  ASSUME IInv, EventsInv',
         \/ RunQuietly \/ RunStart \/ HandshakeOk \/ HandshakeFailed \/ StartLoops
         \/ WaitAll \/ Return
  PROVE  Control'
<1> USE DEF IInv, Control, LossInv, OutcomeInv, DoneInv, LifeInv, StopInv, PanicInv,
        Connected, Teardown, AllStopped, Running, done, runVars, doneVars, stVars, ioVars
<1>1. CASE RunStart
  <2>1. setState("run", "CONNECTING")
    BY <1>1, Zenon DEF RunStart
  <2> QED
    BY <1>1, <2>1, SetStateFacts DEF RunStart, Callers, State, Loops
<1>2. CASE HandshakeOk
  <2>1. setState("run", "CONNECTED")
    BY <1>2, Zenon DEF HandshakeOk
  <2> QED
    BY <1>2, <2>1, SetStateFacts, StateAt DEF HandshakeOk, Callers, State, Loops
<1>3. CASE HandshakeFailed
  BY <1>3, StateAt DEF HandshakeFailed
<1>4. CASE StartLoops
  BY <1>4, StateAt DEF StartLoops, Loops
<1>5. CASE SelectWake
  BY <1>5 DEF SelectWake
<1>6. CASE Decide
  BY <1>6 DEF Decide, TypeOK
<1>7. CASE SendBye
  BY <1>7 DEF SendBye
<1>8. CASE CloseDone
  BY <1>8 DEF CloseDone
<1>9. CASE CloseTransport
  BY <1>9 DEF CloseTransport
<1>10. CASE CloseCapture
  BY <1>10 DEF CloseCapture
<1>11. CASE WaitAll
  <2>1. setState("run", "DISCONNECTED")
    BY <1>11, Zenon DEF WaitAll
  <2> QED
    BY <1>11, <2>1, SetStateFacts DEF WaitAll, Callers, State, Loops
<1>12. CASE Return
  BY <1>12, StateAt DEF Return
<1> QED
  BY <1>1, <1>2, <1>3, <1>4, <1>5, <1>6, <1>7, <1>8, <1>9, <1>10, <1>11, <1>12, Zenon
     DEF RunQuietly

\* So do the goroutines, the discovery and the user.
LEMMA OthersControl ==
  ASSUME IInv, EventsInv',
         \/ OthersQuietly \/ handleBye \/ PingGiveUp
         \/ (\E c \in Callers : Emit(c)) \/ UNCHANGED vars
  PROVE  Control'
<1>1. TypeOK /\ Control /\ "recv" \in Loops /\ "ping" \in Loops /\ "capture" \in Loops
  BY DEF IInv, Loops
<1>2. CASE Rounds
  BY <1>1, <1>2, RoundsMove, MovedControl, Zenon
<1>3. CASE SendFrame \/ DiscoverError \/ DiscoverFound \/ OpenFailed \/ UNCHANGED vars
  <2>1. UNCHANGED ctlVars /\ UNCHANGED pc
    BY <1>3, Zenon DEF SendFrame, DiscoverError, DiscoverFound, OpenFailed, vars, ctlVars,
                       stVars, ioVars
  <2> QED
    BY <1>1, <2>1, StillControl, Zenon
<1>4. CASE sendPing
  <2>1. CASE UNCHANGED pc
    <3>1. UNCHANGED ctlVars
      BY <1>4, Zenon DEF sendPing, ctlVars, stVars, ioVars
    <3> QED
      BY <1>1, <2>1, <3>1, StillControl, Zenon
  <2>2. CASE Goto("ping", "giveup")
    <3>1. Moved("ping", "giveup")
      BY <1>4, <2>2, Zenon DEF sendPing, At, Moved, ctlVars, stVars, ioVars
    <3> QED
      BY <1>1, <3>1, MovedControl, Zenon
  <2> QED
    BY <1>4, <2>1, <2>2, Zenon DEF sendPing
<1>5. CASE CaptureRead
  <2>1. CASE UNCHANGED panicked
    <3>1. Moved("capture", "top")
      BY <1>5, <2>1, Zenon DEF CaptureRead, At, Moved, ctlVars, stVars, ioVars
    <3> QED
      BY <1>1, <3>1, MovedControl, Zenon
  <2>2. CASE capture = "closed" /\ panicked' = "nilHandle"
    <3>1. /\ pc["capture"] = "read" /\ Goto("capture", "top")
          /\ UNCHANGED <<ctxDone, runVars, doneVars, state, toEmit, trans, capture>>
      BY <1>5, Zenon DEF CaptureRead, At, stVars, ioVars
    <3>2. run = "wait"
      BY <1>1, <2>2, <3>1 DEF Control, LifeInv, AllStopped, Loops, Connected, Teardown
    <3>3. pc'["capture"] = "top" /\ \A k \in Loops \ {"capture"} : pc'[k] = pc[k]
      BY <1>1, <3>1 DEF TypeOK, Goto
    <3> QED
      BY <1>1, <2>2, <3>1, <3>2, <3>3
      DEF Control, LossInv, OutcomeInv, DoneInv, LifeInv, StopInv, PanicInv, Connected,
          Teardown, Running, done, Loops, runVars, doneVars
  <2> QED
    BY <1>5, <2>1, <2>2, Zenon DEF CaptureRead
<1>6. CASE InjectFrame
  <2>1. UNCHANGED <<ctxDone, runVars, doneVars, state, toEmit, trans, capture, pc>>
    BY <1>6, Zenon DEF InjectFrame, stVars, ioVars
  <2>2. CASE capture # "closed"
    <3>1. UNCHANGED ctlVars
      BY <1>6, <2>1, <2>2, Zenon DEF InjectFrame, ctlVars
    <3> QED
      BY <1>1, <2>1, <3>1, StillControl, Zenon
  <2>3. CASE capture = "closed"
    <3>1. panicked' = "nilHandle" /\ pc["inject"] = "top"
      BY <1>6, <2>3, Zenon DEF InjectFrame, At
    <3>2. run = "wait"
      BY <1>1, <2>3, <3>1 DEF Control, LifeInv, AllStopped, Loops, Connected, Teardown
    <3> QED
      BY <1>1, <2>1, <3>1, <3>2
      DEF Control, LossInv, OutcomeInv, DoneInv, LifeInv, StopInv, PanicInv, Connected,
          Teardown, AllStopped, Running, done, runVars, doneVars
  <2> QED
    BY <2>2, <2>3
<1>7. ASSUME NEW l \in {"recv", "ping"}, NEW why \in {"bye", "unresponsive"},
             SignalLoss(l, why)
      PROVE  Control'
  <2>1. /\ Running /\ pc[l] = "closing" /\ toEmit[l] = {} /\ Goto(l, "top")
        /\ CloseDoneOnce(why)
        /\ UNCHANGED <<ctxDone, runVars, state, toEmit, trans, capture>>
    BY <1>7, Zenon DEF SignalLoss, At, StateSet, stVars, ioVars
  <2>2. pc'[l] = "top" /\ \A k \in Loops \ {l} : pc'[k] = pc[k]
    BY <1>1, <2>1 DEF TypeOK, Goto
  <2>3. run \in Connected /\ state = "DISCONNECTED"
    BY <1>1, <2>1 DEF Control, LifeInv, LossInv, AllStopped, Loops
  <2>4. doneBy' # "nobody" /\ (doneBy' = "once" \/ doneBy = "run")
    BY <1>1, <2>1 DEF CloseDoneOnce, done, TypeOK
  <2>5. LossInv'
    BY <1>1, <2>1, <2>2, <2>3, <2>4
    DEF Control, LossInv, CloseDoneOnce, Running, Loops, runVars
  <2>6. OutcomeInv' /\ DoneInv' /\ PanicInv'
    BY <1>1, <2>1, <2>3
    DEF Control, OutcomeInv, DoneInv, PanicInv, CloseDoneOnce, Running, done, runVars,
        Connected, Teardown
  <2>7. LifeInv' /\ StopInv'
    BY <1>1, <2>1, <2>2, <2>3
    DEF Control, LifeInv, StopInv, CloseDoneOnce, Loops, runVars, Connected, Teardown
  <2> QED
    BY <2>5, <2>6, <2>7 DEF Control
<1>8. CASE handleBye \/ PingGiveUp
  <2>1. PICK l \in {"recv", "ping"} :
          /\ pc[l] \in {"bye", "giveup"} /\ Goto(l, "closing")
          /\ setState(l, "DISCONNECTED")
          /\ UNCHANGED <<ctxDone, runVars, doneVars, panicked, trans, capture>>
    BY <1>8, Zenon DEF handleBye, PingGiveUp, At, ioVars
  <2>2. pc'[l] = "closing" /\ \A k \in Loops \ {l} : pc'[k] = pc[k]
    BY <1>1, <2>1 DEF TypeOK, Goto, Loops
  <2>3. state' = "DISCONNECTED" /\ \A d \in Callers \ {l} : toEmit'[d] = toEmit[d]
    BY <1>1, <2>1, SetStateFacts DEF Callers, State
  <2>4. run \in Connected
    BY <1>1, <2>1 DEF Control, LifeInv, AllStopped, Loops
  <2>5. LossInv'
    <3>1. \A k \in {"recv", "ping"} \ {l} : pc'[k] = pc[k] /\ toEmit'[k] = toEmit[k]
      BY <2>2, <2>3 DEF Loops, Callers
    <3> QED
      BY <1>1, <2>2, <2>3, <3>1 DEF Control, LossInv
  <2>6. OutcomeInv' /\ DoneInv' /\ PanicInv'
    BY <1>1, <2>1 DEF Control, OutcomeInv, DoneInv, PanicInv, done, runVars, doneVars
  <2>7. LifeInv' /\ StopInv'
    BY <1>1, <2>1, <2>2, <2>3, <2>4
    DEF Control, LifeInv, StopInv, Loops, runVars, doneVars, Connected, Teardown
  <2> QED
    BY <2>5, <2>6, <2>7 DEF Control
<1>9. ASSUME NEW c \in Callers, Emit(c) PROVE Control'
  <2>1. UNCHANGED <<ctxDone, runVars, doneVars, state, panicked, trans, capture, pc>>
    BY <1>9, Zenon DEF Emit, ioVars
  <2>2. \A d \in {"recv", "ping"} : toEmit'[d] # {} => toEmit[d] # {}
    BY <1>1, <1>9, EmitKeeps DEF Callers
  <2>3. LossInv'
    BY <1>1, <2>1, <2>2 DEF Control, LossInv, Running, runVars, doneVars
  <2> QED
    BY <1>1, <2>1, <2>3
    DEF Control, OutcomeInv, DoneInv, LifeInv, StopInv, PanicInv, runVars, doneVars, done,
        AllStopped
<1>10. CASE Cancel
  <2>1. UNCHANGED <<runVars, doneVars, state, toEmit, panicked, trans, capture, pc>>
        /\ ctxDone' = TRUE
    BY <1>10, Zenon DEF Cancel, stVars, ioVars
  <2>2. OutcomeInv' /\ StopInv' /\ PanicInv'
    BY <1>1, <2>1 DEF Control, OutcomeInv, StopInv, PanicInv, runVars, doneVars, done
  <2> QED
    BY <1>1, <2>1, <2>2
    DEF Control, LossInv, DoneInv, LifeInv, runVars, doneVars, Running, AllStopped
<1>11. CASE SetCapture
  <2>1. UNCHANGED <<ctxDone, runVars, doneVars, state, toEmit, panicked, trans, pc>>
    BY <1>11, Zenon DEF SetCapture, stVars
  <2>2. capture' = "closed" => capture = "closed"
    BY <1>11, Zenon DEF SetCapture
  <2>3. LifeInv'
    BY <1>1, <2>1, <2>2 DEF Control, LifeInv, AllStopped, runVars
  <2> QED
    BY <1>1, <2>1, <2>3
    DEF Control, LossInv, OutcomeInv, DoneInv, StopInv, PanicInv, runVars, doneVars, done,
        Running
<1> QED
  BY <1>2, <1>3, <1>4, <1>5, <1>6, <1>7, <1>8, <1>9, <1>10, <1>11, Zenon
  DEF OthersQuietly, Rounds, CaptureStep, InjectStep, DiscoveryStep

\* No step leaves the types.
LEMMA StepTypes == IInv /\ [Next]_vars => TypeOK'
<1> SUFFICES ASSUME IInv, [Next]_vars PROVE TypeOK'
  OBVIOUS
<1>0. TypeOK
  BY DEF IInv
<1> USE <1>0 DEF TypeOK, runVars, doneVars, stVars, ioVars, qVars, pingVars
<1>1. CASE RunStart
  <2>1. setState("run", "CONNECTING")
    BY <1>1, Zenon DEF RunStart
  <2> QED
    BY <1>1, <2>1, SetStateFacts DEF RunStart, Callers, State
<1>2. CASE HandshakeOk
  <2>1. setState("run", "CONNECTED")
    BY <1>2, Zenon DEF HandshakeOk
  <2> QED
    BY <1>2, <2>1, SetStateFacts DEF HandshakeOk, Callers, State
<1>3. CASE WaitAll
  <2>1. setState("run", "DISCONNECTED")
    BY <1>3, Zenon DEF WaitAll
  <2> QED
    BY <1>3, <2>1, SetStateFacts DEF WaitAll, Callers, State
<1>4. CASE HandshakeFailed \/ Return
  BY <1>4 DEF HandshakeFailed, Return
<1>5. CASE StartLoops
  BY <1>5 DEF StartLoops, Connected
<1>6. CASE SelectWake \/ Decide
  BY <1>6 DEF SelectWake, Decide, Connected, Teardown
<1>7. CASE SendBye
  <2>1. byeSent' \in BOOLEAN
    BY <1>7, Zenon DEF SendBye
  <2> QED
    BY <1>7, <2>1 DEF SendBye, Connected, Teardown
<1>8. CASE CloseDone
  BY <1>8 DEF CloseDone, Connected, Teardown
<1>9. CASE CloseTransport \/ CloseCapture
  BY <1>9 DEF CloseTransport, CloseCapture, Connected, Teardown
<1>10. CASE Emit("run") \/ Emit("recv") \/ Emit("ping")
  <2>1. PICK c \in Callers : Emit(c)
    BY <1>10, Zenon DEF Callers
  <2>2. UNCHANGED <<mode, ctxDone, runVars, doneVars, state, panicked, ioVars, pc, qVars,
                    pingVars>>
    BY <2>1, Zenon DEF Emit
  <2> QED
    BY <2>1, <2>2, EmitKeeps
<1>11. CASE handleBye
  <2>1. setState("recv", "DISCONNECTED")
    BY <1>11, Zenon DEF handleBye
  <2> QED
    BY <1>11, <2>1, SetStateFacts DEF handleBye, Goto, Callers, State, Loops
<1>12. CASE PingGiveUp
  <2>1. setState("ping", "DISCONNECTED")
    BY <1>12, Zenon DEF PingGiveUp
  <2> QED
    BY <1>12, <2>1, SetStateFacts DEF PingGiveUp, Goto, Callers, State, Loops
<1>13. ASSUME NEW l, CaptureReady(l) \/ Check(l) PROVE TypeOK'
  BY <1>13 DEF CaptureReady, Check, Goto
<1>14. CASE RecvNothing \/ RecvError \/ \E l \in Loops : Stop(l)
  BY <1>14 DEF RecvNothing, RecvError, Stop, Goto
<1>15. CASE \E type \in PeerMessages : RecvMessage(type)
  BY <1>15, BridgeAssumption DEF RecvMessage, Goto, Loops
<1>16. CASE CaptureRead
  BY <1>16, BridgeAssumption DEF CaptureRead, Offer, Goto, Loops
<1>17. CASE SendFrame \/ InjectFrame
  BY <1>17, BridgeAssumption DEF SendFrame, InjectFrame
<1>18. CASE handleFrame
  BY <1>18, BridgeAssumption DEF handleFrame, Offer, Goto, Loops
<1>19. CASE \E matching \in BOOLEAN : handlePong(matching)
  <2>1. PICK matching \in BOOLEAN : handlePong(matching)
    BY <1>19
  <2>2. pendingPing' \in BOOLEAN
    BY <2>1, Zenon DEF handlePong
  <2>3. missedPongs' \in 0..MaxMissedPongs
    BY <2>1, BridgeAssumption DEF handlePong
  <2>4. /\ pc' = [pc EXCEPT !["recv"] = "top"]
        /\ UNCHANGED <<mode, ctxDone, runVars, doneVars, stVars, panicked, ioVars, qVars>>
    BY <2>1, Zenon DEF handlePong, Goto
  <2> QED
    BY <2>2, <2>3, <2>4 DEF Loops
<1>20. CASE sendPing
  <2>1. pendingPing' \in BOOLEAN
    BY <1>20, Zenon DEF sendPing
  <2>2. missedPongs' \in 0..MaxMissedPongs
    <3>1. CASE pendingPing /\ missedPongs + 1 >= MaxMissedPongs
      BY <1>20, <3>1, BridgeAssumption DEF sendPing
    <3>2. CASE ~(pendingPing /\ missedPongs + 1 >= MaxMissedPongs)
      BY <1>20, <3>2, BridgeAssumption DEF sendPing
    <3> QED
      BY <3>1, <3>2
  <2>3. /\ pc' = pc \/ pc' = [pc EXCEPT !["ping"] = "giveup"]
        /\ UNCHANGED <<mode, ctxDone, runVars, doneVars, stVars, panicked, ioVars, qVars>>
    BY <1>20, Zenon DEF sendPing, Goto
  <2> QED
    BY <2>1, <2>2, <2>3
<1>21. CASE SignalLoss("recv", "bye") \/ SignalLoss("ping", "unresponsive")
  BY <1>21 DEF SignalLoss, CloseDoneOnce, Goto
<1>22. CASE Cancel
  BY <1>22 DEF Cancel
<1>23. CASE DiscoverError \/ DiscoverFound \/ OpenFailed \/ SetCapture
  BY <1>23 DEF DiscoverError, DiscoverFound, OpenFailed, SetCapture
<1>24. CASE UNCHANGED vars
  BY <1>24 DEF vars
<1> QED
  BY <1>1, <1>2, <1>3, <1>4, <1>5, <1>6, <1>7, <1>8, <1>9, <1>10, <1>11, <1>12, <1>13,
     <1>14, <1>15, <1>16, <1>17, <1>18, <1>19, <1>20, <1>21, <1>22, <1>23, <1>24, Steps,
     Zenon
  DEF RunQuietly, OthersQuietly, CaptureStep, InjectStep, DiscoveryStep

\* Every step of Run, of a goroutine, of the discovery and of the user
\* preserves the invariant.
LEMMA StepInv == IInv /\ [Next]_vars => IInv'
<1> SUFFICES ASSUME IInv, [Next]_vars PROVE IInv'
  OBVIOUS
<1>1. EventsInv'
  BY StepEvents
<1>2. TypeOK'
  BY StepTypes
<1>3. "run" \in Callers /\ "recv" \in Callers /\ "ping" \in Callers
  BY DEF Callers
<1>4. Control'
  BY <1>1, <1>3, Steps, RunControl, OthersControl, Zenon
<1> QED
  BY <1>1, <1>2, <1>4 DEF IInv

\* The invariant holds in every reachable state.
LEMMA Invariance == Spec => []IInv
<1> QED
  BY InitInv, StepInv, PTL DEF Spec

-----------------------------------------------------------------------------
(* What follows from it. *)

\* Run, its goroutines and the discovery never leave their types; the two
\* frame channels never hold more than ChannelBufferSize frames.
THEOREM TypeCorrect == Spec => []TypeOK
BY Invariance, PTL DEF IInv

\* However Run, handleBye and sendPing race to setState, the state_changed
\* events are CONNECTING, CONNECTED, DISCONNECTED, in order and once each.
THEOREM EventsInOrder == Spec => []EventOrder
<1>1. IInv => EventOrder
  BY DEF IInv, TypeOK, EventsInv, Due, EventOrder, Connected, Teardown, E1, E2, E3
<1> QED
  BY <1>1, Invariance, PTL

\* When Run returns, no state change is still on its way to the emitter: the
\* handler that has made it is one of the goroutines wg.Wait waits for.
THEOREM LastEventIsState == Spec => []ReturnReported
<1>1. E1 # <<>> /\ E1[Len(E1)] = "CONNECTING"
  BY DEF E1
<1>2. E3 # <<>> /\ E3[Len(E3)] = "DISCONNECTED"
  BY DEF E3
<1>3. IInv => ReturnReported
  BY <1>1, <1>2, Zenon DEF IInv, EventsInv, ReturnReported
<1> QED
  BY <1>3, Invariance, PTL

\* A BYE leaves this bridge only if the application is shutting down, and
\* never on the way to ErrPeerDisconnected.
THEOREM ByeIsShutdown == Spec => []ByeOnlyOnShutdown
<1>1. IInv => ByeOnlyOnShutdown
  BY DEF IInv, Control, OutcomeInv, ByeOnlyOnShutdown
<1> QED
  BY <1>1, Invariance, PTL

\* ErrPeerDisconnected is returned only on evidence: a BYE, or
\* MaxMissedPongs pings without an answer.
THEOREM PeerLossHasCause == Spec => []PeerLossExplained
<1>1. IInv => PeerLossExplained
  BY DEF IInv, Control, TypeOK, OutcomeInv, DoneInv, PeerLossExplained, done
<1> QED
  BY <1>1, Invariance, PTL

\* While the bridge is connecting or connected nothing can panic: both
\* panics of the shutdown path are confined to Run's teardown.
THEOREM NoCrashBeforeTeardown == Spec => []CrashOnlyInTeardown
<1>1. IInv => CrashOnlyInTeardown
  BY DEF IInv, Control, PanicInv, CrashOnlyInTeardown
<1> QED
  BY <1>1, Invariance, PTL

\* A step is invisible to the reconnection loop if it leaves alone what phase
\* is made of, or takes Run from one point after the handshake to another.
LEMMA Unseen ==
  ASSUME UNCHANGED <<ctxDone, ret, panicked, state>>,
         \/ UNCHANGED <<run, outcome>>
         \/ run \in Connected \cup {"start"} /\ run' \in Connected
  PROVE  UNCHANGED Life!lifeVars
<1>1. UNCHANGED phase
  BY DEF phase, Connected, Teardown
<1> QED
  BY <1>1, Zenon DEF Life!lifeVars, Running

\* The steps of BridgeLife, in terms of the bridge.
LEMMA Seen ==
  /\ Running /\ phase = "idle" /\ phase' = "connecting"
       /\ UNCHANGED <<ctxDone, ret, panicked>> => Life!Next
  /\ Running /\ phase = "connecting" /\ phase' = "connected"
       /\ UNCHANGED <<ctxDone, ret, panicked>> => Life!Next
  /\ Running /\ phase = "connected" /\ phase' = "lost"
       /\ UNCHANGED <<ctxDone, ret, panicked>> => Life!Next
  /\ Running /\ phase \in {"connected", "lost"} /\ (ctxDone \/ phase = "lost")
       /\ phase' = phase /\ panicked' # "no" /\ UNCHANGED <<ctxDone, ret>> => Life!Next
BY Zenon DEF Life!Next, Life!RunStep, Life!Start, Life!Connect, Life!Lose, Life!Crash,
             Running

\* Every step of Run, of its goroutines and of the discovery is a step of
\* BridgeLife or invisible to the reconnection loop.
LEMMA StepKeepsContract == IInv /\ [Next]_vars => [Life!Next]_Life!lifeVars
<1> SUFFICES ASSUME IInv, [Next]_vars PROVE [Life!Next]_Life!lifeVars
  OBVIOUS
<1>0. TypeOK /\ EventsInv /\ LossInv /\ OutcomeInv /\ DoneInv /\ LifeInv /\ StopInv
  BY Zenon DEF IInv, Control
<1>1. CASE RunStart
  <2>1. phase = "idle" /\ phase' = "connecting"
    BY <1>1 DEF RunStart, phase
  <2> QED
    BY <1>1, <2>1, Seen, Zenon DEF RunStart
<1>2. CASE HandshakeOk
  <2>1. phase = "connecting" /\ phase' = "connected"
    BY <1>2 DEF HandshakeOk, setState, phase
  <2> QED
    BY <1>2, <2>1, Seen, Zenon DEF HandshakeOk
<1>3. CASE HandshakeFailed
  <2>1. phase = "connecting" /\ phase' = "over"
    BY <1>3 DEF HandshakeFailed, phase
  <2> QED
    BY <1>3, <2>1, Zenon DEF HandshakeFailed, Running, Life!Next, Life!RunStep, Life!Fail
<1>4. CASE \/ StartLoops \/ SelectWake \/ Decide \/ SendBye \/ CloseTransport
           \/ CloseCapture
  <2>1. /\ run \in Connected \cup {"start"} /\ run' \in Connected
        /\ UNCHANGED <<ctxDone, ret, panicked, state>>
    BY <1>4, Zenon DEF StartLoops, SelectWake, Decide, SendBye, CloseTransport,
                       CloseCapture, Connected, Teardown, stVars
  <2> QED
    BY <2>1, Unseen, Zenon
<1>5. CASE CloseDone
  <2>1. CASE UNCHANGED panicked
    <3>1. /\ run \in Connected /\ run' \in Connected
          /\ UNCHANGED <<ctxDone, ret, state>>
      BY <1>5, Zenon DEF CloseDone, Connected, Teardown, stVars
    <3> QED
      BY <2>1, <3>1, Unseen, Zenon
  <2>2. CASE panicked' = "closeOfClosed" /\ UNCHANGED run
    <3>1. ctxDone
      BY <1>0, <1>5 DEF CloseDone, OutcomeInv
    <3>2. phase \in {"connected", "lost"} /\ phase' = phase
      BY <1>5, <2>2 DEF CloseDone, phase, stVars
    <3> QED
      BY <1>5, <2>2, <3>1, <3>2, Seen, Zenon DEF CloseDone
  <2> QED
    BY <1>5, <2>1, <2>2, Zenon DEF CloseDone
<1>6. CASE WaitAll
  <2>1. outcome = "app" => state = "CONNECTED"
    BY <1>0, <1>6
    DEF WaitAll, EventsInv, LossInv, DoneInv, AllStopped, Loops, Connected, Teardown
  <2>2. outcome = "peer" => state = "DISCONNECTED"
    BY <1>0 DEF StopInv
  <2>3. outcome \in {"app", "peer"}
    BY <1>0, <1>6 DEF TypeOK, OutcomeInv, WaitAll, Teardown
  <2>4. phase' = phase
    BY <1>6, <2>1, <2>2, <2>3 DEF WaitAll, setState, phase
  <2> QED
    BY <1>6, <2>4, Zenon DEF WaitAll, Life!lifeVars, Running
<1>7. CASE \/ Rounds \/ SendFrame \/ sendPing \/ \E c \in Callers : Emit(c)
  <2>1. UNCHANGED <<ctxDone, ret, panicked, state, run, outcome>>
    BY <1>7, Zenon DEF Rounds, CaptureReady, Check, SendFrame, RecvNothing, RecvError,
                 handleFrame, RecvMessage, handlePong, Stop, sendPing, Emit, runVars, stVars
  <2> QED
    BY <2>1, Unseen, Zenon
<1>8. CASE DiscoverError \/ DiscoverFound \/ OpenFailed \/ SetCapture \/ UNCHANGED vars
  <2>1. UNCHANGED <<ctxDone, ret, panicked, state, run, outcome>>
    BY <1>8, Zenon DEF DiscoverError, DiscoverFound, OpenFailed, SetCapture, vars,
                       runVars, stVars
  <2> QED
    BY <2>1, Unseen, Zenon
<1>9. CASE CaptureRead \/ InjectFrame
  <2>1. UNCHANGED <<ctxDone, ret, state, run, outcome>> /\ Running
    BY <1>9, Zenon DEF CaptureRead, InjectFrame, At, runVars, stVars
  <2>2. CASE UNCHANGED panicked
    BY <2>1, <2>2, Unseen, Zenon
  <2>3. CASE capture = "closed" /\ panicked' = "nilHandle"
    <3>1. \E l \in Loops : pc[l] \notin {"off", "stopped"}
      BY <1>9, Zenon DEF CaptureRead, InjectFrame, At, Loops
    <3>2. run = "wait"
      BY <1>0, <2>3, <3>1 DEF LifeInv, AllStopped, Connected, Teardown
    <3>3. phase \in {"connected", "lost"} /\ phase' = phase
      BY <2>1, <3>2 DEF phase
    <3>4. ctxDone \/ phase = "lost"
      BY <1>0, <3>2 DEF phase, TypeOK, OutcomeInv, StopInv, Teardown
    <3> QED
      BY <2>1, <2>3, <3>3, <3>4, Seen, Zenon
  <2> QED
    BY <1>9, <2>2, <2>3, Zenon DEF CaptureRead, InjectFrame
<1>10. CASE handleBye \/ PingGiveUp
  <2>1. /\ state' = "DISCONNECTED" /\ Running
        /\ \E l \in Loops : pc[l] \notin {"off", "stopped"}
        /\ UNCHANGED <<ctxDone, ret, panicked, run, outcome>>
    BY <1>10, Zenon DEF handleBye, PingGiveUp, setState, At, Loops, runVars
  <2>2. run \in Connected
    BY <1>0, <2>1 DEF LifeInv, AllStopped
  <2>3. CASE state = "CONNECTED"
    <3>1. phase = "connected" /\ phase' = "lost"
      BY <2>1, <2>2, <2>3 DEF phase, Connected, Teardown
    <3> QED
      BY <2>1, <3>1, Seen, Zenon
  <2>4. CASE state = "DISCONNECTED"
    BY <2>1, <2>4, Unseen, Zenon
  <2> QED
    BY <1>0, <2>2, <2>3, <2>4, Zenon DEF EventsInv
<1>11. CASE SignalLoss("recv", "bye") \/ SignalLoss("ping", "unresponsive")
  <2>1. /\ UNCHANGED <<ctxDone, ret, state, run, outcome>> /\ Running
        /\ pc["recv"] = "closing" \/ pc["ping"] = "closing"
        /\ panicked' = IF doneBy = "run" THEN "closeOfClosed" ELSE panicked
    BY <1>11, Zenon DEF SignalLoss, CloseDoneOnce, At, runVars, stVars
  <2>2. CASE doneBy # "run"
    BY <2>1, <2>2, Unseen, Zenon
  <2>3. CASE doneBy = "run"
    <3>1. run \in Connected
      BY <1>0, <2>1 DEF LifeInv, AllStopped, Loops
    <3>2. state = "DISCONNECTED" /\ ctxDone
      BY <1>0, <2>1, <2>3 DEF LossInv, DoneInv, OutcomeInv
    <3>3. phase = "lost" /\ phase' = "lost"
      BY <2>1, <3>1, <3>2 DEF phase, Connected, Teardown
    <3> QED
      BY <2>1, <2>3, <3>2, <3>3, Seen, Zenon
  <2> QED
    BY <2>2, <2>3
<1>12. CASE Cancel
  <2>1. UNCHANGED phase
    BY <1>12, Zenon DEF Cancel, phase, runVars, stVars
  <2> QED
    BY <1>12, <2>1, Zenon DEF Cancel, Running, runVars, Life!Next, Life!Cancel
<1>13. CASE Return
  <2>1. ctxDone /\ outcome # "none" /\ (outcome = "peer" => phase = "lost")
    <3>1. pc["recv"] = "stopped"
      BY <1>0, <1>13 DEF Return, StopInv, LifeInv, AllStopped, Loops, Connected, Teardown
    <3>2. ctxDone
      BY <1>0, <3>1 DEF StopInv, Loops
    <3>3. outcome # "none" /\ state = "DISCONNECTED"
      BY <1>0, <1>13, StateAt DEF Return, OutcomeInv
    <3> QED
      BY <1>13, <3>2, <3>3 DEF Return, phase
  <2>2. phase \in {"connected", "lost"} /\ phase' = "over"
    BY <1>13 DEF Return, phase
  <2> QED
    BY <1>13, <2>1, <2>2, Zenon DEF Return, Running, Life!Next, Life!RunStep, Life!Return
<1> QED
  BY <1>1, <1>2, <1>3, <1>4, <1>5, <1>6, <1>7, <1>8, <1>9, <1>10, <1>11, <1>12,
     <1>13, Steps, Zenon
  DEF RunQuietly, OthersQuietly, Rounds, CaptureStep, InjectStep, DiscoveryStep, Callers

\* The bridge implements BridgeLife.
THEOREM BridgeKeepsContract == Spec => KeepsContract
<1>1. Init => Life!Init
  BY DEF Init, Life!Init, phase, Running
<1> QED
  BY <1>1, Invariance, StepKeepsContract, PTL DEF Spec, KeepsContract, Life!Spec

=============================================================================
