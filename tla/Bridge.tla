------------------------------- MODULE Bridge -------------------------------
(***************************************************************************)
(* One bridge.Bridge: the life of a single Run() call, the seven goroutines *)
(* it starts, the peer, the background discovery that may hand it a capture *)
(* late, and the application context that may be cancelled at any moment.   *)
(*                                                                         *)
(* Frames are counted, not carried; a PONG is "matching" or not, which is   *)
(* all that the life cycle depends on.  Every value a goroutine holds       *)
(* between two accesses to shared state is in its program counter.          *)
(***************************************************************************)
EXTENDS Naturals, Sequences

CONSTANTS
  Modes,               \* the modes the program is started in
  ChannelBufferSize,   \* capacity of framesToSend and framesToInject
  MaxMissedPongs,      \* unanswered pings before the peer is given up
  StatsInterval,       \* 0 disables statsLoop
  PeerMessages         \* the kinds of message the peer sends

ASSUME BridgeAssumption ==
  /\ Modes \subseteq {"listen", "connect"}
  /\ ChannelBufferSize \in Nat \ {0}
  /\ MaxMissedPongs \in Nat \ {0}
  /\ StatsInterval \in Nat
  /\ PeerMessages \subseteq {"frame", "pong", "bye"}

VARIABLES
  mode,            \* transport.Mode
  ctxDone,         \* the context given to Run has been cancelled
  run,             \* program counter of Run
  outcome,         \* branch of Run's second select: "peer" or "app"
  ret,             \* what Run returned
  state,           \* b.state
  toEmit,          \* a transition its caller of setState has yet to Emit
  emitted,         \* state_changed events, in the order of emission
  doneBy,          \* who closed b.done: "nobody", "once" (doneOnce) or "run"
  cause,           \* why doneOnce was asked to close b.done
  panicked,        \* the panic that ended the process, or "no"
  trans,           \* the transport: "open", "connected" or "closed"
  byeSent,         \* SendBye put a BYE on the wire
  capture,         \* b.capture: "unset", "open", or "closed" (nil handle)
  disc,            \* runBackgroundDiscovery of this connection
  pc,              \* program counters of the goroutines Run starts
  framesToSend,    \* number of frames in the channel
  framesToInject,
  pendingPing,     \* b.pendingPing # 0
  missedPongs      \* b.missedPongs, counted up to MaxMissedPongs

runVars  == <<run, outcome, ret, byeSent>>
doneVars == <<doneBy, cause>>
stVars   == <<state, toEmit, emitted>>
ioVars   == <<trans, capture, disc>>
qVars    == <<framesToSend, framesToInject>>
pingVars == <<pendingPing, missedPongs>>
vars == <<mode, ctxDone, runVars, doneVars, stVars, panicked, ioVars, pc,
          qVars, pingVars>>

Loops == {"capture", "send", "recv", "inject", "ping", "stats", "stdin"}

\* The goroutines that call setState.
Callers == {"run", "recv", "ping"}
State == {"DISCONNECTED", "CONNECTING", "CONNECTED"}

\* The states of Run in which the goroutines exist.
Teardown  == {"bye", "closeDone", "closeTransport", "closeCapture", "wait"}
Connected == {"select", "decide"} \cup Teardown

done == doneBy # "nobody"
Running == panicked = "no"

TypeOK ==
  /\ mode \in Modes
  /\ ctxDone \in BOOLEAN
  /\ run \in {"idle", "handshake", "start", "return", "returned"} \cup Connected
  /\ outcome \in {"none", "peer", "app"}
  /\ ret \in {"none", "peerDisconnected", "nil", "error"}
  /\ state \in State
  /\ toEmit \in [Callers -> {{}} \cup {{s} : s \in State}]
  /\ emitted \in Seq(State)
  /\ doneBy \in {"nobody", "once", "run"}
  /\ cause \in {"none", "bye", "unresponsive"}
  /\ panicked \in {"no", "closeOfClosed", "nilHandle"}
  /\ trans \in {"open", "connected", "closed"}
  /\ byeSent \in BOOLEAN
  /\ capture \in {"unset", "open", "closed"}
  /\ disc \in {"off", "search", "found", "finished"}
  /\ pc \in [Loops -> {"off", "wait", "top", "read", "frame", "pong", "bye",
                       "giveup", "closing", "stopped"}]
  /\ framesToSend \in 0..ChannelBufferSize
  /\ framesToInject \in 0..ChannelBufferSize
  /\ pendingPing \in BOOLEAN
  /\ missedPongs \in 0..MaxMissedPongs

(***************************************************************************)
(* New.  In connect mode the MAC is known before the bridge is built, so    *)
(* the capture is given; in listen mode it may still have to be discovered. *)
(***************************************************************************)
Init ==
  /\ mode \in Modes
  /\ capture \in (IF mode = "listen" THEN {"open", "unset"} ELSE {"open"})
  /\ disc = IF capture = "unset" THEN "search" ELSE "off"
  /\ ctxDone = FALSE
  /\ run = "idle" /\ outcome = "none" /\ ret = "none"
  /\ state = "DISCONNECTED" /\ emitted = <<>>
  /\ toEmit = [c \in Callers |-> {}]
  /\ doneBy = "nobody" /\ cause = "none" /\ panicked = "no"
  /\ trans = "open" /\ byeSent = FALSE
  /\ pc = [l \in Loops |-> "off"]
  /\ framesToSend = 0 /\ framesToInject = 0
  /\ pendingPing = FALSE /\ missedPongs = 0

-----------------------------------------------------------------------------
(* Helpers: what several handlers share. *)

\* Mutant: emits on every call, not only on a transition.
SetStateAlwaysEmits(c, s) ==
  /\ state' = s
  /\ toEmit' = [toEmit EXCEPT ![c] = {s}]
  /\ UNCHANGED emitted

\* setState called by c, under stateMu: an event is due only when the state
\* really changes.
setState(c, s) ==
  /\ state' = s
  /\ toEmit' = [toEmit EXCEPT ![c] = IF state # s THEN {s} ELSE {}]
  /\ UNCHANGED emitted

\* setState after the unlock; c does nothing else before.
Emit(c) ==
  /\ Running
  /\ \E s \in toEmit[c] : emitted' = Append(emitted, s)
  /\ toEmit' = [toEmit EXCEPT ![c] = {}]
  /\ UNCHANGED <<mode, ctxDone, runVars, doneVars, state, panicked, ioVars, pc,
                 qVars, pingVars>>

\* Mutant: setState returns and leaves Emit to a goroutine of its own.
StateSetBeforeEmit(c) == TRUE

\* c is not inside setState.
StateSet(c) == toEmit[c] = {}

\* Mutant: a plain close(b.done) in the handlers.
CloseDonePlain(why) ==
  /\ doneBy' = IF done THEN doneBy ELSE "once"
  /\ cause' = IF cause = "none" THEN why ELSE cause
  /\ panicked' = IF done THEN "closeOfClosed" ELSE panicked

\* doneOnce.Do(close(b.done)): the Once is spent iff doneBy = "once"; when
\* Run has closed the channel itself, the close inside Do panics.
CloseDoneOnce(why) ==
  /\ doneBy' = IF done THEN doneBy ELSE "once"
  /\ cause' = IF cause = "none" THEN why ELSE cause
  /\ panicked' = IF doneBy = "run" THEN "closeOfClosed" ELSE panicked

\* A non-blocking send on a buffered channel: enqueue, or drop when full.
Offer(n) == IF n < ChannelBufferSize THEN n + 1 ELSE n

At(l, from) == Running /\ pc[l] = from
Goto(l, to) == pc' = [pc EXCEPT ![l] = to]

-----------------------------------------------------------------------------
(* Run. *)

RunStart ==
  /\ Running /\ run = "idle"
  /\ run' = "handshake"
  /\ setState("run", "CONNECTING")
  /\ UNCHANGED <<mode, ctxDone, outcome, ret, byeSent, doneVars, panicked,
                 ioVars, pc, qVars, pingVars>>

\* WaitForPeer / Connect succeeded.
HandshakeOk ==
  /\ Running /\ run = "handshake" /\ StateSet("run")
  /\ trans' = "connected"
  /\ setState("run", "CONNECTED")
  /\ run' = "start"
  /\ UNCHANGED <<mode, ctxDone, outcome, ret, byeSent, doneVars, panicked,
                 capture, disc, pc, qVars, pingVars>>

StartLoops ==
  /\ Running /\ run = "start" /\ StateSet("run")
  /\ pc' = [l \in Loops |->
              IF l \in {"capture", "inject"} THEN "wait"
              ELSE IF l = "stats" /\ StatsInterval = 0 THEN "off"
              ELSE "top"]
  /\ run' = "select"
  /\ UNCHANGED <<mode, ctxDone, outcome, ret, byeSent, doneVars, stVars,
                 panicked, ioVars, qVars, pingVars>>

\* Mutant: every failure of the handshake counts as a shutdown.
HandshakeFailedQuietly ==
  /\ Running /\ run = "handshake" /\ StateSet("run")
  /\ ctxDone \/ mode = "listen"
  /\ run' = "returned"
  /\ ret' = "nil"
  /\ UNCHANGED <<mode, ctxDone, outcome, byeSent, doneVars, stVars, panicked,
                 ioVars, pc, qVars, pingVars>>

\* WaitForPeer / Connect failed.  Connect retries every failure but a
\* cancelled context; WaitForPeer also reports read and HELLO_ACK errors.
HandshakeFailed ==
  /\ Running /\ run = "handshake" /\ StateSet("run")
  /\ ctxDone \/ mode = "listen"
  /\ run' = "returned"
  /\ ret' = IF ctxDone THEN "nil" ELSE "error"
  /\ UNCHANGED <<mode, ctxDone, outcome, byeSent, doneVars, stVars, panicked,
                 ioVars, pc, qVars, pingVars>>

\* Mutant: waits for the context only.
SelectWakeCtxOnly ==
  /\ Running /\ run = "select"
  /\ ctxDone
  /\ run' = "decide"
  /\ UNCHANGED <<mode, ctxDone, outcome, ret, byeSent, doneVars, stVars,
                 panicked, ioVars, pc, qVars, pingVars>>

\* The first select: context cancelled or b.done closed.
SelectWake ==
  /\ Running /\ run = "select"
  /\ ctxDone \/ done
  /\ run' = "decide"
  /\ UNCHANGED <<mode, ctxDone, outcome, ret, byeSent, doneVars, stVars,
                 panicked, ioVars, pc, qVars, pingVars>>

\* Mutant: says BYE whatever woke Run up.
DecideAlwaysBye ==
  /\ Running /\ run = "decide"
  /\ outcome' = "app" /\ run' = "bye"
  /\ UNCHANGED <<mode, ctxDone, ret, byeSent, doneVars, stVars, panicked,
                 ioVars, pc, qVars, pingVars>>

\* Mutant: treats every wake-up as a peer disconnect.
DecideAlwaysPeer ==
  /\ Running /\ run = "decide"
  /\ outcome' = "peer" /\ run' = "closeTransport"
  /\ UNCHANGED <<mode, ctxDone, ret, byeSent, doneVars, stVars, panicked,
                 ioVars, pc, qVars, pingVars>>

\* The second select: a closed b.done wins over a cancelled context.
Decide ==
  /\ Running /\ run = "decide"
  /\ \/ done /\ outcome' = "peer" /\ run' = "closeTransport"
     \/ ~done /\ outcome' = "app" /\ run' = "bye"
  /\ UNCHANGED <<mode, ctxDone, ret, byeSent, doneVars, stVars, panicked,
                 ioVars, pc, qVars, pingVars>>

SendBye ==
  /\ Running /\ run = "bye"
  /\ byeSent' = (trans = "connected")
  /\ run' = "closeDone"
  /\ UNCHANGED <<mode, ctxDone, outcome, ret, doneVars, stVars, panicked,
                 ioVars, pc, qVars, pingVars>>

\* close(b.done), outside doneOnce: panics when a handler was faster.
CloseDone ==
  /\ Running /\ run = "closeDone"
  /\ \/ done /\ panicked' = "closeOfClosed" /\ UNCHANGED <<doneBy, run>>
     \/ ~done /\ doneBy' = "run" /\ run' = "closeTransport"
        /\ UNCHANGED panicked
  /\ UNCHANGED <<mode, ctxDone, outcome, ret, byeSent, cause, stVars, ioVars,
                 pc, qVars, pingVars>>

CloseTransport ==
  /\ Running /\ run = "closeTransport"
  /\ trans' = "closed"
  /\ run' = "closeCapture"
  /\ UNCHANGED <<mode, ctxDone, outcome, ret, byeSent, doneVars, stVars,
                 panicked, capture, disc, pc, qVars, pingVars>>

CloseCapture ==
  /\ Running /\ run = "closeCapture"
  /\ capture' = IF capture = "open" THEN "closed" ELSE capture
  /\ run' = "wait"
  /\ UNCHANGED <<mode, ctxDone, outcome, ret, byeSent, doneVars, stVars,
                 panicked, trans, disc, pc, qVars, pingVars>>

AllStopped == \A l \in Loops : pc[l] \in {"off", "stopped"}

\* wg.Wait(), and the final setState.
WaitAll ==
  /\ Running /\ run = "wait"
  /\ AllStopped
  /\ setState("run", "DISCONNECTED")
  /\ run' = "return"
  /\ UNCHANGED <<mode, ctxDone, outcome, ret, byeSent, doneVars, panicked,
                 ioVars, pc, qVars, pingVars>>

Return ==
  /\ Running /\ run = "return" /\ StateSet("run")
  /\ run' = "returned"
  /\ ret' = IF outcome = "peer" THEN "peerDisconnected" ELSE "nil"
  /\ UNCHANGED <<mode, ctxDone, outcome, byeSent, doneVars, stVars, panicked,
                 ioVars, pc, qVars, pingVars>>

RunStep ==
  \/ RunStart \/ HandshakeFailed \/ StartLoops \/ SelectWake \/ Decide
  \/ SendBye \/ CloseDone \/ CloseTransport \/ CloseCapture \/ WaitAll
  \/ Return \/ Emit("run")

-----------------------------------------------------------------------------
(* The goroutines. *)

\* Mutant: captureLoop and injectLoop wait for the capture only.
StopNotWaiting(l) ==
  /\ At(l, "top") /\ ctxDone
  /\ Goto(l, "stopped")
  /\ UNCHANGED <<mode, ctxDone, runVars, doneVars, stVars, panicked, ioVars,
                 qVars, pingVars>>

\* The ctx.Done() case of a loop: the only way out of all of them.
Stop(l) ==
  /\ At(l, "wait") \/ At(l, "top")
  /\ ctxDone
  /\ Goto(l, "stopped")
  /\ UNCHANGED <<mode, ctxDone, runVars, doneVars, stVars, panicked, ioVars,
                 qVars, pingVars>>

\* <-b.captureReady in captureLoop and injectLoop.
CaptureReady(l) ==
  /\ At(l, "wait")
  /\ capture # "unset"
  /\ Goto(l, "top")
  /\ UNCHANGED <<mode, ctxDone, runVars, doneVars, stVars, panicked, ioVars,
                 qVars, pingVars>>

\* The non-blocking context check at the head of captureLoop and recvLoop.
Check(l) ==
  /\ At(l, "top")
  /\ ~ctxDone
  /\ Goto(l, "read")
  /\ UNCHANGED <<mode, ctxDone, runVars, doneVars, stVars, panicked, ioVars,
                 qVars, pingVars>>

\* ReadPacket, and the frame (if one came) offered to framesToSend.
\* Capture.Close leaves a nil handle, which ReadPacket dereferences.
CaptureRead ==
  /\ At("capture", "read")
  /\ Goto("capture", "top")
  /\ \/ capture = "closed" /\ panicked' = "nilHandle" /\ UNCHANGED framesToSend
     \/ capture = "open" /\ UNCHANGED panicked
        /\ framesToSend' \in {framesToSend, Offer(framesToSend)}
  /\ UNCHANGED <<mode, ctxDone, runVars, doneVars, stVars, ioVars,
                 framesToInject, pingVars>>

\* sendLoop: one frame is taken, encoded and given to Transport.Send.
SendFrame ==
  /\ At("send", "top")
  /\ framesToSend > 0
  /\ framesToSend' = framesToSend - 1
  /\ UNCHANGED <<mode, ctxDone, runVars, doneVars, stVars, panicked, ioVars,
                 pc, framesToInject, pingVars>>

\* injectLoop: one frame is taken and given to WritePacket.
InjectFrame ==
  /\ At("inject", "top")
  /\ framesToInject > 0
  /\ framesToInject' = framesToInject - 1
  /\ panicked' = IF capture = "closed" THEN "nilHandle" ELSE panicked
  /\ UNCHANGED <<mode, ctxDone, runVars, doneVars, stVars, ioVars, pc,
                 framesToSend, pingVars>>

\* recvLoop, Recv returns: a timeout, a datagram that is dropped (source,
\* decoding, unexpected type) or a PING, answered by handlePing.
RecvNothing ==
  /\ At("recv", "read")
  /\ trans # "closed"
  /\ Goto("recv", "top")
  /\ UNCHANGED <<mode, ctxDone, runVars, doneVars, stVars, panicked, ioVars,
                 qVars, pingVars>>

\* A message that has been read and decoded, and not yet been handled.
RecvMessage(type) ==
  /\ At("recv", "read")
  /\ trans # "closed"
  /\ Goto("recv", type)
  /\ UNCHANGED <<mode, ctxDone, runVars, doneVars, stVars, panicked, ioVars,
                 qVars, pingVars>>

\* Recv fails for good once the transport is closed; without a cancelled
\* context the loop goes on trying.
RecvError ==
  /\ At("recv", "read")
  /\ trans = "closed"
  /\ Goto("recv", IF ctxDone THEN "stopped" ELSE "top")
  /\ UNCHANGED <<mode, ctxDone, runVars, doneVars, stVars, panicked, ioVars,
                 qVars, pingVars>>

handleFrame ==
  /\ At("recv", "frame")
  /\ Goto("recv", "top")
  /\ framesToInject' = Offer(framesToInject)
  /\ UNCHANGED <<mode, ctxDone, runVars, doneVars, stVars, panicked, ioVars,
                 framesToSend, pingVars>>

\* handlePong: only the PONG of the pending ping counts.
handlePong(matching) ==
  /\ At("recv", "pong")
  /\ Goto("recv", "top")
  /\ IF pendingPing /\ matching
       THEN pendingPing' = FALSE /\ missedPongs' = 0
       ELSE UNCHANGED pingVars
  /\ UNCHANGED <<mode, ctxDone, runVars, doneVars, stVars, panicked, ioVars,
                 qVars>>

\* handleBye and sendPing, after setState: close b.done.
SignalLoss(l, why) ==
  /\ At(l, "closing") /\ StateSet(l)
  /\ Goto(l, "top")
  /\ CloseDoneOnce(why)
  /\ UNCHANGED <<mode, ctxDone, runVars, stVars, ioVars, qVars, pingVars>>

handleBye ==
  /\ At("recv", "bye")
  /\ Goto("recv", "closing")
  /\ setState("recv", "DISCONNECTED")
  /\ UNCHANGED <<mode, ctxDone, runVars, doneVars, panicked, ioVars, qVars,
                 pingVars>>

\* sendPing under pingMu: count a miss; give up or send the next PING.
sendPing ==
  /\ At("ping", "top")
  /\ IF pendingPing /\ missedPongs + 1 >= MaxMissedPongs
       THEN /\ missedPongs' = MaxMissedPongs
            /\ UNCHANGED pendingPing
            /\ Goto("ping", "giveup")
       ELSE /\ missedPongs' = IF pendingPing THEN missedPongs + 1 ELSE missedPongs
            /\ pendingPing' = TRUE
            /\ UNCHANGED pc
  /\ UNCHANGED <<mode, ctxDone, runVars, doneVars, stVars, panicked, ioVars,
                 qVars>>

\* sendPing after pingMu is released: the peer is declared unresponsive.
PingGiveUp ==
  /\ At("ping", "giveup")
  /\ Goto("ping", "closing")
  /\ setState("ping", "DISCONNECTED")
  /\ UNCHANGED <<mode, ctxDone, runVars, doneVars, panicked, ioVars, qVars,
                 pingVars>>

-----------------------------------------------------------------------------
(* The rest of the process: the signal handler (or, after Run, connCancel)  *)
(* and runBackgroundDiscovery.                                              *)

Cancel ==
  /\ Running /\ ~ctxDone
  /\ ctxDone' = TRUE
  /\ UNCHANGED <<mode, runVars, doneVars, stVars, panicked, ioVars, pc, qVars,
                 pingVars>>

\* Discover returns an error: cancelled, or the interface cannot be opened.
DiscoverError ==
  /\ Running /\ disc = "search"
  /\ disc' = "finished"
  /\ UNCHANGED <<mode, ctxDone, runVars, doneVars, stVars, panicked, trans,
                 capture, pc, qVars, pingVars>>

\* Discover returns a MAC; the context is not looked at again.
DiscoverFound ==
  /\ Running /\ disc = "search"
  /\ disc' = "found"
  /\ UNCHANGED <<mode, ctxDone, runVars, doneVars, stVars, panicked, trans,
                 capture, pc, qVars, pingVars>>

\* capture.New failed: no capture for the rest of this connection.
OpenFailed ==
  /\ Running /\ disc = "found"
  /\ disc' = "finished"
  /\ UNCHANGED <<mode, ctxDone, runVars, doneVars, stVars, panicked, trans,
                 capture, pc, qVars, pingVars>>

\* SetCapture with the capture just opened; captureReady is closed under
\* the same lock, so it is closed iff capture # "unset".
SetCapture ==
  /\ Running /\ disc = "found"
  /\ disc' = "finished"
  /\ capture' = IF capture = "unset" THEN "open" ELSE capture
  /\ UNCHANGED <<mode, ctxDone, runVars, doneVars, stVars, panicked, trans,
                 pc, qVars, pingVars>>

-----------------------------------------------------------------------------
CaptureStep == CaptureReady("capture") \/ Check("capture") \/ CaptureRead
InjectStep == CaptureReady("inject") \/ InjectFrame
RecvStep ==
  \/ Check("recv") \/ RecvNothing \/ RecvError
  \/ \E type \in PeerMessages : RecvMessage(type)
  \/ handleFrame \/ handleBye \/ Emit("recv") \/ SignalLoss("recv", "bye")
  \/ \E matching \in BOOLEAN : handlePong(matching)
GiveUpStep == PingGiveUp \/ Emit("ping") \/ SignalLoss("ping", "unresponsive")
PingStep == sendPing \/ GiveUpStep
DiscoveryStep == DiscoverError \/ DiscoverFound \/ OpenFailed \/ SetCapture

Next ==
  \/ RunStep \/ HandshakeOk
  \/ CaptureStep \/ SendFrame \/ InjectStep \/ RecvStep \/ PingStep
  \/ \E l \in Loops : Stop(l)
  \/ Cancel \/ DiscoveryStep

Spec == Init /\ [][Next]_vars

\* The Go scheduler runs every runnable goroutine and reads have deadlines
\* (100 ms for the socket, 10 ms for pcap): Run and the loops in the middle
\* of an iteration go on.  A select with several ready cases picks one at
\* random, so a ctx.Done() that is ready again and again is picked in the
\* end (strong fairness; pingLoop may find a tick each time it looks).
\* Nothing is assumed of the peer, of the user or of the discovery.
Fairness ==
  /\ WF_vars(RunStep)
  /\ WF_vars(CaptureStep) /\ WF_vars(RecvStep) /\ WF_vars(GiveUpStep)
  /\ SF_vars(\E l \in Loops : Stop(l))

FairSpec == Spec /\ Fairness

-----------------------------------------------------------------------------
(* Properties. *)

\* Three goroutines call setState: Run, recvLoop (handleBye) and pingLoop
\* (sendPing), and each emits after it has unlocked stateMu.  Whatever their
\* order, a front end that reads the state_changed events sees CONNECTING,
\* CONNECTED, DISCONNECTED, each once.
EventOrder ==
  emitted \in {<<>>, <<"CONNECTING">>, <<"CONNECTING", "CONNECTED">>,
              <<"CONNECTING", "CONNECTED", "DISCONNECTED">>}

\* A goroutine that changes the state emits the event after the unlock, and
\* another may close b.done in between; Run's own setState then finds the
\* state DISCONNECTED and stays silent.  Still, when Run has returned, the last
\* event a front end got is the state the bridge is in.
ReturnReported ==
  run = "returned" => emitted # <<>> /\ emitted[Len(emitted)] = state

\* BYE is sent on application shutdown only, and never by a Run that found
\* the peer gone (the comment "Don't send BYE since peer is already gone").
ByeOnlyOnShutdown ==
  byeSent => ctxDone /\ outcome = "app" /\ ret # "peerDisconnected"

\* Run blames the peer (ErrPeerDisconnected) only when a BYE arrived or the
\* ping loop counted MaxMissedPongs unanswered pings, whoever closed done.
PeerLossExplained ==
  /\ ret = "peerDisconnected" => cause # "none"
  /\ done /\ ~ctxDone => cause # "none"

\* The process can only panic while Run is tearing the bridge down: the
\* Once protects handleBye and sendPing from each other, and the capture
\* keeps its handle as long as the bridge is connected.
CrashOnlyInTeardown ==
  /\ panicked # "no" => run \in Teardown
  /\ panicked = "closeOfClosed" => ctxDone

\* The phase of the connection, as the reconnection loop sees it.
phase ==
  IF run = "idle" THEN "idle"
  ELSE IF run = "handshake" THEN "connecting"
  ELSE IF run = "returned" THEN "over"
  ELSE IF state = "CONNECTED" \/ (run = "return" /\ outcome = "app")
         THEN "connected" ELSE "lost"

Life == INSTANCE BridgeLife WITH
          LossReturns <- FALSE, cancelled <- ctxDone, crashed <- ~Running

\* To the reconnection loop, Run with its seven goroutines is the small state
\* machine BridgeLife: it returns only once the context is cancelled (or no
\* connection was made), says ErrPeerDisconnected only after a loss, and can
\* crash only after a loss or a cancellation.
KeepsContract == Life!Spec

\* A cancelled context ends Run (or the process): no loop, in whatever state
\* the signal finds it, keeps wg.Wait waiting.
ShutdownReturns == ctxDone ~> (run = "returned" \/ ~Running)

\* A peer loss noticed by handleBye or sendPing reaches Run, which closes
\* the socket even if nobody cancels the context.
PeerLossClosesTransport == done ~> (trans = "closed" \/ ~Running)

-----------------------------------------------------------------------------
(* What the comments and PLAN.md say and the code does not do. *)

\* "Signal goroutines to stop (Run() will detect this and return
\* ErrPeerDisconnected)": once handleBye or sendPing has closed done, Run
\* returns.
DisconnectReturns == done ~> (run = "returned" \/ ~Running)

\* "doneOnce sync.Once // ensures done is closed only once".
DoneClosedOnce == panicked # "closeOfClosed"

\* "Application shutdown returns `nil` (normal exit)".
ShutdownDoesNotCrash == outcome = "app" => panicked # "nilHandle"

\* SetCapture "Can only be called once, before or during Run()".
SetCaptureBeforeReturn == [][SetCapture => run # "returned"]_vars
=============================================================================
