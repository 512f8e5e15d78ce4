---------------------------- MODULE EventWriter ----------------------------
(***************************************************************************)
(* AsyncJSONLineWriter: events that goroutines Emit into a buffered channel,  *)
(* the writer goroutine that encodes them one line each, and Close, which   *)
(* runBridge defers.                                                        *)
(*                                                                         *)
(* Two kinds of goroutine emit.  main and the goroutines of Run are over     *)
(* when runBridge returns, since Run waits for its goroutines.  A background *)
(* discovery is waited for by nobody; it emits the Xbox it has found, once,  *)
(* before, during or after Close.                                           *)
(*                                                                         *)
(* An event is numbered when Emit reaches the channel.                      *)
(***************************************************************************)
EXTENDS Naturals, Sequences

CONSTANTS
  Discoveries,    \* the background discoveries of the process
  BufferSize,     \* capacity of the channel (64)
  MaxEvents       \* bound: events of main and Run

ASSUME EventWriterAssumption ==
  BufferSize \in Nat \ {0} /\ MaxEvents \in Nat

VARIABLES
  searching,      \* the discoveries that have not found an Xbox
  offered,        \* number of events that reached the channel
  events,         \* the channel
  done,           \* the channel that Close closes
  writer,         \* "select", "drain" or, after wg.Done, "returned"
  writing,        \* the event the writer has received, if any
  lines,          \* the events written, in order
  failed,         \* history: the events whose line could not be written
  closer,         \* Close: "open", "waiting" in wg.Wait, or "closed"
  queuedAtClose   \* history: the events in the channel when Close was called

vars == <<searching, offered, events, done, writer, writing, lines, failed,
          closer, queuedAtClose>>

TypeOK ==
  /\ searching \subseteq Discoveries /\ offered \in Nat
  /\ events \in Seq(Nat) /\ Len(events) <= BufferSize
  /\ done \in BOOLEAN
  /\ writer \in {"select", "drain", "returned"}
  /\ writing \subseteq Nat
  /\ lines \in Seq(Nat) /\ failed \subseteq Nat
  /\ closer \in {"open", "waiting", "closed"}
  /\ queuedAtClose \subseteq Nat

Init ==
  /\ searching = Discoveries
  /\ offered = 0 /\ events = <<>>
  /\ done = FALSE /\ writer = "select" /\ writing = {}
  /\ lines = <<>> /\ failed = {}
  /\ closer = "open" /\ queuedAtClose = {}

-----------------------------------------------------------------------------
(* Emit. *)

\* Mutant: the newest event is handed over first.
Queued_Front(id) == IF Len(events) < BufferSize THEN <<id>> \o events ELSE events

\* A non-blocking send: the event is dropped if the buffer is full.
Queued(id) == IF Len(events) < BufferSize THEN Append(events, id) ELSE events

Emit ==
  /\ offered' = offered + 1
  /\ events' = Queued(offered')
  /\ UNCHANGED <<done, writer, writing, lines, failed, closer, queuedAtClose>>

\* main or a goroutine of Run; none of them is left when Close is called.
MainEmits ==
  /\ closer = "open" /\ offered < MaxEvents
  /\ Emit
  /\ UNCHANGED searching

\* runBackgroundDiscovery, once.
DiscoveryEmits(d) ==
  /\ d \in searching
  /\ searching' = searching \ {d}
  /\ Emit

-----------------------------------------------------------------------------
(* writer. *)

\* The select, or the draining loop while len(a.events) > 0.
Receive ==
  /\ writer \in {"select", "drain"}
  /\ writing = {} /\ events # <<>>
  /\ writing' = {Head(events)}
  /\ events' = Tail(events)
  /\ UNCHANGED <<searching, offered, done, writer, lines, failed, closer,
                 queuedAtClose>>

\* JSONLineWriter.Emit: a line, or an error that is silently dropped.
Write ==
  \E id \in writing :
    /\ writing' = {}
    /\ \/ lines' = Append(lines, id) /\ UNCHANGED failed
       \/ failed' = failed \cup {id} /\ UNCHANGED lines
    /\ UNCHANGED <<searching, offered, events, done, writer, closer,
                   queuedAtClose>>

\* Mutant: the writer returns without draining.
SeesDone_NoDrain ==
  /\ writer = "select" /\ writing = {} /\ done
  /\ writer' = "returned"
  /\ UNCHANGED <<searching, offered, events, done, writing, lines, failed,
                 closer, queuedAtClose>>

\* The select takes the closed done channel, even if events are ready too.
SeesDone ==
  /\ writer = "select" /\ writing = {} /\ done
  /\ writer' = "drain"
  /\ UNCHANGED <<searching, offered, events, done, writing, lines, failed,
                 closer, queuedAtClose>>

Drained ==
  /\ writer = "drain" /\ writing = {} /\ events = <<>>
  /\ writer' = "returned"
  /\ UNCHANGED <<searching, offered, events, done, writing, lines, failed,
                 closer, queuedAtClose>>

-----------------------------------------------------------------------------
(* Close. *)

\* Mutant: the done channel is not closed.
CloseBegin_NoSignal ==
  /\ closer = "open"
  /\ closer' = "waiting"
  /\ queuedAtClose' = {events[i] : i \in DOMAIN events}
  /\ UNCHANGED <<searching, offered, events, done, writer, writing, lines,
                 failed>>

CloseBegin ==
  /\ closer = "open"
  /\ closer' = "waiting" /\ done' = TRUE
  /\ queuedAtClose' = {events[i] : i \in DOMAIN events}
  /\ UNCHANGED <<searching, offered, events, writer, writing, lines, failed>>

\* wg.Wait returns, and the file is closed.
CloseEnd ==
  /\ closer = "waiting" /\ writer = "returned"
  /\ closer' = "closed"
  /\ UNCHANGED <<searching, offered, events, done, writer, writing, lines,
                 failed, queuedAtClose>>

Next ==
  \/ MainEmits \/ \E d \in Discoveries : DiscoveryEmits(d)
  \/ Receive \/ Write \/ SeesDone \/ Drained
  \/ CloseBegin \/ CloseEnd

Spec == Init /\ [][Next]_vars

\* The goroutines that are not waiting run: the writer, and Close.  A write
\* to the file or the pipe returns, with or without an error.
FairSpec == /\ Spec
            /\ WF_vars(Write) /\ WF_vars(Receive)
            /\ WF_vars(SeesDone \/ Drained) /\ WF_vars(CloseEnd)

-----------------------------------------------------------------------------
Queue == INSTANCE LossyFifo WITH offered <- offered, delivered <- lines

\* The log keeps the order in which Emit queued the events, of whatever
\* goroutine, and repeats none; Close and its draining loop included.
WritesInOrder == Queue!Spec

Written == {lines[i] : i \in DOMAIN lines}

\* "It waits for all queued events to be written before closing.": when Close
\* returns, each event that was in the channel when it was called has been
\* written, unless its line could not be.
CloseDrains == closer = "closed" => queuedAtClose \subseteq Written \cup failed

\* Close returns, although the writer drains the channel only when it finds it
\* empty and discoveries still emit: main's own goroutines are over by then,
\* and a discovery emits once.
CloseReturns == (closer = "waiting") ~> (closer = "closed")
=============================================================================
