----------------------------- MODULE BridgeLife -----------------------------
(***************************************************************************)
(* What one Run() call of the bridge promises to the loop that calls it,    *)
(* with everything inside left out: how a connection begins and ends, and   *)
(* which result may be returned when.                                       *)
(***************************************************************************)

CONSTANT
  LossReturns     \* a lost peer alone makes Run return

VARIABLES
  phase,          \* "idle", "connecting", "connected", "lost" or "over"
  cancelled,      \* the context given to Run
  ret,            \* what Run returned
  crashed         \* the process panicked

lifeVars == <<phase, cancelled, ret, crashed>>

Init == phase = "idle" /\ cancelled = FALSE /\ ret = "none" /\ crashed = FALSE

Start ==
  /\ ~crashed /\ phase = "idle"
  /\ phase' = "connecting"
  /\ UNCHANGED <<cancelled, ret, crashed>>

Connect ==
  /\ ~crashed /\ phase = "connecting"
  /\ phase' = "connected"
  /\ UNCHANGED <<cancelled, ret, crashed>>

\* No connection: a nil result means that the context was cancelled.
Fail ==
  /\ ~crashed /\ phase = "connecting"
  /\ phase' = "over"
  /\ ret' = IF cancelled THEN "nil" ELSE "error"
  /\ UNCHANGED <<cancelled, crashed>>

\* A BYE, or too many PINGs without an answer.
Lose ==
  /\ ~crashed /\ phase = "connected"
  /\ phase' = "lost"
  /\ UNCHANGED <<cancelled, ret, crashed>>

\* ErrPeerDisconnected is never returned while the peer is there.
Return ==
  /\ ~crashed /\ phase \in {"connected", "lost"}
  /\ cancelled \/ (LossReturns /\ phase = "lost")
  /\ phase' = "over"
  /\ \/ cancelled /\ ret' = "nil"
     \/ phase = "lost" /\ ret' = "peerDisconnected"
  /\ UNCHANGED <<cancelled, crashed>>

\* Only on the way out.
Crash ==
  /\ ~crashed /\ phase \in {"connected", "lost"}
  /\ cancelled \/ phase = "lost"
  /\ phase' \in {phase, "lost"}
  /\ crashed' = TRUE
  /\ UNCHANGED <<cancelled, ret>>

Cancel ==
  /\ ~cancelled
  /\ cancelled' = TRUE
  /\ UNCHANGED <<phase, ret, crashed>>

RunStep == Start \/ Connect \/ Fail \/ Lose \/ Return \/ Crash

Next == RunStep \/ Cancel

Spec == Init /\ [][Next]_lifeVars
=============================================================================
