------------------------------ MODULE Console ------------------------------
(***************************************************************************)
(* The statistics on the console: statsLoop, stdinLoop and the goroutine    *)
(* that reads stdin for it, and printStats, which reads counters that       *)
(* sendLoop is changing.  Both channels between them are unbuffered and     *)
(* both sends are non-blocking, so a send succeeds only when the receiver   *)
(* is parked in its select.                                                 *)
(*                                                                         *)
(* An Enter is a Boolean: TRUE while it was pressed on an idle console and  *)
(* no statistics have been printed since.                                   *)
(***************************************************************************)
EXTENDS Naturals, Sequences

CONSTANTS
  StatsInterval,   \* --stats-interval; 0: no periodic statistics
  MaxEnters,       \* bound: keys pressed
  MaxFrames        \* bound: frames sent, all of one size

ASSUME ConsoleAssumption ==
  StatsInterval \in Nat /\ MaxEnters \in Nat /\ MaxFrames \in Nat

VARIABLES
  ctxDone,
  pressed,         \* how many Enters the user has pressed
  stdin,           \* Enters nobody has read yet
  stdinErr,        \* Read has returned an error: no Enter follows
  reader,          \* the goroutine on stdin: reading, or offering an Enter
  stdinLoop,       \* parked, signalling an Enter, or ended
  held,            \* the Enter stdinLoop is signalling
  statsLoop,       \* where statsLoop is
  tick,            \* ticker.C, a channel of capacity 1
  TxPackets, TxBytes,
  read,            \* the values printStats has read
  shown,           \* the last line printed
  unanswered,      \* history: an Enter pressed on an idle console waits for
                   \* a line, or is getting it
  lostIdle         \* history: an Enter on an idle console was dropped

consoleVars ==
  <<ctxDone, pressed, stdin, stdinErr, reader, stdinLoop, held, statsLoop, tick,
    TxPackets, TxBytes, read, shown, unanswered, lostIdle>>
keys == <<pressed, stdin, stdinErr, reader, stdinLoop, held>>
counters == <<TxPackets, TxBytes>>

Reading == <<>>
Line == [packets : 0..MaxFrames, bytes : 0..MaxFrames]

ConsoleTypeOK ==
  /\ ctxDone \in BOOLEAN /\ tick \in BOOLEAN /\ lostIdle \in BOOLEAN
  /\ pressed \in 0..MaxEnters /\ stdinErr \in BOOLEAN
  /\ stdin \in Seq(BOOLEAN) /\ Len(stdin) <= pressed
  /\ reader \in {Reading, <<TRUE>>, <<FALSE>>}
  /\ stdinLoop \in {"parked", "signal", "ended"} /\ held \in BOOLEAN
  /\ statsLoop \in {"none", "select", "parked", "packets", "bytes", "ended"}
  /\ TxPackets \in 0..MaxFrames /\ TxBytes \in 0..MaxFrames
  /\ read \in Line /\ shown \in Line
  /\ unanswered \in {"no", "pressed", "printing"}

\* Run starts statsLoop only for a positive interval, stdinLoop always.
ConsoleInit ==
  /\ ctxDone = FALSE /\ pressed = 0 /\ stdin = <<>> /\ stdinErr = FALSE
  /\ reader = Reading /\ stdinLoop = "parked" /\ held = FALSE
  /\ statsLoop = IF StatsInterval > 0 THEN "select" ELSE "none"
  /\ tick = FALSE /\ TxPackets = 0 /\ TxBytes = 0
  /\ read = [packets |-> 0, bytes |-> 0] /\ shown = read
  /\ unanswered = "no" /\ lostIdle = FALSE

-----------------------------------------------------------------------------
(* The user, the shutdown, and sendLoop's two atomic additions. *)

Idle == stdin = <<>> /\ reader = Reading /\ stdinLoop = "parked"
                     /\ statsLoop = "parked"

PressEnter ==
  /\ pressed < MaxEnters /\ ~stdinErr
  /\ pressed' = pressed + 1
  /\ stdin' = Append(stdin, Idle)
  /\ unanswered' = IF Idle THEN "pressed" ELSE unanswered
  /\ UNCHANGED <<ctxDone, stdinErr, reader, stdinLoop, held, statsLoop, tick,
                 counters, read, shown, lostIdle>>

Cancel ==
  /\ ~ctxDone /\ ctxDone' = TRUE
  /\ UNCHANGED <<keys, statsLoop, tick, counters, read, shown, unanswered,
                 lostIdle>>

CountSent ==
  /\ IF TxBytes < TxPackets
       THEN TxBytes' = TxBytes + 1 /\ UNCHANGED TxPackets
       ELSE /\ TxPackets < MaxFrames
            /\ TxPackets' = TxPackets + 1 /\ UNCHANGED TxBytes
  /\ UNCHANGED <<ctxDone, keys, statsLoop, tick, read, shown, unanswered,
                 lostIdle>>

-----------------------------------------------------------------------------
(* stdinLoop. *)

\* os.Stdin.Read in the goroutine, which outlives stdinLoop.
ReadKey ==
  /\ reader = Reading /\ stdin # <<>>
  /\ reader' = <<Head(stdin)>> /\ stdin' = Tail(stdin)
  /\ UNCHANGED <<ctxDone, pressed, stdinErr, stdinLoop, held, statsLoop, tick,
                 counters, read, shown, unanswered, lostIdle>>

\* End of file or an error: the goroutine returns.
ReadError ==
  /\ reader = Reading /\ stdin = <<>> /\ ~stdinErr
  /\ stdinErr' = TRUE
  /\ UNCHANGED <<ctxDone, pressed, stdin, reader, stdinLoop, held, statsLoop,
                 tick, counters, read, shown, unanswered, lostIdle>>

\* An Enter nobody takes; a printStats about to load the counters answers it.
Dropped(enter) ==
  lostIdle' = (lostIdle \/ (enter /\ ~ctxDone /\ statsLoop # "packets"))

\* inputCh <- struct{}{}, or default.
OfferKey ==
  /\ reader # Reading
  /\ reader' = Reading
  /\ IF stdinLoop = "parked"
       THEN stdinLoop' = "signal" /\ held' = reader[1] /\ UNCHANGED lostIdle
       ELSE Dropped(reader[1]) /\ UNCHANGED <<stdinLoop, held>>
  /\ UNCHANGED <<ctxDone, pressed, stdin, stdinErr, statsLoop, tick, counters,
                 read, shown, unanswered>>

\* Mutant: statsLoop looks at stdinCh only when a tick is due.
SignalReceived_OnTick == statsLoop = "parked" /\ tick

SignalReceived == statsLoop = "parked"

\* Mutant: stdinLoop takes the key and tells nobody.
Signal_NotSent ==
  /\ stdinLoop = "signal"
  /\ stdinLoop' = "parked" /\ held' = FALSE
  /\ UNCHANGED <<ctxDone, pressed, stdin, stdinErr, reader, statsLoop, tick,
                 counters, read, shown, unanswered, lostIdle>>

\* stdinCh <- struct{}{}, or default; statsLoop then calls printStats.
Signal ==
  /\ stdinLoop = "signal"
  /\ stdinLoop' = "parked" /\ held' = FALSE
  /\ IF SignalReceived
       THEN statsLoop' = "packets" /\ UNCHANGED lostIdle
       ELSE Dropped(held) /\ UNCHANGED statsLoop
  /\ UNCHANGED <<ctxDone, pressed, stdin, stdinErr, reader, tick, counters,
                 read, shown, unanswered>>

\* Mutant: stdinLoop waits for keys only.
StdinLoopEnds_Never == FALSE /\ UNCHANGED consoleVars

StdinLoopEnds ==
  /\ ctxDone /\ stdinLoop = "parked"
  /\ stdinLoop' = "ended"
  /\ UNCHANGED <<ctxDone, pressed, stdin, stdinErr, reader, held, statsLoop,
                 tick, counters, read, shown, unanswered, lostIdle>>

-----------------------------------------------------------------------------
(* statsLoop. *)

InSelect == statsLoop \in {"select", "parked"}

TickerTicks ==
  /\ statsLoop \notin {"none", "ended"} /\ ~tick
  /\ tick' = TRUE
  /\ UNCHANGED <<ctxDone, keys, statsLoop, counters, read, shown, unanswered,
                 lostIdle>>

\* No case of the select is ready.
Park ==
  /\ statsLoop = "select" /\ ~ctxDone /\ ~tick
  /\ statsLoop' = "parked"
  /\ UNCHANGED <<ctxDone, keys, tick, counters, read, shown, unanswered,
                 lostIdle>>

TakeTick ==
  /\ InSelect /\ tick
  /\ tick' = FALSE /\ statsLoop' = "packets"
  /\ UNCHANGED <<ctxDone, keys, counters, read, shown, unanswered, lostIdle>>

StatsLoopEnds ==
  /\ InSelect /\ ctxDone
  /\ statsLoop' = "ended"
  /\ UNCHANGED <<ctxDone, keys, tick, counters, read, shown, unanswered,
                 lostIdle>>

\* Mutant: printStats loads the bytes before the packets.
Loaded_BytesFirst(at) ==
  IF at = "packets" THEN [read EXCEPT !.bytes = TxBytes]
                    ELSE [read EXCEPT !.packets = TxPackets]

\* The loads of printStats, in the order of the code.
Loaded(at) ==
  IF at = "packets" THEN [read EXCEPT !.packets = TxPackets]
                    ELSE [read EXCEPT !.bytes = TxBytes]

\* printStats begins: from here on the line answers every Enter pressed.
PrintPackets ==
  /\ statsLoop = "packets"
  /\ statsLoop' = "bytes"
  /\ read' = Loaded("packets")
  /\ unanswered' = IF unanswered = "pressed" THEN "printing" ELSE unanswered
  /\ stdin' = [i \in DOMAIN stdin |-> FALSE]
  /\ reader' = [i \in DOMAIN reader |-> FALSE]
  /\ held' = FALSE
  /\ UNCHANGED <<ctxDone, pressed, stdinErr, stdinLoop, tick, counters, shown,
                 lostIdle>>

\* The second load and the line; statsLoop goes back to its select.
PrintBytes ==
  /\ statsLoop = "bytes"
  /\ statsLoop' = "select"
  /\ read' = Loaded("bytes")
  /\ shown' = read'
  /\ unanswered' = IF unanswered = "printing" THEN "no" ELSE unanswered
  /\ UNCHANGED <<ctxDone, keys, tick, counters, lostIdle>>

Stdin == ReadKey \/ OfferKey
StdinLoop == Signal \/ StdinLoopEnds
StatsLoop == Park \/ TakeTick \/ StatsLoopEnds \/ PrintPackets \/ PrintBytes

ConsoleNext ==
  \/ PressEnter \/ ReadError \/ Cancel \/ CountSent \/ TickerTicks
  \/ Stdin \/ StdinLoop \/ StatsLoop

ConsoleSpec == ConsoleInit /\ [][ConsoleNext]_consoleVars

\* The goroutines are scheduled; a goroutine whose select finds ctx.Done ready
\* time and again takes it in the end.  The user need not do anything, and the
\* next tick may be far away.
ConsoleFairSpec ==
  /\ ConsoleSpec
  /\ WF_consoleVars(Stdin) /\ WF_consoleVars(StdinLoop)
  /\ WF_consoleVars(StatsLoop)
  /\ SF_consoleVars(StatsLoopEnds) /\ SF_consoleVars(StdinLoopEnds)

-----------------------------------------------------------------------------
\* printStats loads packets and bytes one after the other while sendLoop adds
\* to them in the same order: a line never shows packets without their bytes,
\* but for the last one.  The bytes may be ahead by any number of frames.
PacketsAtMostOneAhead == shown.packets <= shown.bytes + 1

\* An Enter pressed while the console is idle passes both non-blocking sends,
\* unless a line printed in between answers it.
IdleEnterKept == ~lostIdle

\* "Press Enter at any time to see current statistics.", for an Enter pressed
\* on an idle console: a line whose counters were read after the key was
\* pressed appears without the ticker's help, unless the bridge is stopped.
IdleEnterAnswered == unanswered = "pressed" ~> unanswered = "no" \/ ctxDone

\* Neither loop keeps Run from returning once the context is cancelled.
ConsoleEnds ==
  ctxDone ~> stdinLoop = "ended" /\ statsLoop \in {"none", "ended"}
=============================================================================
