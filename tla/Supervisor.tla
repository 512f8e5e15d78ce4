----------------------------- MODULE Supervisor -----------------------------
(***************************************************************************)
(* runBridge: start-up, the choice of the Xbox MAC, discovery, and the      *)
(* reconnection loop around Bridge.Run; with the config file, which          *)
(* outlives the process.  The process may be killed at any step and started *)
(* again.                                                                   *)
(*                                                                         *)
(* Run is BridgeLife, the contract that module Bridge is shown to keep.     *)
(* With LossReturns the loop is checked against more than Bridge does: also *)
(* against a Run that returns when the peer is lost, as its comments say.   *)
(*                                                                         *)
(* The codec, whose receive nonce is reset with every session by the loop    *)
(* and by the handshake, is in module Session.                              *)
(***************************************************************************)
EXTENDS Naturals, Sequences

CONSTANTS
  LossReturns,
  Modes,            \* subset of {"listen", "connect"}
  MACs,             \* the Xboxes around
  NoMAC,
  MaxConnections,   \* bound: connections of one process
  MaxDiscoveries,   \* bound: how many of them begin a background discovery
  MaxStarts         \* bound: processes started

ASSUME SupervisorAssumption ==
  /\ LossReturns \in BOOLEAN
  /\ Modes \subseteq {"listen", "connect"} /\ NoMAC \notin MACs
  /\ "absent" \notin MACs /\ "torn" \notin MACs
  /\ MaxConnections \in Nat /\ MaxDiscoveries \in Nat /\ MaxStarts \in Nat

VARIABLES
  file,             \* the config file: "absent", "torn" or what it says
  found,            \* history: the MACs that discovery has found
  starts,           \* history: processes started
  mode, flag,       \* the command line: mode and --xbox-mac
  pc,               \* program counter of runBridge
  mac, needsDiscovery,
  cap,              \* main's capture: "nil", "open" or "closed"
  appDone,          \* appCtx
  attempt, delay,   \* reconnection attempts, and the last backoff (0: none)
  background,       \* runBackgroundDiscovery of each connection
  capture,          \* the capture of each connection's bridge: "nil", "main"
                    \* for main's, or "open" or "closed" for its discovery's
  phase, connDone, ret, crashed     \* Run; connDone is connCtx

procVars == <<starts, mode, flag>>
runVars  == <<phase, connDone, ret, crashed>>
macVars  == <<mac, needsDiscovery>>
loopVars == <<attempt, delay>>
vars == <<file, found, procVars, pc, macVars, cap, appDone, loopVars,
          background, capture, runVars>>

Run == INSTANCE BridgeLife WITH cancelled <- connDone

Ended == {"returned", "exit", "killed"}
Alive == pc \notin Ended /\ ~crashed

Connections == 1..MaxConnections
\* What a goroutine of runBackgroundDiscovery is about to do, and its MAC.
Discovery == [at : {"off", "search", "save", "write", "open", "set"},
              mac : MACs \cup {NoMAC}]
Off == [at |-> "off", mac |-> NoMAC]

TypeOK ==
  /\ file \in {"absent", "torn"} \cup MACs /\ found \subseteq MACs
  /\ starts \in 1..MaxStarts /\ mode \in Modes /\ flag \in MACs \cup {NoMAC}
  /\ pc \in {"load", "open", "discover", "save", "write", "openFound", "loop",
             "run", "backoff"} \cup Ended
  /\ mac \in MACs \cup {NoMAC} /\ needsDiscovery \in BOOLEAN
  /\ cap \in {"nil", "open", "closed"} /\ appDone \in BOOLEAN
  /\ attempt \in 0..MaxConnections /\ delay \in Nat
  /\ background \in [Connections -> Discovery]
  /\ capture \in [Connections -> {"nil", "main", "open", "closed"}]
  /\ phase \in {"idle", "connecting", "connected", "lost", "over"}
  /\ connDone \in BOOLEAN /\ crashed \in BOOLEAN
  /\ ret \in {"none", "nil", "error", "peerDisconnected"}

Init ==
  /\ file \in {"absent"} \cup MACs /\ found = MACs \cap {file}
  /\ starts = 1 /\ mode \in Modes /\ flag \in MACs \cup {NoMAC}
  /\ pc = "load" /\ mac = NoMAC /\ needsDiscovery = FALSE /\ cap = "nil"
  /\ appDone = FALSE /\ attempt = 0 /\ delay = 0
  /\ background = [c \in Connections |-> Off]
  /\ capture = [c \in Connections |-> "nil"]
  /\ Run!Init

-----------------------------------------------------------------------------
(* Start-up. *)

\* Mutant: what is left of a torn file is taken for a MAC.
LoadedMAC_Torn ==
  IF file = "absent" THEN NoMAC
  ELSE IF file = "torn" THEN CHOOSE m \in MACs : TRUE ELSE file

\* Load and GetXboxMAC: a torn file does not parse, and an empty config is
\* used instead.
LoadedMAC == IF file \in MACs THEN file ELSE NoMAC

\* --xbox-mac overrides the saved MAC; without either there is discovery.
ChooseMAC ==
  /\ Alive /\ pc = "load"
  /\ mac' = IF flag # NoMAC THEN flag ELSE LoadedMAC
  /\ needsDiscovery' = (mac' = NoMAC)
  /\ pc' = "open"
  /\ UNCHANGED <<file, found, procVars, cap, appDone, loopVars, background,
                 capture, runVars>>

\* FindInterface, and capture.New if there is a MAC; an error ends the process.
OpenCapture ==
  /\ Alive /\ pc = "open"
  /\ \/ /\ cap' = IF mac # NoMAC THEN "open" ELSE "nil"
        /\ pc' = IF needsDiscovery /\ mode = "connect" THEN "discover" ELSE "loop"
     \/ pc' = "exit" /\ UNCHANGED cap
  /\ UNCHANGED <<file, found, procVars, macVars, appDone, loopVars, background,
                 capture, runVars>>

\* runForegroundDiscovery: a MAC, or nothing (Ctrl+C, or pcap fails).
ForegroundDiscovery ==
  /\ Alive /\ pc = "discover"
  /\ \/ \E m \in MACs : /\ mac' = m /\ found' = found \cup {m}
                        /\ pc' = "save"
     \/ pc' = "exit" /\ UNCHANGED <<mac, found>>
  /\ UNCHANGED <<file, procVars, needsDiscovery, cap, appDone, loopVars,
                 background, capture, runVars>>

\* SaveTo: WriteFile truncates and then writes.  Any step may fail, which is
\* only logged.  A goroutine at `at' saves m and goes on to `next'.
Saves(at, m, next) ==
  \/ at = "save" /\ file' = "torn" /\ next = "write"
  \/ at = "save" /\ file' \in {file, "torn"} /\ next = "open"
  \/ at = "write" /\ file' \in {m, "torn"} /\ next = "open"

SaveFound ==
  /\ Alive
  /\ \E next \in {"write", "open"} :
       /\ Saves(pc, mac, next)
       /\ pc' = IF next = "open" THEN "openFound" ELSE next
  /\ UNCHANGED <<found, procVars, macVars, cap, appDone, loopVars, background,
                 capture, runVars>>

OpenFound ==
  /\ Alive /\ pc = "openFound"
  /\ \/ /\ cap' = "open" /\ needsDiscovery' = FALSE
        /\ pc' = "loop"
     \/ pc' = "exit" /\ UNCHANGED <<cap, needsDiscovery>>
  /\ UNCHANGED <<file, found, procVars, mac, appDone, loopVars, background,
                 capture, runVars>>

-----------------------------------------------------------------------------
(* The reconnection loop. *)

\* Mutant: an exit forgets the capture.
Leave_Open(how) == pc' = how /\ UNCHANGED cap

\* Every way out of the loop closes the capture.
Leave(how) ==
  /\ pc' = how
  /\ cap' = IF cap = "open" THEN "closed" ELSE cap

\* Mutant: a listener looks for the Xbox even if it knows one.
DiscoversAlongside_Always == mode = "listen"

\* main begins a background discovery with the connection.
DiscoversAlongside == needsDiscovery /\ mode = "listen"

\* The head of the loop: shutdown, or a fresh transport and bridge.
Connect ==
  /\ Alive /\ pc = "loop"
  /\ IF appDone
       THEN /\ Leave("returned")
            /\ UNCHANGED <<background, capture, runVars>>
       ELSE \/ /\ attempt < MaxConnections
               /\ DiscoversAlongside => attempt < MaxDiscoveries
               /\ pc' = "run"
               /\ phase' = "idle" /\ ret' = "none" /\ connDone' = FALSE
               /\ background' =
                    IF DiscoversAlongside
                      THEN [background EXCEPT ![attempt + 1].at = "search"]
                      ELSE background
               /\ capture' = [capture EXCEPT ![attempt + 1] =
                                IF cap # "nil" THEN "main" ELSE "nil"]
               /\ UNCHANGED <<cap, crashed>>
            \/ /\ Leave("exit")
               /\ UNCHANGED <<background, capture, runVars>>
  /\ UNCHANGED <<file, found, procVars, macVars, appDone, loopVars>>

\* Run goes on.  The teardown of a connection, which a handshake that failed
\* never reaches, closes the bridge's capture, whoever has opened it.
RunGoesOn ==
  /\ Alive /\ pc = "run" /\ Run!RunStep
  /\ IF phase # "connecting" /\ phase' = "over"
       THEN /\ cap' = IF cap = "open" THEN "closed" ELSE cap
            /\ capture' = [capture EXCEPT ![attempt + 1] =
                             IF @ = "open" THEN "closed" ELSE @]
       ELSE UNCHANGED <<cap, capture>>
  /\ UNCHANGED <<file, found, procVars, pc, macVars, appDone, loopVars,
                 background>>

\* Mutant: the last entry of the table does not stay.
getBackoffDelay_Wraps(n) == LET backoffs == <<1, 2, 5, 10>> IN
  backoffs[(n % Len(backoffs)) + 1]

\* In seconds.
getBackoffDelay(n) == LET backoffs == <<1, 2, 5, 10>> IN
  IF n < Len(backoffs) THEN backoffs[n + 1] ELSE 10

\* Run has returned: the connection is cleaned up, and the result decides.  The
\* codec, whose receive nonce is reset here and by every handshake, is not part
\* of this module.
Decide ==
  /\ Alive /\ pc = "run" /\ phase = "over"
  /\ connDone' = TRUE
  /\ IF appDone \/ ret = "nil"
       THEN Leave("returned") /\ UNCHANGED loopVars
     ELSE IF ret = "peerDisconnected"
       THEN /\ IF mode = "connect"
                 THEN /\ delay' = getBackoffDelay(attempt)
                      /\ pc' = "backoff" /\ UNCHANGED attempt
                 ELSE pc' = "loop" /\ attempt' = attempt + 1 /\ UNCHANGED delay
            /\ UNCHANGED cap
       ELSE Leave("exit") /\ UNCHANGED loopVars
  /\ UNCHANGED <<file, found, procVars, macVars, appDone, background, capture,
                 phase, ret, crashed>>

\* The select between the timer and appCtx.
Backoff ==
  /\ Alive /\ pc = "backoff"
  /\ \/ attempt' = attempt + 1 /\ pc' = "loop" /\ UNCHANGED cap
     \/ appDone /\ Leave("returned") /\ UNCHANGED attempt
  /\ UNCHANGED <<file, found, procVars, macVars, appDone, delay,
                 background, capture, runVars>>

-----------------------------------------------------------------------------
(* runBackgroundDiscovery of connection c, past main's control. *)

\* Discover looks at connCtx only while it searches.
Search(c) ==
  /\ Alive /\ background[c].at = "search"
  /\ \/ \E m \in MACs : /\ background' = [background EXCEPT ![c] = [at |-> "save", mac |-> m]]
                        /\ found' = found \cup {m}
     \/ background' = [background EXCEPT ![c] = Off] /\ UNCHANGED found
  /\ UNCHANGED <<file, procVars, pc, macVars, cap, appDone, loopVars, capture,
                 runVars>>

\* Save, and capture.New, which may fail, while main goes on.
Background(c) ==
  /\ Alive
  /\ \/ \E next \in {"write", "open"} :
          /\ Saves(background[c].at, background[c].mac, next)
          /\ background' = [background EXCEPT ![c].at = next]
     \/ /\ background[c].at = "open"
        /\ \/ background' = [background EXCEPT ![c].at = "set"]
           \/ background' = [background EXCEPT ![c] = Off]
        /\ UNCHANGED file
  /\ UNCHANGED <<found, procVars, pc, macVars, cap, appDone, loopVars, capture,
                 runVars>>

\* br.SetCapture, on a bridge that may have returned from Run: "capture already
\* set", and the new one is closed, or the bridge has it.
SetCapture(c) ==
  /\ Alive /\ background[c].at = "set"
  /\ background' = [background EXCEPT ![c] = Off]
  /\ capture' = [capture EXCEPT ![c] = IF @ = "nil" THEN "open" ELSE @]
  /\ UNCHANGED <<file, found, procVars, pc, macVars, cap, appDone, loopVars,
                 runVars>>

-----------------------------------------------------------------------------
\* Mutant: connCtx is no child of appCtx.
Signal_AppOnly ==
  /\ Alive /\ ~appDone /\ pc \notin {"load", "open"}
  /\ appDone' = TRUE
  /\ UNCHANGED <<file, found, procVars, pc, macVars, cap, loopVars, background,
                 capture, runVars>>

\* Ctrl+C: appCancel, which cancels connCtx with it.
Signal ==
  /\ Alive /\ ~appDone /\ pc \notin {"load", "open"}
  /\ appDone' = TRUE /\ connDone' = TRUE
  /\ UNCHANGED <<file, found, procVars, pc, macVars, cap, loopVars, background,
                 capture, phase, ret, crashed>>

\* The process is killed, or the machine stops.
Kill ==
  /\ Alive
  /\ pc' = "killed"
  /\ UNCHANGED <<file, found, procVars, macVars, cap, appDone, loopVars,
                 background, capture, runVars>>

\* It is started again, perhaps with other arguments.
Restart ==
  /\ ~Alive /\ starts < MaxStarts
  /\ starts' = starts + 1 /\ mode' \in Modes /\ flag' \in MACs \cup {NoMAC}
  /\ pc' = "load" /\ mac' = NoMAC /\ needsDiscovery' = FALSE /\ cap' = "nil"
  /\ appDone' = FALSE /\ attempt' = 0 /\ delay' = 0
  /\ background' = [c \in Connections |-> Off]
  /\ capture' = [c \in Connections |-> "nil"]
  /\ phase' = "idle" /\ connDone' = FALSE /\ ret' = "none" /\ crashed' = FALSE
  /\ UNCHANGED <<file, found>>

Main ==
  \/ ChooseMAC \/ OpenCapture \/ SaveFound \/ OpenFound
  \/ Connect \/ Decide \/ Backoff

Next ==
  \/ Main \/ ForegroundDiscovery \/ RunGoesOn
  \/ \E c \in Connections : Search(c) \/ Background(c) \/ SetCapture(c)
  \/ Signal \/ Kill \/ Restart

Spec == Init /\ [][Next]_vars

\* main runs; a discovery that is cancelled returns (its reads time out); Run
\* begins, and on a cancelled context returns.  A lost peer need not make it
\* return: LossReturns allows it, nothing demands it.
FairSpec ==
  /\ Spec
  /\ WF_vars(Main) /\ WF_vars(appDone /\ ForegroundDiscovery)
  /\ WF_vars(RunGoesOn /\ (Run!Start \/ (connDone /\ (Run!Return \/ Run!Fail))))

-----------------------------------------------------------------------------
\* The MAC whose frames are forwarded was given on the command line or seen
\* on the network by a discovery, of this process or an earlier one, wherever
\* in Save an earlier process was killed or ended by its main goroutine.
MACIsReal == mac \in {NoMAC, flag} \cup found

\* runBridge never ends, by return or os.Exit, with its own capture open.  A
\* capture that a background discovery opened is the bridge's.
CaptureReleased == pc \in {"returned", "exit"} => cap # "open"

\* What a background discovery has found is never thrown away as "capture
\* already set": main gives its bridge a capture or starts a discovery for it,
\* never both, over any number of connections.
HandOverAccepted ==
  \A c \in Connections : background[c].at = "set" => capture[c] = "nil"

\* "Backoff sequence: 1s, 2s, 5s, 10s (capped)": the delays of one process
\* never shrink, and stay between 1 and 10 however many attempts it makes.
BackoffGrows ==
  [][pc # "backoff" /\ pc' = "backoff" => delay <= delay' /\ delay' \in 1..10]_vars

\* A signal ends the process, wherever it finds main: in discovery, in a
\* handshake, connected, losing its peer, or in backoff.
SignalEnds == appDone ~> (pc \in Ended \/ crashed)
=============================================================================
