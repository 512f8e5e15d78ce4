-------------------------- MODULE SupervisorProofs --------------------------
(***************************************************************************)
(* Proofs about the loop that keeps a process connected: where its MAC comes *)
(* from, what becomes of its captures, how long it waits, and the types.    *)
(***************************************************************************)
EXTENDS Supervisor, TLAPS

-----------------------------------------------------------------------------
(* The MAC. *)

\* The config file, and every MAC on its way into it, was found on the network.
MACInv ==
  /\ file \in {"absent", "torn"} \cup found
  /\ mac \in {NoMAC, flag} \cup found
  /\ pc \in {"save", "write"} => mac \in found
  /\ \A c \in Connections : background[c].at \in {"save", "write"} => background[c].mac \in found
  /\ background \in [Connections -> [at : {"off", "search", "save", "write", "open", "set"},
                                     mac : MACs \cup {NoMAC}]]

\* MAC and file agree with discovery at first.
LEMMA InitMAC == Init => MACInv
BY DEF Init, MACInv, Off, Connections

\* Every step keeps it: only discovery brings a new MAC, and records it.
LEMMA NextMAC == MACInv /\ [Next]_vars => MACInv'
<1> SUFFICES ASSUME MACInv, [Next]_vars PROVE MACInv'
  OBVIOUS
<1> USE DEF MACInv
<1>1. CASE ChooseMAC
  BY <1>1, SupervisorAssumption DEF ChooseMAC, LoadedMAC, procVars
<1>2. CASE OpenCapture
  BY <1>2 DEF OpenCapture, macVars, procVars
<1>3. CASE SaveFound
  BY <1>3 DEF SaveFound, Saves, macVars, procVars
<1>4. CASE OpenFound
  BY <1>4 DEF OpenFound, procVars
<1>5. CASE Connect
  <2>1. CASE background' = background
    BY <1>5, <2>1 DEF Connect, Leave, macVars, procVars
  <2>2. CASE background' = [background EXCEPT ![attempt + 1].at = "search"]
    <3>1. \A c \in Connections : background'[c].at \in {"save", "write"} =>
            background'[c] = background[c]
      BY <2>2
    <3>2. background' \in [Connections -> [at : {"off", "search", "save", "write", "open", "set"},
                                          mac : MACs \cup {NoMAC}]]
      BY <2>2, Zenon
    <3>3. /\ pc' \notin {"save", "write"}
          /\ UNCHANGED <<file, found, mac, flag>>
      BY <1>5 DEF Connect, Leave, macVars, procVars
    <3> QED BY <3>1, <3>2, <3>3
  <2> QED BY <1>5, <2>1, <2>2 DEF Connect
<1>6. CASE Decide
  BY <1>6 DEF Decide, Leave, macVars, procVars
<1>7. CASE Backoff
  BY <1>7 DEF Backoff, Leave, macVars, procVars
<1>8. CASE ForegroundDiscovery
  BY <1>8 DEF ForegroundDiscovery, procVars
<1>9. CASE RunGoesOn
  BY <1>9 DEF RunGoesOn, macVars, procVars
<1>10. ASSUME NEW c \in Connections, Search(c) PROVE MACInv'
  <2>1. CASE background' = [background EXCEPT ![c] = Off]
    BY <1>10, <2>1, Zenon DEF Search, Off, macVars, procVars
  <2>2. ASSUME NEW m \in MACs,
               background' = [background EXCEPT ![c] = [at |-> "save", mac |-> m]],
               found' = found \cup {m}
        PROVE  MACInv'
    BY <1>10, <2>2 DEF Search, macVars, procVars
  <2> QED BY <1>10, <2>1, <2>2 DEF Search, Off
<1>11. ASSUME NEW c \in Connections, Background(c) \/ SetCapture(c) PROVE MACInv'
  <2>1. CASE Background(c)
    BY <2>1 DEF Background, Saves, Off, macVars, procVars
  <2>2. CASE SetCapture(c)
    BY <2>2, Zenon DEF SetCapture, Off, macVars, procVars
  <2> QED BY <1>11, <2>1, <2>2
<1>12. CASE Signal
  BY <1>12 DEF Signal, macVars, procVars
<1>13. CASE Kill
  BY <1>13 DEF Kill, macVars, procVars
<1>14. CASE Restart
  BY <1>14 DEF Restart, Off
<1>15. CASE UNCHANGED vars
  BY <1>15 DEF vars, macVars, procVars
<1> QED BY <1>1, <1>2, <1>3, <1>4, <1>5, <1>6, <1>7, <1>8, <1>9, <1>10, <1>11,
           <1>12, <1>13, <1>14, <1>15, Zenon DEF Next, Main

\* The MAC whose frames are forwarded is real, for any Xboxes, any number of
\* connections and restarts, and wherever Save was interrupted.
THEOREM OnlyRealMACs == Spec => []MACIsReal
<1>1. MACInv => MACIsReal
  BY DEF MACInv, MACIsReal
<1> QED BY <1>1, InitMAC, NextMAC, PTL DEF Spec

-----------------------------------------------------------------------------
(* The capture. *)

\* main has no capture before the loop: discovery is for want of a MAC, and
\* the capture is opened once there is one.
CaptureInv ==
  /\ pc = "open" => (needsDiscovery => mac = NoMAC)
  /\ pc \in {"load", "open", "discover", "save", "write", "openFound"} => cap = "nil"
  /\ CaptureReleased

\* Every step of main keeps it; the others leave pc or cap alone.
LEMMA NextCapture == CaptureInv /\ [Next]_vars => CaptureInv'
<1> SUFFICES ASSUME CaptureInv, [Next]_vars PROVE CaptureInv'
  OBVIOUS
<1> USE DEF CaptureInv, CaptureReleased
<1>1. CASE ChooseMAC
  BY <1>1, Zenon DEF ChooseMAC
<1>2. CASE OpenCapture
  BY <1>2 DEF OpenCapture, macVars
<1>3. CASE SaveFound
  BY <1>3 DEF SaveFound, Saves
<1>4. CASE OpenFound
  BY <1>4 DEF OpenFound
<1>5. CASE Connect
  BY <1>5 DEF Connect, Leave
<1>6. CASE Decide
  BY <1>6 DEF Decide, Leave
<1>7. CASE Backoff
  BY <1>7 DEF Backoff, Leave
<1>8. CASE ForegroundDiscovery
  BY <1>8 DEF ForegroundDiscovery
<1>9. CASE RunGoesOn
  BY <1>9 DEF RunGoesOn
<1>10. ASSUME NEW c \in Connections, Search(c) \/ Background(c) \/ SetCapture(c)
       PROVE  CaptureInv'
  BY <1>10 DEF Search, Background, SetCapture, macVars
<1>11. CASE Signal \/ Kill \/ Restart
  BY <1>11 DEF Signal, Kill, Restart
<1>12. CASE UNCHANGED vars
  BY <1>12 DEF vars, macVars
<1> QED BY <1>1, <1>2, <1>3, <1>4, <1>5, <1>6, <1>7, <1>8, <1>9, <1>10, <1>11,
           <1>12 DEF Next, Main

\* No way out of runBridge, of which the loop alone has six, forgets main's
\* capture.
THEOREM ExitsReleaseCapture == Spec => []CaptureReleased
<1>1. Init => CaptureInv
  BY DEF Init, CaptureInv, CaptureReleased
<1>2. CaptureInv => CaptureReleased
  BY DEF CaptureInv
<1> QED BY <1>1, <1>2, NextCapture, PTL DEF Spec

-----------------------------------------------------------------------------
(* The captures of the bridges. *)

Captures == [Connections -> {"nil", "main", "open", "closed"}]

\* A process that has to discover the Xbox has no capture of its own, and only
\* such a process runs discoveries; the bridge of a discovery that is not over
\* has no capture.
HandOverInv ==
  /\ pc = "open" => (needsDiscovery <=> mac = NoMAC)
  /\ needsDiscovery => cap = "nil"
  /\ pc = "load" => cap = "nil"
  /\ \A c \in Connections : background[c].at # "off" =>
       /\ needsDiscovery /\ pc \in {"loop", "run", "backoff"} \cup Ended
       /\ capture[c] = "nil"
  /\ capture \in Captures

\* No discovery has begun.
LEMMA InitHandOver == Init => HandOverInv
BY DEF Init, HandOverInv, Off, Captures

\* A step that leaves the discoveries and the bridges' captures alone, and
\* main's choice of a MAC.
LEMMA KeepsHandOver ==
  ASSUME HandOverInv, UNCHANGED <<background, capture, mac, needsDiscovery>>,
         cap = "nil" => cap' = "nil", pc' \notin {"load", "open"} \/ pc' = pc,
         pc \in {"loop", "run", "backoff"} \cup Ended
           => pc' \in {"loop", "run", "backoff"} \cup Ended
  PROVE  HandOverInv'
BY Zenon DEF HandOverInv

\* Every step keeps it.
LEMMA NextHandOver == HandOverInv /\ MACInv /\ [Next]_vars => HandOverInv'
<1> SUFFICES ASSUME HandOverInv, MACInv, [Next]_vars PROVE HandOverInv'
  OBVIOUS
<1> DEFINE InLoop == {"loop", "run", "backoff"} \cup Ended
<1>1. CASE ChooseMAC
  BY <1>1, Zenon DEF ChooseMAC, HandOverInv, Ended
<1>2. CASE OpenCapture
  BY <1>2 DEF OpenCapture, HandOverInv, macVars, Ended
<1>3. CASE SaveFound
  <2>1. pc \in {"save", "write"} /\ pc' \in {"write", "openFound"}
    BY <1>3 DEF SaveFound, Saves
  <2> QED BY <1>3, <2>1, KeepsHandOver DEF SaveFound, macVars, Ended
<1>4. CASE OpenFound
  <2>1. /\ pc = "openFound" /\ pc' \in {"loop", "exit"}
        /\ UNCHANGED <<background, capture, mac>>
        /\ needsDiscovery' = FALSE \/ UNCHANGED <<cap, needsDiscovery>>
    BY <1>4, Zenon DEF OpenFound
  <2>2. \A c \in Connections : background[c].at = "off"
    BY <2>1 DEF HandOverInv, Ended
  <2> QED BY <2>1, <2>2 DEF HandOverInv
<1>5. CASE Connect
  <2>1. CASE UNCHANGED <<background, capture>>
    <3>1. pc' \in {"returned", "exit", "run"} /\ (cap = "nil" => cap' = "nil")
      BY <1>5 DEF Connect, Leave
    <3> QED BY <1>5, <2>1, <3>1, KeepsHandOver DEF Connect, macVars, Ended
  <2>2. CASE /\ capture' = [capture EXCEPT ![attempt + 1] = IF cap # "nil" THEN "main" ELSE "nil"]
             /\ pc' = "run" /\ UNCHANGED cap
             /\ background' = IF DiscoversAlongside
                                THEN [background EXCEPT ![attempt + 1].at = "search"]
                                ELSE background
    <3>1. UNCHANGED <<mac, needsDiscovery>>
      BY <1>5 DEF Connect, macVars
    <3>2. capture' \in Captures
      BY <2>2 DEF HandOverInv, Captures
    <3>3. ASSUME NEW c \in Connections, background'[c].at # "off"
          PROVE  needsDiscovery /\ capture'[c] = "nil"
      <4>1. needsDiscovery
        BY <2>2, <3>3 DEF HandOverInv, MACInv, DiscoversAlongside
      <4>2. cap = "nil"
        BY <4>1 DEF HandOverInv
      <4>3. CASE c = attempt + 1
        <5>1. capture' = [capture EXCEPT ![c] = "nil"]
          BY <2>2, <4>2, <4>3, Zenon
        <5>2. capture \in Captures
          BY DEF HandOverInv
        <5> QED BY <4>1, <5>1, <5>2, Zenon DEF Captures
      <4>4. CASE c # attempt + 1
        <5>1. background'[c] = background[c] /\ capture'[c] = capture[c]
          BY <2>2, <4>4, Zenon DEF HandOverInv, Captures, MACInv
        <5> QED BY <3>3, <4>1, <5>1 DEF HandOverInv
      <4> QED BY <4>1, <4>3, <4>4
    <3> QED BY <2>2, <3>1, <3>2, <3>3 DEF HandOverInv
  <2> QED BY <1>5, <2>1, <2>2, Zenon DEF Connect
<1>6. CASE Decide
  <2>1. pc' \in {"returned", "backoff", "loop", "exit"} /\ (cap = "nil" => cap' = "nil")
    BY <1>6 DEF Decide, Leave
  <2> QED BY <1>6, <2>1, KeepsHandOver DEF Decide, macVars, Ended
<1>7. CASE Backoff
  <2>1. pc' \in {"returned", "loop"} /\ (cap = "nil" => cap' = "nil")
    BY <1>7 DEF Backoff, Leave
  <2> QED BY <1>7, <2>1, KeepsHandOver DEF Backoff, macVars, Ended
<1>8. CASE ForegroundDiscovery
  BY <1>8, Zenon DEF ForegroundDiscovery, HandOverInv, Ended
<1>9. CASE RunGoesOn
  <2>1. UNCHANGED <<background, mac, needsDiscovery, pc>> /\ (cap = "nil" => cap' = "nil")
    BY <1>9 DEF RunGoesOn, macVars
  <2>2. capture' \in Captures /\ \A c \in Connections : capture[c] = "nil" => capture'[c] = "nil"
    <3>1. CASE capture' = capture
      BY <3>1 DEF HandOverInv
    <3>2. CASE capture' = [capture EXCEPT ![attempt + 1] = IF @ = "open" THEN "closed" ELSE @]
      BY <3>2 DEF HandOverInv, Captures
    <3> QED BY <1>9, <3>1, <3>2 DEF RunGoesOn
  <2> QED BY <2>1, <2>2, Zenon DEF HandOverInv
<1>10. ASSUME NEW c \in Connections, Search(c) \/ Background(c) PROVE HandOverInv'
  <2>1. background[c].at # "off" /\ UNCHANGED <<mac, needsDiscovery, cap, pc, capture>>
    BY <1>10 DEF Search, Background, Saves, macVars
  <2>2. \A d \in Connections : d = c \/ background'[d] = background[d]
    BY <1>10, Zenon DEF Search, Background, MACInv
  <2> QED BY <2>1, <2>2, Zenon DEF HandOverInv
<1>11. ASSUME NEW c \in Connections, SetCapture(c) PROVE HandOverInv'
  <2>1. UNCHANGED <<mac, needsDiscovery, cap, pc>> /\ background'[c].at = "off"
    BY <1>11 DEF SetCapture, Off, macVars, MACInv
  <2>2. \A d \in Connections :
          d = c \/ (background'[d] = background[d] /\ capture'[d] = capture[d])
    BY <1>11, Zenon DEF SetCapture, MACInv, HandOverInv, Captures
  <2>3. capture' \in Captures
    BY <1>11 DEF SetCapture, HandOverInv, Captures
  <2> QED BY <2>1, <2>2, <2>3, Zenon DEF HandOverInv
<1>12. CASE Signal \/ Kill
  BY <1>12, KeepsHandOver DEF Signal, Kill, macVars, Ended
<1>13. CASE Restart
  BY <1>13 DEF Restart, HandOverInv, Off, Captures
<1>14. CASE UNCHANGED vars
  BY <1>14, KeepsHandOver DEF vars, macVars
<1> QED BY <1>1, <1>2, <1>3, <1>4, <1>5, <1>6, <1>7, <1>8, <1>9, <1>10, <1>11,
           <1>12, <1>13, <1>14, Zenon DEF Next, Main

\* SetCapture never answers "capture already set" to a background discovery,
\* for any number of connections, restarts and discoveries that outlive theirs.
THEOREM FoundCapturesAccepted == Spec => []HandOverAccepted
<1>1. HandOverInv => HandOverAccepted
  BY DEF HandOverInv, HandOverAccepted
<1> QED BY <1>1, InitHandOver, NextHandOver, InitMAC, NextMAC, PTL DEF Spec

-----------------------------------------------------------------------------
(* The backoff. *)

\* The table, and what lies beyond it.
LEMMA BackoffDelays ==
  ASSUME NEW n \in Nat
  PROVE  /\ getBackoffDelay(n) \in 1..10
         /\ getBackoffDelay(n) <= getBackoffDelay(n + 1)
<1>1. /\ n = 0 => getBackoffDelay(n) = 1
      /\ n = 1 => getBackoffDelay(n) = 2
      /\ n = 2 => getBackoffDelay(n) = 5
      /\ n >= 3 => getBackoffDelay(n) = 10
  BY DEF getBackoffDelay
<1>2. /\ n = 0 => getBackoffDelay(n + 1) = 2
      /\ n = 1 => getBackoffDelay(n + 1) = 5
      /\ n >= 2 => getBackoffDelay(n + 1) = 10
  BY DEF getBackoffDelay
<1> HIDE DEF getBackoffDelay
<1> QED BY <1>1, <1>2

\* The last delay is at most what the next attempt would wait.
BackoffInv ==
  /\ attempt \in Nat /\ delay \in Nat
  /\ delay <= getBackoffDelay(attempt)

\* A step begins a longer backoff, counts an attempt, or touches neither.
LEMMA BackoffSteps ==
  ASSUME [Next]_vars
  PROVE  \/ UNCHANGED <<attempt, delay>> /\ (pc' = "backoff" => pc = "backoff")
         \/ delay' = getBackoffDelay(attempt) /\ attempt' = attempt
         \/ attempt' = attempt + 1 /\ delay' = delay /\ pc' # "backoff"
         \/ attempt' = 0 /\ delay' = 0 /\ pc' # "backoff"
<1> DEFINE Goal ==
      \/ UNCHANGED <<attempt, delay>> /\ (pc' = "backoff" => pc = "backoff")
      \/ delay' = getBackoffDelay(attempt) /\ attempt' = attempt
      \/ attempt' = attempt + 1 /\ delay' = delay /\ pc' # "backoff"
      \/ attempt' = 0 /\ delay' = 0 /\ pc' # "backoff"
<1>1. CASE ChooseMAC \/ OpenCapture \/ OpenFound
  BY <1>1 DEF ChooseMAC, OpenCapture, OpenFound, loopVars
<1>2. CASE SaveFound
  BY <1>2 DEF SaveFound, Saves, loopVars
<1>3. CASE Connect
  BY <1>3 DEF Connect, Leave, loopVars
<1>4. CASE Decide
  BY <1>4 DEF Decide, Leave, loopVars
<1>5. CASE Backoff
  BY <1>5 DEF Backoff, Leave
<1>6. CASE ForegroundDiscovery
  BY <1>6 DEF ForegroundDiscovery, loopVars
<1>7. CASE RunGoesOn
  BY <1>7 DEF RunGoesOn, loopVars
<1>8. ASSUME NEW c \in Connections, Search(c) \/ Background(c) \/ SetCapture(c)
      PROVE  Goal
  BY <1>8 DEF Search, Background, SetCapture, loopVars
<1>9. CASE Signal \/ Kill \/ Restart
  BY <1>9 DEF Signal, Kill, Restart, loopVars
<1>10. CASE UNCHANGED vars
  BY <1>10 DEF vars, loopVars
<1> QED BY <1>1, <1>2, <1>3, <1>4, <1>5, <1>6, <1>7, <1>8, <1>9, <1>10 DEF Next, Main

\* The delays grow to 10 and stay there, however many attempts there are.
THEOREM BackoffNeverShrinks == Spec => BackoffGrows
<1>1. Init => BackoffInv
  <2>1. getBackoffDelay(0) \in 1..10
    BY BackoffDelays
  <2> QED BY <2>1 DEF Init, BackoffInv
<1>2. BackoffInv /\ [Next]_vars => BackoffInv'
  <2> SUFFICES ASSUME BackoffInv, [Next]_vars PROVE BackoffInv'
    OBVIOUS
  <2>1. /\ getBackoffDelay(0) \in 1..10 /\ getBackoffDelay(attempt) \in 1..10
        /\ getBackoffDelay(attempt) <= getBackoffDelay(attempt + 1)
        /\ getBackoffDelay(attempt + 1) \in 1..10
    BY BackoffDelays DEF BackoffInv
  <2>2. getBackoffDelay(attempt)' = getBackoffDelay(attempt')
    BY DEF getBackoffDelay
  <2>3. attempt' \in Nat /\ delay' \in Nat /\ delay' <= getBackoffDelay(attempt')
    BY <2>1, BackoffSteps DEF BackoffInv
  <2> QED BY <2>2, <2>3 DEF BackoffInv
<1>3. BackoffInv /\ [Next]_vars =>
        [pc # "backoff" /\ pc' = "backoff" => delay <= delay' /\ delay' \in 1..10]_vars
  <2> SUFFICES ASSUME BackoffInv, [Next]_vars, pc # "backoff", pc' = "backoff"
               PROVE  delay <= delay' /\ delay' \in 1..10
    OBVIOUS
  <2>1. delay' = getBackoffDelay(attempt)
    BY BackoffSteps
  <2>2. getBackoffDelay(attempt) \in 1..10
    BY BackoffDelays DEF BackoffInv
  <2> QED BY <2>1, <2>2 DEF BackoffInv
<1> QED BY <1>1, <1>2, <1>3, PTL DEF Spec, BackoffGrows
-----------------------------------------------------------------------------
(* Types. *)

\* The number of attempts stays in its range because every attempt that is
\* counted was begun below the bound.
TypeInv == TypeOK /\ (pc \in {"run", "backoff"} => attempt < MaxConnections)

\* The first process starts well typed.
LEMMA InitType == Init /\ MaxStarts # 0 => TypeInv
<1> SUFFICES ASSUME Init, MaxStarts # 0 PROVE TypeInv
  OBVIOUS
<1>1. background \in [Connections -> Discovery]
  BY DEF Init, Discovery, Off
<1>2. starts \in 1..MaxStarts /\ attempt \in 0..MaxConnections /\ delay \in Nat
  BY SupervisorAssumption DEF Init
<1> QED BY <1>1, <1>2, Zenon DEF Init, TypeInv, TypeOK, Ended, Run!Init

\* Every step of main, of Run, of the discoveries and of the user keeps the types.
LEMMA NextType == TypeInv /\ MACInv /\ HandOverInv' /\ [Next]_vars => TypeInv'
<1> SUFFICES ASSUME TypeInv, MACInv, HandOverInv', [Next]_vars PROVE TypeInv'
  OBVIOUS
<1>0. capture' \in [Connections -> {"nil", "main", "open", "closed"}]
  BY DEF HandOverInv, Captures
<1> USE SupervisorAssumption DEF TypeInv, TypeOK, Ended, procVars, runVars, macVars, loopVars
<1>1. CASE ChooseMAC
  BY <1>0, <1>1 DEF ChooseMAC, LoadedMAC
<1>2. CASE OpenCapture
  BY <1>0, <1>2 DEF OpenCapture
<1>3. CASE SaveFound
  <2>1. file' \in {"absent", "torn"} \cup MACs
    BY <1>3 DEF SaveFound, Saves, MACInv
  <2>2. pc' \in {"write", "openFound"}
    BY <1>3 DEF SaveFound
  <2> QED BY <1>0, <1>3, <2>1, <2>2 DEF SaveFound
<1>4. CASE OpenFound
  <2>1. /\ cap' \in {"nil", "open", "closed"} /\ needsDiscovery' \in BOOLEAN
        /\ pc' \in {"loop", "exit"}
    BY <1>4, Zenon DEF OpenFound
  <2> QED BY <1>0, <1>4, <2>1 DEF OpenFound
<1>5. CASE Connect
  <2>1. background' \in [Connections -> Discovery]
    <3>1. CASE background' = background
      BY <3>1
    <3>2. CASE background' = [background EXCEPT ![attempt + 1].at = "search"]
      BY <3>2, ZenonT(30) DEF Discovery
    <3> QED BY <1>5, <3>1, <3>2 DEF Connect
  <2>2. /\ cap' \in {"nil", "open", "closed"}
        /\ pc' \in {"returned", "run", "exit"}
        /\ pc' = "run" => attempt < MaxConnections
    BY <1>5 DEF Connect, Leave
  <2>3. /\ phase' \in {phase, "idle"} /\ ret' \in {ret, "none"}
        /\ connDone' \in BOOLEAN /\ crashed' = crashed
    BY <1>5, Zenon DEF Connect
  <2> QED BY <1>0, <1>5, <2>1, <2>2, <2>3 DEF Connect
<1>6. CASE Decide
  <2>1. getBackoffDelay(attempt) \in Nat
    BY BackoffDelays
  <2>2. cap' \in {"nil", "open", "closed"}
    BY <1>6 DEF Decide, Leave
  <2>3. /\ pc' \in {"returned", "backoff", "loop", "exit"}
        /\ attempt' \in {attempt, attempt + 1}
        /\ pc' = "backoff" => attempt' = attempt
        /\ delay' \in Nat
    BY <1>6, <2>1, Zenon DEF Decide, Leave
  <2>4. attempt < MaxConnections
    BY <1>6 DEF Decide
  <2> QED BY <1>0, <1>6, <2>2, <2>3, <2>4 DEF Decide
<1>7. CASE Backoff
  BY <1>0, <1>7 DEF Backoff, Leave
<1>8. CASE ForegroundDiscovery
  BY <1>0, <1>8 DEF ForegroundDiscovery
<1>9. CASE RunGoesOn
  <2>1. /\ phase' \in {"idle", "connecting", "connected", "lost", "over"}
        /\ ret' \in {"none", "nil", "error", "peerDisconnected"}
        /\ connDone' = connDone /\ crashed' \in BOOLEAN
    BY <1>9, Zenon DEF RunGoesOn, Run!RunStep, Run!Start, Run!Connect, Run!Fail, Run!Lose,
                Run!Return, Run!Crash
  <2>2. cap' \in {"nil", "open", "closed"}
    BY <1>9 DEF RunGoesOn
  <2> QED BY <1>0, <1>9, <2>1, <2>2, Zenon DEF RunGoesOn
<1>10. ASSUME NEW c \in Connections, Search(c) PROVE TypeInv'
  <2>1. background' \in [Connections -> Discovery]
    BY <1>10 DEF Search, Discovery, Off
  <2>2. found' \subseteq MACs
    BY <1>10 DEF Search
  <2> QED BY <1>0, <1>10, <2>1, <2>2 DEF Search
<1>11. ASSUME NEW c \in Connections, Background(c) \/ SetCapture(c) PROVE TypeInv'
  <2>1. background' \in [Connections -> Discovery]
    BY <1>11 DEF Background, SetCapture, Discovery, Off
  <2>2. file' \in {"absent", "torn"} \cup MACs
    BY <1>11 DEF Background, SetCapture, Saves, MACInv
  <2>3. UNCHANGED <<found, starts, mode, flag, pc, mac, needsDiscovery, cap,
                    appDone, attempt, delay, phase, connDone, ret, crashed>>
    BY <1>11, Zenon DEF Background, SetCapture
  <2> QED BY <1>0, <2>1, <2>2, <2>3
<1>12. CASE Signal
  BY <1>0, <1>12 DEF Signal
<1>13. CASE Kill
  BY <1>0, <1>13 DEF Kill
<1>14. CASE Restart
  <2>1. background' \in [Connections -> Discovery]
    BY <1>14 DEF Restart, Discovery, Off
  <2>2. starts' \in 1..MaxStarts
    BY <1>14 DEF Restart
  <2>3. attempt' \in 0..MaxConnections /\ delay' \in Nat
    BY <1>14 DEF Restart
  <2> QED BY <1>0, <1>14, <2>1, <2>2, <2>3, Zenon DEF Restart
<1>15. CASE UNCHANGED vars
  BY <1>0, <1>15 DEF vars
<1> QED
  BY <1>1, <1>2, <1>3, <1>4, <1>5, <1>6, <1>7, <1>8, <1>9, <1>10, <1>11, <1>12,
     <1>13, <1>14, <1>15, Zenon DEF Next, Main

\* runBridge's variables, the file and the background discoveries keep their
\* types, for any number of connections, discoveries and restarts.
THEOREM TypeCorrect == MaxStarts # 0 /\ Spec => []TypeOK
<1>1. TypeInv => TypeOK
  BY DEF TypeInv
<1> QED BY <1>1, InitType, NextType, InitMAC, NextMAC, InitHandOver, NextHandOver,
           PTL DEF Spec
=============================================================================
