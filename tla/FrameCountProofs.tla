-------------------------- MODULE FrameCountProofs --------------------------
(***************************************************************************)
(* Two bounds on the frame path, for every buffer size, every number of     *)
(* frames, PINGs and PONGs and every set of goroutines sharing the codec:   *)
(* how far the two ends' counters are apart, and how many frames the PINGs  *)
(* and PONGs cost.  Both count finite sets of messages in flight.           *)
(***************************************************************************)
EXTENDS FramePathProofs, FiniteSetTheorems

-----------------------------------------------------------------------------
(* Counting. *)

\* No two goroutines hold the same nonce, and sendLoop holds a frame that it
\* has not sent.
HoldInv ==
  /\ WireInv
  /\ \A g, h \in Senders : \A m1 \in held[g], m2 \in held[h] :
       m1.nonce = m2.nonce => g = h
  /\ held["send"] # {} => uncounted = FALSE

\* The frames that were sent and that Decode would accept, by their nonces.
Arriving == {x \in OnTheWire \cup receiving :
               x.type = "FRAME" /\ x.nonce > receiver.recvNonce}
ArrivingNonces == {m.nonce : m \in Arriving}

\* Every frame that was received, or may still be, was sent.
CountInv ==
  RxPackets + Cardinality(ArrivingNonces)
    <= TxPackets + (IF uncounted THEN 1 ELSE 0)

\* The cardinalities of a finite set and of one that is hardly larger.
LEMMA SmallerSet ==
  ASSUME NEW S, IsFiniteSet(S), NEW T, NEW x
  PROVE  /\ Cardinality(S) \in Nat
         /\ T \subseteq S \cup {x} =>
              Cardinality(T) \in Nat /\ Cardinality(T) <= Cardinality(S) + 1
         /\ T \subseteq S => Cardinality(T) \in Nat /\ Cardinality(T) <= Cardinality(S)
         /\ T \subseteq S \ {x} /\ x \in S =>
              Cardinality(T) \in Nat /\ Cardinality(T) + 1 <= Cardinality(S)
<1>1. Cardinality(S) \in Nat
  BY FS_CardinalityType
<1>2. ASSUME T \subseteq S
      PROVE  IsFiniteSet(T) /\ Cardinality(T) \in Nat /\ Cardinality(T) <= Cardinality(S)
  BY <1>2, FS_Subset, FS_CardinalityType
<1>3. ASSUME T \subseteq S \cup {x}
      PROVE  Cardinality(T) \in Nat /\ Cardinality(T) <= Cardinality(S) + 1
  <2>1. /\ IsFiniteSet(S \cup {x}) /\ Cardinality(S \cup {x}) \in Nat
        /\ Cardinality(S \cup {x}) <= Cardinality(S) + 1
    <3>1. /\ IsFiniteSet(S \cup {x})
          /\ Cardinality(S \cup {x})
               = IF x \in S THEN Cardinality(S) ELSE Cardinality(S) + 1
      BY FS_AddElement, Zenon
    <3>. QED
      BY <1>1, <3>1
  <2>2. /\ IsFiniteSet(T) /\ Cardinality(T) <= Cardinality(S \cup {x})
    BY <1>3, <2>1, FS_Subset
  <2>3. Cardinality(T) \in Nat
    BY <2>2, FS_CardinalityType
  <2>. QED
    BY <1>1, <2>1, <2>2, <2>3
<1>4. ASSUME T \subseteq S \ {x}, x \in S
      PROVE  Cardinality(T) \in Nat /\ Cardinality(T) + 1 <= Cardinality(S)
  <2>1. /\ IsFiniteSet(S \ {x}) /\ Cardinality(S \ {x}) = Cardinality(S) - 1
    BY <1>4, FS_RemoveElement
  <2>2. /\ IsFiniteSet(T) /\ Cardinality(T) <= Cardinality(S \ {x})
    BY <1>4, <2>1, FS_Subset
  <2>3. Cardinality(T) \in Nat
    BY <2>2, FS_CardinalityType
  <2>. QED
    BY <1>1, <2>1, <2>2, <2>3
<1>. QED
  BY <1>1, <1>2, <1>3, <1>4

\* The frames that may still arrive are finitely many.
LEMMA ArrivingFinite ==
  ASSUME IInv
  PROVE  IsFiniteSet(ArrivingNonces)
<1>1. ArrivingNonces \subseteq 1..sender.sendNonce
  BY DEF ArrivingNonces, Arriving, InFlight, IInv, NonceInv
<1>2. IsFiniteSet(1..sender.sendNonce)
  BY FS_Interval DEF IInv, TypeOK
<1>. QED
  BY <1>1, <1>2, FS_Subset, Zenon

\* Encoding gives a goroutine that held nothing the newest nonce.
LEMMA EncodedHeld ==
  ASSUME IInv, HoldInv, Key # NoKey, NEW g \in Senders, NEW p \in Frame,
         NEW type \in {"FRAME", "CONTROL"},
         type = "FRAME" <=> g = "send", Encoded(g, type, p),
         g = "send" => uncounted = FALSE, UNCHANGED <<uncounted, net, sent>>
  PROVE  HoldInv'
<1>. DEFINE e == Encode(sender, "A", "B", type, p)
<1>1. e.nonce = sender.sendNonce + 1 /\ e.type = type /\ sender.sendNonce \in Nat
  <2>1. TypeOK
    BY Zenon DEF IInv
  <2>2. sender.sendNonce \in Nat
    BY <2>1 DEF TypeOK
  <2>. QED
    BY <2>1, <2>2, EncodeFacts, ZenonT(30)
<1>2. held' = [held EXCEPT ![g] = {e}] /\ DOMAIN held = Senders
  BY DEF Encoded, IInv, TypeOK
<1>. HIDE DEF e
<1>3. \A h \in Senders : held'[h] = IF h = g THEN {e} ELSE held[h]
  BY <1>2
<1>4. \A h \in Senders : \A m \in held[h] : m.nonce \in Nat /\ m.nonce < e.nonce
  <2>1. \A h \in Senders : held[h] \subseteq InFlight
    BY DEF InFlight, Held
  <2>. QED
    BY <1>1, <2>1 DEF IInv, NonceInv
<1>5. /\ \A m \in held'["send"] : m.type = "FRAME"
      /\ \A h \in Control : \A m \in held'[h] : m.type = "CONTROL"
      /\ held'["send"] # {} => uncounted' = FALSE
  <2>1. "send" \in Senders /\ Control \subseteq Senders /\ "send" \notin Control
    BY FramePathAssumption DEF Senders
  <2>2. held'["send"] # {} => uncounted' = FALSE
    BY <1>3, <2>1 DEF HoldInv, WireInv
  <2>3. \A m \in held'["send"] : m.type = "FRAME"
    BY <1>1, <1>3, <2>1 DEF HoldInv, WireInv
  <2>4. \A h \in Control : \A m \in held'[h] : m.type = "CONTROL"
    BY <1>1, <1>3, <2>1 DEF HoldInv, WireInv
  <2>. QED
    BY <2>2, <2>3, <2>4
<1>6. \A h \in Senders : \A m1, m2 \in held'[h] : m1 = m2
  BY <1>3 DEF HoldInv, WireInv
<1>7. \A h, k \in Senders : \A m1 \in held'[h], m2 \in held'[k] :
        m1.nonce = m2.nonce => h = k
  BY <1>1, <1>3, <1>4 DEF HoldInv, WireInv
<1>. QED
  BY <1>5, <1>6, <1>7 DEF HoldInv, WireInv

\* A step keeps what every holder holds distinct.
LEMMA StepHold ==
  ASSUME IInv, HoldInv, Key # NoKey, [Next]_vars
  PROVE  HoldInv'
<1>1. CASE UNCHANGED <<held, uncounted, net, sent>>
  BY <1>1 DEF HoldInv, WireInv
<1>2. CASE SendTake
  <2>1. CASE Encoded("send", "FRAME", Head(framesToSend))
    <3>1. Head(framesToSend) \in Frame
      BY <1>2, TailFacts DEF SendTake, IInv, TypeOK
    <3>2. uncounted = FALSE /\ UNCHANGED <<uncounted, net, sent>>
      BY <1>2 DEF SendTake, IInv, TypeOK
    <3>. QED
      BY <2>1, <3>1, <3>2, EncodedHeld, Zenon DEF Senders
  <2>. QED
    BY <1>1, <1>2, <2>1 DEF SendTake
<1>3. ASSUME NEW g \in Control, ControlEncode(g)
      PROVE  HoldInv'
  <2>1. [id |-> 0, len |-> 1] \in Frame
    BY FramePathAssumption DEF Frame
  <2>2. g # "send" /\ g \in Senders /\ UNCHANGED <<uncounted, net, sent>>
    BY <1>3, FramePathAssumption DEF ControlEncode, Senders
  <2>. QED
    BY <1>3, <2>1, <2>2, EncodedHeld, Zenon DEF ControlEncode
<1>4. ASSUME NEW g \in Senders, Transmit(g)
      PROVE  HoldInv'
  <2>1. \A h \in Senders : held'[h] = IF h = g THEN {} ELSE held[h]
    BY <1>4 DEF Transmit, IInv, TypeOK
  <2>2. "send" \in Senders /\ Control \subseteq Senders
    BY DEF Senders
  <2>3. held'["send"] # {} => uncounted' = FALSE
    BY <1>4, <2>1, <2>2, Zenon DEF Transmit, HoldInv, WireInv
  <2>4. sent \in Nat /\ net \subseteq Datagram /\ \A d \in Datagram : d.at \in Nat
    BY DEF IInv, TypeOK, Datagram
  <2>5. \/ net' = net /\ sent' = sent
        \/ /\ sent' = sent + 1
           /\ net' = net \cup {[at |-> sent + 1, msg |-> m] : m \in held[g]}
    BY <1>4 DEF Transmit
  <2>6. \A d \in net' : d.at <= sent'
    BY <2>4, <2>5 DEF HoldInv, WireInv
  <2>7. \A d, e \in net' : d.at = e.at => d = e
    <3>1. CASE net' = net
      BY <3>1 DEF HoldInv, WireInv
    <3>2. CASE net' = net \cup {[at |-> sent + 1, msg |-> m] : m \in held[g]}
      <4>1. \A d \in net : d.at < sent + 1
        BY <2>4 DEF HoldInv, WireInv
      <4>2. \A d, e \in {[at |-> sent + 1, msg |-> m] : m \in held[g]} :
              d = e /\ d.at = sent + 1
        BY DEF HoldInv, WireInv
      <4>. QED
        BY <2>4, <3>2, <4>1, <4>2 DEF HoldInv, WireInv
    <3>. QED
      BY <2>5, <3>1, <3>2, Zenon
  <2>. QED
    BY <2>1, <2>2, <2>3, <2>6, <2>7 DEF HoldInv, WireInv
<1>5. ASSUME UNCHANGED <<held, sent>>, net' \subseteq net,
             uncounted' = uncounted \/ uncounted' = FALSE
      PROVE  HoldInv'
  BY <1>5 DEF HoldInv, WireInv
<1>6. CASE CountSent
  BY <1>5, <1>6, Zenon DEF CountSent
<1>7. CASE \E d \in net : RecvBegin(d) \/ Lose(d)
  BY <1>5, <1>7, Zenon DEF RecvBegin, Lose
<1>8. CASE \/ \E len \in 0..Cells : CaptureFrame(len)
           \/ RecvEnd \/ InjectTake \/ InjectWrite \/ UNCHANGED vars
  BY <1>1, <1>8, Zenon DEF CaptureFrame, RecvEnd, InjectTake, InjectWrite, vars
<1>. QED
  BY <1>2, <1>3, <1>4, <1>6, <1>7, <1>8 DEF Next

\* No step but sendLoop's Transmit makes a frame arrive, and a frame that is
\* counted does not arrive again: its nonce is the last one.
LEMMA StepCount ==
  ASSUME IInv, HoldInv, CountInv, Key # NoKey, [Next]_vars
  PROVE  CountInv'
<1>. DEFINE A == ArrivingNonces
<1>0. /\ RxPackets \in Nat /\ TxPackets \in Nat /\ IsFiniteSet(A)
      /\ uncounted \in BOOLEAN /\ Cardinality(A) \in Nat
  BY ArrivingFinite, FS_CardinalityType, Zenon DEF IInv, TypeOK
<1>1. ASSUME ArrivingNonces' \subseteq A, UNCHANGED <<RxPackets, TxPackets, uncounted>>
      PROVE  CountInv'
  <2>1. Cardinality(ArrivingNonces') \in Nat /\ Cardinality(ArrivingNonces') <= Cardinality(A)
    BY <1>0, <1>1, SmallerSet, Zenon
  <2>. QED
    BY <1>0, <1>1, <2>1 DEF CountInv
<1>2. ASSUME UNCHANGED <<net, receiving, receiver>>
      PROVE  ArrivingNonces' = A
  BY <1>2 DEF ArrivingNonces, Arriving, OnTheWire
<1>3. CASE CountSent
  <2>1. ArrivingNonces' = A
    BY <1>2, <1>3 DEF CountSent
  <2>. QED
    BY <1>0, <1>3, <2>1 DEF CountInv, CountSent
<1>4. ASSUME NEW g \in Senders, Transmit(g)
      PROVE  CountInv'
  <2>1. OnTheWire' \subseteq OnTheWire \cup held[g]
    BY <1>4 DEF Transmit, OnTheWire
  <2>2. CASE UNCHANGED <<net, sent, uncounted>>
    BY <1>1, <1>2, <1>4, <2>2 DEF Transmit
  <2>3. CASE g = "send" /\ uncounted' = TRUE
    <3>1. PICK m \in held[g] : held[g] = {m}
      BY <1>4 DEF Transmit, HoldInv, WireInv
    <3>2. ArrivingNonces' \subseteq A \cup {m.nonce}
      BY <1>4, <2>1, <3>1, Zenon DEF ArrivingNonces, Arriving, Transmit
    <3>3. /\ Cardinality(ArrivingNonces') \in Nat
          /\ Cardinality(ArrivingNonces') <= Cardinality(A) + 1
      BY <1>0, <3>2, SmallerSet, Zenon
    <3>4. uncounted = FALSE /\ RxPackets' = RxPackets /\ TxPackets' = TxPackets
      BY <1>4, <2>3, Zenon DEF Transmit, HoldInv, WireInv
    <3>. QED
      BY <1>0, <2>3, <3>3, <3>4 DEF CountInv
  <2>4. CASE g # "send" /\ uncounted' = uncounted
    <3>1. \A m \in held[g] : m.type # "FRAME"
      BY <2>4, Zenon DEF HoldInv, WireInv, Senders
    <3>2. ArrivingNonces' \subseteq A
      BY <1>4, <2>1, <3>1, Zenon DEF ArrivingNonces, Arriving, Transmit
    <3>. QED
      BY <1>1, <1>4, <2>4, <3>2, Zenon DEF Transmit
  <2>. QED
    BY <1>0, <1>4, <2>2, <2>3, <2>4, Zenon DEF Transmit
<1>5. ASSUME NEW d \in net, RecvBegin(d) \/ Lose(d)
      PROVE  CountInv'
  <2>1. OnTheWire' \cup receiving' \subseteq OnTheWire \cup receiving
    BY <1>5, Zenon DEF RecvBegin, Lose, OnTheWire
  <2>2. ArrivingNonces' \subseteq A
    BY <1>5, <2>1, Zenon DEF ArrivingNonces, Arriving, RecvBegin, Lose
  <2>. QED
    BY <1>1, <1>5, <2>2, Zenon DEF RecvBegin, Lose
<1>6. CASE RecvEnd
  <2>0. \A m \in receiving :
           /\ Decodes(receiver, m) <=> m.nonce > receiver.recvNonce
           /\ AfterDecode(receiver, m).recvNonce = m.nonce
    BY DecodeFacts DEF InFlight
  <2>1. PICK m \in receiving : RecvEnd!(m)
    BY <1>6, Zenon DEF RecvEnd
  <2>2. /\ Decodes(receiver, m) <=> m.nonce > receiver.recvNonce
        /\ AfterDecode(receiver, m).recvNonce = m.nonce
    BY <2>0
  <2>3. /\ receiver.recvNonce \in Nat /\ m.nonce \in Nat
        /\ \A x \in OnTheWire \cup receiving : x.nonce \in Nat
    BY FlightTyped, Zenon DEF IInv, TypeOK, InFlight
  <2>4. CASE Decodes(receiver, m)
    <3>1. receiver'.recvNonce = m.nonce /\ m.nonce > receiver.recvNonce
      BY <2>1, <2>2, <2>4
    <3>2. ArrivingNonces' \subseteq A \ {m.nonce}
      BY <2>1, <2>3, <3>1 DEF ArrivingNonces, Arriving, OnTheWire
    <3>3. m.type = "FRAME" => m.nonce \in A
      BY <3>1 DEF ArrivingNonces, Arriving
    <3>4. CASE m.type = "FRAME"
      <4>1. /\ Cardinality(ArrivingNonces') \in Nat
            /\ Cardinality(ArrivingNonces') + 1 <= Cardinality(A)
        BY <1>0, <3>2, <3>3, <3>4, SmallerSet, Zenon
      <4>2. RxPackets' = RxPackets + 1 /\ TxPackets' = TxPackets /\ uncounted' = uncounted
        BY <2>1, <2>4, <3>4 DEF RxAfter
      <4>. QED
        BY <1>0, <4>1, <4>2 DEF CountInv
    <3>5. CASE m.type # "FRAME"
      BY <1>1, <2>1, <3>2, <3>5 DEF RxAfter
    <3>. QED
      BY <3>4, <3>5
  <2>5. CASE ~Decodes(receiver, m)
    <3>1. receiver' = receiver
      BY <2>1, <2>5
    <3>2. ArrivingNonces' \subseteq A
      BY <2>1, <3>1, Zenon DEF ArrivingNonces, Arriving, OnTheWire
    <3>. QED
      BY <1>1, <2>1, <2>5, <3>2 DEF RxAfter
  <2>. QED
    BY <2>4, <2>5
<1>7. CASE \/ \E len \in 0..Cells : CaptureFrame(len)
           \/ SendTake \/ \E g \in Control : ControlEncode(g)
           \/ InjectTake \/ InjectWrite \/ UNCHANGED vars
  <2>1. UNCHANGED <<net, receiving, receiver, RxPackets, TxPackets, uncounted>>
    BY <1>7, Zenon
       DEF CaptureFrame, SendTake, ControlEncode, InjectTake, InjectWrite, vars
  <2>. QED
    BY <1>1, <1>2, <2>1
<1>. QED
  BY <1>3, <1>4, <1>5, <1>6, <1>7 DEF Next

\* Nothing is held, on the wire or counted at first.
LEMMA InitCount == Init => HoldInv /\ CountInv
<1>. SUFFICES ASSUME Init PROVE HoldInv /\ CountInv
  OBVIOUS
<1>1. ArrivingNonces = {}
  BY DEF Init, ArrivingNonces, Arriving, OnTheWire
<1>2. CountInv
  BY <1>1, FS_EmptySet DEF Init, CountInv
<1>3. \A g \in Senders : held[g] = {}
  BY DEF Init
<1>. QED
  BY <1>2, <1>3 DEF HoldInv, WireInv, Init, Senders

\* With a key the receiver never counts more than one frame that the sender
\* does not: no duplicate passes Decode, and only one frame at a time has been
\* sent and not counted.
THEOREM CountsAgree == Key # NoKey /\ Spec => []RxAtMostTx
<1>. SUFFICES ASSUME Key # NoKey PROVE Spec => []RxAtMostTx
  OBVIOUS
<1>. DEFINE I == IInv /\ HoldInv /\ CountInv
<1>1. Init => I
  BY InitIInv, InitCount
<1>2. I /\ [Next]_vars => I'
  BY StepInv, StepHold, StepCount
<1>3. I => RxAtMostTx
  <2>. SUFFICES ASSUME I PROVE RxAtMostTx
    OBVIOUS
  <2>1. /\ RxPackets \in Nat /\ TxPackets \in Nat /\ Cardinality(ArrivingNonces) \in Nat
    BY ArrivingFinite, FS_CardinalityType, Zenon DEF IInv, TypeOK
  <2>. QED
    BY <2>1 DEF CountInv, RxAtMostTx
<1>. HIDE DEF I
<1>. QED
  BY <1>1, <1>2, <1>3, PTL DEF Spec

-----------------------------------------------------------------------------
(* Overtaking. *)

\* The frames that a message with a larger nonce is ahead of: in sendLoop's
\* hands, on the wire, and in recvLoop's buffer.
HeldLate == {m \in held["send"] :
               \/ m.nonce <= receiver.recvNonce
               \/ \E x \in OnTheWire \cup receiving : m.nonce <= x.nonce}
WireLate == {d \in net :
               /\ d.msg.type = "FRAME"
               /\ \/ d.msg.nonce <= receiver.recvNonce
                  \/ \E x \in receiving : d.msg.nonce <= x.nonce
                  \/ \E e \in net : e.at < d.at /\ d.msg.nonce <= e.msg.nonce}
ReadLate == {m \in receiving : m.type = "FRAME" /\ m.nonce <= receiver.recvNonce}
Late == HeldLate \cup {d.msg : d \in WireLate} \cup ReadLate

\* Their numbers, with those of the frames that Decode has rejected.
Doomed == overtaken \cup {m.payload.id : m \in Late}

\* The PINGs and PONGs that are yet to be sent, by their nonces.
Waiting == {m.nonce : m \in UNION {held[g] : g \in Control}}

\* A PING or PONG dooms one frame at most, and only when it is sent.
OrderInv ==
  /\ overtaken \subseteq 1..captured
  /\ disordered = FALSE =>
       Cardinality(Doomed) + Cardinality(Waiting) <= controlSent

\* A frame that would come too late is still on its way.
LEMMA LateFlies ==
  ASSUME HoldInv
  PROVE  Late \subseteq FlyingFrames
<1>1. HeldLate \subseteq FlyingFrames
  <2>1. HeldLate \subseteq held["send"] /\ "send" \in Senders
    BY Zenon DEF HeldLate, Senders
  <2>2. held["send"] \subseteq InFlight
    BY <2>1, Zenon DEF InFlight, Held
  <2>3. \A m \in held["send"] : m.type = "FRAME"
    BY <2>1 DEF HoldInv, WireInv
  <2>. QED
    BY <2>1, <2>2, <2>3, Zenon DEF FlyingFrames
<1>2. \A d \in WireLate : d.msg \in FlyingFrames
  BY Zenon DEF WireLate, FlyingFrames, InFlight, OnTheWire
<1>3. ReadLate \subseteq FlyingFrames
  BY Zenon DEF ReadLate, FlyingFrames, InFlight
<1>. QED
  BY <1>1, <1>2, <1>3, Zenon DEF Late

\* Both sets are finite: numbers that were given out, nonces that were drawn.
LEMMA DoomedFinite ==
  ASSUME IInv, HoldInv, OrderInv
  PROVE  IsFiniteSet(Doomed) /\ IsFiniteSet(Waiting)
<1>1. Late \subseteq FlyingFrames
  BY LateFlies
<1>2. Doomed \subseteq 1..captured
  BY <1>1, Zenon DEF Doomed, OrderInv, IInv, FlightInv
<1>3. UNION {held[g] : g \in Control} \subseteq InFlight
  BY DEF InFlight, Held, Senders
<1>4. Waiting \subseteq 1..sender.sendNonce
  BY <1>3 DEF Waiting, IInv, NonceInv
<1>5. IsFiniteSet(1..captured) /\ IsFiniteSet(1..sender.sendNonce)
  BY FS_Interval, SMTT(30) DEF IInv, TypeOK
<1>. QED
  BY <1>2, <1>4, <1>5, FS_Subset, Zenon

\* What is in flight has a nonce, and datagrams are numbered.
LEMMA FlightNumbered ==
  ASSUME IInv
  PROVE  /\ \A m \in InFlight : m.nonce \in Nat /\ m.nonce <= sender.sendNonce
         /\ OnTheWire \subseteq InFlight /\ receiving \subseteq InFlight
         /\ \A g \in Senders : held[g] \subseteq InFlight
         /\ \A d \in net : d.at \in Nat /\ d.msg \in InFlight
         /\ sender.sendNonce \in Nat /\ receiver.recvNonce \in Nat /\ sent \in Nat
         /\ receiver.recvNonce <= sender.sendNonce
<1>1. /\ OnTheWire \subseteq InFlight /\ receiving \subseteq InFlight
      /\ \A g \in Senders : held[g] \subseteq InFlight
      /\ \A d \in net : d.msg \in InFlight
  BY DEF InFlight, Held, OnTheWire
<1>2. /\ sender.sendNonce \in Nat /\ receiver.recvNonce \in Nat /\ sent \in Nat
      /\ \A d \in net : d.at \in Nat
  BY DEF IInv, TypeOK, Datagram
<1>3. \A m \in InFlight : m.nonce \in Nat /\ m.nonce <= sender.sendNonce
  BY <1>2 DEF IInv, NonceInv
<1>. QED
  BY <1>1, <1>2, <1>3 DEF IInv, NonceInv

\* A message that is sent goes to the end of the wire: it gets ahead of the
\* frame that sendLoop holds, if any, and of no other.
LEMMA TransmitLate ==
  ASSUME IInv, HoldInv, NEW g \in Senders, Transmit(g)
  PROVE  /\ g = "send" => Late' \subseteq Late
         /\ g # "send" => Late' \subseteq Late \cup held["send"]
<1>. USE FlightNumbered
<1>1. /\ \A h \in Senders : held'[h] = IF h = g THEN {} ELSE held[h]
      /\ "send" \in Senders /\ UNCHANGED <<receiver, receiving>>
  BY Zenon DEF Transmit, IInv, TypeOK, Senders
<1>2. net' \subseteq net \cup {[at |-> sent + 1, msg |-> m] : m \in held[g]}
  BY Zenon DEF Transmit
<1>3. \A d \in net' : \/ d \in net /\ d.at < sent + 1
                      \/ d.at = sent + 1 /\ d.msg \in held[g]
  BY <1>2 DEF HoldInv, WireInv
<1>4. \A d \in net' : d \in net => d.at < sent + 1
  BY DEF HoldInv, WireInv
<1>5. \A d \in WireLate' : d.msg \in Late \/ (g = "send" /\ d.msg \in HeldLate)
  <2>. SUFFICES ASSUME NEW d \in WireLate'
                PROVE  d.msg \in Late \/ (g = "send" /\ d.msg \in HeldLate)
    BY Zenon
  <2>1. /\ d \in net' /\ d.msg.type = "FRAME"
        /\ \/ d.msg.nonce <= receiver.recvNonce
           \/ \E x \in receiving : d.msg.nonce <= x.nonce
           \/ \E e \in net' : e.at < d.at /\ d.msg.nonce <= e.msg.nonce
    BY <1>1, Zenon DEF WireLate
  <2>2. CASE d \in net
    <3>1. \A e \in net' : e.at < d.at => e \in net
      BY <1>3, <1>4, <2>1, <2>2
    <3>. QED
      BY <2>1, <2>2, <3>1, Zenon DEF WireLate, Late
  <2>3. CASE d.at = sent + 1 /\ d.msg \in held[g]
    <3>1. g = "send"
      BY <2>1, <2>3, Zenon DEF HoldInv, WireInv, Senders
    <3>2. \A e \in net' : e.at < d.at => e.msg \in OnTheWire
      BY <1>3, <2>3 DEF OnTheWire
    <3>. QED
      BY <2>1, <2>3, <3>1, <3>2, Zenon DEF HeldLate
  <2>. QED
    BY <1>3, <2>1, <2>2, <2>3
<1>6. ReadLate' = ReadLate
  BY <1>1, Zenon DEF ReadLate
<1>7. HeldLate' \subseteq IF g = "send" THEN {} ELSE held["send"]
  BY <1>1, Zenon DEF HeldLate
<1>. QED
  BY <1>5, <1>6, <1>7, Zenon DEF Late

\* The network hands out its first datagram: it was ahead of the others.
LEMMA RecvBeginLate ==
  ASSUME IInv, HoldInv, NEW d \in net, RecvBegin(d), disordered' = FALSE
  PROVE  Late' \subseteq Late
<1>. USE FlightNumbered
<1>1. /\ receiving = {} /\ receiving' = {d.msg} /\ UNCHANGED <<held, receiver>>
      /\ net' = net \ {d} /\ \A e \in net : ~(e.at < d.at)
  BY Zenon DEF RecvBegin
<1>2. \A e \in net' : e \in net /\ d.at < e.at
  BY <1>1 DEF HoldInv, WireInv
<1>3. OnTheWire' \cup receiving' \subseteq OnTheWire
  BY <1>1 DEF OnTheWire
<1>4. HeldLate' \subseteq HeldLate
  BY <1>1, <1>3 DEF HeldLate
<1>5. WireLate' \subseteq WireLate
  BY <1>1, <1>2 DEF WireLate
<1>6. ReadLate' \subseteq {e.msg : e \in WireLate}
  BY <1>1 DEF ReadLate, WireLate
<1>. QED
  BY <1>4, <1>5, <1>6 DEF Late

\* A loss puts nothing ahead of anything.
LEMMA LoseLate ==
  ASSUME NEW d \in net, Lose(d)
  PROVE  Late' \subseteq Late
<1>1. /\ net' \subseteq net /\ UNCHANGED <<held, receiver, receiving>>
      /\ OnTheWire' \subseteq OnTheWire
  BY DEF Lose, OnTheWire
<1>2. HeldLate' \subseteq HeldLate
  BY <1>1 DEF HeldLate
<1>3. WireLate' \subseteq WireLate
  BY <1>1 DEF WireLate
<1>4. ReadLate' \subseteq ReadLate
  BY <1>1 DEF ReadLate
<1>. QED
  BY <1>2, <1>3, <1>4 DEF Late

\* A frame that Decode rejects was late already, and a nonce that it accepts
\* was ahead of the same frames in the buffer.
LEMMA RecvEndLate ==
  ASSUME IInv, Key # NoKey, RecvEnd
  PROVE  /\ Late' \subseteq Late
         /\ \/ overtaken' = overtaken
            \/ \E m \in Late : overtaken' = overtaken \cup {m.payload.id}
<1>0. \A m \in receiving :
         /\ Decodes(receiver, m) <=> m.nonce > receiver.recvNonce
         /\ AfterDecode(receiver, m).recvNonce = m.nonce
  BY DecodeFacts DEF InFlight
<1>1. PICK m \in receiving : RecvEnd!(m)
  BY Zenon DEF RecvEnd
<1>2. /\ \A x \in OnTheWire \cup receiving \cup held["send"] : x.nonce \in Nat
      /\ \A d \in net : d.msg.nonce \in Nat
      /\ receiver.recvNonce \in Nat /\ m.nonce \in Nat
  BY FlightNumbered, Zenon DEF Senders
<1>3. receiver'.recvNonce \in {receiver.recvNonce, m.nonce}
  BY <1>0, <1>1, Zenon
<1>4. /\ receiving' = {} /\ UNCHANGED <<held, net>> /\ OnTheWire' = OnTheWire
  BY <1>1, Zenon DEF OnTheWire
<1>5. HeldLate' \subseteq HeldLate
  BY <1>2, <1>3, <1>4 DEF HeldLate
<1>6. WireLate' \subseteq WireLate
  BY <1>2, <1>3, <1>4 DEF WireLate
<1>7. ReadLate' = {}
  BY <1>4 DEF ReadLate
<1>8. m.type = "FRAME" /\ ~Decodes(receiver, m) => m \in Late
  BY <1>0, <1>2 DEF ReadLate, Late
<1>. QED
  BY <1>1, <1>5, <1>6, <1>7, <1>8, Zenon DEF Late

\* A step keeps the frames that were overtaken few.
LEMMA StepOrder ==
  ASSUME IInv, HoldInv, OrderInv, Key # NoKey, [Next]_vars
  PROVE  OrderInv'
<1>0. /\ IsFiniteSet(Doomed) /\ IsFiniteSet(Waiting)
      /\ Cardinality(Doomed) \in Nat /\ Cardinality(Waiting) \in Nat
      /\ controlSent \in Nat /\ captured \in Nat
  BY DoomedFinite, FS_CardinalityType, Zenon DEF IInv, TypeOK
<1>1. ASSUME disordered' = FALSE => Doomed' \subseteq Doomed /\ disordered = FALSE,
             Waiting' \subseteq Waiting, controlSent' = controlSent,
             captured' = captured \/ captured' = captured + 1,
             overtaken' = overtaken
      PROVE  OrderInv'
  <2>1. overtaken' \subseteq 1..captured'
    BY <1>0, <1>1 DEF OrderInv
  <2>2. Cardinality(Waiting') \in Nat /\ Cardinality(Waiting') <= Cardinality(Waiting)
    BY <1>0, <1>1, SmallerSet, Zenon
  <2>3. ASSUME disordered' = FALSE
        PROVE  Cardinality(Doomed') + Cardinality(Waiting') <= controlSent'
    <3>1. /\ Cardinality(Doomed) + Cardinality(Waiting) <= controlSent
          /\ controlSent' = controlSent
      BY <1>1, <2>3 DEF OrderInv
    <3>2. /\ Cardinality(Doomed') \in Nat
          /\ Cardinality(Doomed') <= Cardinality(Doomed)
      BY <1>0, <1>1, <2>3, SmallerSet
    <3>. QED
      BY <1>0, <2>2, <3>1, <3>2
  <2>. QED
    BY <2>1, <2>3, Zenon DEF OrderInv
<1>2. ASSUME Late' \subseteq Late, overtaken' = overtaken
      PROVE  Doomed' \subseteq Doomed
  BY <1>2 DEF Doomed
<1>3. ASSUME \A g \in Control : held'[g] = held[g]
      PROVE  Waiting' = Waiting
  BY <1>3 DEF Waiting
<1>4. CASE SendTake
  <2>1. /\ UNCHANGED <<receiver, receiving, net, controlSent, captured, overtaken, disordered>>
        /\ OnTheWire' = OnTheWire
    BY <1>4, Zenon DEF SendTake, OnTheWire
  <2>2. \/ held' = held
        \/ \E e : /\ held' = [held EXCEPT !["send"] = {e}]
                  /\ e.nonce = sender.sendNonce + 1
    <3>1. Head(framesToSend) \in Frame
      BY <1>4, TailFacts, Zenon DEF SendTake, IInv, TypeOK
    <3>2. Encode(sender, "A", "B", "FRAME", Head(framesToSend)).nonce = sender.sendNonce + 1
      BY <3>1, EncodeFacts DEF IInv
    <3>. QED
      BY <1>4, <3>2 DEF SendTake, Encoded
  <2>3. /\ \A g \in Control : held'[g] = held[g]
        /\ held'["send"] = held["send"]
             \/ \A m \in held'["send"] : m.nonce = sender.sendNonce + 1
    <3>1. /\ "send" \in Senders /\ "send" \notin Control /\ Control \subseteq Senders
          /\ DOMAIN held = Senders
      BY FramePathAssumption DEF IInv, TypeOK, Senders
    <3>2. CASE held' = held
      BY <3>2
    <3>3. ASSUME NEW e, held' = [held EXCEPT !["send"] = {e}],
                 e.nonce = sender.sendNonce + 1
          PROVE  /\ \A g \in Control : held'[g] = held[g]
                 /\ \A m \in held'["send"] : m.nonce = sender.sendNonce + 1
      BY <3>1, <3>3
    <3>. QED
      BY <2>2, <3>2, <3>3
  <2>4. HeldLate' \subseteq HeldLate
    <3>1. ASSUME NEW n, n = sender.sendNonce + 1
          PROVE  ~(n <= receiver.recvNonce) /\ \A x \in OnTheWire \cup receiving : ~(n <= x.nonce)
      BY <3>1, FlightNumbered
    <3>. QED
      BY <2>1, <2>3, <3>1 DEF HeldLate
  <2>5. Late' \subseteq Late
    BY <2>1, <2>4, Zenon DEF Late, WireLate, ReadLate
  <2>6. Doomed' \subseteq Doomed
    BY <1>2, <2>1, <2>5
  <2>7. Waiting' = Waiting
    BY <1>3, <2>3
  <2>. QED
    BY <1>1, <2>1, <2>6, <2>7, Zenon
<1>5. ASSUME NEW g \in Control, ControlEncode(g)
      PROVE  OrderInv'
  <2>1. PICK e : held' = [held EXCEPT ![g] = {e}]
    BY <1>5, Zenon DEF ControlEncode, Encoded
  <2>2. /\ UNCHANGED <<receiver, receiving, net, captured, overtaken, disordered>>
        /\ OnTheWire' = OnTheWire /\ controlSent' = controlSent + 1
        /\ held[g] = {}
    BY <1>5, Zenon DEF ControlEncode, Encoded, OnTheWire
  <2>3. held'["send"] = held["send"]
    BY <2>1, FramePathAssumption, Zenon DEF IInv, TypeOK, Senders
  <2>4. Doomed' = Doomed
    BY <2>2, <2>3, Zenon DEF Doomed, Late, HeldLate, WireLate, ReadLate
  <2>5. Waiting' \subseteq Waiting \cup {e.nonce}
    BY <2>1 DEF Waiting, IInv, TypeOK, Senders
  <2>6. Cardinality(Waiting') \in Nat /\ Cardinality(Waiting') <= Cardinality(Waiting) + 1
    BY <1>0, <2>5, SmallerSet
  <2>7. disordered = FALSE => Cardinality(Doomed') + Cardinality(Waiting') <= controlSent'
    BY <1>0, <2>2, <2>4, <2>6 DEF OrderInv
  <2>. QED
    BY <2>2, <2>7, Zenon DEF OrderInv
<1>6. ASSUME NEW g \in Senders, Transmit(g)
      PROVE  OrderInv'
  <2>1. /\ UNCHANGED <<captured, overtaken, disordered, controlSent>>
        /\ \A h \in Senders : held'[h] = IF h = g THEN {} ELSE held[h]
    BY <1>6, Zenon DEF Transmit, IInv, TypeOK
  <2>2. CASE g = "send"
    <3>1. \A h \in Control : held'[h] = held[h]
      BY <2>1, <2>2, FramePathAssumption, Zenon DEF Senders
    <3>2. Late' \subseteq Late
      BY <1>6, <2>2, TransmitLate
    <3>. QED
      BY <1>1, <1>2, <1>3, <2>1, <3>1, <3>2, Zenon
  <2>3. CASE g # "send"
    <3>1. PICK c \in held[g] : held[g] = {c}
      <4>1. held[g] # {} /\ \A m1, m2 \in held[g] : m1 = m2
        BY <1>6, Zenon DEF Transmit, HoldInv, WireInv
      <4>. QED
        BY <4>1, Zenon
    <3>2. g \in Control /\ Control \subseteq Senders
      BY <2>3 DEF Senders
    <3>3. Waiting' \subseteq Waiting \ {c.nonce} /\ c.nonce \in Waiting
      <4>1. \A h \in Control : \A m \in held'[h] : m \in held[h] /\ h # g
        BY <2>1, <3>2, Zenon
      <4>2. \A h \in Control : \A m \in held'[h] : m.nonce # c.nonce
        BY <3>2, <4>1, ZenonT(30) DEF HoldInv, WireInv
      <4>. QED
        BY <3>2, <4>1, <4>2 DEF Waiting
    <3>4. Cardinality(Waiting') \in Nat /\ Cardinality(Waiting') + 1 <= Cardinality(Waiting)
      BY <1>0, <3>3, SmallerSet, Zenon
    <3>5. \E f : held["send"] \subseteq {f}
      BY Zenon DEF HoldInv, WireInv, Senders
    <3>6. PICK f : held["send"] \subseteq {f}
      BY <3>5
    <3>7. Late' \subseteq Late \cup {f}
      BY <1>6, <2>3, <3>6, TransmitLate
    <3>8. Doomed' \subseteq Doomed \cup {f.payload.id}
      BY <2>1, <3>7 DEF Doomed
    <3>9. Cardinality(Doomed') \in Nat /\ Cardinality(Doomed') <= Cardinality(Doomed) + 1
      BY <1>0, <3>8, SmallerSet, Zenon
    <3>10. disordered = FALSE => Cardinality(Doomed') + Cardinality(Waiting') <= controlSent'
      BY <1>0, <2>1, <3>4, <3>9 DEF OrderInv
    <3>. QED
      BY <2>1, <3>10 DEF OrderInv
  <2>. QED
    BY <2>2, <2>3
<1>7. ASSUME NEW d \in net, RecvBegin(d)
      PROVE  OrderInv'
  <2>1. /\ UNCHANGED <<held, controlSent, captured, overtaken>>
        /\ disordered' = FALSE => disordered = FALSE
    BY <1>7, Zenon DEF RecvBegin, IInv, TypeOK
  <2>2. disordered' = FALSE => Doomed' \subseteq Doomed
    BY <1>2, <1>7, <2>1, RecvBeginLate, Zenon
  <2>. QED
    BY <1>1, <1>3, <2>1, <2>2, Zenon
<1>8. ASSUME NEW d \in net, Lose(d)
      PROVE  OrderInv'
  <2>1. UNCHANGED <<held, controlSent, captured, overtaken, disordered>>
    BY <1>8 DEF Lose
  <2>2. Doomed' \subseteq Doomed
    BY <1>2, <1>8, <2>1, LoseLate
  <2>. QED
    BY <1>1, <1>3, <2>1, <2>2, Zenon
<1>9. CASE RecvEnd
  <2>1. UNCHANGED <<held, controlSent, captured, disordered>>
    BY <1>9 DEF RecvEnd
  <2>2. /\ Late' \subseteq Late
        /\ \/ overtaken' = overtaken
           \/ \E m \in Late : overtaken' = overtaken \cup {m.payload.id}
    BY <1>9, RecvEndLate
  <2>3. Doomed' \subseteq Doomed
    BY <2>2 DEF Doomed
  <2>4. overtaken' \subseteq 1..captured
    <3>1. \A m \in Late : m.payload.id \in 1..captured
      BY LateFlies, Zenon DEF IInv, FlightInv
    <3>2. \A m \in Late : overtaken \cup {m.payload.id} \subseteq 1..captured
      BY <3>1, Zenon DEF OrderInv
    <3>. QED
      BY <2>2, <3>2, Zenon DEF OrderInv
  <2>5. Waiting' = Waiting
    BY <1>3, <2>1
  <2>6. Cardinality(Doomed') \in Nat /\ Cardinality(Doomed') <= Cardinality(Doomed)
    BY <1>0, <2>3, SmallerSet
  <2>7. disordered = FALSE => Cardinality(Doomed') + Cardinality(Waiting') <= controlSent'
    BY <1>0, <2>1, <2>5, <2>6 DEF OrderInv
  <2>. QED
    BY <2>1, <2>4, <2>7 DEF OrderInv
<1>10. CASE \/ \E len \in 0..Cells : CaptureFrame(len)
            \/ CountSent \/ InjectTake \/ InjectWrite \/ UNCHANGED vars
  <2>1. /\ UNCHANGED <<held, net, receiving, receiver, controlSent, overtaken, disordered>>
        /\ captured' = captured \/ captured' = captured + 1
    BY <1>10, Zenon DEF CaptureFrame, CountSent, InjectTake, InjectWrite, vars
  <2>2. OnTheWire' = OnTheWire
    BY <2>1 DEF OnTheWire
  <2>3. Late' \subseteq Late
    BY <2>1, <2>2, Zenon DEF Late, HeldLate, WireLate, ReadLate
  <2>. QED
    BY <1>1, <1>2, <1>3, <2>1, <2>3, Zenon
<1>. QED
  BY <1>4, <1>5, <1>6, <1>7, <1>8, <1>9, <1>10 DEF Next

\* On a network that keeps the order, a PING or a PONG makes Decode reject at
\* most one frame, although encode and Send are separate steps of three
\* goroutines.
THEOREM OvertakingIsBounded == Key # NoKey /\ Spec => []OvertakenBounded
<1>. SUFFICES ASSUME Key # NoKey PROVE Spec => []OvertakenBounded
  OBVIOUS
<1>. DEFINE I == IInv /\ HoldInv /\ OrderInv
<1>1. Init => OrderInv
  <2>. SUFFICES ASSUME Init PROVE OrderInv
    OBVIOUS
  <2>1. Doomed = {} /\ Waiting = {}
    BY DEF Init, Doomed, Late, HeldLate, WireLate, ReadLate, Waiting, Senders
  <2>. QED
    BY <2>1, FS_EmptySet DEF Init, OrderInv
<1>2. Init => I
  BY <1>1, InitIInv, InitCount
<1>3. I /\ [Next]_vars => I'
  BY StepInv, StepHold, StepOrder
<1>4. I => OvertakenBounded
  <2>. SUFFICES ASSUME I, disordered = FALSE PROVE Cardinality(overtaken) <= controlSent
    BY Zenon DEF OvertakenBounded, IInv, TypeOK
  <2>1. /\ IsFiniteSet(Doomed) /\ overtaken \subseteq Doomed
        /\ Cardinality(Waiting) \in Nat /\ controlSent \in Nat
    BY DoomedFinite, FS_CardinalityType, Zenon DEF Doomed, IInv, TypeOK
  <2>2. /\ Cardinality(Doomed) \in Nat /\ Cardinality(overtaken) \in Nat
        /\ Cardinality(overtaken) <= Cardinality(Doomed)
    BY <2>1, SmallerSet
  <2>. QED
    BY <2>1, <2>2 DEF OrderInv
<1>. HIDE DEF I
<1>. QED
  BY <1>2, <1>3, <1>4, PTL DEF Spec
=============================================================================
