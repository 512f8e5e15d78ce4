-------------------------- MODULE FramePathProofs --------------------------
(***************************************************************************)
(* The frame path up to the slices injectLoop receives, for every buffer     *)
(* size, every number of frames and every set of goroutines sharing the     *)
(* codec.  With a key it implements LossyFifo, whatever the network does;    *)
(* without one it behaves like a LossyFifo until the network duplicates or   *)
(* reorders a datagram.  What the slices hold is not in it.                 *)
(***************************************************************************)
EXTENDS FramePath, TLAPS

\* Messages that may still be received, and the frames among them.
Held == UNION {held[g] : g \in Senders}
OnTheWire == {d.msg : d \in net}
InFlight == Held \cup OnTheWire \cup receiving
FlyingFrames == {m \in InFlight : m.type = "FRAME"}

\* n is larger than the number of every frame that recvLoop has queued.
Above(n) ==
  /\ Path!Latest(taken) < n
  /\ \A i \in DOMAIN framesToInject : framesToInject[i].id < n

\* What is on the way was captured, and EncodeFrame took it.
FlightInv ==
  \A m \in FlyingFrames : m.payload.id \in 1..captured /\ m.payload.len # 0

\* What waits to be sent is newer than what is on the way.
QueueInv ==
  /\ \A i \in DOMAIN framesToSend : framesToSend[i].id \in 1..captured
  /\ \A i, j \in DOMAIN framesToSend :
       i < j => framesToSend[i].id < framesToSend[j].id
  /\ \A m \in FlyingFrames : \A i \in DOMAIN framesToSend :
       m.payload.id < framesToSend[i].id

\* And newer than what recvLoop has queued.
AheadInv ==
  /\ Above(captured + 1)
  /\ \A i \in DOMAIN framesToSend : Above(framesToSend[i].id)

\* What holds with a key and without.
PathInv == TypeOK /\ FlightInv /\ QueueInv /\ AheadInv

\* What recvLoop has queued is in order, and newer than what injectLoop has
\* taken.
InjectInv ==
  /\ \A i, j \in DOMAIN framesToInject :
       i < j => framesToInject[i].id < framesToInject[j].id
  /\ \A i \in DOMAIN framesToInject : Path!Latest(taken) < framesToInject[i].id

-----------------------------------------------------------------------------
(* Channels. *)

\* A send on a channel adds the item at the end, or nothing.
LEMMA OfferedFacts ==
  ASSUME NEW S, NEW q \in Seq(S), NEW x \in S, Len(q) <= ChannelBufferSize
  PROVE  /\ Offered(q, x) \in Seq(S)
         /\ Len(Offered(q, x)) <= ChannelBufferSize
         /\ \A i \in DOMAIN Offered(q, x) :
              \/ i \in DOMAIN q /\ Offered(q, x)[i] = q[i]
              \/ /\ i = Len(q) + 1 /\ Offered(q, x)[i] = x
                 /\ \A j \in DOMAIN Offered(q, x) : j <= i
BY FramePathAssumption DEF Offered

\* A receive takes the first item and shifts the others.
LEMMA TailFacts ==
  ASSUME NEW S, NEW q \in Seq(S), q # <<>>
  PROVE  /\ Tail(q) \in Seq(S) /\ Len(Tail(q)) = Len(q) - 1
         /\ 1 \in DOMAIN q /\ q[1] = Head(q) /\ Head(q) \in S
         /\ \A i \in DOMAIN Tail(q) :
              i \in Nat /\ i > 0 /\ i + 1 \in DOMAIN q /\ Tail(q)[i] = q[i + 1]
OBVIOUS

\* What the channels hold.
LEMMA QueuedTyped ==
  ASSUME TypeOK
  PROVE  /\ \A i \in DOMAIN framesToSend :
              i \in Nat /\ framesToSend[i] \in Frame /\ framesToSend[i].id \in Nat
         /\ \A i \in DOMAIN framesToInject :
              i \in Nat /\ framesToInject[i] \in Slice /\ framesToInject[i].id \in Nat
<1>1. /\ \A i \in 1..Len(framesToSend) : framesToSend[i] \in Frame
      /\ \A i \in 1..Len(framesToInject) : framesToInject[i] \in Slice
  BY SMTT(30) DEF TypeOK
<1>2. /\ DOMAIN framesToSend = 1..Len(framesToSend)
      /\ DOMAIN framesToInject = 1..Len(framesToInject)
  BY DEF TypeOK
<1>3. \A f \in Frame \cup Slice : f.id \in Nat
  BY DEF Frame, Slice
<1>4. \A i \in 1..Len(framesToSend) : i \in Nat
  BY DEF TypeOK
<1>5. \A i \in 1..Len(framesToInject) : i \in Nat
  BY DEF TypeOK
<1>. QED
  BY <1>1, <1>2, <1>3, <1>4, <1>5

\* Latest of a sequence of numbers that has just grown.
LEMMA LatestFacts ==
  ASSUME NEW q \in Seq(Nat), NEW n \in Nat
  PROVE  /\ Path!Latest(q) \in Nat
         /\ Path!Latest(Append(q, n)) = n
         /\ Append(q, n) \in Seq(Nat)
BY SMTT(30) DEF Path!Latest

\* A larger number is above what a smaller one is above.
LEMMA AboveMonotone ==
  ASSUME TypeOK, NEW m \in Nat, NEW n \in Nat, m <= n, Above(m)
  PROVE  Above(n)
<1>1. Path!Latest(taken) \in Nat
  BY LatestFacts, 0 \in Nat DEF TypeOK
<1>2. \A i \in DOMAIN framesToInject : framesToInject[i].id \in Nat
  BY QueuedTyped
<1>. QED
  BY <1>1, <1>2 DEF Above

-----------------------------------------------------------------------------
(* What holds with a key and without. *)

\* Nothing is on its way between two fresh bridges.
LEMMA InitPath == Init => PathInv /\ InjectInv /\ InFlight = {}
<1>. SUFFICES ASSUME Init PROVE PathInv /\ InjectInv /\ InFlight = {}
  OBVIOUS
<1>1. InFlight = {} /\ FlyingFrames = {}
  BY DEF Init, InFlight, Held, OnTheWire, FlyingFrames
<1>2. TypeOK
  <2>1. NewCodec(Key) \in [key : {Key}, sendNonce : Nat, recvNonce : Nat]
    BY DEF NewCodec
  <2>2. <<>> \in Seq(Frame) /\ <<>> \in Seq(Slice) /\ <<>> \in Seq(Nat)
    OBVIOUS
  <2>3. held \in [Senders -> SUBSET Message]
    BY DEF Init
  <2>4. buf \in [1..Cells -> Nat]
    BY DEF Init
  <2>5. Len(<<>>) <= ChannelBufferSize
    BY FramePathAssumption
  <2>. QED
    BY <2>1, <2>2, <2>3, <2>4, <2>5, Zenon DEF Init, TypeOK
<1>3. DOMAIN framesToSend = {} /\ DOMAIN framesToInject = {}
  BY DEF Init
<1>4. Path!Latest(taken) = 0
  BY DEF Init, Path!Latest
<1>5. FlightInv /\ QueueInv
  BY <1>1, <1>3 DEF FlightInv, QueueInv
<1>6. AheadInv /\ InjectInv
  BY <1>3, <1>4 DEF Init, AheadInv, InjectInv, Above
<1>. QED
  BY <1>1, <1>2, <1>5, <1>6 DEF PathInv

\* What is in flight is made of messages.
LEMMA FlightTyped ==
  ASSUME TypeOK
  PROVE  /\ InFlight \subseteq Message
         /\ \A m \in Message :
              /\ m.nonce \in Nat /\ m.payload \in Frame /\ m.payload.id \in Nat
              /\ m.payload.len \in 0..Cells /\ m.hmac = Key
<1>1. Held \subseteq Message
  BY DEF TypeOK, Held
<1>2. OnTheWire \subseteq Message
  BY Zenon DEF TypeOK, Datagram, OnTheWire
<1>3. receiving \subseteq Message
  BY DEF TypeOK
<1>4. \A m \in Message : m.nonce \in Nat /\ m.payload \in Frame /\ m.hmac = Key
  BY DEF Message
<1>5. \A f \in Frame : f.id \in Nat /\ f.len \in 0..Cells
  BY DEF Frame
<1>6. InFlight \subseteq Message
  BY <1>1, <1>2, <1>3 DEF InFlight
<1>. QED
  BY <1>4, <1>5, <1>6

\* A step that takes frames out of flight keeps the invariant.
LEMMA PathShrinks ==
  ASSUME PathInv, TypeOK', InFlight' \subseteq InFlight,
         UNCHANGED <<captured, framesToSend, framesToInject, injecting, taken>>
  PROVE  PathInv'
<1>1. FlyingFrames' \subseteq FlyingFrames
  BY DEF FlyingFrames
<1>2. \A n : Above(n) => Above(n)'
  BY DEF Above
<1>. QED
  BY <1>1, <1>2 DEF PathInv, FlightInv, QueueInv, AheadInv

\* Sending moves a message from its sender to the network.
LEMMA TransmitFacts ==
  ASSUME TypeOK, NEW g \in Senders, Transmit(g)
  PROVE  TypeOK' /\ InFlight' \subseteq InFlight
<1>1. held' \in [Senders -> SUBSET Message] /\ \A h \in Senders : held'[h] \subseteq held[h]
  BY DEF TypeOK, Transmit
<1>2. net' \subseteq net \cup {[at |-> sent + 1, msg |-> m] : m \in held[g]}
  BY DEF Transmit
<1>3. net' \subseteq Datagram
  <2>1. \A m \in held[g] : [at |-> sent + 1, msg |-> m] \in Datagram
    BY DEF TypeOK, Datagram
  <2>. QED
    BY <1>2, <2>1 DEF TypeOK
<1>4. TypeOK'
  <2>1. sent' \in Nat
    BY DEF TypeOK, Transmit
  <2>2. uncounted' \in BOOLEAN
    BY Zenon DEF TypeOK, Transmit
  <2>. QED
    BY <1>1, <1>3, <2>1, <2>2 DEF TypeOK, Transmit
<1>5. OnTheWire' \subseteq OnTheWire \cup held[g]
  BY <1>2 DEF OnTheWire
<1>6. Held' \subseteq Held /\ held[g] \subseteq Held
  BY <1>1 DEF Held
<1>7. InFlight' \subseteq InFlight
  BY <1>5, <1>6 DEF InFlight, Transmit
<1>. QED
  BY <1>4, <1>7

\* recvLoop takes a datagram from the network.
LEMMA RecvBeginFacts ==
  ASSUME TypeOK, NEW d \in net, RecvBegin(d)
  PROVE  TypeOK' /\ InFlight' \subseteq InFlight
<1>1. d.msg \in Message /\ net' \subseteq net /\ receiving' = {d.msg}
  BY DEF TypeOK, RecvBegin, Datagram
<1>2. buf' \in [1..Cells -> Nat]
  <2>1. d.msg.payload.id \in Nat
    BY <1>1, FlightTyped
  <2>2. \A c \in 1..Cells : buf[c] \in Nat /\ Stored(d.msg, c) \in Nat
    BY <2>1 DEF TypeOK, Stored
  <2>. QED
    BY <2>2 DEF RecvBegin
<1>3. TypeOK'
  BY <1>1, <1>2 DEF TypeOK, RecvBegin
<1>4. InFlight' \subseteq InFlight
  BY <1>1 DEF InFlight, Held, OnTheWire, RecvBegin
<1>. QED
  BY <1>3, <1>4

\* The steps that leave the channels alone and put nothing new in flight:
\* sending, counting, and those of the network.
Passing ==
  \/ \E g \in Senders : Transmit(g)
  \/ CountSent
  \/ \E d \in net : RecvBegin(d) \/ Lose(d)
  \/ UNCHANGED vars

\* Such a step adds no frame to those on their way and leaves both ends alone.
LEMMA PassingFacts ==
  ASSUME TypeOK, Passing
  PROVE  /\ TypeOK' /\ InFlight' \subseteq InFlight
         /\ UNCHANGED <<captured, framesToSend, sender, receiver, framesToInject,
                        injecting, taken>>
<1>1. CASE \E g \in Senders : Transmit(g)
  BY <1>1, TransmitFacts, Zenon DEF Transmit
<1>2. CASE CountSent
  <2>1. TxPackets' \in Nat
    BY <1>2 DEF TypeOK, CountSent
  <2>2. TypeOK'
    BY <1>2, <2>1, Zenon DEF TypeOK, CountSent
  <2>3. InFlight' \subseteq InFlight
    BY <1>2 DEF InFlight, Held, OnTheWire, CountSent
  <2>. QED
    BY <1>2, <2>2, <2>3 DEF CountSent
<1>3. CASE \E d \in net : RecvBegin(d)
  BY <1>3, RecvBeginFacts DEF RecvBegin
<1>4. CASE \E d \in net : Lose(d)
  <2>1. TypeOK'
    BY <1>4, Zenon DEF TypeOK, Lose
  <2>2. InFlight' \subseteq InFlight
    BY <1>4 DEF InFlight, Held, OnTheWire, Lose
  <2>. QED
    BY <1>4, <2>1, <2>2 DEF Lose
<1>5. CASE UNCHANGED vars
  <2>1. TypeOK'
    BY <1>5, SMTT(30) DEF TypeOK, vars
  <2>2. InFlight' \subseteq InFlight
    BY <1>5 DEF InFlight, Held, OnTheWire, vars
  <2>. QED
    BY <1>5, <2>1, <2>2 DEF vars
<1>. QED
  BY <1>1, <1>2, <1>3, <1>4, <1>5 DEF Passing

\* captureLoop queues a frame, newer than all others, or drops it.
LEMMA CaptureFramePath ==
  ASSUME PathInv, NEW len \in 0..Cells, CaptureFrame(len)
  PROVE  PathInv' /\ InFlight' = InFlight
<1>. DEFINE f == [id |-> captured + 1, len |-> len]
<1>1. f \in Frame /\ f.id = captured + 1 /\ captured' = captured + 1 /\ captured \in Nat
  BY DEF PathInv, TypeOK, Frame, CaptureFrame
<1>2. framesToSend' = Offered(framesToSend, f)
  BY <1>1 DEF CaptureFrame
<1>. HIDE DEF f
<1>3. framesToSend \in Seq(Frame) /\ Len(framesToSend) <= ChannelBufferSize
  BY DEF PathInv, TypeOK
<1>4. /\ framesToSend' \in Seq(Frame) /\ Len(framesToSend') <= ChannelBufferSize
      /\ \A i \in DOMAIN framesToSend' :
           \/ i \in DOMAIN framesToSend /\ framesToSend'[i] = framesToSend[i]
           \/ /\ i = Len(framesToSend) + 1 /\ framesToSend'[i] = f
              /\ \A j \in DOMAIN framesToSend' : j <= i
  <2>. DEFINE q == framesToSend
              r == Offered(q, f)
  <2>1. /\ r \in Seq(Frame) /\ Len(r) <= ChannelBufferSize
        /\ \A i \in DOMAIN r :
             \/ i \in DOMAIN q /\ r[i] = q[i]
             \/ /\ i = Len(q) + 1 /\ r[i] = f
                /\ \A j \in DOMAIN r : j <= i
    <3>1. f \in Frame /\ q \in Seq(Frame) /\ Len(q) <= ChannelBufferSize
      BY <1>1, <1>3
    <3>. HIDE DEF q
    <3>. QED
      BY <3>1, OfferedFacts, Zenon
  <2>2. framesToSend' = r
    BY <1>2
  <2>. HIDE DEF r
  <2>. QED
    BY <2>1, <2>2
<1>5. TypeOK'
  <2>1. captured' \in Nat
    BY <1>1 DEF PathInv, TypeOK, CaptureFrame
  <2>2. UNCHANGED <<sender, held, uncounted, net, sent, receiver, receiving,
                    framesToInject, injecting, buf, taken, intact, TxPackets,
                    RxPackets, controlSent, overtaken, disordered>>
    BY Zenon DEF CaptureFrame
  <2>. QED
    BY <1>4, <2>1, <2>2, Zenon DEF PathInv, TypeOK
<1>6. InFlight' = InFlight /\ FlyingFrames' = FlyingFrames
  BY DEF InFlight, Held, OnTheWire, FlyingFrames, CaptureFrame
<1>7. Path!Latest(taken)' = Path!Latest(taken) /\ \A n : Above(n)' <=> Above(n)
  BY DEF CaptureFrame, Above
<1>8. \A n \in 1..captured : n \in 1..captured' /\ n < captured + 1
  BY <1>1
<1>9. FlightInv'
  BY <1>6, <1>8 DEF PathInv, FlightInv
<1>10. QueueInv'
  <2>1. \A i \in DOMAIN framesToSend' : framesToSend'[i].id \in 1..captured'
    BY <1>1, <1>4, <1>8 DEF PathInv, QueueInv
  <2>2. \A i, j \in DOMAIN framesToSend' :
          i < j => framesToSend'[i].id < framesToSend'[j].id
    <3>. SUFFICES ASSUME NEW i \in DOMAIN framesToSend', NEW j \in DOMAIN framesToSend', i < j
                  PROVE  framesToSend'[i].id < framesToSend'[j].id
      OBVIOUS
    <3>1. i \in Nat /\ j \in Nat
      BY <1>4
    <3>2. i \in DOMAIN framesToSend /\ framesToSend'[i] = framesToSend[i]
      BY <1>4, <3>1
    <3>. QED
      BY <1>1, <1>4, <1>8, <3>1, <3>2, Zenon DEF PathInv, QueueInv
  <2>3. \A m \in FlyingFrames : \A i \in DOMAIN framesToSend' :
          m.payload.id < framesToSend'[i].id
    BY <1>1, <1>4, <1>8 DEF PathInv, QueueInv, FlightInv
  <2>. QED
    BY <1>6, <2>1, <2>2, <2>3 DEF QueueInv
<1>11. AheadInv'
  <2>1. Above(captured + 1) /\ Above(captured + 2)
    BY <1>1, AboveMonotone DEF PathInv, AheadInv
  <2>2. \A i \in DOMAIN framesToSend' : Above(framesToSend'[i].id)
    BY <1>1, <1>4, <2>1 DEF PathInv, AheadInv
  <2>3. captured' + 1 = captured + 2
    BY <1>1
  <2>. QED
    BY <1>6, <1>7, <2>1, <2>2, <2>3 DEF AheadInv
<1>. QED
  BY <1>5, <1>6, <1>9, <1>10, <1>11 DEF PathInv

\* What encode makes.
LEMMA EncodeTypes ==
  ASSUME TypeOK, NEW type \in {"FRAME", "CONTROL"}, NEW p \in Frame
  PROVE  /\ AfterEncode(sender) \in [key : {Key}, sendNonce : Nat, recvNonce : Nat]
         /\ Encode(sender, "A", "B", type, p) \in Message
         /\ Encode(sender, "A", "B", type, p).type = type
         /\ Encode(sender, "A", "B", type, p).payload = p
<1>. DEFINE n == IF IsSecure(sender) THEN sender.sendNonce + 1 ELSE sender.sendNonce
<1>1. n \in Nat /\ AfterEncode(sender) = [sender EXCEPT !.sendNonce = n]
  BY SMTT(30) DEF TypeOK, AfterEncode
<1>. HIDE DEF n
<1>2. /\ AfterEncode(sender) \in [key : {Key}, sendNonce : Nat, recvNonce : Nat]
      /\ AfterEncode(sender).sendNonce \in Nat
  BY <1>1, Zenon DEF TypeOK
<1>. QED
  BY <1>2 DEF TypeOK, Encode, Message

\* A control message is encoded: no frame is.
LEMMA ControlEncodePath ==
  ASSUME PathInv, NEW g \in Control, ControlEncode(g)
  PROVE  PathInv' /\ FlyingFrames' \subseteq FlyingFrames
<1>. DEFINE p == [id |-> 0, len |-> 1]
            e == Encode(sender, "A", "B", "CONTROL", p)
<1>1. p \in Frame
  BY FramePathAssumption DEF Frame
<1>2. /\ sender' \in [key : {Key}, sendNonce : Nat, recvNonce : Nat]
      /\ e \in Message /\ e.type = "CONTROL"
  BY <1>1, EncodeTypes, Zenon DEF PathInv, ControlEncode, Encoded
<1>3. held' = [held EXCEPT ![g] = {e}] /\ g \in Senders
  BY DEF ControlEncode, Encoded, Senders
<1>. HIDE DEF e
<1>4. held' \in [Senders -> SUBSET Message]
  BY <1>2, <1>3 DEF PathInv, TypeOK
<1>5. TypeOK'
  <2>1. controlSent' \in Nat
    BY DEF PathInv, TypeOK, ControlEncode
  <2>. QED
    BY <1>2, <1>4, <2>1, Zenon DEF PathInv, TypeOK, ControlEncode
<1>6. Held' \subseteq Held \cup {e}
  BY <1>3 DEF PathInv, TypeOK, Held
<1>7. InFlight' \subseteq InFlight \cup {e}
  BY <1>6 DEF InFlight, OnTheWire, ControlEncode
<1>8. FlyingFrames' \subseteq FlyingFrames
  BY <1>2, <1>7 DEF FlyingFrames
<1>9. \A n : Above(n) => Above(n)'
  BY DEF ControlEncode, Above
<1>. QED
  BY <1>5, <1>8, <1>9 DEF PathInv, FlightInv, QueueInv, AheadInv, ControlEncode

\* sendLoop takes the oldest frame: it is newer than what is on the way, and
\* older than what still waits.
LEMMA SendTakePath ==
  ASSUME PathInv, SendTake
  PROVE  /\ PathInv'
         /\ \E f \in Frame :
              /\ f.id \in 1..captured /\ Above(f.id)
              /\ \A m \in FlyingFrames : m.payload.id < f.id
              /\ \/ held' = held /\ sender' = sender /\ InFlight' = InFlight
                 \/ /\ Encoded("send", "FRAME", f)
                    /\ InFlight' \subseteq InFlight \cup {Encode(sender, "A", "B", "FRAME", f)}
<1>. DEFINE f == Head(framesToSend)
            e == Encode(sender, "A", "B", "FRAME", f)
<1>1. framesToSend \in Seq(Frame) /\ framesToSend # <<>>
  BY DEF PathInv, TypeOK, SendTake
<1>2. /\ framesToSend' \in Seq(Frame) /\ Len(framesToSend') = Len(framesToSend) - 1
      /\ 1 \in DOMAIN framesToSend /\ framesToSend[1] = f /\ f \in Frame
      /\ \A i \in DOMAIN framesToSend' :
           /\ i \in Nat /\ i > 0 /\ i + 1 \in DOMAIN framesToSend
           /\ framesToSend'[i] = framesToSend[i + 1]
  BY <1>1, TailFacts DEF SendTake
<1>3. f.id \in Nat /\ f.id \in 1..captured /\ Above(f.id)
  BY <1>1, <1>2, QueuedTyped, Zenon DEF PathInv, QueueInv, AheadInv
<1>4. e \in Message /\ e.type = "FRAME" /\ e.payload = f
  BY <1>2, EncodeTypes DEF PathInv
<1>5. \/ held' = held /\ sender' = sender
      \/ /\ f.len # 0 /\ held' = [held EXCEPT !["send"] = {e}]
         /\ sender' = AfterEncode(sender) /\ Encoded("send", "FRAME", f)
  BY DEF SendTake, Encoded
<1>6. sender' \in [key : {Key}, sendNonce : Nat, recvNonce : Nat]
  <2>1. /\ sender \in [key : {Key}, sendNonce : Nat, recvNonce : Nat]
        /\ AfterEncode(sender) \in [key : {Key}, sendNonce : Nat, recvNonce : Nat]
    BY <1>2, EncodeTypes, Zenon DEF PathInv, TypeOK
  <2>. QED
    BY <1>5, <2>1, Zenon
<1>. HIDE DEF f, e
<1>7. held' \in [Senders -> SUBSET Message] /\ Held' \subseteq Held \cup {e}
  BY <1>4, <1>5, SMTT(30) DEF PathInv, TypeOK, Held, Senders
<1>8. TypeOK'
  <2>1. Len(framesToSend') <= ChannelBufferSize
    BY <1>1, <1>2, FramePathAssumption DEF PathInv, TypeOK
  <2>. QED
    BY <1>2, <1>6, <1>7, <2>1, Zenon DEF PathInv, TypeOK, SendTake
<1>9. InFlight' \subseteq InFlight \cup {e}
  BY <1>7 DEF InFlight, OnTheWire, SendTake
<1>10. held' = held => InFlight' = InFlight
  BY DEF InFlight, Held, OnTheWire, SendTake
<1>11. \A n : Above(n) => Above(n)'
  BY DEF SendTake, Above
<1>12. FlyingFrames' \subseteq FlyingFrames \cup {e}
  BY <1>9 DEF FlyingFrames
<1>13. \A m \in FlyingFrames : m.payload.id < f.id /\ m.payload.id \in Nat
  BY <1>2, FlightTyped, Zenon DEF PathInv, QueueInv, FlyingFrames
<1>14. \A i \in DOMAIN framesToSend' : framesToSend'[i].id \in Nat /\ f.id < framesToSend'[i].id
  <2>1. \A i \in DOMAIN framesToSend' : 1 < i + 1
    BY <1>2
  <2>. QED
    BY <1>2, <2>1, QueuedTyped, Zenon DEF PathInv, QueueInv
<1>15. FlightInv'
  <2>1. CASE held' = held
    BY <1>10, <2>1 DEF PathInv, FlightInv, FlyingFrames, SendTake
  <2>2. CASE f.len # 0
    BY <1>3, <1>4, <1>12, <2>2, Zenon DEF PathInv, FlightInv, SendTake
  <2>. QED
    BY <1>5, <2>1, <2>2
<1>16. QueueInv'
  <2>1. \A i \in DOMAIN framesToSend' : framesToSend'[i].id \in 1..captured'
    BY <1>2 DEF PathInv, QueueInv, SendTake
  <2>2. \A i, j \in DOMAIN framesToSend' :
          i < j => framesToSend'[i].id < framesToSend'[j].id
    <3>1. \A i, j \in DOMAIN framesToSend' : i < j => i + 1 < j + 1
      BY <1>2
    <3>. QED
      BY <1>2, <3>1, Zenon DEF PathInv, QueueInv
  <2>3. \A m \in FlyingFrames' : \A i \in DOMAIN framesToSend' :
          m.payload.id < framesToSend'[i].id
    BY <1>2, <1>4, <1>12, <1>14, Zenon DEF PathInv, QueueInv
  <2>. QED
    BY <2>1, <2>2, <2>3 DEF QueueInv
<1>17. AheadInv'
  <2>1. \A i \in DOMAIN framesToSend' : Above(framesToSend'[i].id)
    BY <1>2 DEF PathInv, AheadInv
  <2>. QED
    BY <1>11, <2>1, Zenon DEF PathInv, AheadInv, SendTake
<1>18. /\ f.id \in 1..captured /\ Above(f.id)
       /\ \A m \in FlyingFrames : m.payload.id < f.id
       /\ \/ held' = held /\ sender' = sender /\ InFlight' = InFlight
          \/ /\ Encoded("send", "FRAME", f)
             /\ InFlight' \subseteq InFlight \cup {Encode(sender, "A", "B", "FRAME", f)}
  BY <1>3, <1>5, <1>9, <1>10, <1>13 DEF e
<1>. QED
  BY <1>2, <1>8, <1>15, <1>16, <1>17, <1>18 DEF PathInv

\* injectLoop takes the oldest slice.
LEMMA InjectTakeFacts ==
  ASSUME TypeOK, InjectTake
  PROVE  /\ TypeOK' /\ InFlight' = InFlight
         /\ \A n : Above(n) => Above(n)'
         /\ InjectInv => InjectInv'
<1>. DEFINE f == Head(framesToInject)
<1>1. /\ framesToInject \in Seq(Slice) /\ framesToInject # <<>>
      /\ injecting' = {f} /\ taken' = Append(taken, f.id)
  BY DEF TypeOK, InjectTake
<1>2. /\ framesToInject' \in Seq(Slice) /\ Len(framesToInject') = Len(framesToInject) - 1
      /\ 1 \in DOMAIN framesToInject /\ framesToInject[1] = f /\ f \in Slice
      /\ \A i \in DOMAIN framesToInject' :
           /\ i \in Nat /\ i > 0 /\ i + 1 \in DOMAIN framesToInject
           /\ framesToInject'[i] = framesToInject[i + 1]
  BY <1>1, TailFacts DEF InjectTake
<1>. HIDE DEF f
<1>3. f.id \in Nat /\ taken \in Seq(Nat)
  BY <1>2 DEF Slice, TypeOK
<1>4. taken' \in Seq(Nat) /\ Path!Latest(taken)' = f.id
  BY <1>1, <1>3, LatestFacts, Zenon
<1>5. TypeOK'
  <2>1. Len(framesToInject') <= ChannelBufferSize
    BY <1>1, <1>2, FramePathAssumption DEF TypeOK
  <2>. QED
    BY <1>1, <1>2, <1>4, <2>1, Zenon DEF TypeOK, InjectTake
<1>6. InFlight' = InFlight
  BY Zenon DEF InFlight, Held, OnTheWire, InjectTake
<1>7. \A n : Above(n) => Above(n)'
  BY <1>2, <1>4, Zenon DEF Above
<1>8. ASSUME InjectInv PROVE InjectInv'
  <2>1. \A i, j \in DOMAIN framesToInject' :
          i < j => framesToInject'[i].id < framesToInject'[j].id
    <3>1. \A i, j \in DOMAIN framesToInject' : i < j => i + 1 < j + 1
      BY <1>2, SMTT(30)
    <3>. QED
      BY <1>2, <1>8, <3>1, Zenon DEF InjectInv
  <2>2. \A i \in DOMAIN framesToInject' : f.id < framesToInject'[i].id
    <3>1. \A i \in DOMAIN framesToInject' : 1 < i + 1
      BY <1>2
    <3>. QED
      BY <1>2, <1>8, <3>1, Zenon DEF InjectInv
  <2>. QED
    BY <1>4, <2>1, <2>2, Zenon DEF InjectInv
<1>. QED
  BY <1>5, <1>6, <1>7, <1>8

\* WritePacket leaves the queue alone.
LEMMA InjectWriteFacts ==
  ASSUME TypeOK, InjectWrite
  PROVE  /\ TypeOK' /\ InFlight' = InFlight
         /\ \A n : Above(n) => Above(n)'
         /\ InjectInv => InjectInv'
<1>1. PICK s \in injecting : InjectWrite!(s)
  BY Zenon DEF InjectWrite
<1>2. TypeOK'
  <2>1. intact' \in BOOLEAN
    BY <1>1, Zenon DEF TypeOK
  <2>2. injecting' = {}
    BY <1>1, Zenon
  <2>. QED
    BY <1>1, <2>1, <2>2, Zenon DEF TypeOK
<1>3. InFlight' = InFlight
  BY <1>1, Zenon DEF InFlight, Held, OnTheWire
<1>4. UNCHANGED <<framesToInject, taken>>
  BY <1>1, Zenon
<1>5. (\A n : Above(n) => Above(n)') /\ (InjectInv => InjectInv')
  BY <1>4, Zenon DEF Above, InjectInv, Path!Latest
<1>. QED
  BY <1>2, <1>3, <1>5

\* Decode and handleFrame accept a frame.
Accepts(m) == m.type = "FRAME" /\ Decodes(receiver, m)

\* What Decode leaves in the receiver.
LEMMA DecodeTypes ==
  ASSUME TypeOK, NEW m \in Message
  PROVE  AfterDecode(receiver, m) \in [key : {Key}, sendNonce : Nat, recvNonce : Nat]
<1>1. m.nonce \in Nat
  BY DEF Message
<1>2. \/ AfterDecode(receiver, m) = receiver
      \/ AfterDecode(receiver, m) = [receiver EXCEPT !.recvNonce = m.nonce]
  BY DEF AfterDecode
<1>. QED
  BY <1>1, <1>2, Zenon DEF TypeOK

\* recvLoop has received m.
Receives(m) == RecvEnd!(m)

\* recvLoop: an accepted frame is queued behind the others.
LEMMA RecvEndFacts ==
  ASSUME TypeOK, FlightInv, NEW m \in receiving, Receives(m)
  PROVE  /\ TypeOK' /\ InFlight' \subseteq InFlight
         /\ \A n : Above(n) /\ (Accepts(m) => m.payload.id < n) => Above(n)'
         /\ InjectInv /\ (Accepts(m) => Above(m.payload.id)) => InjectInv'
<1>. DEFINE ok == Decodes(receiver, m)
            q == framesToInject
<1>1. /\ m \in InFlight /\ m \in Message /\ m.payload \in Frame /\ m.payload.id \in Nat
  BY FlightTyped, Zenon DEF InFlight
<1>2. /\ receiver' = IF ok THEN AfterDecode(receiver, m) ELSE receiver
      /\ q' = IF m.type = "FRAME" /\ ok THEN Offered(q, m.payload) ELSE q
  BY Zenon DEF Receives
<1>3. receiver' \in [key : {Key}, sendNonce : Nat, recvNonce : Nat]
  <2>1. AfterDecode(receiver, m) \in [key : {Key}, sendNonce : Nat, recvNonce : Nat]
    BY <1>1, DecodeTypes, Zenon
  <2>. QED
    BY <1>2, <2>1, Zenon DEF TypeOK
<1>4. q \in Seq(Slice) /\ Len(q) <= ChannelBufferSize
  BY DEF TypeOK
<1>5. Accepts(m) => m.payload \in Slice
  <2>1. Accepts(m) => m \in FlyingFrames
    BY <1>1, Zenon DEF Accepts, FlyingFrames
  <2>2. Accepts(m) => m.payload.len # 0
    BY <2>1, Zenon DEF FlightInv
  <2>3. \A f \in Frame : f.len # 0 => f \in Slice
    BY DEF Frame, Slice
  <2>. QED
    BY <1>1, <2>2, <2>3, Zenon
<1>6. /\ q' \in Seq(Slice) /\ Len(q') <= ChannelBufferSize
      /\ \A i \in DOMAIN q' :
           \/ i \in DOMAIN q /\ q'[i] = q[i]
           \/ Accepts(m) /\ q'[i] = m.payload /\ \A j \in DOMAIN q' : j <= i
  <2>1. CASE Accepts(m)
    <3>. DEFINE r == Offered(q, m.payload)
    <3>1. m.payload \in Slice
      BY <1>5, <2>1
    <3>2. /\ r \in Seq(Slice) /\ Len(r) <= ChannelBufferSize
          /\ \A i \in DOMAIN r :
               \/ i \in DOMAIN q /\ r[i] = q[i]
               \/ r[i] = m.payload /\ \A j \in DOMAIN r : j <= i
      <4>. HIDE DEF q
      <4>. QED
        BY <1>4, <3>1, OfferedFacts, Zenon
    <3>3. q' = r
      BY <1>2, <2>1 DEF Accepts
    <3>. HIDE DEF q, r
    <3>. QED
      BY <2>1, <3>2, <3>3
  <2>2. CASE ~Accepts(m)
    BY <1>2, <1>4, <2>2, Zenon DEF Accepts
  <2>. QED
    BY <2>1, <2>2, Zenon
<1>7. TypeOK'
  <2>1. buf' \in [1..Cells -> Nat]
    <3>1. \A c \in 1..Cells : Stored(m, c) \in Nat
      BY <1>1, Zenon DEF TypeOK, Stored
    <3>. QED
      BY <3>1, Zenon DEF Receives
  <2>2. RxPackets' \in Nat
    <3>1. RxPackets \in Nat /\ RxPackets' \in {RxPackets, RxPackets + 1}
      BY Zenon DEF TypeOK, RxAfter, Receives
    <3>. QED
      BY <3>1
  <2>3. overtaken' \subseteq Nat
    BY <1>1, Zenon DEF TypeOK, Receives
  <2>4. /\ receiving' \subseteq Message
        /\ UNCHANGED <<captured, framesToSend, sender, held, uncounted, net, sent,
                       injecting, taken, intact, TxPackets, controlSent, disordered>>
    BY Zenon DEF Receives
  <2>. QED
    BY <1>3, <1>6, <2>1, <2>2, <2>3, <2>4, Zenon DEF TypeOK
<1>8. InFlight' \subseteq InFlight
  <2>1. receiving' = {} /\ UNCHANGED <<held, net>>
    BY Zenon DEF Receives
  <2>. QED
    BY <2>1, Zenon DEF InFlight, Held, OnTheWire
<1>9. Path!Latest(taken)' = Path!Latest(taken)
  BY Zenon DEF Receives
<1>10. \A n : Above(n) /\ (Accepts(m) => m.payload.id < n) => Above(n)'
  BY <1>6, <1>9, Zenon DEF Above
<1>11. ASSUME InjectInv, Accepts(m) => Above(m.payload.id) PROVE InjectInv'
  <2>1. \A i, j \in DOMAIN q' : i < j => q'[i].id < q'[j].id
    <3>. SUFFICES ASSUME NEW i \in DOMAIN q', NEW j \in DOMAIN q', i < j
                  PROVE  q'[i].id < q'[j].id
      OBVIOUS
    <3>1. i \in Nat /\ j \in Nat
      BY <1>6
    <3>2. i \in DOMAIN q /\ q'[i] = q[i]
      BY <1>6, <3>1
    <3>3. \/ j \in DOMAIN q /\ q'[j] = q[j]
          \/ q'[j] = m.payload /\ Above(m.payload.id)
      BY <1>6, <1>11
    <3>. QED
      BY <1>11, <3>2, <3>3, Zenon DEF InjectInv, Above
  <2>2. \A i \in DOMAIN q' : Path!Latest(taken) < q'[i].id
    BY <1>6, <1>11, Zenon DEF InjectInv, Above
  <2>. QED
    BY <1>9, <2>1, <2>2, Zenon DEF InjectInv
<1>. QED
  BY <1>7, <1>8, <1>10, <1>11, Zenon

\* Every step keeps what holds with a key and without.
LEMMA StepPath ==
  ASSUME PathInv, [Next]_vars
  PROVE  PathInv'
<1>1. CASE Passing
  BY <1>1, PassingFacts, PathShrinks DEF PathInv
<1>2. CASE InjectTake \/ InjectWrite
  <2>1. /\ TypeOK' /\ InFlight' = InFlight /\ \A n : Above(n) => Above(n)'
        /\ UNCHANGED <<captured, framesToSend>>
    BY <1>2, InjectTakeFacts, InjectWriteFacts, Zenon
       DEF PathInv, InjectTake, InjectWrite
  <2>2. FlyingFrames' = FlyingFrames
    BY <2>1 DEF FlyingFrames
  <2>. QED
    BY <2>1, <2>2, Zenon DEF PathInv, FlightInv, QueueInv, AheadInv
<1>3. CASE RecvEnd
  <2>1. PICK m \in receiving : RecvEnd!(m)
    BY <1>3, Zenon DEF RecvEnd
  <2>2. /\ TypeOK' /\ InFlight' \subseteq InFlight
        /\ \A n : Above(n) /\ (Accepts(m) => m.payload.id < n) => Above(n)'
    BY <2>1, RecvEndFacts, Zenon DEF PathInv, Receives
  <2>3. UNCHANGED <<captured, framesToSend>>
    BY <2>1
  <2>4. FlyingFrames' \subseteq FlyingFrames
    BY <2>2 DEF FlyingFrames
  <2>5. Accepts(m) => m \in FlyingFrames
    BY DEF Accepts, FlyingFrames, InFlight
  <2>6. Accepts(m) => m.payload.id < captured + 1
    BY <2>5, SMTT(30) DEF PathInv, TypeOK, FlightInv
  <2>7. \A i \in DOMAIN framesToSend : Accepts(m) => m.payload.id < framesToSend[i].id
    BY <2>5, Zenon DEF PathInv, QueueInv
  <2>8. AheadInv'
    BY <2>2, <2>3, <2>6, <2>7, Zenon DEF PathInv, AheadInv
  <2>. QED
    BY <2>2, <2>3, <2>4, <2>8, Zenon DEF PathInv, FlightInv, QueueInv
<1>. QED
  BY <1>1, <1>2, <1>3, CaptureFramePath, ControlEncodePath, SendTakePath, Zenon
     DEF Next, Passing

\* With a key or without, both channels stay within their capacity and every
\* counter, codec and buffer keeps its type, whatever the network does: no
\* slice that handleFrame queues is empty.
THEOREM TypeCorrect == Spec => []TypeOK
<1>1. PathInv => TypeOK
  BY DEF PathInv
<1>2. PathInv /\ [Next]_vars => PathInv'
  BY StepPath
<1>3. Init => PathInv
  BY InitPath
<1>. QED
  BY <1>1, <1>2, <1>3, PTL DEF Spec

-----------------------------------------------------------------------------
(* With a key. *)

\* Nonces are drawn in the order of the frames.
NonceInv ==
  /\ receiver.recvNonce <= sender.sendNonce
  /\ \A m \in InFlight : m.nonce \in 1..sender.sendNonce
  /\ \A m1, m2 \in FlyingFrames :
       m1.nonce < m2.nonce => m1.payload.id < m2.payload.id

\* What Decode would still accept is newer than what has been queued.
FreshInv ==
  \A m \in FlyingFrames : m.nonce > receiver.recvNonce => Above(m.payload.id)

IInv ==
  /\ TypeOK /\ FlightInv /\ QueueInv /\ AheadInv
  /\ NonceInv /\ FreshInv /\ InjectInv

\* Two fresh bridges satisfy the invariant.
LEMMA InitIInv == Init => IInv
<1>. SUFFICES ASSUME Init PROVE IInv
  OBVIOUS
<1>1. PathInv /\ InjectInv /\ InFlight = {} /\ FlyingFrames = {}
  BY InitPath DEF FlyingFrames
<1>2. NonceInv /\ FreshInv
  <2>1. sender = NewCodec(Key) /\ receiver = NewCodec(Key)
    BY Zenon DEF Init
  <2>2. NewCodec(Key).recvNonce <= NewCodec(Key).sendNonce
    BY DEF NewCodec
  <2>. QED
    BY <1>1, <2>1, <2>2, Zenon DEF NonceInv, FreshInv
<1>. QED
  BY <1>1, <1>2 DEF IInv, PathInv

\* A step that puts nothing new in flight and leaves the codecs and the
\* receiver's channel alone keeps the invariant.
LEMMA FlightShrinks ==
  ASSUME IInv, PathInv', InFlight' \subseteq InFlight,
         UNCHANGED <<sender, receiver, framesToInject, injecting, taken>>
  PROVE  IInv'
<1>1. FlyingFrames' \subseteq FlyingFrames
  BY DEF FlyingFrames
<1>2. Path!Latest(taken)' = Path!Latest(taken)
  OBVIOUS
<1>3. \A n : Above(n) => Above(n)'
  BY <1>2 DEF Above
<1>4. NonceInv'
  BY <1>1 DEF IInv, NonceInv
<1>5. FreshInv'
  BY <1>1, <1>3 DEF IInv, FreshInv
<1>6. InjectInv'
  BY <1>2, Zenon DEF IInv, InjectInv
<1>. QED
  BY <1>4, <1>5, <1>6 DEF IInv, PathInv

\* What encode makes in secure mode.
LEMMA EncodeFacts ==
  ASSUME TypeOK, Key # NoKey, NEW type \in {"FRAME", "CONTROL"}, NEW p \in Frame
  PROVE  /\ AfterEncode(sender).sendNonce = sender.sendNonce + 1
         /\ Encode(sender, "A", "B", type, p).nonce = sender.sendNonce + 1
         /\ Encode(sender, "A", "B", type, p).type = type
         /\ Encode(sender, "A", "B", type, p).payload = p
<1>1. AfterEncode(sender) = [sender EXCEPT !.sendNonce = sender.sendNonce + 1]
  BY Zenon DEF TypeOK, AfterEncode, IsSecure
<1>2. AfterEncode(sender).sendNonce = sender.sendNonce + 1
  BY <1>1 DEF TypeOK
<1>. QED
  BY <1>2, EncodeTypes, Zenon DEF Encode

\* A control message is encoded: it takes a nonce of its own.
LEMMA ControlEncodeInv ==
  ASSUME IInv, PathInv', Key # NoKey, NEW g \in Control, ControlEncode(g)
  PROVE  IInv'
<1>. DEFINE p == [id |-> 0, len |-> 1]
            e == Encode(sender, "A", "B", "CONTROL", p)
<1>1. p \in Frame
  BY FramePathAssumption DEF Frame
<1>2. /\ sender'.sendNonce = sender.sendNonce + 1
      /\ e.nonce = sender.sendNonce + 1 /\ e.type = "CONTROL"
  BY <1>1, EncodeFacts, Zenon DEF IInv, ControlEncode, Encoded
<1>3. held' = [held EXCEPT ![g] = {e}]
  BY Zenon DEF ControlEncode, Encoded
<1>. HIDE DEF e
<1>4. Held' \subseteq Held \cup {e}
  BY <1>3, Zenon DEF IInv, TypeOK, Held
<1>5. InFlight' \subseteq InFlight \cup {e}
  BY <1>4, Zenon DEF InFlight, OnTheWire, ControlEncode
<1>6. FlyingFrames' \subseteq FlyingFrames
  BY <1>2, <1>5 DEF FlyingFrames
<1>7. \A n : Above(n) => Above(n)'
  BY Zenon DEF ControlEncode, Above
<1>8. sender.sendNonce \in Nat /\ receiver.recvNonce \in Nat
  BY DEF IInv, TypeOK
<1>9. NonceInv'
  <2>1. \A n \in 1..sender.sendNonce : n \in 1..sender'.sendNonce
    BY <1>2, <1>8
  <2>2. \A m \in InFlight' : m.nonce \in 1..sender'.sendNonce
    BY <1>2, <1>5, <1>8, <2>1 DEF IInv, NonceInv
  <2>3. receiver'.recvNonce <= sender'.sendNonce
    BY <1>2, <1>8 DEF IInv, NonceInv, ControlEncode
  <2>. QED
    BY <1>6, <2>2, <2>3, Zenon DEF IInv, NonceInv
<1>10. FreshInv'
  BY <1>6, <1>7, Zenon DEF IInv, FreshInv, ControlEncode
<1>11. InjectInv'
  BY Zenon DEF IInv, InjectInv, ControlEncode
<1>. QED
  BY <1>9, <1>10, <1>11 DEF IInv, PathInv

\* sendLoop takes a frame: the nonce it draws is larger than every other, and
\* its number too.
LEMMA SendTakeInv ==
  ASSUME IInv, PathInv', Key # NoKey, SendTake
  PROVE  IInv'
<1>1. PICK f \in Frame :
        /\ f.id \in 1..captured /\ Above(f.id)
        /\ \A m \in FlyingFrames : m.payload.id < f.id
        /\ \/ held' = held /\ sender' = sender /\ InFlight' = InFlight
           \/ /\ Encoded("send", "FRAME", f)
              /\ InFlight' \subseteq InFlight \cup {Encode(sender, "A", "B", "FRAME", f)}
  BY SendTakePath, Zenon DEF IInv, PathInv
<1>2. CASE sender' = sender /\ InFlight' = InFlight
  BY <1>2, FlightShrinks, Zenon DEF SendTake
<1>3. CASE /\ Encoded("send", "FRAME", f)
           /\ InFlight' \subseteq InFlight \cup {Encode(sender, "A", "B", "FRAME", f)}
  <2>. DEFINE e == Encode(sender, "A", "B", "FRAME", f)
  <2>1. /\ sender'.sendNonce = sender.sendNonce + 1
        /\ e.nonce = sender.sendNonce + 1 /\ e.payload = f
    BY <1>3, EncodeFacts, Zenon DEF IInv, Encoded
  <2>2. InFlight' \subseteq InFlight \cup {e}
    BY <1>3
  <2>. HIDE DEF e
  <2>3. sender.sendNonce \in Nat /\ receiver.recvNonce \in Nat
    BY Zenon DEF IInv, TypeOK
  <2>4. FlyingFrames' \subseteq FlyingFrames \cup {e} /\ FlyingFrames \subseteq InFlight
    BY <2>2 DEF FlyingFrames
  <2>5. \A n : Above(n) => Above(n)'
    BY Zenon DEF SendTake, Above
  <2>6. NonceInv'
    <3>1. \A n \in 1..sender.sendNonce : n \in 1..sender'.sendNonce
      BY <2>1, <2>3
    <3>2. receiver'.recvNonce <= sender'.sendNonce
      <4>1. receiver' = receiver /\ receiver.recvNonce <= sender.sendNonce
        BY Zenon DEF IInv, NonceInv, SendTake
      <4>. QED
        BY <2>1, <2>3, <4>1
    <3>3. \A m \in InFlight' : m.nonce \in 1..sender'.sendNonce
      BY <2>1, <2>2, <2>3, <3>1 DEF IInv, NonceInv
    <3>4. \A m \in FlyingFrames : /\ m.nonce \in 1..sender.sendNonce
                                  /\ m.payload.id < f.id
      BY <1>1, <2>4 DEF IInv, NonceInv
    <3>5. \A m1, m2 \in FlyingFrames' :
            m1.nonce < m2.nonce => m1.payload.id < m2.payload.id
      <4>1. \A m1, m2 \in FlyingFrames :
              m1.nonce < m2.nonce => m1.payload.id < m2.payload.id
        BY Zenon DEF IInv, NonceInv
      <4>. QED
        BY <2>1, <2>3, <2>4, <3>4, <4>1
    <3>. QED
      BY <3>2, <3>3, <3>5, Zenon DEF NonceInv
  <2>7. FreshInv'
    BY <1>1, <2>1, <2>4, <2>5, Zenon DEF IInv, FreshInv, SendTake
  <2>8. InjectInv'
    BY Zenon DEF IInv, InjectInv, SendTake
  <2>. QED
    BY <2>6, <2>7, <2>8 DEF IInv, PathInv
<1>. QED
  BY <1>1, <1>2, <1>3, Zenon

\* injectLoop takes a slice, or writes it.
LEMMA InjectStepsInv ==
  ASSUME IInv, PathInv', InjectTake \/ InjectWrite
  PROVE  IInv'
<1>1. InFlight' = InFlight /\ (\A n : Above(n) => Above(n)') /\ InjectInv'
  BY InjectTakeFacts, InjectWriteFacts DEF IInv
<1>2. UNCHANGED <<sender, receiver>>
  BY Zenon DEF InjectTake, InjectWrite
<1>3. FlyingFrames' = FlyingFrames
  BY <1>1 DEF FlyingFrames
<1>4. NonceInv'
  BY <1>1, <1>2, <1>3, Zenon DEF IInv, NonceInv
<1>5. FreshInv'
  BY <1>1, <1>2, <1>3 DEF IInv, FreshInv
<1>. QED
  BY <1>1, <1>4, <1>5 DEF IInv, PathInv

\* Decode: in secure mode a message passes when its nonce is larger than the
\* last one, and that nonce is kept.
LEMMA DecodeFacts ==
  ASSUME IInv, Key # NoKey
  PROVE  \A m \in InFlight :
           /\ Decodes(receiver, m) <=> m.nonce > receiver.recvNonce
           /\ AfterDecode(receiver, m) \in [key : {Key}, sendNonce : Nat, recvNonce : Nat]
           /\ AfterDecode(receiver, m).recvNonce = m.nonce
<1>. TAKE m \in InFlight
<1>1. m.nonce \in Nat /\ m.nonce # 0 /\ m.type \in {"FRAME", "CONTROL"}
  BY FlightTyped DEF IInv, NonceInv, Message
<1>2. IsSecure(receiver) /\ m.type \notin Handshake
  BY <1>1 DEF IInv, TypeOK, IsSecure, Handshake
<1>3. Decodes(receiver, m) <=> m.nonce > receiver.recvNonce
  <2>1. VerifyHMAC(receiver, m)
    BY FlightTyped, Zenon DEF IInv, TypeOK, VerifyHMAC
  <2>. QED
    BY <1>1, <1>2, <2>1 DEF Decodes, FreshNonce
<1>4. AfterDecode(receiver, m) = [receiver EXCEPT !.recvNonce = m.nonce]
  BY <1>2 DEF AfterDecode
<1>5. receiver \in [key : {Key}, sendNonce : Nat, recvNonce : Nat]
  BY DEF IInv, TypeOK
<1>6. /\ AfterDecode(receiver, m) \in [key : {Key}, sendNonce : Nat, recvNonce : Nat]
      /\ AfterDecode(receiver, m).recvNonce = m.nonce
  BY <1>1, <1>4, <1>5
<1>. QED
  BY <1>3, <1>6

\* recvLoop: a frame that passes is newer than every frame queued before it.
LEMMA RecvEndInv ==
  ASSUME IInv, PathInv', Key # NoKey, RecvEnd
  PROVE  IInv'
<1>0. \A m \in InFlight :
         /\ Decodes(receiver, m) => m.nonce > receiver.recvNonce
         /\ AfterDecode(receiver, m).recvNonce = m.nonce
  BY DecodeFacts
<1>1. PICK m \in receiving : RecvEnd!(m)
  BY Zenon DEF RecvEnd
<1>2. /\ m \in InFlight /\ m.nonce \in Nat /\ m.nonce \in 1..sender.sendNonce
  BY FlightTyped DEF InFlight, IInv, NonceInv
<1>. DEFINE ok == Decodes(receiver, m)
<1>3. /\ ok => m.nonce > receiver.recvNonce
      /\ IF ok THEN receiver'.recvNonce = m.nonce ELSE receiver' = receiver
  BY <1>0, <1>1, <1>2
<1>4. Accepts(m) => m \in FlyingFrames /\ ok
  BY <1>2 DEF Accepts, FlyingFrames
<1>. HIDE DEF ok
<1>5. /\ receiver.recvNonce \in Nat /\ sender.sendNonce \in Nat
      /\ receiver'.recvNonce \in Nat /\ receiver.recvNonce <= receiver'.recvNonce
  BY <1>2, <1>3 DEF IInv, TypeOK
<1>6. Accepts(m) => Above(m.payload.id)
  BY <1>3, <1>4 DEF IInv, FreshInv
<1>7. /\ InFlight' \subseteq InFlight /\ InjectInv'
      /\ \A n : Above(n) /\ (Accepts(m) => m.payload.id < n) => Above(n)'
  BY <1>1, <1>6, RecvEndFacts, Zenon DEF IInv, Receives
<1>8. FlyingFrames' \subseteq FlyingFrames
  BY <1>7 DEF FlyingFrames
<1>9. NonceInv'
  <2>1. sender' = sender
    BY <1>1
  <2>2. receiver'.recvNonce <= sender.sendNonce
    BY <1>2, <1>3, <1>5 DEF IInv, NonceInv
  <2>. QED
    BY <1>7, <1>8, <2>1, <2>2, Zenon DEF IInv, NonceInv
<1>10. FreshInv'
  <2>. SUFFICES ASSUME NEW f \in FlyingFrames', f.nonce > receiver'.recvNonce
                PROVE  Above(f.payload.id)'
    BY DEF FreshInv
  <2>1. f \in FlyingFrames /\ f.nonce \in Nat
    BY <1>8, FlightTyped, Zenon DEF FlyingFrames, IInv
  <2>2. Above(f.payload.id)
    BY <1>5, <2>1 DEF IInv, FreshInv
  <2>3. Accepts(m) => m.payload.id < f.payload.id
    BY <1>3, <1>4, <2>1 DEF IInv, NonceInv
  <2>4. \A n : n = f.payload.id => Above(n)'
    BY <1>7, <2>2, <2>3
  <2>. QED
    BY <2>4, Zenon DEF Above
<1>. QED
  BY <1>7, <1>9, <1>10 DEF IInv, PathInv

\* With a key, every step preserves the invariant.
LEMMA StepInv ==
  ASSUME IInv, Key # NoKey, [Next]_vars
  PROVE  IInv'
<1>1. PathInv'
  BY StepPath DEF IInv, PathInv
<1>2. CASE Passing
  BY <1>1, <1>2, PassingFacts, FlightShrinks, Zenon DEF IInv
<1>3. CASE \E len \in 0..Cells : CaptureFrame(len)
  <2>1. InFlight' = InFlight
    BY <1>3, CaptureFramePath DEF IInv, PathInv
  <2>. QED
    BY <1>1, <1>3, <2>1, FlightShrinks, Zenon DEF CaptureFrame
<1>4. CASE \E g \in Control : ControlEncode(g)
  BY <1>1, <1>4, ControlEncodeInv
<1>. QED
  BY <1>1, <1>2, <1>3, <1>4, SendTakeInv, RecvEndInv, InjectStepsInv DEF Next, Passing

\* A step of the path, seen from the ends: injectLoop receives the oldest
\* slice of the channel.
LEMMA StepOfFifo ==
  ASSUME PathInv, InjectInv, [Next]_vars
  PROVE  [Path!Next]_<<captured, taken>>
<1>1. CASE \E len \in 0..Cells : CaptureFrame(len)
  BY <1>1 DEF CaptureFrame, Path!Next, Path!Offer
<1>2. CASE InjectTake
  <2>. DEFINE f == Head(framesToInject)
  <2>1. /\ framesToInject \in Seq(Slice) /\ framesToInject # <<>>
        /\ taken' = Append(taken, f.id) /\ captured' = captured
    BY <1>2 DEF InjectTake, PathInv, TypeOK
  <2>2. 1 \in DOMAIN framesToInject /\ framesToInject[1] = f /\ f \in Slice
    BY <2>1, TailFacts
  <2>. HIDE DEF f
  <2>3. f.id \in Nat /\ Path!Latest(taken) \in Nat
    BY <2>2, LatestFacts, 0 \in Nat, Zenon DEF PathInv, TypeOK, Slice
  <2>4. Path!Latest(taken) < f.id /\ f.id < captured + 1
    BY <2>2, Zenon DEF PathInv, AheadInv, InjectInv, Above
  <2>5. f.id \in 1..captured
    BY <2>3, <2>4, SMTT(30) DEF PathInv, TypeOK
  <2>. QED
    BY <2>1, <2>4, <2>5 DEF Path!Next, Path!Deliver
<1>3. CASE UNCHANGED <<captured, taken>>
  BY <1>3
<1>4. CASE \E g \in Control : ControlEncode(g)
  BY <1>4 DEF ControlEncode
<1>5. CASE \E g \in Senders : Transmit(g)
  BY <1>5, Zenon DEF Transmit
<1>6. CASE \E d \in net : RecvBegin(d) \/ Lose(d)
  BY <1>6, Zenon DEF RecvBegin, Lose
<1>7. CASE SendTake \/ CountSent \/ RecvEnd \/ InjectWrite
  BY <1>7, Zenon DEF SendTake, CountSent, RecvEnd, InjectWrite
<1>8. CASE UNCHANGED vars
  BY <1>8 DEF vars
<1>. QED
  BY <1>1, <1>2, <1>3, <1>4, <1>5, <1>6, <1>7, <1>8 DEF Next

\* With a key, the tunnel from captureLoop to injectLoop's receive implements a
\* lossy queue of frames: every step of the two bridges and the network is an
\* offer, a slice received in order, or invisible.  The bytes of a slice may
\* be overwritten before they are written; they are no part of this.
THEOREM FramePathImplementsLossyFifo == Key # NoKey /\ Spec => ForwardsInOrder
<1>. SUFFICES ASSUME Key # NoKey PROVE Spec => Path!Spec
  BY DEF ForwardsInOrder
<1>1. Init => Path!Init
  BY DEF Init, Path!Init
<1>2. IInv /\ [Next]_vars => IInv'
  BY StepInv
<1>3. IInv /\ [Next]_vars => [Path!Next]_<<captured, taken>>
  BY StepOfFifo DEF IInv, PathInv
<1>. QED
  BY InitIInv, <1>1, <1>2, <1>3, PTL DEF Spec, Path!Spec

-----------------------------------------------------------------------------
(* On a network that keeps the order, with a key or without. *)

\* A goroutine holds one message at most, sendLoop a frame and the others a
\* PING or PONG; datagrams are numbered as they were sent.
WireInv ==
  /\ \A g \in Senders : \A m1, m2 \in held[g] : m1 = m2
  /\ \A m \in held["send"] : m.type = "FRAME"
  /\ \A g \in Control : \A m \in held[g] : m.type = "CONTROL"
  /\ \A d \in net : d.at <= sent
  /\ \A d, e \in net : d.at = e.at => d = e

\* The frames stand in line: those that recvLoop has queued, the one it is
\* receiving, those in the network as they were sent, the one sendLoop holds.
LineInv ==
  /\ \A m \in FlyingFrames : Above(m.payload.id)
  /\ \A r \in receiving : r.type = "FRAME" =>
       /\ \A d \in net : d.msg.type = "FRAME" => r.payload.id < d.msg.payload.id
       /\ \A h \in held["send"] : r.payload.id < h.payload.id
  /\ \A d \in net : d.msg.type = "FRAME" =>
       /\ \A e \in net : e.msg.type = "FRAME" /\ d.at < e.at =>
                          d.msg.payload.id < e.msg.payload.id
       /\ \A h \in held["send"] : d.msg.payload.id < h.payload.id

InLineInv == WireInv /\ (~disordered => LineInv /\ InjectInv)

\* Steps that leave the line alone.
LEMMA LineAlone ==
  ASSUME InLineInv, UNCHANGED <<held, net, sent, receiving, disordered>>,
         \A n : Above(n) => Above(n)', InjectInv => InjectInv'
  PROVE  InLineInv'
<1>1. FlyingFrames' = FlyingFrames
  BY DEF FlyingFrames, InFlight, Held, OnTheWire
<1>2. WireInv'
  BY Zenon DEF InLineInv, WireInv
<1>3. LineInv => LineInv'
  BY <1>1, Zenon DEF LineInv
<1>. QED
  BY <1>2, <1>3 DEF InLineInv

\* A step that leaves the receiver's channel alone.
LEMMA ChannelAlone ==
  ASSUME UNCHANGED <<framesToInject, injecting, taken>>
  PROVE  (\A n : Above(n) => Above(n)') /\ (InjectInv => InjectInv')
<1>1. Path!Latest(taken)' = Path!Latest(taken)
  OBVIOUS
<1>. QED
  BY <1>1, Zenon DEF Above, InjectInv

\* A PING or PONG does not stand in line.
LEMMA ControlEncodeLine ==
  ASSUME PathInv, InLineInv, NEW g \in Control, ControlEncode(g)
  PROVE  InLineInv'
<1>. DEFINE e == Encode(sender, "A", "B", "CONTROL", [id |-> 0, len |-> 1])
<1>1. e.type = "CONTROL"
  BY DEF Encode
<1>2. held' = [held EXCEPT ![g] = {e}] /\ "send" # g /\ g \in Senders
  BY FramePathAssumption, Zenon DEF ControlEncode, Encoded, Senders
<1>. HIDE DEF e
<1>3. held'["send"] = held["send"] /\ \A h \in Senders : held'[h] = held[h] \/ held'[h] = {e}
  BY <1>2 DEF PathInv, TypeOK, Senders
<1>4. UNCHANGED <<net, sent, receiving, disordered, framesToInject, injecting, taken>>
  BY DEF ControlEncode
<1>5. FlyingFrames' \subseteq FlyingFrames
  BY ControlEncodePath
<1>6. WireInv'
  <2>1. \A h \in Senders : \A m1, m2 \in held'[h] : m1 = m2
    <3>1. \A h \in Senders : \A m1, m2 \in held[h] : m1 = m2
      BY Zenon DEF InLineInv, WireInv
    <3>. QED
      BY <1>3, <3>1
  <2>2. \A h \in Control : \A m \in held'[h] : m.type = "CONTROL"
    <3>1. Control \subseteq Senders
      BY DEF Senders
    <3>. SUFFICES ASSUME NEW h \in Control, NEW m \in held'[h] PROVE m.type = "CONTROL"
      OBVIOUS
    <3>2. m \in held[h] \/ m = e
      BY <1>3, <3>1
    <3>. QED
      BY <1>1, <3>2 DEF InLineInv, WireInv
  <2>. QED
    BY <1>3, <1>4, <2>1, <2>2, Zenon DEF InLineInv, WireInv
<1>7. LineInv => LineInv'
  <2>1. LineInv => (\A m \in FlyingFrames : Above(m.payload.id))'
    BY <1>4, <1>5, ChannelAlone, Zenon DEF LineInv
  <2>. QED
    BY <1>3, <1>4, <2>1, Zenon DEF LineInv
<1>. QED
  BY <1>4, <1>6, <1>7, ChannelAlone DEF InLineInv

\* sendLoop's next frame goes to the end of the line.
LEMMA SendTakeLine ==
  ASSUME PathInv, InLineInv, SendTake
  PROVE  InLineInv'
<1>1. UNCHANGED <<net, sent, receiving, disordered, framesToInject, injecting, taken>>
  BY Zenon DEF SendTake
<1>2. PICK f \in Frame :
        /\ f.id \in 1..captured /\ Above(f.id)
        /\ \A m \in FlyingFrames : m.payload.id < f.id
        /\ \/ held' = held /\ sender' = sender /\ InFlight' = InFlight
           \/ /\ Encoded("send", "FRAME", f)
              /\ InFlight' \subseteq InFlight \cup {Encode(sender, "A", "B", "FRAME", f)}
  BY SendTakePath, Zenon
<1>3. CASE held' = held
  BY <1>1, <1>3, LineAlone, ChannelAlone
<1>4. CASE /\ Encoded("send", "FRAME", f)
           /\ InFlight' \subseteq InFlight \cup {Encode(sender, "A", "B", "FRAME", f)}
  <2>. DEFINE e == Encode(sender, "A", "B", "FRAME", f)
  <2>1. e.type = "FRAME" /\ e.payload = f
    BY DEF Encode
  <2>2. InFlight' \subseteq InFlight \cup {e} /\ held' = [held EXCEPT !["send"] = {e}]
    BY <1>4 DEF Encoded
  <2>. HIDE DEF e
  <2>3. held'["send"] = {e} /\ \A g \in Control : held'[g] = held[g]
    BY <2>2, FramePathAssumption DEF PathInv, TypeOK, Senders
  <2>4. FlyingFrames' \subseteq FlyingFrames \cup {e}
    BY <2>2 DEF FlyingFrames
  <2>5. /\ \A r \in receiving : r.type = "FRAME" => r.payload.id < e.payload.id
        /\ \A d \in net : d.msg.type = "FRAME" => d.msg.payload.id < e.payload.id
    BY <1>2, <2>1, Zenon DEF FlyingFrames, InFlight, OnTheWire
  <2>6. WireInv'
    BY <1>1, <2>1, <2>3 DEF InLineInv, WireInv, Senders
  <2>7. LineInv => LineInv'
    <3>1. \A m \in FlyingFrames' : m \in FlyingFrames \/ m.payload.id = f.id
      BY <2>1, <2>4
    <3>2. LineInv => \A m \in FlyingFrames' : Above(m.payload.id)
      BY <1>2, <3>1, Zenon DEF LineInv
    <3>3. LineInv => (\A m \in FlyingFrames : Above(m.payload.id))'
      BY <1>1, <3>2, ChannelAlone
    <3>. QED
      BY <1>1, <2>3, <2>5, <3>3, Zenon DEF LineInv
  <2>. QED
    BY <1>1, <2>6, <2>7, ChannelAlone DEF InLineInv
<1>. QED
  BY <1>2, <1>3, <1>4, Zenon

\* A frame that is sent keeps its place in the line.
LEMMA TransmitLine ==
  ASSUME PathInv, InLineInv, NEW g \in Senders, Transmit(g)
  PROVE  InLineInv'
<1>1. UNCHANGED <<receiving, disordered, framesToInject, injecting, taken>>
  BY Zenon DEF Transmit
<1>2. held' = [held EXCEPT ![g] = {}] /\ DOMAIN held = Senders /\ Control \subseteq Senders
      /\ "send" \in Senders
  BY Zenon DEF Transmit, PathInv, TypeOK, Senders
<1>3. /\ \A h \in Senders : held'[h] \subseteq held[h]
      /\ g = "send" => held'["send"] = {}
  BY <1>2
<1>4. /\ sent \in Nat /\ sent' \in Nat /\ sent <= sent'
      /\ \A d \in net' :
           d \in net \/ (d.at = sent + 1 /\ sent' = sent + 1 /\ d.msg \in held[g])
  <2>1. sent \in Nat
    BY DEF PathInv, TypeOK
  <2>2. CASE UNCHANGED <<net, sent>>
    BY <2>1, <2>2
  <2>3. CASE /\ net' = net \cup {[at |-> sent + 1, msg |-> m] : m \in held[g]}
             /\ sent' = sent + 1
    <3>1. ASSUME NEW d \in net', d \notin net
          PROVE  d.at = sent + 1 /\ d.msg \in held[g]
      <4>1. PICK m \in held[g] : d = [at |-> sent + 1, msg |-> m]
        BY <2>3, <3>1, Zenon
      <4>. QED
        BY <4>1, Zenon
    <3>2. sent' \in Nat /\ sent <= sent'
      BY <2>1, <2>3
    <3>3. \A d \in net' :
            d \in net \/ (d.at = sent + 1 /\ sent' = sent + 1 /\ d.msg \in held[g])
      BY <2>3, <3>1, Zenon
    <3>. QED
      BY <2>1, <3>2, <3>3, Zenon
  <2>. QED
    BY <2>2, <2>3, Zenon DEF Transmit
<1>5. \A d \in net : d.at \in Nat /\ d.at <= sent
  BY Zenon DEF PathInv, TypeOK, Datagram, InLineInv, WireInv
<1>6. WireInv'
  <2>1. \A d \in net' : d.at <= sent'
    BY <1>4, <1>5
  <2>2. \A d, e \in net' : d.at = e.at => d = e
    <3>. SUFFICES ASSUME NEW d \in net', NEW e \in net', d.at = e.at PROVE d = e
      OBVIOUS
    <3>1. CASE d \in net /\ e \in net
      BY <3>1, Zenon DEF InLineInv, WireInv
    <3>2. CASE d \notin net /\ e \notin net
      <4>1. d.msg = e.msg
        BY <1>4, <3>2, Zenon DEF InLineInv, WireInv
      <4>2. d \in Datagram /\ e \in Datagram
        BY TransmitFacts, Zenon DEF PathInv, TypeOK
      <4>. QED
        BY <4>1, <4>2 DEF Datagram
    <3>. QED
      BY <1>4, <1>5, <3>1, <3>2
  <2>. QED
    BY <1>2, <1>3, <2>1, <2>2 DEF InLineInv, WireInv
<1>7. \A d \in net' : d.msg.type = "FRAME" =>
        d \in net \/ (g = "send" /\ d.at = sent + 1 /\ d.msg \in held["send"])
  BY <1>4, Zenon DEF InLineInv, WireInv, Senders
<1>8. LineInv => LineInv'
  <2>. SUFFICES ASSUME LineInv PROVE LineInv'
    OBVIOUS
  <2>1. FlyingFrames' \subseteq FlyingFrames
    BY TransmitFacts DEF FlyingFrames, PathInv
  <2>2. (\A m \in FlyingFrames : Above(m.payload.id))'
    BY <1>1, <2>1, ChannelAlone, Zenon DEF LineInv
  <2>3. \A r \in receiving : r.type = "FRAME" =>
          /\ \A d \in net' : d.msg.type = "FRAME" => r.payload.id < d.msg.payload.id
          /\ \A h \in held'["send"] : r.payload.id < h.payload.id
    BY <1>2, <1>3, <1>7, Zenon DEF LineInv
  <2>4. ASSUME NEW d \in net', d.msg.type = "FRAME"
        PROVE  \A h \in held'["send"] : d.msg.payload.id < h.payload.id
    BY <1>2, <1>3, <1>7, <2>4, Zenon DEF LineInv
  <2>5. ASSUME NEW d \in net', d.msg.type = "FRAME",
               NEW e \in net', e.msg.type = "FRAME", d.at < e.at
        PROVE  d.msg.payload.id < e.msg.payload.id
    <3>1. d \in net
      BY <1>4, <1>5, <1>7, <2>5
    <3>. QED
      BY <1>7, <2>5, <3>1, Zenon DEF LineInv
  <2>. QED
    BY <1>1, <2>2, <2>3, <2>4, <2>5, Zenon DEF LineInv
<1>. QED
  BY <1>1, <1>6, <1>8, ChannelAlone DEF InLineInv

\* As long as the network keeps the order, recvLoop takes the first datagram
\* of the line.
LEMMA RecvBeginLine ==
  ASSUME PathInv, InLineInv, NEW d \in net, RecvBegin(d)
  PROVE  InLineInv'
<1>1. /\ net' \subseteq net /\ receiving' = {d.msg}
      /\ UNCHANGED <<held, sent, framesToInject, injecting, taken>>
  BY DEF RecvBegin
<1>2. WireInv'
  BY <1>1, Zenon DEF InLineInv, WireInv
<1>3. ASSUME ~disordered' PROVE ~disordered /\ \A e \in net' : e \in net /\ d.at < e.at
  <2>1. ~disordered /\ d \notin net' /\ ~\E e \in net : e.at < d.at
    BY <1>3, Zenon DEF RecvBegin
  <2>2. \A e \in net : e.at \in Nat
    BY Zenon DEF PathInv, TypeOK, Datagram
  <2>3. \A e \in net' : e.at # d.at
    BY <1>1, <2>1, Zenon DEF InLineInv, WireInv
  <2>4. \A e \in net' : e \in net /\ ~(e.at < d.at) /\ e.at \in Nat /\ e.at # d.at
    BY <1>1, <2>1, <2>2, <2>3, Zenon
  <2>5. d.at \in Nat
    BY <2>2, Zenon
  <2>. QED
    BY <2>1, <2>4, <2>5
<1>4. ASSUME ~disordered', LineInv PROVE LineInv'
  <2>1. FlyingFrames' \subseteq FlyingFrames
    BY RecvBeginFacts DEF FlyingFrames, PathInv
  <2>2. (\A m \in FlyingFrames : Above(m.payload.id))'
    BY <1>1, <1>4, <2>1, ChannelAlone, Zenon DEF LineInv
  <2>3. \A r \in receiving' : r.type = "FRAME" =>
          /\ \A e \in net' : e.msg.type = "FRAME" => r.payload.id < e.msg.payload.id
          /\ \A h \in held["send"] : r.payload.id < h.payload.id
    BY <1>1, <1>3, <1>4, Zenon DEF LineInv
  <2>. QED
    BY <1>1, <1>4, <2>2, <2>3, Zenon DEF LineInv
<1>. QED
  BY <1>1, <1>2, <1>3, <1>4, ChannelAlone DEF InLineInv

\* A lost frame leaves the line.
LEMMA LoseLine ==
  ASSUME PathInv, InLineInv, NEW d \in net, Lose(d)
  PROVE  InLineInv'
<1>1. /\ net' \subseteq net
      /\ UNCHANGED <<held, sent, receiving, disordered, framesToInject, injecting, taken>>
  BY DEF Lose
<1>2. FlyingFrames' \subseteq FlyingFrames
  BY <1>1 DEF FlyingFrames, InFlight, Held, OnTheWire
<1>3. WireInv'
  BY <1>1, Zenon DEF InLineInv, WireInv
<1>4. LineInv => LineInv'
  BY <1>1, <1>2, ChannelAlone, Zenon DEF LineInv
<1>. QED
  BY <1>1, <1>3, <1>4, ChannelAlone DEF InLineInv

\* The frame that recvLoop queues was the first of the line.
LEMMA RecvEndLine ==
  ASSUME PathInv, InLineInv, RecvEnd
  PROVE  InLineInv'
<1>1. PICK m \in receiving : RecvEnd!(m)
  BY Zenon DEF RecvEnd
<1>2. receiving' = {} /\ UNCHANGED <<held, net, sent, disordered>>
  BY <1>1
<1>3. WireInv'
  BY <1>2, Zenon DEF InLineInv, WireInv
<1>4. ASSUME LineInv, InjectInv PROVE LineInv' /\ InjectInv'
  <2>1. Accepts(m) => m.type = "FRAME" /\ Above(m.payload.id)
    BY <1>4, Zenon DEF LineInv, Accepts, FlyingFrames, InFlight
  <2>2. /\ InjectInv'
        /\ \A n : Above(n) /\ (Accepts(m) => m.payload.id < n) => Above(n)'
    BY <1>1, <1>4, <2>1, RecvEndFacts, Zenon DEF PathInv, Receives
  <2>3. ASSUME NEW x \in FlyingFrames' PROVE Above(x.payload.id)'
    <3>1. x \in FlyingFrames /\ (x \in held["send"] \/ \E d \in net : x = d.msg /\ x.type = "FRAME")
      <4>1. x.type = "FRAME" /\ x \in Held \cup OnTheWire
        BY <1>2, <2>3 DEF FlyingFrames, InFlight, Held, OnTheWire
      <4>2. x \in Held => x \in held["send"]
        <5>1. \A g \in Control : x \notin held[g]
          BY <4>1 DEF InLineInv, WireInv
        <5>2. x \in Held => \E g \in Senders : x \in held[g]
          BY Zenon DEF Held
        <5>. QED
          BY <5>1, <5>2, Zenon DEF Senders
      <4>3. x \in FlyingFrames
        BY <4>1, Zenon DEF FlyingFrames, InFlight
      <4>. QED
        BY <4>1, <4>2, <4>3, Zenon DEF OnTheWire
    <3>2. m.type = "FRAME" => m.payload.id < x.payload.id
      BY <1>4, <3>1, Zenon DEF LineInv
    <3>3. \A n : n = x.payload.id => Above(n)'
      BY <1>4, <2>1, <2>2, <3>1, <3>2, Zenon DEF LineInv
    <3>. QED
      BY <3>3 DEF Above
  <2>. QED
    BY <1>2, <1>4, <2>2, <2>3, Zenon DEF LineInv
<1>. QED
  BY <1>2, <1>3, <1>4 DEF InLineInv

\* Every step keeps the frames in line as long as nothing overtook.
LEMMA StepInLine ==
  ASSUME PathInv, InLineInv, [Next]_vars
  PROVE  InLineInv'
<1>1. CASE InjectTake \/ InjectWrite
  <2>1. (\A n : Above(n) => Above(n)') /\ (InjectInv => InjectInv')
    BY <1>1, InjectTakeFacts, InjectWriteFacts DEF PathInv
  <2>2. UNCHANGED <<held, net, sent, receiving, disordered>>
    BY <1>1, Zenon DEF InjectTake, InjectWrite
  <2>. QED
    BY <2>1, <2>2, LineAlone
<1>2. CASE CountSent \/ UNCHANGED vars \/ \E len \in 0..Cells : CaptureFrame(len)
  <2>1. UNCHANGED <<held, net, sent, receiving, disordered, framesToInject, injecting, taken>>
    BY <1>2, Zenon DEF CountSent, vars, CaptureFrame
  <2>. QED
    BY <2>1, LineAlone, ChannelAlone
<1>. QED
  BY <1>1, <1>2, ControlEncodeLine, SendTakeLine, TransmitLine, RecvBeginLine, LoseLine,
     RecvEndLine DEF Next

\* Until the network duplicates or reorders a datagram, every step is one of
\* the lossy queue.
InOrderUntilDisordered == [][~disordered' => [Path!Next]_<<captured, taken>>]_vars

\* The channels and goroutines keep the order: with a key or without, and
\* whatever is lost, injectLoop receives a slice for each frame at most once,
\* in the order of capture, as long as the network hands out datagrams in the
\* order in which Transport.Send gave them to it.  This says nothing of the
\* bytes in the slice by the time WritePacket reads them.
THEOREM OrderedNetworkKeepsOrder == Spec => InOrderUntilDisordered
<1>1. Init => PathInv /\ InLineInv
  <2>. SUFFICES ASSUME Init PROVE InLineInv
    BY InitPath
  <2>1. InjectInv /\ FlyingFrames = {}
    BY InitPath DEF FlyingFrames
  <2>2. WireInv /\ LineInv
    BY <2>1, Zenon DEF Init, WireInv, LineInv, Senders
  <2>. QED
    BY <2>1, <2>2 DEF InLineInv
<1>2. PathInv /\ InLineInv /\ [Next]_vars => (PathInv /\ InLineInv)'
  BY StepPath, StepInLine
<1>3. PathInv /\ InLineInv /\ [Next]_vars =>
        [~disordered' => [Path!Next]_<<captured, taken>>]_vars
  <2>. SUFFICES ASSUME PathInv, InLineInv, [Next]_vars, ~disordered'
                PROVE  [Path!Next]_<<captured, taken>>
    OBVIOUS
  <2>1. ~disordered
    BY Zenon
       DEF Next, vars, CaptureFrame, SendTake, CountSent, ControlEncode, Transmit, RecvBegin,
       Lose, RecvEnd, InjectTake, InjectWrite
  <2>. QED
    BY <2>1, StepOfFifo DEF InLineInv
<1>. QED
  BY <1>1, <1>2, <1>3, PTL DEF Spec, InOrderUntilDisordered
=============================================================================
