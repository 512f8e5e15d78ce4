----------------------------- MODULE FramePath -----------------------------
(***************************************************************************)
(* One direction of the tunnel, with the contents of the frames: captureLoop *)
(* and sendLoop of one bridge, the network, recvLoop and injectLoop of the   *)
(* other.  Goroutines that send PINGs and PONGs share the sender's codec.    *)
(*                                                                         *)
(* Frames are numbered as they are captured.  recvLoop receives every        *)
(* datagram into the same buffer and queues slices of it, so a queued frame  *)
(* is a length; what it holds is what the buffer holds when it is injected.  *)
(* The buffer has Cells cells; a cell is the number of the frame whose bytes *)
(* are in it, 0 for anything else.                                          *)
(***************************************************************************)
EXTENDS Codec, Sequences, FiniteSets

CONSTANTS
  Key,                \* pre-shared key of both codecs, or NoKey
  ChannelBufferSize,
  Cells,              \* length of the longest frame
  Control,            \* goroutines that send PINGs (pingLoop) or PONGs (recvLoop)
  MaxFrames,          \* bound: frames captured
  MaxControl          \* bound: PINGs and PONGs sent

ASSUME FramePathAssumption ==
  /\ ChannelBufferSize \in Nat \ {0} /\ Cells \in Nat \ {0}
  /\ "send" \notin Control
  /\ MaxFrames \in Nat /\ MaxControl \in Nat

VARIABLES
  captured,           \* number of frames ReadPacket has returned
  framesToSend,
  sender, receiver,   \* the two codecs
  held,               \* what a goroutine has encoded and not yet sent
  uncounted,          \* sendLoop has sent a frame that TxPackets lacks
  net,                \* datagrams in the network, numbered as they were sent
  sent,               \* number of datagrams sent
  receiving,          \* the datagram ReadFromUDP is copying, if any
  buf,                \* recvLoop's buffer
  framesToInject,
  injecting,          \* the slice injectLoop has taken, if any
  taken,              \* history: frames whose slices injectLoop has received
  intact,             \* history: each slice held its frame when it was written
  TxPackets, RxPackets,
  controlSent,        \* history: PINGs and PONGs sent
  overtaken,          \* history: the frames that Decode rejected
  disordered          \* history: the network has duplicated or reordered

vars == <<captured, framesToSend, sender, receiver, held, uncounted, net, sent,
          receiving, buf, framesToInject, injecting, taken, intact,
          TxPackets, RxPackets, controlSent, overtaken, disordered>>

Senders == {"send"} \cup Control

\* len = 0: a size that EncodeFrame does not take.
Frame == [id : Nat, len : 0..Cells]
Slice == [id : Nat, len : 1..Cells]
Message == [src : {"A"}, dst : {"B"}, type : {"FRAME", "CONTROL"},
            payload : Frame, nonce : Nat, hmac : {Key}]
Datagram == [at : Nat, msg : Message]

TypeOK ==
  /\ captured \in Nat /\ sent \in Nat
  /\ framesToSend \in Seq(Frame) /\ Len(framesToSend) <= ChannelBufferSize
  /\ sender \in [key : {Key}, sendNonce : Nat, recvNonce : Nat]
  /\ receiver \in [key : {Key}, sendNonce : Nat, recvNonce : Nat]
  /\ held \in [Senders -> SUBSET Message]
  /\ uncounted \in BOOLEAN /\ intact \in BOOLEAN
  /\ net \subseteq Datagram /\ receiving \subseteq Message
  /\ buf \in [1..Cells -> Nat]
  /\ framesToInject \in Seq(Slice) /\ Len(framesToInject) <= ChannelBufferSize
  /\ injecting \subseteq Slice
  /\ taken \in Seq(Nat)
  /\ TxPackets \in Nat /\ RxPackets \in Nat
  /\ controlSent \in Nat /\ overtaken \subseteq Nat
  /\ disordered \in BOOLEAN

Init ==
  /\ captured = 0 /\ framesToSend = <<>>
  /\ sender = NewCodec(Key) /\ receiver = NewCodec(Key)
  /\ held = [g \in Senders |-> {}] /\ uncounted = FALSE
  /\ net = {} /\ sent = 0 /\ receiving = {}
  /\ buf = [c \in 1..Cells |-> 0]
  /\ framesToInject = <<>> /\ injecting = {}
  /\ taken = <<>> /\ intact = TRUE
  /\ TxPackets = 0 /\ RxPackets = 0 /\ controlSent = 0 /\ overtaken = {}
  /\ disordered = FALSE

\* Mutant: the channel is taken for a stack.
Offered_Front(queue, x) ==
  IF Len(queue) < ChannelBufferSize THEN <<x>> \o queue ELSE queue

\* Non-blocking send on a buffered channel.
Offered(queue, x) ==
  IF Len(queue) < ChannelBufferSize THEN Append(queue, x) ELSE queue

-----------------------------------------------------------------------------
(* The sending bridge. *)

\* captureLoop: ReadPacket returns a copy of the next frame.
CaptureFrame(len) ==
  /\ captured < MaxFrames
  /\ captured' = captured + 1
  /\ framesToSend' = Offered(framesToSend, [id |-> captured', len |-> len])
  /\ UNCHANGED <<sender, receiver, held, uncounted, net, sent, receiving, buf,
                 framesToInject, injecting, taken, intact, TxPackets,
                 RxPackets, controlSent, overtaken, disordered>>

\* encode draws the nonce; the message is sent in a later step.
Encoded(g, type, payload) ==
  /\ held[g] = {}
  /\ held' = [held EXCEPT ![g] = {Encode(sender, "A", "B", type, payload)}]
  /\ sender' = AfterEncode(sender)

\* sendLoop takes a frame; EncodeFrame refuses some sizes.
SendTake ==
  /\ held["send"] = {} /\ ~uncounted
  /\ framesToSend # <<>>
  /\ framesToSend' = Tail(framesToSend)
  /\ IF Head(framesToSend).len = 0
       THEN UNCHANGED <<held, sender>>
       ELSE Encoded("send", "FRAME", Head(framesToSend))
  /\ UNCHANGED <<captured, receiver, uncounted, net, sent, receiving, buf,
                 framesToInject, injecting, taken, intact, TxPackets,
                 RxPackets, controlSent, overtaken, disordered>>

\* handlePing or sendPing encodes.
ControlEncode(g) ==
  /\ controlSent < MaxControl
  /\ controlSent' = controlSent + 1
  /\ Encoded(g, "CONTROL", [id |-> 0, len |-> 1])
  /\ UNCHANGED <<captured, framesToSend, receiver, uncounted, net, sent,
                 receiving, buf, framesToInject, injecting, taken, intact,
                 TxPackets, RxPackets, overtaken, disordered>>

\* Transport.Send: into the network, or (a socket error) nowhere.  Only a
\* frame that was sent is counted.
Transmit(g) ==
  /\ held[g] # {}
  /\ held' = [held EXCEPT ![g] = {}]
  /\ \/ /\ net' = net \cup {[at |-> sent + 1, msg |-> m] : m \in held[g]}
        /\ sent' = sent + 1
        /\ uncounted' = (uncounted \/ g = "send")
     \/ UNCHANGED <<net, sent, uncounted>>
  /\ UNCHANGED <<captured, framesToSend, sender, receiver, receiving, buf,
                 framesToInject, injecting, taken, intact, TxPackets,
                 RxPackets, controlSent, overtaken, disordered>>

CountSent ==
  /\ uncounted
  /\ uncounted' = FALSE
  /\ TxPackets' = TxPackets + 1
  /\ UNCHANGED <<captured, framesToSend, sender, receiver, held, net, sent,
                 receiving, buf, framesToInject, injecting, taken, intact,
                 RxPackets, controlSent, overtaken, disordered>>

-----------------------------------------------------------------------------
(* The receiving bridge. *)

Size(m) == m.payload.len
Stored(m, c) == IF c <= Size(m) THEN m.payload.id ELSE buf[c]

\* ReadFromUDP begins to copy: any part of the datagram may be in the buffer
\* by the time injectLoop looks.  The network hands out any datagram, and keeps
\* it if it makes a duplicate.
RecvBegin(d) ==
  /\ receiving = {}
  /\ receiving' = {d.msg}
  /\ \E part \in SUBSET (1..Cells) :
       buf' = [c \in 1..Cells |-> IF c \in part THEN Stored(d.msg, c) ELSE buf[c]]
  /\ net' \in {net \ {d}, net}
  /\ disordered' = (disordered \/ d \in net' \/ \E e \in net : e.at < d.at)
  /\ UNCHANGED <<captured, framesToSend, sender, receiver, held, uncounted,
                 sent, framesToInject, injecting, taken, intact, TxPackets,
                 RxPackets, controlSent, overtaken>>

\* Mutant: the datagram is counted before it is decoded.
RxAfter_BeforeDecode(m) ==
  IF m.type = "FRAME" THEN RxPackets + 1 ELSE RxPackets

RxAfter(m) ==
  IF m.type = "FRAME" /\ Decodes(receiver, m) THEN RxPackets + 1 ELSE RxPackets

\* The copy is complete: Decode, and handleFrame for a frame.
RecvEnd ==
  \E m \in receiving :
    /\ receiving' = {}
    /\ buf' = [c \in 1..Cells |-> Stored(m, c)]
    /\ receiver' = IF Decodes(receiver, m) THEN AfterDecode(receiver, m) ELSE receiver
    /\ framesToInject' = IF m.type = "FRAME" /\ Decodes(receiver, m)
                           THEN Offered(framesToInject, m.payload)
                           ELSE framesToInject
    /\ RxPackets' = RxAfter(m)
    /\ overtaken' = IF m.type = "FRAME" /\ ~Decodes(receiver, m)
                      THEN overtaken \cup {m.payload.id} ELSE overtaken
    /\ UNCHANGED <<captured, framesToSend, sender, held, uncounted, net, sent,
                   injecting, taken, intact, TxPackets, controlSent,
                   disordered>>

\* injectLoop receives a slice from the channel.
InjectTake ==
  /\ injecting = {}
  /\ framesToInject # <<>>
  /\ injecting' = {Head(framesToInject)}
  /\ framesToInject' = Tail(framesToInject)
  /\ taken' = Append(taken, Head(framesToInject).id)
  /\ UNCHANGED <<captured, framesToSend, sender, receiver, held, uncounted,
                 net, sent, receiving, buf, intact, TxPackets, RxPackets,
                 controlSent, overtaken, disordered>>

\* WritePacket sends what the slice holds now, or fails.
InjectWrite ==
  \E s \in injecting :
    /\ injecting' = {}
    /\ \/ intact' = (intact /\ \A c \in 1..s.len : buf[c] = s.id)
       \/ UNCHANGED intact
    /\ UNCHANGED <<captured, framesToSend, sender, receiver, held, uncounted,
                   net, sent, receiving, buf, framesToInject, taken, TxPackets,
                   RxPackets, controlSent, overtaken, disordered>>

\* The network loses a datagram.
Lose(d) ==
  /\ net' = net \ {d}
  /\ UNCHANGED <<captured, framesToSend, sender, receiver, held, uncounted,
                 sent, receiving, buf, framesToInject, injecting, taken,
                 intact, TxPackets, RxPackets, controlSent, overtaken,
                 disordered>>

Next ==
  \/ \E len \in 0..Cells : CaptureFrame(len)
  \/ SendTake \/ CountSent
  \/ \E g \in Control : ControlEncode(g)
  \/ \E g \in Senders : Transmit(g)
  \/ \E d \in net : RecvBegin(d) \/ Lose(d)
  \/ RecvEnd \/ InjectTake \/ InjectWrite

Spec == Init /\ [][Next]_vars

-----------------------------------------------------------------------------
Path == INSTANCE LossyFifo WITH offered <- captured, delivered <- taken

\* With a key the tunnel is a lossy queue from the sender's captureLoop to the
\* receiver's injectLoop: the slices it receives stand for frames in the order
\* of capture and for none twice, although three goroutines draw nonces and
\* send in separate steps and the network loses, duplicates and reorders.
\* What a slice holds when it is written is another matter (InjectedIntact).
ForwardsInOrder == Path!Spec

\* With a key the two statistics lines agree: the receiver never shows more
\* than one frame that the sender, who counts after sending, does not show.
RxAtMostTx == RxPackets <= TxPackets + 1

\* Drawing the nonce and sending are two steps, so a PING or a PONG may
\* overtake a frame, which Decode then rejects.  As long as the network
\* keeps the order this costs at most one frame for each PING or PONG sent.
OvertakenBounded == ~disordered => Cardinality(overtaken) <= controlSent

\* "Your friend's xbslink-ng extracts the frames and injects them into their
\* local network": what WritePacket is given is the frame that was received.
InjectedIntact == intact
=============================================================================
