-------------------------------- MODULE Wire --------------------------------
(***************************************************************************)
(* The datagrams of the protocol byte by byte, with the sizes of the code:  *)
(* the encoders, encode, decode and Decode.  It justifies module Codec,     *)
(* where a message is a record and its decoding a condition on it.          *)
(*                                                                         *)
(* A plain byte is <<b>>; byte i of an HMAC is <<key, data, i>>, which no   *)
(* other key, data or plain byte equals.                                    *)
(***************************************************************************)
EXTENDS Codec, Sequences

CONSTANTS
  Keys,             \* pre-shared keys
  FrameSizes,       \* lengths of captured packets
  MaxNonce,         \* bound: messages sent
  PutUint64(_)      \* binary.BigEndian: the 8 bytes of a number

NonceSize == 8
HMACSize == 32
ChallengeSize == 16
ChallengeRespLen == 32
MaxFrameSize == 1514
MinEthernetFrame == 14
HelloPayloadSize == 2 + ChallengeSize
HelloAckPayloadSize == 2 + ChallengeRespLen
PingPongPayloadSize == 8

Plain == {<<b>> : b \in 0..255}

\* ProtocolVersion in two bytes.
Version == <<<<0>>, <<1>>>>

\* A nonce does not come near 2^48, so its two upper bytes are no version.
ASSUME WireAssumption ==
  /\ NoKey \notin Keys /\ FrameSizes \subseteq Nat /\ MaxNonce \in Nat
  /\ \A n \in 0..MaxNonce : /\ PutUint64(n) \in Seq(Plain)
                            /\ Len(PutUint64(n)) = NonceSize
                            /\ SubSeq(PutUint64(n), 1, 2) # Version
  /\ \A n, k \in 0..MaxNonce : PutUint64(n) = PutUint64(k) => n = k

VARIABLES
  sender, receiver,   \* the two codecs
  sent,               \* history: the message sent last, as type and body
  datagram,           \* and its bytes; <<>>: none
  copies,             \* how often it was delivered: 0, 1 or more
  result              \* what Decode made of it

vars == <<sender, receiver, sent, datagram, copies, result>>

Types == <<"FRAME", "HELLO", "HELLO_ACK", "PING", "PONG", "BYE">>
MsgByte(type) == CHOOSE b \in 0..5 : Types[b + 1] = type
Error == [type |-> "error", body |-> <<>>]

-----------------------------------------------------------------------------
computeHMAC(key, data) == [i \in 1..HMACSize |-> <<key, data, i>>]

\* Type, nonce, payload and the HMAC of the three.
Signed(c, type, nonce, payload) ==
  LET head == <<<<MsgByte(type)>>>> \o nonce \o payload IN
  head \o computeHMAC(c.key, head)

encode(c, type, payload) ==
  IF IsSecure(c) THEN Signed(c, type, PutUint64(c.sendNonce + 1), payload)
                 ELSE <<<<MsgByte(type)>>>> \o payload

\* The payload of EncodeHello and EncodeHelloAck begins with the version.
PayloadOf(type, body) == IF type \in Handshake THEN Version \o body ELSE body

\* EncodeFrame's range check.
FrameSizeOK(n) == n >= MinEthernetFrame /\ n <= MaxFrameSize

-----------------------------------------------------------------------------
\* Mutant: the payload keeps the first byte of the HMAC.
PayloadEnd_Late(data) == Len(data) - HMACSize + 1

PayloadEnd(data) == Len(data) - HMACSize

\* decode on a secure codec: the payload, if length and signature are right.
Verified(c, data) ==
  /\ Len(data) >= 1 + NonceSize + HMACSize
  /\ SubSeq(data, PayloadEnd(data) + 1, Len(data))
       = computeHMAC(c.key, SubSeq(data, 1, PayloadEnd(data)))

NonceOf(data) == CHOOSE n \in 0..MaxNonce :
                   PutUint64(n) = SubSeq(data, 2, 1 + NonceSize)

TypeOf(data) == Types[data[1][1] + 1]

\* decode: does it return a payload, and which.
decodes(c, data) ==
  /\ Len(data) >= 1
  /\ IsSecure(c) => /\ Verified(c, data)
                    /\ \/ TypeOf(data) \in Handshake
                       \/ FreshNonce(c, [nonce |-> NonceOf(data)])

decode(c, data) ==
  IF IsSecure(c) THEN SubSeq(data, 2 + NonceSize, PayloadEnd(data))
                 ELSE Tail(data)

\* Mutant: any version will do.
VersionOK_Any(payload) == TRUE

VersionOK(payload) == SubSeq(payload, 1, 2) = Version

\* A HELLO or HELLO_ACK of at least this many bytes.
Greeting(type, payload, size) ==
  IF Len(payload) >= size /\ VersionOK(payload)
    THEN [type |-> type, body |-> SubSeq(payload, 3, size)]
    ELSE Error

\* Decode's switch.
Parsed(type, payload) ==
  IF type = "FRAME"
    THEN IF FrameSizeOK(Len(payload)) THEN [type |-> type, body |-> payload]
                                      ELSE Error
  ELSE IF type = "HELLO" THEN Greeting(type, payload, HelloPayloadSize)
  ELSE IF type = "HELLO_ACK" THEN Greeting(type, payload, HelloAckPayloadSize)
  ELSE IF type \in {"PING", "PONG"}
    THEN IF Len(payload) >= PingPongPayloadSize
           THEN [type |-> type, body |-> SubSeq(payload, 1, PingPongPayloadSize)]
           ELSE Error
  ELSE [type |-> "BYE", body |-> <<>>]

Decode(c, data) ==
  IF decodes(c, data) THEN Parsed(TypeOf(data), decode(c, data)) ELSE Error

\* The counter after decode, which stores it before the switch.
recvNonceAfter(c, data) ==
  IF IsSecure(c) /\ decodes(c, data) /\ TypeOf(data) \notin Handshake
    THEN NonceOf(data) ELSE c.recvNonce

-----------------------------------------------------------------------------
Some(n) == [i \in 1..n |-> <<i % 256>>]

\* What callers give the encoders.  A response is an HMAC, or zeros.
Bodies(c, type) ==
  IF type = "FRAME" THEN {Some(n) : n \in FrameSizes}
  ELSE IF type = "HELLO" THEN {Some(ChallengeSize)}
  ELSE IF type = "HELLO_ACK"
    THEN {IF IsSecure(c) THEN computeHMAC(c.key, Some(ChallengeSize))
                         ELSE [i \in 1..ChallengeRespLen |-> <<0>>]}
  ELSE IF type = "BYE" THEN {<<>>} ELSE {Some(PingPongPayloadSize)}

MaxDatagram == 1 + NonceSize + MaxFrameSize + HMACSize

TypeOK ==
  /\ sender.sendNonce \in 0..MaxNonce /\ receiver.recvNonce \in 0..MaxNonce
  /\ Len(datagram) \in 0..MaxDatagram
  /\ copies \in 0..2
  /\ result.type \in {"error", "FRAME", "HELLO", "HELLO_ACK", "PING", "PONG", "BYE"}

Init ==
  /\ \E k, l \in Keys \cup {NoKey} : sender = NewCodec(k) /\ receiver = NewCodec(l)
  /\ sent = Error /\ datagram = <<>> /\ copies = 0 /\ result = Error

\* One of the encoders; EncodeFrame refuses some sizes.
Send(type, body) ==
  /\ sender.sendNonce < MaxNonce
  /\ type = "FRAME" => FrameSizeOK(Len(body))
  /\ sent' = [type |-> type, body |-> body]
  /\ datagram' = encode(sender, type, PayloadOf(type, body))
  /\ sender' = AfterEncode(sender)
  /\ copies' = 0 /\ result' = Error
  /\ UNCHANGED receiver

\* The datagram, or a copy of it, arrives.
Receive ==
  /\ datagram # <<>>
  /\ result' = Decode(receiver, datagram)
  /\ receiver' = [receiver EXCEPT !.recvNonce = recvNonceAfter(receiver, datagram)]
  /\ copies' = IF copies = 0 THEN 1 ELSE 2
  /\ UNCHANGED <<sender, sent, datagram>>

Next ==
  \/ \E i \in 1..6 : \E body \in Bodies(sender, Types[i]) : Send(Types[i], body)
  \/ Receive

Spec == Init /\ [][Next]_vars

-----------------------------------------------------------------------------
\* Between codecs of one key, or of none, everything the encoders produce is
\* decoded to what went in when it first arrives, at every size EncodeFrame
\* takes, and a copy of a secure session message is refused.
RoundTrip ==
  sender.key = receiver.key =>
    /\ copies = 1 => result = sent
    /\ copies = 2 /\ IsSecure(receiver) /\ sent.type \notin Handshake
         => result = Error

\* The message of module Codec that the datagram stands for.
AsRecord ==
  [src |-> "A", dst |-> "B", type |-> sent.type, payload |-> sent.body,
   nonce |-> sender.sendNonce, hmac |-> sender.key]

\* Module Codec abstracts the bytes.  What they let through, Codec lets
\* through, with the same effect on the nonce: no key's datagram is decoded by
\* another key's codec, and a codec without a key never takes the greeting of
\* one with a key, whose nonce it reads as the version.  Between codecs of one
\* key the two agree.
CodecAbstracts ==
  [][copies' > 0 =>
       /\ result' # Error => /\ Decodes(receiver, AsRecord)
                             /\ receiver' = AfterDecode(receiver, AsRecord)
       /\ sender.key = receiver.key /\ Decodes(receiver, AsRecord)
            => result' # Error]_vars

\* "the total packet size can reach **1569 bytes**": with the 28 bytes of the
\* UDP and IP headers no datagram is larger.
PacketSizeAsDocumented == Len(datagram) + 28 <= 1569
=============================================================================
