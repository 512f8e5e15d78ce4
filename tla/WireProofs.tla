----------------------------- MODULE WireProofs -----------------------------
EXTENDS Wire, SequenceTheorems, TLAPS

\* The elements of a concatenation.
LEMMA ConcatAt ==
  ASSUME NEW S, NEW a \in Seq(S), NEW b \in Seq(S)
  PROVE  /\ \A i \in 1..Len(a) : (a \o b)[i] = a[i]
         /\ \A i \in Len(a) + 1 .. Len(a) + Len(b) : (a \o b)[i] = b[i - Len(a)]
BY ConcatProperties, LenProperties

\* A slice of a concatenation that stops where the first part stops.
LEMMA FrontSlice ==
  ASSUME NEW S, NEW a \in Seq(S), NEW b \in Seq(S)
  PROVE  SubSeq(a \o b, 1, Len(a)) = a
<1> DEFINE s == SubSeq(a \o b, 1, Len(a))
<1>1. a \o b \in Seq(S) /\ Len(a \o b) = Len(a) + Len(b)
  BY ConcatProperties
<1>2. \A i \in 1..Len(a) : (a \o b)[i] = a[i]
  BY ConcatProperties
<1>3. Len(a) \in Nat /\ Len(b) \in Nat
  BY LenProperties
<1>4. s \in Seq(S) /\ Len(s) = Len(a)
  BY <1>1, <1>3, SubSeqProperties
<1>5. \A i \in 1..Len(a) : s[i] = a[i]
  BY <1>1, <1>2, <1>3, SubSeqProperties
<1> QED BY <1>4, <1>5, SeqEqual

\* And one that is the second part.
LEMMA BackSlice ==
  ASSUME NEW S, NEW a \in Seq(S), NEW b \in Seq(S)
  PROVE  SubSeq(a \o b, Len(a) + 1, Len(a) + Len(b)) = b
<1> DEFINE s == SubSeq(a \o b, Len(a) + 1, Len(a) + Len(b))
<1>1. a \o b \in Seq(S) /\ Len(a \o b) = Len(a) + Len(b)
  BY ConcatProperties
<1>2. \A i \in Len(a) + 1 .. Len(a) + Len(b) : (a \o b)[i] = b[i - Len(a)]
  BY ConcatProperties
<1>3. Len(a) \in Nat /\ Len(b) \in Nat
  BY LenProperties
<1>4. s \in Seq(S) /\ Len(s) = Len(b)
  BY <1>1, <1>3, SubSeqProperties
<1>5. \A i \in 1..Len(b) : s[i] = b[i]
  BY <1>1, <1>2, <1>3, SubSeqProperties
<1> QED BY <1>4, <1>5, SeqEqual

-----------------------------------------------------------------------------
(* The bytes that occur in a payload, and the shape of a body. *)

TypeSet == {"FRAME", "HELLO", "HELLO_ACK", "PING", "PONG", "BYE"}
Codecs == [key : Keys \cup {NoKey}, sendNonce : 0..MaxNonce, recvNonce : 0..MaxNonce]
Symbols == Plain \cup {<<k, Some(ChallengeSize), i>> : k \in Keys, i \in 1..HMACSize}

BodyOK(type, body) ==
  /\ body \in Seq(Symbols)
  /\ type = "FRAME" => FrameSizeOK(Len(body))
  /\ type = "HELLO" => Len(body) = ChallengeSize
  /\ type = "HELLO_ACK" => Len(body) = ChallengeRespLen
  /\ type \in {"PING", "PONG"} => Len(body) = PingPongPayloadSize
  /\ type = "BYE" => body = <<>>

\* The first byte tells the type.
LEMMA TypeByte ==
  ASSUME NEW type \in TypeSet
  PROVE  MsgByte(type) \in 0..5 /\ Types[MsgByte(type) + 1] = type
<1>1. \E b \in 0..5 : Types[b + 1] = type
  <2>1. Types[0 + 1] = "FRAME" /\ Types[1 + 1] = "HELLO" /\ Types[2 + 1] = "HELLO_ACK"
        /\ Types[3 + 1] = "PING" /\ Types[4 + 1] = "PONG" /\ Types[5 + 1] = "BYE"
    BY DEF Types
  <2>2. 0 \in 0..5 /\ 1 \in 0..5 /\ 2 \in 0..5 /\ 3 \in 0..5 /\ 4 \in 0..5 /\ 5 \in 0..5
    OBVIOUS
  <2> QED BY <2>1, <2>2, Zenon DEF TypeSet
<1> QED BY <1>1, Zenon DEF MsgByte

\* Bytes of the payload: the version, then the body.
LEMMA PayloadBytes ==
  ASSUME NEW type \in TypeSet, NEW body, BodyOK(type, body)
  PROVE  /\ PayloadOf(type, body) \in Seq(Symbols)
         /\ Version \in Seq(Symbols) /\ Len(Version) = 2
<1>1. <<0>> \in Symbols /\ <<1>> \in Symbols
  BY DEF Symbols, Plain
<1>2. Version \in Seq(Symbols) /\ Len(Version) = 2
  BY <1>1 DEF Version
<1>3. body \in Seq(Symbols)
  BY DEF BodyOK
<1>4. Version \o body \in Seq(Symbols)
  BY <1>2, <1>3, ConcatProperties
<1> QED BY <1>2, <1>3, <1>4 DEF PayloadOf

\* Decode's switch undoes the encoders, at every size they produce.
LEMMA ParsedPayload ==
  ASSUME NEW type \in TypeSet, NEW body, BodyOK(type, body)
  PROVE  Parsed(type, PayloadOf(type, body)) = [type |-> type, body |-> body]
<1> DEFINE p == PayloadOf(type, body)
<1>1. body \in Seq(Symbols) /\ Len(body) \in Nat
  BY LenProperties DEF BodyOK
<1>2. Version \in Seq(Symbols) /\ Len(Version) = 2
  BY PayloadBytes
<1>3. ASSUME type \in Handshake
      PROVE  /\ Len(p) = 2 + Len(body)
             /\ SubSeq(p, 1, 2) = Version
             /\ SubSeq(p, 3, 2 + Len(body)) = body
  <2>1. p = Version \o body
    BY <1>3 DEF PayloadOf
  <2>2. Len(Version \o body) = Len(Version) + Len(body)
    BY <1>1, <1>2, ConcatProperties, Zenon
  <2>3. SubSeq(Version \o body, 1, Len(Version)) = Version
    BY <1>1, <1>2, FrontSlice, Zenon
  <2>4. SubSeq(Version \o body, Len(Version) + 1, Len(Version) + Len(body)) = body
    BY <1>1, <1>2, BackSlice, Zenon
  <2> HIDE DEF p
  <2> QED BY <2>1, <2>2, <2>3, <2>4, <1>2
<1>4. CASE type = "HELLO"
  <2>1. type \in Handshake /\ Len(body) = 16
    BY <1>4 DEF Handshake, BodyOK, ChallengeSize
  <2>2. Len(p) >= 18 /\ VersionOK(p) /\ SubSeq(p, 3, 18) = body
    <3> HIDE DEF p
    <3>1. Len(p) = 2 + Len(body) /\ SubSeq(p, 1, 2) = Version
          /\ SubSeq(p, 3, 2 + Len(body)) = body
      BY <2>1, <1>3
    <3>2. 2 + Len(body) = 18
      BY <2>1
    <3>3. Len(p) >= 18 /\ SubSeq(p, 3, 18) = body
      BY <3>1, <3>2, SMTT(40)
    <3> QED BY <3>1, <3>3, Zenon DEF VersionOK
  <2>3. Parsed(type, p) = [type |-> type, body |-> SubSeq(p, 3, 18)]
    <3> HIDE DEF p
    <3> QED BY <2>2, <1>4 DEF Parsed, Greeting, HelloPayloadSize, ChallengeSize,
                             HelloAckPayloadSize, ChallengeRespLen
  <2> QED BY <2>2, <2>3, Zenon
<1>5. CASE type = "HELLO_ACK"
  <2>1. type \in Handshake /\ Len(body) = 32
    BY <1>5 DEF Handshake, BodyOK, ChallengeRespLen
  <2>2. Len(p) >= 34 /\ VersionOK(p) /\ SubSeq(p, 3, 34) = body
    <3> HIDE DEF p
    <3>1. Len(p) = 2 + Len(body) /\ SubSeq(p, 1, 2) = Version
          /\ SubSeq(p, 3, 2 + Len(body)) = body
      BY <2>1, <1>3
    <3>2. 2 + Len(body) = 34
      BY <2>1
    <3>3. Len(p) >= 34 /\ SubSeq(p, 3, 34) = body
      <4>1. Len(p) = 34
        BY <3>1, <3>2
      <4>2. SubSeq(p, 3, 34) = body
        BY <3>1, <3>2, Zenon
      <4> QED BY <4>1, <4>2
    <3> QED BY <3>1, <3>3, Zenon DEF VersionOK
  <2>3. Parsed(type, p) = [type |-> type, body |-> SubSeq(p, 3, 34)]
    <3> HIDE DEF p
    <3> QED BY <2>2, <1>5 DEF Parsed, Greeting, HelloPayloadSize, ChallengeSize,
                             HelloAckPayloadSize, ChallengeRespLen
  <2> QED BY <2>2, <2>3, Zenon
<1>6. CASE type \notin Handshake
  <2>1. p = body
    BY <1>6 DEF PayloadOf
  <2>2. CASE type = "FRAME"
    BY <2>1, <2>2 DEF Parsed, BodyOK
  <2>3. CASE type \in {"PING", "PONG"}
    <3>1. Len(body) = 8
      BY <2>3 DEF BodyOK, PingPongPayloadSize
    <3>2. SubSeq(body, 1, 8) = body
      BY <3>1, <1>1, SubSeqFull
    <3>3. type # "FRAME" /\ type # "HELLO" /\ type # "HELLO_ACK"
      BY <2>3
    <3>4. Parsed(type, body) = [type |-> type, body |-> SubSeq(body, 1, 8)]
      BY <2>3, <3>1, <3>3 DEF Parsed, PingPongPayloadSize
    <3> QED BY <2>1, <3>2, <3>4
  <2>4. CASE type = "BYE"
    BY <2>4 DEF Parsed, BodyOK
  <2> QED BY <1>6, <2>2, <2>3, <2>4 DEF TypeSet, Handshake
<1> QED BY <1>4, <1>5, <1>6 DEF Handshake

-----------------------------------------------------------------------------
(* decode undoes encode. *)

\* What the signature covers.
Covered(type, nonce, payload) == <<<<MsgByte(type)>>>> \o nonce \o payload

\* The offsets that decode uses are those of the parts.
SplitsInto(d, key, type, nonce, payload) ==
  LET head == Covered(type, nonce, payload) IN
  /\ PayloadEnd(d) = Len(head) /\ Len(head) = 9 + Len(payload)
  /\ Len(d) = Len(head) + HMACSize
  /\ SubSeq(d, PayloadEnd(d) + 1, Len(d)) = computeHMAC(key, head)
  /\ SubSeq(d, 1, PayloadEnd(d)) = head
  /\ d[1] = <<MsgByte(type)>>
  /\ SubSeq(d, 2, 1 + NonceSize) = nonce
  /\ SubSeq(d, 2 + NonceSize, PayloadEnd(d)) = payload

\* A secure datagram comes apart as it was put together.
LEMMA SignedParts ==
  ASSUME NEW c, NEW type, NEW nonce \in Seq(Symbols), NEW payload \in Seq(Symbols),
         Len(nonce) = NonceSize, <<MsgByte(type)>> \in Symbols
  PROVE  SplitsInto(Signed(c, type, nonce, payload), c.key, type, nonce, payload)
<1> DEFINE d == Signed(c, type, nonce, payload)
           S == Symbols
           b == <<<<MsgByte(type)>>>>
           front == b \o nonce
           head == front \o payload
           mac == computeHMAC(c.key, head)
           T == S \cup {<<c.key, head, i>> : i \in 1..HMACSize}
<1>1. b \in Seq(S) /\ Len(b) = 1 /\ b[1] = <<MsgByte(type)>>
  OBVIOUS
<1>2. front \in Seq(S) /\ Len(front) = 9
  <2>1. front \in Seq(S) /\ Len(front) = Len(b) + Len(nonce)
    BY <1>1, ConcatProperties
  <2> QED BY <2>1, <1>1 DEF NonceSize
<1>3. Len(payload) \in Nat
  BY LenProperties
<1>4. head \in Seq(S) /\ Len(head) = 9 + Len(payload)
  <2> HIDE DEF front
  <2>1. head \in Seq(S) /\ Len(head) = Len(front) + Len(payload)
    BY <1>2, ConcatProperties, Zenon
  <2> QED BY <2>1, <1>2
<1>5. mac \in Seq(T) /\ Len(mac) = HMACSize
  <2> HIDE DEF head
  <2>1. mac \in [1..HMACSize -> T] /\ HMACSize \in Nat
    BY DEF computeHMAC, HMACSize
  <2> HIDE DEF mac, T
  <2> QED BY <2>1
<1>6. head \in Seq(T)
  <2> HIDE DEF head
  <2> QED BY <1>4, SeqMonotonic
<1>7. d = head \o mac
  BY DEF Signed
<1> HIDE DEF mac, head, T, d
<1>8. /\ d \in Seq(T) /\ Len(d) = Len(head) + HMACSize
  BY <1>5, <1>6, <1>7, ConcatProperties, Zenon
<1>9. PayloadEnd(d) = Len(head)
  BY <1>4, <1>8, <1>3 DEF PayloadEnd, HMACSize
<1>10. SubSeq(d, PayloadEnd(d) + 1, Len(d)) = mac
  BY <1>5, <1>6, <1>7, <1>8, <1>9, BackSlice, Zenon
<1>11. SubSeq(d, 1, PayloadEnd(d)) = head
  BY <1>5, <1>6, <1>7, <1>9, FrontSlice
<1>12. \A i \in 1..Len(head) : d[i] = head[i]
  BY <1>5, <1>6, <1>7, <1>4, <1>3, ConcatProperties DEF HMACSize
<1>13. /\ \A i \in 1..9 : head[i] = front[i]
       /\ \A i \in 10..(9 + Len(payload)) : head[i] = payload[i - 9]
  <2> HIDE DEF front
  <2>1. /\ \A i \in 1..Len(front) : (front \o payload)[i] = front[i]
        /\ \A i \in Len(front) + 1 .. Len(front) + Len(payload) :
             (front \o payload)[i] = payload[i - Len(front)]
    BY <1>2, ConcatAt, ZenonT(30)
  <2>2. head = front \o payload
    BY DEF head
  <2>3. \A i \in 1..9 : head[i] = front[i]
    BY <1>2, <2>1, <2>2, Zenon
  <2>4. ASSUME NEW i \in 10..(9 + Len(payload)) PROVE head[i] = payload[i - 9]
    <3>1. i \in Len(front) + 1 .. Len(front) + Len(payload) /\ Len(front) = 9
      BY <1>2, <1>3
    <3>2. (front \o payload)[i] = payload[i - Len(front)]
      BY <2>1, <3>1, Zenon
    <3> QED BY <2>2, <3>1, <3>2
  <2> QED BY <2>3, <2>4
<1>14. front[1] = <<MsgByte(type)>> /\ \A i \in 2..9 : front[i] = nonce[i - 1]
  <2> HIDE DEF b
  <2>1. /\ \A i \in 1..Len(b) : (b \o nonce)[i] = b[i]
        /\ \A i \in Len(b) + 1 .. Len(b) + Len(nonce) :
             (b \o nonce)[i] = nonce[i - Len(b)]
    BY <1>1, ConcatAt, Zenon
  <2>2. front[1] = b[1] /\ \A i \in 2..9 : front[i] = nonce[i - 1]
    <3>1. front[1] = b[1]
      <4>1. 1 \in 1..Len(b)
        BY <1>1
      <4>2. (b \o nonce)[1] = b[1]
        BY <2>1, <4>1, Zenon
      <4> QED BY <4>2
    <3>2. ASSUME NEW i \in 2..9 PROVE front[i] = nonce[i - 1]
      <4>1. i \in Len(b) + 1 .. Len(b) + Len(nonce) /\ Len(b) = 1
        BY <1>1 DEF NonceSize
      <4>2. (b \o nonce)[i] = nonce[i - Len(b)]
        BY <2>1, <4>1, Zenon
      <4> QED BY <4>1, <4>2
    <3> QED BY <3>1, <3>2, Zenon
  <2> QED BY <1>1, <2>2, Zenon
<1>15. SubSeq(d, 2, 9) = nonce
  <2> HIDE DEF front
  <2>1. \A i \in 2..9 : d[i] = nonce[i - 1] /\ nonce[i - 1] \in S
    BY <1>12, <1>13, <1>14, <1>4, <1>3, ElementOfSeq, SMTT(30) DEF NonceSize
  <2>2. /\ SubSeq(d, 2, 9) \in Seq(S) /\ Len(SubSeq(d, 2, 9)) = 8
        /\ \A i \in 1..8 : SubSeq(d, 2, 9)[i] = d[2 + i - 1]
    BY <2>1, SubSeqProperties, SMTT(30)
  <2>3. \A i \in 1..8 : SubSeq(d, 2, 9)[i] = nonce[i]
    BY <2>1, <2>2, SMTT(40)
  <2> QED BY <2>2, <2>3, SeqEqual, SMTT(30) DEF NonceSize
<1>16. SubSeq(d, 10, 9 + Len(payload)) = payload
  <2> HIDE DEF front
  <2> DEFINE s == SubSeq(d, 10, 9 + Len(payload))
  <2>1. \A i \in 10..(9 + Len(payload)) : d[i] = payload[i - 9] /\ payload[i - 9] \in S
    BY <1>12, <1>13, <1>4, <1>3, ElementOfSeq, SMTT(40)
  <2>2. /\ s \in Seq(S) /\ Len(s) = Len(payload)
        /\ \A i \in 1..Len(payload) : s[i] = d[10 + i - 1]
    BY <2>1, <1>3, SubSeqProperties
  <2> HIDE DEF s
  <2>3. ASSUME NEW i \in 1..Len(payload) PROVE s[i] = payload[i]
    <3>1. 10 + i - 1 \in 10..(9 + Len(payload)) /\ 10 + i - 1 - 9 = i
      BY <1>3
    <3>2. s[i] = d[10 + i - 1]
      BY <2>2
    <3>3. d[10 + i - 1] = payload[10 + i - 1 - 9]
      BY <2>1, <3>1
    <3> QED BY <3>1, <3>2, <3>3
  <2>4. s = payload
    BY <2>2, <2>3, SeqEqual
  <2> QED BY <2>4 DEF s
<1>17. d[1] = <<MsgByte(type)>>
  <2> HIDE DEF front
  <2> QED BY <1>12, <1>13, <1>14, <1>4, <1>3, SMTT(30)
<1>18. head = Covered(type, nonce, payload)
  BY DEF head, Covered
<1>19. SubSeq(d, 2, 1 + NonceSize) = nonce
  BY <1>15 DEF NonceSize
<1>20. SubSeq(d, 2 + NonceSize, PayloadEnd(d)) = payload
  BY <1>16, <1>9, <1>4 DEF NonceSize
<1>21. SubSeq(d, PayloadEnd(d) + 1, Len(d)) = computeHMAC(c.key, head)
  BY <1>10 DEF mac
<1> HIDE DEF b, front
<1> QED
  <2>1. SplitsInto(d, c.key, type, nonce, payload)
    BY <1>4, <1>8, <1>9, <1>11, <1>17, <1>18, <1>19, <1>20, <1>21, Zenon DEF SplitsInto
  <2> QED BY <2>1 DEF d

\* The datagram that carries a message of codec c, sent under nonce n.
DatagramOf(c, n, type, body) ==
  IF IsSecure(c) THEN Signed(c, type, PutUint64(n), PayloadOf(type, body))
                 ELSE <<<<MsgByte(type)>>>> \o PayloadOf(type, body)

\* A peer with the same key decodes it to the same message, unless the nonce
\* is old.
LEMMA DecodeDatagram ==
  ASSUME NEW c \in Codecs, NEW r \in Codecs, c.key = r.key,
         NEW n \in 0..MaxNonce, IsSecure(c) => n > 0,
         NEW type \in TypeSet, NEW body, BodyOK(type, body),
         NEW d, d = DatagramOf(c, n, type, body)
  PROVE  /\ TypeOf(d) = type
         /\ IsSecure(c) => NonceOf(d) = n
         /\ decodes(r, d) <=> (IsSecure(r) => type \in Handshake \/ n > r.recvNonce)
         /\ decodes(r, d) => Decode(r, d) = [type |-> type, body |-> body]
<1> DEFINE p == PayloadOf(type, body)
<1>1. p \in Seq(Symbols) /\ Len(p) \in Nat
  BY PayloadBytes, LenProperties
<1>2. MsgByte(type) \in 0..5 /\ Types[MsgByte(type) + 1] = type
  BY TypeByte
<1>3. <<MsgByte(type)>> \in Symbols
  BY <1>2 DEF Symbols, Plain
<1>4. Parsed(type, p) = [type |-> type, body |-> body]
  BY ParsedPayload
<1> HIDE DEF p
<1>5. CASE IsSecure(c)
  <2>1. IsSecure(r) /\ n > 0
    BY <1>5 DEF IsSecure
  <2>2. PutUint64(n) \in Seq(Plain) /\ Len(PutUint64(n)) = NonceSize
    BY WireAssumption
  <2>3. PutUint64(n) \in Seq(Symbols)
    BY <2>2, SeqMonotonic DEF Symbols
  <2>4. d = Signed(c, type, PutUint64(n), p)
    BY <1>5 DEF DatagramOf, p
  <2> DEFINE head == Covered(type, PutUint64(n), p)
  <2>a. SplitsInto(d, c.key, type, PutUint64(n), p)
    BY <1>1, <1>3, <2>2, <2>3, <2>4, SignedParts
  <2>5. /\ PayloadEnd(d) = Len(head) /\ Len(head) = 9 + Len(p)
        /\ Len(d) = Len(head) + HMACSize
        /\ SubSeq(d, PayloadEnd(d) + 1, Len(d)) = computeHMAC(c.key, head)
        /\ SubSeq(d, 1, PayloadEnd(d)) = head
        /\ d[1] = <<MsgByte(type)>>
        /\ SubSeq(d, 2, 1 + NonceSize) = PutUint64(n)
        /\ SubSeq(d, 2 + NonceSize, PayloadEnd(d)) = p
    BY <2>a, Zenon DEF SplitsInto
  <2> HIDE DEF head
  <2>6. TypeOf(d) = type
    BY <2>5, <1>2 DEF TypeOf
  <2>7. NonceOf(d) = n
    <3>1. \A k \in 0..MaxNonce : PutUint64(k) = PutUint64(n) => k = n
      BY WireAssumption
    <3>2. NonceOf(d) = CHOOSE k \in 0..MaxNonce : PutUint64(k) = PutUint64(n)
      BY <2>5, Zenon DEF NonceOf
    <3> QED BY <3>1, <3>2, Zenon
  <2>8. Verified(r, d)
    <3>1. Len(d) >= 1 + NonceSize + HMACSize
      BY <2>5, <1>1 DEF NonceSize, HMACSize
    <3>2. SubSeq(d, PayloadEnd(d) + 1, Len(d))
            = computeHMAC(r.key, SubSeq(d, 1, PayloadEnd(d)))
      BY <2>5, Zenon
    <3> QED BY <3>1, <3>2 DEF Verified
  <2>9. Len(d) >= 1
    BY <2>5, <1>1 DEF HMACSize
  <2>10. FreshNonce(r, [nonce |-> NonceOf(d)]) <=> n > r.recvNonce
    BY <2>1, <2>7 DEF FreshNonce
  <2>11. decodes(r, d) <=> type \in Handshake \/ n > r.recvNonce
    BY <2>1, <2>6, <2>8, <2>9, <2>10 DEF decodes
  <2>12. decode(r, d) = p
    BY <2>1, <2>5 DEF decode
  <2> QED BY <2>1, <2>6, <2>7, <2>11, <2>12, <1>4 DEF Decode
<1>6. CASE ~IsSecure(c)
  <2>1. ~IsSecure(r)
    BY <1>6 DEF IsSecure
  <2> DEFINE b == <<<<MsgByte(type)>>>>
  <2>2. d = b \o p /\ b \in Seq(Symbols) /\ Len(b) = 1 /\ b[1] = <<MsgByte(type)>>
    BY <1>6, <1>3 DEF DatagramOf, p
  <2> HIDE DEF b
  <2>3. d \in Seq(Symbols) /\ Len(d) = Len(b) + Len(p)
    BY <1>1, <2>2, ConcatProperties, ZenonT(30)
  <2>4. Len(d) >= 1 /\ d # <<>>
    BY <1>1, <2>2, <2>3
  <2>5. SubSeq(d, Len(b) + 1, Len(b) + Len(p)) = p
    BY <1>1, <2>2, BackSlice, Zenon
  <2>6. Tail(d) = SubSeq(d, 2, Len(d))
    BY <2>3, <2>4, TailIsSubSeq
  <2>7. Tail(d) = p
    BY <2>2, <2>3, <2>5, <2>6
  <2>8. d[1] = b[1]
    <3>1. 1 \in 1..Len(b)
      BY <2>2
    <3>2. \A i \in 1..Len(b) : (b \o p)[i] = b[i]
      BY <1>1, <2>2, ConcatAt
    <3> QED BY <3>1, <3>2, <2>2, Zenon
  <2>9. TypeOf(d) = type
    BY <2>2, <2>8, <1>2 DEF TypeOf
  <2>10. decodes(r, d)
    BY <2>1, <2>4 DEF decodes
  <2>11. Decode(r, d) = Parsed(type, p)
    BY <2>1, <2>7, <2>9, <2>10, Zenon DEF Decode, decode
  <2> QED BY <1>4, <1>6, <2>1, <2>9, <2>10, <2>11
<1> QED BY <1>5, <1>6

-----------------------------------------------------------------------------
(* Codecs of different keys. *)

\* A signed datagram fails the comparison of another key.
LEMMA OtherKeyRejects ==
  ASSUME NEW c \in Codecs, NEW r \in Codecs, c.key # r.key,
         IsSecure(c), IsSecure(r), NEW n \in 0..MaxNonce,
         NEW type \in TypeSet, NEW body, BodyOK(type, body),
         NEW d, d = DatagramOf(c, n, type, body)
  PROVE  ~decodes(r, d)
<1> DEFINE p == PayloadOf(type, body)
           head == Covered(type, PutUint64(n), p)
<1>1. p \in Seq(Symbols) /\ PutUint64(n) \in Seq(Plain) /\ Len(PutUint64(n)) = NonceSize
  BY PayloadBytes, WireAssumption
<1>2. PutUint64(n) \in Seq(Symbols)
  BY <1>1, SeqMonotonic DEF Symbols
<1>3. <<MsgByte(type)>> \in Symbols
  BY TypeByte DEF Symbols, Plain
<1>4. d = Signed(c, type, PutUint64(n), p)
  BY DEF DatagramOf
<1> HIDE DEF p, head
<1>5. SplitsInto(d, c.key, type, PutUint64(n), p)
  BY <1>1, <1>2, <1>3, <1>4, SignedParts
<1>6. /\ SubSeq(d, PayloadEnd(d) + 1, Len(d)) = computeHMAC(c.key, head)
      /\ SubSeq(d, 1, PayloadEnd(d)) = head
  BY <1>5, Zenon DEF SplitsInto, head
<1>7. computeHMAC(c.key, head)[1] # computeHMAC(r.key, head)[1]
  BY DEF computeHMAC, HMACSize
<1>8. ~Verified(r, d)
  BY <1>6, <1>7, Zenon DEF Verified
<1> QED BY <1>8 DEF decodes

\* An unsigned datagram ends in plain bytes, which are no HMAC.
LEMMA UnsignedRejected ==
  ASSUME NEW r \in Codecs, IsSecure(r), NEW d \in Seq(Plain)
  PROVE  ~decodes(r, d)
<1> SUFFICES ASSUME Verified(r, d) PROVE FALSE
  BY DEF decodes
<1>1. Len(d) \in Nat /\ Len(d) >= 41 /\ PayloadEnd(d) = Len(d) - 32
  BY LenProperties DEF Verified, NonceSize, HMACSize, PayloadEnd
<1> DEFINE at == PayloadEnd(d) + 1
           sig == SubSeq(d, at, Len(d))
<1>2. at \in 1..Len(d) /\ at \in Int
  BY <1>1
<1>3. \A i \in at..Len(d) : d[i] \in Plain
  BY <1>1, <1>2, ElementOfSeq
<1>4. sig[1] = d[at]
  <2> HIDE DEF at
  <2>1. \A i \in 1..Len(d) - at + 1 : sig[i] = d[at + i - 1]
    BY <1>1, <1>2, <1>3, SubSeqProperties
  <2>2. 1 \in 1..Len(d) - at + 1 /\ at + 1 - 1 = at
    BY <1>1, <1>2
  <2> HIDE DEF sig
  <2> QED BY <2>1, <2>2
<1>5. d[at] \in Plain
  BY <1>2, ElementOfSeq
<1>6. sig = computeHMAC(r.key, SubSeq(d, 1, PayloadEnd(d)))
  BY DEF Verified
<1> DEFINE data == SubSeq(d, 1, PayloadEnd(d))
<1> HIDE DEF sig, at, data
<1>7. computeHMAC(r.key, data)[1] = <<r.key, data, 1>>
  BY DEF computeHMAC, HMACSize
<1>8. d[at] = <<r.key, data, 1>>
  BY <1>4, <1>6, <1>7 DEF data
<1>9. PICK b \in 0..255 : d[at] = <<b>>
  BY <1>5, Zenon DEF Plain
<1>10. Len(<<b>>) = 1 /\ Len(<<r.key, data, 1>>) = 3
  OBVIOUS
<1>11. <<b>> = <<r.key, data, 1>>
  BY <1>8, <1>9, Zenon
<1>12. Len(<<b>>) = Len(<<r.key, data, 1>>)
  BY <1>11, Zenon
<1>13. 1 = 3
  BY <1>10, <1>12, Zenon
<1> QED BY <1>13

\* Slices of two elements are equal if the elements are.
LEMMA SameStart ==
  ASSUME NEW s, NEW t, s[1] = t[1], s[2] = t[2]
  PROVE  SubSeq(s, 1, 2) = SubSeq(t, 1, 2)
<1> DEFINE S == {s[1], s[2]}
           u == SubSeq(s, 1, 2)
           v == SubSeq(t, 1, 2)
<1>1. \A i \in 1..2 : s[i] \in S /\ t[i] \in S
  OBVIOUS
<1>2. u \in Seq(S) /\ Len(u) = 2 /\ \A i \in 1..2 : u[i] = s[1 + i - 1]
  BY <1>1, SubSeqProperties
<1>3. v \in Seq(S) /\ Len(v) = 2 /\ \A i \in 1..2 : v[i] = t[1 + i - 1]
  BY <1>1, SubSeqProperties
<1>4. \A i \in 1..2 : u[i] = v[i]
  BY <1>2, <1>3
<1> QED BY <1>2, <1>3, <1>4, SeqEqual

\* Without a key the greeting of a codec with one shows no version.
LEMMA NonceIsNoVersion ==
  ASSUME NEW c \in Codecs, NEW r \in Codecs, IsSecure(c), ~IsSecure(r),
         NEW n \in 0..MaxNonce,
         NEW type \in Handshake, NEW body, BodyOK(type, body),
         NEW d, d = DatagramOf(c, n, type, body)
  PROVE  Decode(r, d) = Error
<1>0. type \in TypeSet
  BY DEF Handshake, TypeSet
<1> DEFINE p == PayloadOf(type, body)
           nonce == PutUint64(n)
<1>1. /\ p \in Seq(Symbols) /\ nonce \in Seq(Plain) /\ Len(nonce) = NonceSize
      /\ SubSeq(nonce, 1, 2) # Version
  BY <1>0, PayloadBytes, WireAssumption
<1>2. nonce \in Seq(Symbols)
  BY <1>1, SeqMonotonic DEF Symbols
<1>3. MsgByte(type) \in 0..5 /\ Types[MsgByte(type) + 1] = type
      /\ <<MsgByte(type)>> \in Symbols
  BY <1>0, TypeByte DEF Symbols, Plain
<1>4. d = Signed(c, type, nonce, p)
  BY DEF DatagramOf
<1> HIDE DEF p, nonce
<1>5. SplitsInto(d, c.key, type, nonce, p)
  BY <1>1, <1>2, <1>3, <1>4, SignedParts
<1>6. d[1] = <<MsgByte(type)>> /\ SubSeq(d, 2, 9) = nonce
  BY <1>5 DEF SplitsInto, NonceSize
<1>7. TypeOf(d) = type
  BY <1>3, <1>6 DEF TypeOf
<1>8. ~VersionOK(Tail(d))
  <2>1. d[2] = nonce[1] /\ d[3] = nonce[2]
    <3>1. SubSeq(d, 2, 9)[1] = d[2] /\ SubSeq(d, 2, 9)[2] = d[3]
      OBVIOUS
    <3> QED BY <3>1, <1>6
  <2>2. Len(d) = 41 + Len(p) /\ Len(p) \in Nat
    BY <1>1, <1>5, LenProperties DEF SplitsInto, HMACSize
  <2>3. Tail(d)[1] = nonce[1] /\ Tail(d)[2] = nonce[2]
    BY <2>1, <2>2
  <2>4. SubSeq(Tail(d), 1, 2) = SubSeq(nonce, 1, 2)
    BY <2>3, SameStart, Zenon
  <2> QED BY <1>1, <2>4, Zenon DEF VersionOK
<1>9. Decode(r, d) = IF decodes(r, d) THEN Parsed(type, Tail(d)) ELSE Error
  BY <1>7 DEF Decode, decode
<1>10. Parsed(type, Tail(d)) = Error
  BY <1>8 DEF Handshake, Parsed, Greeting
<1> QED BY <1>9, <1>10

-----------------------------------------------------------------------------
(* The inductive invariant. *)

\* The datagram carries the message sent last, and an unsigned one is plain.
Carried ==
  /\ sent \in [type : TypeSet, body : Seq(Symbols)]
  /\ BodyOK(sent.type, sent.body)
  /\ datagram = DatagramOf(sender, sender.sendNonce, sent.type, sent.body)
  /\ IsSecure(sender) => sender.sendNonce > 0
  /\ ~IsSecure(sender) => datagram \in Seq(Plain)

\* The receiver is never ahead of the sender, and level with it exactly when
\* the last session message has arrived.
Window ==
  sender.key = receiver.key /\ IsSecure(sender) =>
    /\ receiver.recvNonce <= sender.sendNonce
    /\ datagram # <<>> /\ copies = 0 => receiver.recvNonce < sender.sendNonce
    /\ copies > 0 /\ sent.type \notin Handshake
         => receiver.recvNonce = sender.sendNonce

IInv ==
  /\ sender \in Codecs /\ receiver \in Codecs /\ copies \in 0..2
  /\ datagram = <<>> => copies = 0
  /\ datagram # <<>> => Carried
  /\ Window
  /\ RoundTrip

\* A function on an initial segment is a sequence of that length.
LEMMA FunctionIsSeq ==
  ASSUME NEW S, NEW n \in Nat, NEW f \in [1..n -> S]
  PROVE  f \in Seq(S) /\ Len(f) = n
OBVIOUS

\* What callers give the encoders has the size the encoders expect.
LEMMA BodiesFit ==
  ASSUME NEW c \in Codecs, NEW type \in TypeSet, NEW body \in Bodies(c, type),
         type = "FRAME" => FrameSizeOK(Len(body))
  PROVE  BodyOK(type, body) /\ (~IsSecure(c) => body \in Seq(Plain))
<1>1. ASSUME NEW n \in Nat PROVE Some(n) \in Seq(Plain) /\ Len(Some(n)) = n
  <2>1. \A i \in 1..n : <<i % 256>> \in Plain
    BY DEF Plain
  <2>2. Some(n) \in [1..n -> Plain]
    BY <2>1 DEF Some
  <2> QED BY <2>2
<1>2. Seq(Plain) \subseteq Seq(Symbols)
  BY SeqMonotonic DEF Symbols
<1>3. CASE type = "FRAME"
  <2>1. PICK n \in FrameSizes : body = Some(n)
    BY <1>3 DEF Bodies
  <2>2. n \in Nat
    BY WireAssumption
  <2> QED BY <1>1, <1>2, <1>3, <2>1, <2>2 DEF BodyOK
<1>4. CASE type = "HELLO"
  <2>1. body = Some(16)
    BY <1>4 DEF Bodies, ChallengeSize
  <2> QED BY <1>1, <1>2, <1>4, <2>1, Zenon DEF BodyOK, ChallengeSize
<1>5. CASE type = "HELLO_ACK"
  <2>1. CASE IsSecure(c)
    <3>1. body = computeHMAC(c.key, Some(ChallengeSize))
      BY <1>5, <2>1 DEF Bodies
    <3>2. c.key \in Keys
      BY <2>1 DEF IsSecure, Codecs
    <3>3. body \in [1..32 -> Symbols] /\ 32 \in Nat
      BY <3>1, <3>2, SMTT(30) DEF computeHMAC, Symbols, HMACSize
    <3>4. body \in Seq(Symbols) /\ Len(body) = 32
      <4>1. PICK n \in Nat : n = 32
        BY <3>3, Zenon
      <4>2. body \in [1..n -> Symbols]
        BY <3>3, <4>1, Zenon
      <4> QED BY <4>1, <4>2, FunctionIsSeq, Zenon
    <3> QED BY <1>5, <2>1, <3>4 DEF BodyOK, ChallengeRespLen
  <2>2. CASE ~IsSecure(c)
    <3>1. body = [i \in 1..32 |-> <<0>>]
      BY <1>5, <2>2 DEF Bodies, ChallengeRespLen
    <3>2. body \in [1..32 -> Plain] /\ 32 \in Nat
      BY <3>1 DEF Plain
    <3>3. body \in Seq(Plain) /\ Len(body) = 32
      <4>1. PICK n \in Nat : n = 32
        BY <3>2, Zenon
      <4>2. body \in [1..n -> Plain]
        BY <3>2, <4>1, Zenon
      <4> QED BY <4>1, <4>2, FunctionIsSeq, Zenon
    <3> QED BY <1>2, <1>5, <3>3 DEF BodyOK, ChallengeRespLen
  <2> QED BY <2>1, <2>2
<1>6. CASE type = "BYE"
  <2>1. body = <<>>
    BY <1>6 DEF Bodies
  <2>2. <<>> \in Seq(Plain) /\ <<>> \in Seq(Symbols)
    OBVIOUS
  <2> QED BY <1>6, <2>1, <2>2 DEF BodyOK
<1>7. CASE type \in {"PING", "PONG"}
  <2>1. body = Some(8)
    BY <1>7 DEF Bodies, PingPongPayloadSize
  <2> QED BY <1>1, <1>2, <1>7, <2>1, Zenon DEF BodyOK, PingPongPayloadSize
<1> QED BY <1>3, <1>4, <1>5, <1>6, <1>7 DEF TypeSet

\* A message is sent.
LEMMA SendKeepsIInv ==
  ASSUME IInv, NEW type \in TypeSet, NEW body \in Bodies(sender, type),
         Send(type, body)
  PROVE  IInv'
<1>1. sender \in Codecs /\ receiver \in Codecs /\ Window
  BY DEF IInv
<1>2. BodyOK(type, body) /\ (~IsSecure(sender) => body \in Seq(Plain))
  BY <1>1, BodiesFit DEF Send
<1>3. MaxNonce \in Nat
  BY WireAssumption
<1>4. /\ sender' = [sender EXCEPT !.sendNonce =
                       IF IsSecure(sender) THEN sender.sendNonce + 1 ELSE sender.sendNonce]
      /\ receiver' = receiver /\ copies' = 0
      /\ sender.sendNonce < MaxNonce
  BY DEF Send, AfterEncode
<1>5. /\ sender.sendNonce \in 0..MaxNonce
      /\ sender.sendNonce + 1 \in 0..MaxNonce
  BY <1>1, <1>3, <1>4 DEF Codecs
<1>6. /\ sender' \in Codecs /\ sender'.key = sender.key
      /\ IsSecure(sender) => sender'.sendNonce = sender.sendNonce + 1
  BY <1>1, <1>4, <1>5 DEF Codecs
<1>7. IsSecure(sender)' <=> IsSecure(sender)
  BY <1>6 DEF IsSecure
<1>8. Carried'
  <2>1. sent' = [type |-> type, body |-> body]
    BY DEF Send
  <2>2. sent' \in [type : TypeSet, body : Seq(Symbols)] /\ BodyOK(sent'.type, sent'.body)
    BY <1>2, <2>1 DEF BodyOK
  <2>3. datagram' = DatagramOf(sender', sender'.sendNonce, type, body)
    <3>1. datagram' = encode(sender, type, PayloadOf(type, body))
      BY DEF Send
    <3>2. CASE IsSecure(sender)
      BY <3>1, <3>2, <1>6, <1>7, Zenon DEF encode, DatagramOf, Signed, IsSecure
    <3>3. CASE ~IsSecure(sender)
      BY <3>1, <3>3, <1>6, <1>7 DEF encode, DatagramOf, IsSecure
    <3> QED BY <3>2, <3>3
  <2>4. IsSecure(sender') => sender'.sendNonce > 0
    BY <1>5, <1>6, <1>7 DEF IsSecure
  <2>5. ASSUME ~IsSecure(sender') PROVE datagram' \in Seq(Plain)
    <3>1. ~IsSecure(sender)
      BY <2>5, <1>6 DEF IsSecure
    <3>2. datagram' = <<<<MsgByte(type)>>>> \o PayloadOf(type, body)
      BY <3>1 DEF Send, encode
    <3>3. <<<<MsgByte(type)>>>> \in Seq(Plain)
      BY TypeByte DEF Plain
    <3>4. Version \in Seq(Plain)
      BY DEF Version, Plain
    <3>5. PayloadOf(type, body) \in Seq(Plain)
      BY <1>2, <3>1, <3>4, ConcatProperties DEF PayloadOf
    <3> QED BY <3>2, <3>3, <3>5, ConcatProperties
  <2> QED BY <2>1, <2>2, <2>3, <2>4, <2>5 DEF Carried
<1>9. Window'
  <2> SUFFICES ASSUME sender'.key = receiver'.key, IsSecure(sender')
               PROVE  receiver'.recvNonce < sender'.sendNonce
    BY <1>1, <1>4, <1>6 DEF Window, Codecs
  <2>1. IsSecure(sender) /\ sender.key = receiver.key
    BY <1>4, <1>6 DEF IsSecure
  <2>2. receiver.recvNonce <= sender.sendNonce /\ receiver.recvNonce \in 0..MaxNonce
    BY <1>1, <2>1 DEF Window, Codecs
  <2> QED BY <1>3, <1>4, <1>5, <1>6, <2>1, <2>2
<1>10. RoundTrip'
  BY <1>4 DEF RoundTrip
<1> QED BY <1>1, <1>4, <1>6, <1>8, <1>9, <1>10 DEF IInv

\* What the datagram in flight does at the receiver, in the terms of Codec.
LEMMA Arrival ==
  ASSUME IInv, datagram # <<>>
  PROVE  /\ Decode(receiver, datagram) # Error =>
              Decodes(receiver, AsRecord) /\ decodes(receiver, datagram)
         /\ sender.key = receiver.key =>
              /\ TypeOf(datagram) = sent.type
              /\ IsSecure(sender) => NonceOf(datagram) = sender.sendNonce
              /\ decodes(receiver, datagram)
                   <=> (IsSecure(receiver) =>
                          sent.type \in Handshake \/ sender.sendNonce > receiver.recvNonce)
              /\ decodes(receiver, datagram) => Decode(receiver, datagram) = sent
              /\ decodes(receiver, datagram) <=> Decodes(receiver, AsRecord)
         /\ IsSecure(receiver) /\ decodes(receiver, datagram)
              => sender.key = receiver.key
<1> DEFINE d == datagram
           n == sender.sendNonce
<1>1. /\ sender \in Codecs /\ receiver \in Codecs /\ Carried
      /\ n \in 0..MaxNonce
  BY DEF IInv, Codecs
<1>2. /\ sent.type \in TypeSet /\ BodyOK(sent.type, sent.body)
      /\ d = DatagramOf(sender, n, sent.type, sent.body)
      /\ IsSecure(sender) => n > 0
      /\ ~IsSecure(sender) => d \in Seq(Plain)
      /\ sent = [type |-> sent.type, body |-> sent.body]
  BY <1>1 DEF Carried
<1>3. sent # Error
  <2>1. sent.type # "error"
    BY <1>2 DEF TypeSet
  <2> QED BY <2>1 DEF Error
<1>4. Decode(receiver, d) # Error => decodes(receiver, d)
  BY DEF Decode
<1>5. /\ AsRecord.type = sent.type /\ AsRecord.nonce = n /\ AsRecord.hmac = sender.key
  BY DEF AsRecord
<1>6. CASE sender.key = receiver.key
  <2>1. /\ TypeOf(d) = sent.type
        /\ IsSecure(sender) => NonceOf(d) = n
        /\ decodes(receiver, d)
             <=> (IsSecure(receiver) => sent.type \in Handshake \/ n > receiver.recvNonce)
        /\ decodes(receiver, d) => Decode(receiver, d) = sent
    <3>1. /\ TypeOf(d) = sent.type
          /\ IsSecure(sender) => NonceOf(d) = n
          /\ decodes(receiver, d)
               <=> (IsSecure(receiver) => sent.type \in Handshake \/ n > receiver.recvNonce)
          /\ decodes(receiver, d)
               => Decode(receiver, d) = [type |-> sent.type, body |-> sent.body]
      BY <1>1, <1>2, <1>6, DecodeDatagram
    <3> QED BY <1>2, <3>1
  <2>2. IsSecure(sender) <=> IsSecure(receiver)
    BY <1>6 DEF IsSecure
  <2>3. Decodes(receiver, AsRecord)
          <=> (IsSecure(receiver) => sent.type \in Handshake \/ n > receiver.recvNonce)
    <3>1. CASE IsSecure(receiver)
      <4>1. Decodes(receiver, AsRecord)
              <=> sent.type \in Handshake \/ n = 0 \/ n > receiver.recvNonce
        BY <1>5, <1>6, <3>1 DEF Decodes, VerifyHMAC, FreshNonce
      <4>2. n # 0
        BY <1>1, <1>2, <2>2, <3>1
      <4> QED BY <3>1, <4>1, <4>2
    <3>2. CASE ~IsSecure(receiver)
      BY <1>5, <1>6, <3>2 DEF Decodes, IsSecure
    <3> QED BY <3>1, <3>2
  <2> QED BY <1>4, <1>6, <2>1, <2>2, <2>3
<1>7. CASE sender.key # receiver.key /\ IsSecure(receiver)
  <2>1. ~decodes(receiver, d)
    <3>1. CASE IsSecure(sender)
      BY <1>1, <1>2, <1>7, <3>1, OtherKeyRejects, Zenon
    <3>2. CASE ~IsSecure(sender)
      BY <1>1, <1>2, <1>7, <3>2, UnsignedRejected, Zenon
    <3> QED BY <3>1, <3>2
  <2> QED BY <1>4, <1>7, <2>1
<1>8. CASE sender.key # receiver.key /\ ~IsSecure(receiver)
  <2>1. IsSecure(sender)
    BY <1>8 DEF IsSecure
  <2>2. sent.type \in Handshake => Decode(receiver, d) = Error
    BY <1>1, <1>2, <1>8, <2>1, NonceIsNoVersion, Zenon
  <2>3. Decodes(receiver, AsRecord) <=> (sent.type \in Handshake => sender.key = NoKey)
    BY <1>5, <1>8 DEF Decodes
  <2> QED BY <1>4, <1>8, <2>2, <2>3
<1> QED BY <1>6, <1>7, <1>8

\* The datagram, or a copy, arrives.
LEMMA ReceiveKeepsIInv ==
  ASSUME IInv, Receive
  PROVE  IInv'
<1>1. /\ sender \in Codecs /\ receiver \in Codecs /\ copies \in 0..2
      /\ datagram # <<>> /\ Carried /\ Window /\ RoundTrip
  BY DEF IInv, Receive
<1>2. /\ receiver' = [receiver EXCEPT !.recvNonce = recvNonceAfter(receiver, datagram)]
      /\ copies' = (IF copies = 0 THEN 1 ELSE 2)
      /\ result' = Decode(receiver, datagram)
      /\ sender' = sender /\ sent' = sent /\ datagram' = datagram
  BY DEF Receive
<1>3. MaxNonce \in Nat /\ sender.sendNonce \in 0..MaxNonce /\ receiver.recvNonce \in 0..MaxNonce
  BY <1>1, WireAssumption DEF Codecs
<1>4. /\ recvNonceAfter(receiver, datagram) =
           IF IsSecure(receiver) /\ decodes(receiver, datagram) /\ sent.type \notin Handshake
             THEN sender.sendNonce ELSE receiver.recvNonce
  <2>1. CASE IsSecure(receiver) /\ decodes(receiver, datagram)
    <3>1. sender.key = receiver.key
      BY <1>1, <2>1, Arrival
    <3>2. IsSecure(sender)
      BY <2>1, <3>1 DEF IsSecure
    <3>3. TypeOf(datagram) = sent.type /\ NonceOf(datagram) = sender.sendNonce
      BY <1>1, <3>1, <3>2, Arrival
    <3> QED BY <2>1, <3>3 DEF recvNonceAfter
  <2>2. CASE ~(IsSecure(receiver) /\ decodes(receiver, datagram))
    BY <2>2 DEF recvNonceAfter
  <2> QED BY <2>1, <2>2
<1>5. recvNonceAfter(receiver, datagram) \in 0..MaxNonce
  BY <1>3, <1>4
<1>6. receiver' \in Codecs /\ receiver'.key = receiver.key
      /\ receiver'.recvNonce = recvNonceAfter(receiver, datagram)
  BY <1>1, <1>2, <1>5 DEF Codecs
<1>7. Carried'
  BY <1>1, <1>2 DEF Carried
<1>8. copies' \in {1, 2} /\ copies' \in 0..2 /\ (copies' = 1 <=> copies = 0)
  BY <1>1, <1>2
<1>9. Window'
  <2> SUFFICES ASSUME sender.key = receiver.key, IsSecure(sender)
               PROVE  /\ receiver'.recvNonce <= sender.sendNonce
                      /\ sent.type \notin Handshake => receiver'.recvNonce = sender.sendNonce
    BY <1>2, <1>6, <1>8 DEF Window
  <2>1. IsSecure(receiver)
    BY DEF IsSecure
  <2>2. decodes(receiver, datagram)
          <=> sent.type \in Handshake \/ sender.sendNonce > receiver.recvNonce
    BY <1>1, <2>1, Arrival
  <2>3. receiver.recvNonce <= sender.sendNonce
    BY <1>1 DEF Window
  <2> QED BY <1>3, <1>4, <1>6, <2>1, <2>2, <2>3
<1>10. RoundTrip'
  <2> SUFFICES ASSUME sender.key = receiver.key
               PROVE  /\ copies = 0 => result' = sent
                      /\ copies # 0 /\ IsSecure(receiver) /\ sent.type \notin Handshake
                           => result' = Error
    BY <1>1, <1>2, <1>6, <1>8 DEF RoundTrip, IsSecure
  <2>1. IsSecure(sender) <=> IsSecure(receiver)
    BY DEF IsSecure
  <2>2. ASSUME copies = 0 PROVE result' = sent
    <3>1. IsSecure(sender) => receiver.recvNonce < sender.sendNonce
      BY <1>1, <2>2 DEF Window
    <3>2. decodes(receiver, datagram)
      BY <1>1, <1>3, <2>1, <3>1, Arrival
    <3> QED BY <1>1, <1>2, <3>2, Arrival
  <2>3. ASSUME copies # 0, IsSecure(receiver), sent.type \notin Handshake
        PROVE  result' = Error
    <3>1. receiver.recvNonce = sender.sendNonce
      BY <1>1, <2>1, <2>3 DEF Window
    <3>2. ~decodes(receiver, datagram)
      BY <1>1, <1>3, <2>3, <3>1, Arrival
    <3> QED BY <1>2, <3>2 DEF Decode
  <2> QED BY <2>2, <2>3
<1> QED BY <1>1, <1>2, <1>6, <1>7, <1>8, <1>9, <1>10 DEF IInv

-----------------------------------------------------------------------------
\* Nothing is in flight at first.
LEMMA InitIInv ==
  ASSUME Init
  PROVE  IInv
<1>1. PICK k \in Keys \cup {NoKey}, l \in Keys \cup {NoKey} :
        sender = NewCodec(k) /\ receiver = NewCodec(l)
  BY DEF Init
<1>2. 0 \in 0..MaxNonce
  BY WireAssumption
<1>3. sender \in Codecs /\ receiver \in Codecs
      /\ sender.sendNonce = 0 /\ receiver.recvNonce = 0
  BY <1>1, <1>2 DEF NewCodec, Codecs
<1>4. datagram = <<>> /\ copies = 0
  BY DEF Init
<1>5. Window /\ RoundTrip
  BY <1>3, <1>4 DEF Window, RoundTrip
<1> QED BY <1>3, <1>4, <1>5 DEF IInv

\* Every step of Next keeps the invariant.
LEMMA NextIInv == IInv /\ [Next]_vars => IInv'
<1> SUFFICES ASSUME IInv, [Next]_vars PROVE IInv'
  OBVIOUS
<1>1. ASSUME NEW i \in 1..6, NEW body \in Bodies(sender, Types[i]), Send(Types[i], body)
      PROVE  IInv'
  <2>1. Types[i] \in TypeSet
    BY DEF Types, TypeSet
  <2> QED BY <1>1, <2>1, SendKeepsIInv
<1>2. CASE Receive
  BY <1>2, ReceiveKeepsIInv
<1>3. CASE UNCHANGED vars
  BY <1>3, Zenon DEF vars, IInv, Carried, Window, RoundTrip
<1> QED BY <1>1, <1>2, <1>3 DEF Next

\* The invariant holds throughout.
LEMMA Invariance == Spec => []IInv
<1>1. Init => IInv
  BY InitIInv
<1> QED BY <1>1, NextIInv, PTL DEF Spec

\* Whatever the keys, frame sizes and number of messages: between codecs of
\* one key what EncodeX produces, Decode gives back, once.
THEOREM WireRoundTrip == Spec => []RoundTrip
<1>1. IInv => RoundTrip
  BY DEF IInv
<1> QED BY <1>1, Invariance, PTL

\* The step condition of CodecAbstracts.
StepAbstracts ==
  copies' > 0 =>
    /\ result' # Error => /\ Decodes(receiver, AsRecord)
                          /\ receiver' = AfterDecode(receiver, AsRecord)
    /\ sender.key = receiver.key /\ Decodes(receiver, AsRecord)
         => result' # Error

\* Receive is the only step with an obligation.
LEMMA ReceiveAbstracts ==
  ASSUME IInv, Receive
  PROVE  StepAbstracts
<1>1. /\ sender \in Codecs /\ receiver \in Codecs /\ datagram # <<>> /\ Carried
  BY DEF IInv, Receive
<1>2. /\ result' = Decode(receiver, datagram)
      /\ receiver' = [receiver EXCEPT !.recvNonce = recvNonceAfter(receiver, datagram)]
  BY DEF Receive
<1>3. ASSUME result' # Error PROVE receiver' = AfterDecode(receiver, AsRecord)
  <2>1. decodes(receiver, datagram)
    BY <1>1, <1>2, <1>3, Arrival
  <2>2. CASE IsSecure(receiver)
    <3>1. sender.key = receiver.key
      BY <1>1, <2>1, <2>2, Arrival
    <3>2. IsSecure(sender)
      BY <2>2, <3>1 DEF IsSecure
    <3>3. TypeOf(datagram) = sent.type /\ NonceOf(datagram) = sender.sendNonce
      BY <1>1, <3>1, <3>2, Arrival
    <3>4. CASE sent.type \in Handshake
      <4>1. receiver' = receiver
        BY <1>1, <1>2, <3>3, <3>4 DEF recvNonceAfter, Codecs
      <4> QED BY <3>4, <4>1 DEF AfterDecode, AsRecord
    <3>5. CASE sent.type \notin Handshake
      BY <1>2, <2>1, <2>2, <3>3, <3>5 DEF recvNonceAfter, AfterDecode, AsRecord
    <3> QED BY <3>4, <3>5
  <2>3. CASE ~IsSecure(receiver)
    <3>1. receiver' = receiver
      BY <1>1, <1>2, <2>3 DEF recvNonceAfter, Codecs
    <3> QED BY <2>3, <3>1 DEF AfterDecode
  <2> QED BY <2>2, <2>3
<1>4. result' # Error => Decodes(receiver, AsRecord)
  BY <1>1, <1>2, Arrival
<1>5. ASSUME sender.key = receiver.key, Decodes(receiver, AsRecord)
      PROVE  result' # Error
  <2>1. result' = sent
    BY <1>1, <1>2, <1>5, Arrival
  <2>2. sent.type # "error"
    BY <1>1 DEF Carried, TypeSet
  <2> QED BY <2>1, <2>2 DEF Error
<1> QED BY <1>3, <1>4, <1>5, Zenon DEF StepAbstracts

\* Whatever the keys, frame sizes and number of messages: what the bytes let
\* through is what module Codec lets through, with the same effect.
THEOREM WireImplementsCodec == Spec => CodecAbstracts
<1>1. ASSUME IInv, [Next]_vars
      PROVE  [StepAbstracts]_vars
  <2>1. ASSUME NEW i \in 1..6, NEW body \in Bodies(sender, Types[i]), Send(Types[i], body)
        PROVE  StepAbstracts
    BY <2>1 DEF Send, StepAbstracts
  <2>2. CASE Receive
    BY <1>1, <2>2, ReceiveAbstracts
  <2> QED BY <1>1, <2>1, <2>2 DEF Next
<1> QED BY <1>1, Invariance, PTL DEF Spec, CodecAbstracts, StepAbstracts

-----------------------------------------------------------------------------
(* The sizes of the datagrams. *)

\* What a datagram adds to the body: the type byte, in a greeting the version,
\* with a key the nonce and the signature.
Overhead(c, type) ==
  (IF type \in Handshake THEN 2 ELSE 0) + (IF IsSecure(c) THEN 41 ELSE 1)

\* A datagram is as long as its body and that.
LEMMA DatagramSize ==
  ASSUME NEW c \in Codecs, NEW n \in 0..MaxNonce, IsSecure(c) => n > 0,
         NEW type \in TypeSet, NEW body, BodyOK(type, body),
         NEW d, d = DatagramOf(c, n, type, body)
  PROVE  Len(body) \in Nat /\ Len(d) = Len(body) + Overhead(c, type)
<1> DEFINE p == PayloadOf(type, body)
<1>1. p \in Seq(Symbols) /\ Version \in Seq(Symbols) /\ Len(Version) = 2
  BY PayloadBytes
<1>2. body \in Seq(Symbols) /\ Len(body) \in Nat /\ Len(p) \in Nat
  BY <1>1, LenProperties DEF BodyOK
<1>3. Len(p) = Len(body) + (IF type \in Handshake THEN 2 ELSE 0)
  <2>1. CASE type \in Handshake
    <3>1. p = Version \o body
      BY <2>1 DEF PayloadOf
    <3>2. Len(Version \o body) = Len(Version) + Len(body)
      BY <1>1, <1>2, ConcatProperties, Zenon
    <3> QED BY <1>1, <1>2, <2>1, <3>1, <3>2
  <2>2. CASE type \notin Handshake
    BY <1>2, <2>2 DEF PayloadOf
  <2> QED BY <2>1, <2>2
<1>4. <<MsgByte(type)>> \in Symbols
  BY TypeByte DEF Symbols, Plain
<1> HIDE DEF p
<1>5. CASE IsSecure(c)
  <2>1. PutUint64(n) \in Seq(Plain) /\ Len(PutUint64(n)) = NonceSize
    BY WireAssumption
  <2>2. PutUint64(n) \in Seq(Symbols)
    BY <2>1, SeqMonotonic DEF Symbols
  <2>3. d = Signed(c, type, PutUint64(n), p)
    BY <1>5 DEF DatagramOf, p
  <2>4. SplitsInto(d, c.key, type, PutUint64(n), p)
    BY <1>1, <1>4, <2>1, <2>2, <2>3, SignedParts DEF p
  <2>5. Len(d) = 9 + Len(p) + HMACSize
    BY <2>4, Zenon DEF SplitsInto
  <2> QED BY <1>2, <1>3, <1>5, <2>5 DEF HMACSize, Overhead
<1>6. CASE ~IsSecure(c)
  <2>1. d = <<<<MsgByte(type)>>>> \o p
    BY <1>6 DEF DatagramOf, p
  <2>2. <<<<MsgByte(type)>>>> \in Seq(Symbols) /\ Len(<<<<MsgByte(type)>>>>) = 1
    BY <1>4
  <2>3. Len(d) = Len(<<<<MsgByte(type)>>>>) + Len(p)
    BY <1>1, <2>1, <2>2, ConcatProperties DEF p
  <2> QED BY <1>2, <1>3, <1>6, <2>2, <2>3 DEF Overhead
<1> QED BY <1>2, <1>5, <1>6

\* A full frame is the largest body.
LEMMA BodySize ==
  ASSUME NEW type \in TypeSet, NEW body, BodyOK(type, body), NEW c
  PROVE  /\ Len(body) + Overhead(c, type) \in Nat
         /\ Len(body) + Overhead(c, type) <= 1555
<1>1. Len(body) \in Nat
  BY LenProperties DEF BodyOK
<1>2. CASE type \in {"HELLO", "HELLO_ACK"}
  <2>1. Len(body) <= 32
    <3>1. CASE type = "HELLO"
      <4>1. Len(body) = 16
        BY <3>1 DEF BodyOK, ChallengeSize
      <4> QED BY <4>1
    <3>2. CASE type = "HELLO_ACK"
      <4>1. Len(body) = 32
        BY <3>2 DEF BodyOK, ChallengeRespLen
      <4> QED BY <4>1
    <3> QED BY <1>2, <3>1, <3>2
  <2>2. Overhead(c, type) \in {3, 43}
    BY <1>2 DEF Overhead, Handshake
  <2> QED BY <1>1, <2>1, <2>2
<1>3. CASE type \in {"FRAME", "PING", "PONG", "BYE"}
  <2>1. Len(body) <= 1514
    <3>1. CASE type = "FRAME"
      BY <1>1, <3>1 DEF BodyOK, FrameSizeOK, MaxFrameSize
    <3>2. CASE type \in {"PING", "PONG"}
      <4>1. Len(body) = 8
        BY <3>2 DEF BodyOK, PingPongPayloadSize
      <4> QED BY <4>1
    <3>3. CASE type = "BYE"
      BY <3>3 DEF BodyOK
    <3> QED BY <1>3, <3>1, <3>2, <3>3
  <2>2. Overhead(c, type) \in {1, 41}
    BY <1>3 DEF Overhead, Handshake
  <2> QED BY <1>1, <2>1, <2>2
<1> QED BY <1>2, <1>3 DEF TypeSet

\* Decode returns a message of the type in the first byte, or an error.
LEMMA DecodedType ==
  ASSUME NEW c, NEW d, TypeOf(d) \in TypeSet
  PROVE  Decode(c, d).type \in {TypeOf(d), "error"}
<1>1. ASSUME NEW type \in TypeSet, NEW payload
      PROVE  Parsed(type, payload).type \in {type, "error"}
  <2>1. \A size : Greeting(type, payload, size).type \in {type, "error"}
    BY DEF Greeting, Error
  <2>2. CASE type \in {"HELLO", "HELLO_ACK"}
    BY <2>1, <2>2 DEF Parsed
  <2>3. CASE type = "FRAME"
    BY <2>3 DEF Parsed, Error
  <2>4. CASE type \in {"PING", "PONG"}
    BY <2>4 DEF Parsed, Error
  <2>5. CASE type = "BYE"
    BY <2>5 DEF Parsed
  <2> QED BY <2>2, <2>3, <2>4, <2>5 DEF TypeSet
<1> QED BY <1>1 DEF Decode, Error

\* What is known of the last result.
ResultInv ==
  result.type \in {"error", "FRAME", "HELLO", "HELLO_ACK", "PING", "PONG", "BYE"}

\* The largest datagram carries a full frame, a nonce and a signature: 1555
\* bytes.  Decode never returns a type that no encoder produces.
THEOREM TypeCorrect == Spec => []TypeOK
<1>1. Init => ResultInv
  BY DEF Init, ResultInv, Error
<1>2. IInv /\ ResultInv /\ [Next]_vars => ResultInv'
  <2> SUFFICES ASSUME IInv, ResultInv, [Next]_vars PROVE ResultInv'
    OBVIOUS
  <2>1. ASSUME NEW type, NEW body, Send(type, body) PROVE ResultInv'
    BY <2>1 DEF Send, ResultInv, Error
  <2>2. CASE Receive
    <3>1. sender \in Codecs /\ Carried
      BY <2>2 DEF IInv, Receive
    <3>2. /\ sender.sendNonce \in 0..MaxNonce /\ sent.type \in TypeSet
          /\ BodyOK(sent.type, sent.body)
          /\ datagram = DatagramOf(sender, sender.sendNonce, sent.type, sent.body)
          /\ IsSecure(sender) => sender.sendNonce > 0
      BY <3>1 DEF Carried, Codecs
    <3>3. TypeOf(datagram) = sent.type
      BY <3>1, <3>2, DecodeDatagram
    <3>4. result' = Decode(receiver, datagram)
      BY <2>2 DEF Receive
    <3>5. result'.type \in {sent.type, "error"}
      BY <3>2, <3>3, <3>4, DecodedType
    <3> QED BY <3>2, <3>5 DEF ResultInv, TypeSet
  <2>3. CASE UNCHANGED vars
    BY <2>3 DEF vars, ResultInv
  <2> QED BY <2>1, <2>2, <2>3 DEF Next
<1>3. IInv /\ ResultInv => TypeOK
  <2> SUFFICES ASSUME IInv, ResultInv PROVE TypeOK
    OBVIOUS
  <2>0. MaxDatagram \in Nat /\ 1555 <= MaxDatagram
    BY DEF MaxDatagram, NonceSize, MaxFrameSize, HMACSize
  <2>1. sender.sendNonce \in 0..MaxNonce /\ receiver.recvNonce \in 0..MaxNonce
    BY DEF IInv, Codecs
  <2>2. Len(datagram) \in 0..MaxDatagram
    <3>1. CASE datagram = <<>>
      BY <2>0, <3>1
    <3>2. CASE datagram # <<>>
      <4>1. sender \in Codecs /\ Carried
        BY <3>2 DEF IInv
      <4>2. /\ sent.type \in TypeSet /\ BodyOK(sent.type, sent.body)
            /\ datagram = DatagramOf(sender, sender.sendNonce, sent.type, sent.body)
            /\ IsSecure(sender) => sender.sendNonce > 0
        BY <4>1 DEF Carried
      <4>3. /\ Len(sent.body) \in Nat
            /\ Len(datagram) = Len(sent.body) + Overhead(sender, sent.type)
        BY <2>1, <4>1, <4>2, DatagramSize
      <4>4. Len(datagram) \in Nat /\ Len(datagram) <= 1555
        BY <4>2, <4>3, BodySize
      <4> QED BY <4>4, <2>0
    <3> QED BY <3>1, <3>2
  <2>3. copies \in 0..2
    BY DEF IInv
  <2> QED BY <2>1, <2>2, <2>3 DEF TypeOK, ResultInv
<1> QED BY <1>1, <1>2, <1>3, Invariance, PTL DEF Spec
=============================================================================
