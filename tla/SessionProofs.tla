--------------------------- MODULE SessionProofs ---------------------------
(***************************************************************************)
(* Proofs about Session for every set of keys and every bound.  What makes  *)
(* the safety properties inductive is what every message in the network,    *)
(* however old, still says about the processes that exchange it.            *)
(***************************************************************************)
EXTENDS Session, TLAPS

\* The elements of a sequence over S are in S.
LEMMA ElementOfSeq ==
  ASSUME NEW S, NEW s \in Seq(S), NEW i \in DOMAIN s
  PROVE  s[i] \in S
OBVIOUS

CodecSet == [key : Keys \cup {NoKey}, sendNonce : 0..MaxNonce,
             recvNonce : 0..MaxNonce]

\* Every HELLO was made by a connector with today's key, every HELLO_ACK by a
\* listener with today's key, for a challenge it had answered.
NetInv ==
  \A m \in net :
    /\ m.hmac # NoKey => m.nonce # 0
    /\ m.type = "HELLO" => /\ m.hmac = codec["C"].key
                           /\ m.payload \in 1..MaxChallenge
    /\ m.type = "HELLO_ACK" => /\ m.hmac = codec["L"].key
                               /\ m.hmac # NoKey => m.payload \in acked

\* The nonce window is never behind what the session accepted.
LogInv ==
  \A p \in Process :
    /\ phase[p] \notin {"connected", "ended"} => log[p] = <<>>
    /\ \A i \in DOMAIN log[p] : log[p][i] <= codec[p].recvNonce

IInv ==
  /\ TypeOK
  /\ NetInv
  /\ LogInv
  /\ KeysMustMatch
  /\ ChallengeAgreement
  /\ InOrderOnce

-----------------------------------------------------------------------------
\* The codec operations stay within the type and never change the key.
LEMMA CodecOps ==
  ASSUME NEW c \in CodecSet
  PROVE  /\ ResetRecvNonce(c) \in CodecSet
         /\ ResetRecvNonce(c).key = c.key
         /\ \A m : m.nonce \in 0..MaxNonce =>
              /\ AfterDecode(c, m) \in CodecSet
              /\ AfterDecode(c, m).key = c.key
BY SessionAssumption DEF CodecSet, ResetRecvNonce, AfterDecode

\* What a message just encoded and sent looks like.
LEMMA SendFacts ==
  ASSUME TypeOK, NEW p \in Process, NEW c \in CodecSet, c.key = codec[p].key,
         NEW dst, NEW type \in Type, NEW payload,
         Send(p, c, dst, type, payload)
  PROVE  /\ codec' \in [Process -> CodecSet]
         /\ \A q \in Process : codec'[q].key = codec[q].key
         /\ \A q \in Process : q # p => codec'[q] = codec[q]
         /\ codec'[p].recvNonce = c.recvNonce
         /\ \E m : /\ net' = net \cup {m}
                   /\ m.type = type /\ m.payload = payload
                   /\ m.hmac = c.key /\ m.nonce \in 0..MaxNonce
                   /\ c.key # NoKey => m.nonce # 0
<1> DEFINE m == Encode(c, Addr(p), dst, type, payload)
<1>1. AfterEncode(c) \in CodecSet /\ AfterEncode(c).key = c.key
      /\ AfterEncode(c).recvNonce = c.recvNonce
      /\ (c.key # NoKey => AfterEncode(c).sendNonce # 0)
  BY SessionAssumption DEF AfterEncode, CodecSet, Send, CanSend, IsSecure
<1>2. /\ net' = net \cup {m} /\ m.type = type /\ m.payload = payload
      /\ m.hmac = c.key /\ m.nonce = AfterEncode(c).sendNonce
  BY DEF Send, Encode
<1>3. codec' = [codec EXCEPT ![p] = AfterEncode(c)]
      /\ codec \in [Process -> CodecSet]
  BY DEF Send, TypeOK, CodecSet
<1>4. m.nonce \in 0..MaxNonce
  BY <1>1, <1>2 DEF CodecSet
<1> HIDE DEF m
<1> QED
  BY <1>1, <1>2, <1>3, <1>4

\* Two processes just started satisfy the invariant.
LEMMA InitInv == Init => IInv
<1> SUFFICES ASSUME Init PROVE IInv
  OBVIOUS
<1>1. PICK key \in [Process -> Keys \cup {NoKey}] :
        codec = [p \in Process |-> NewCodec(key[p])]
  BY DEF Init
<1>2. codec \in [Process -> CodecSet]
  BY <1>1, SessionAssumption DEF NewCodec, CodecSet
<1>3. TypeOK
  <2>1. log \in [Process -> Seq(1..MaxNonce)]
    BY DEF Init, Process
  <2>2. staleBye \in BOOLEAN
    BY Zenon DEF Init
  <2>3. /\ phase \in [Process -> {"waiting", "start", "hello", "backoff",
                                "connected", "ended"}]
        /\ incarnation \in [Process -> 0..MaxRestart]
        /\ challenge \in [Process -> 0..MaxChallenge]
        /\ lastChallenge \in 0..MaxChallenge
    BY SessionAssumption DEF Init, FirstPhase
  <2>4. acked = {} /\ net = {}
    BY DEF Init
  <2> QED
    BY <1>2, <2>1, <2>2, <2>3, <2>4 DEF TypeOK, CodecSet
<1>4. LogInv /\ InOrderOnce
  BY DEF Init, LogInv, InOrderOnce, Process
<1>5. NetInv /\ KeysMustMatch /\ ChallengeAgreement
  BY DEF Init, NetInv, KeysMustMatch, ChallengeAgreement, FirstPhase, Process
<1> QED
  BY <1>3, <1>4, <1>5 DEF IInv

\* A FRAME, PING, PONG or BYE tells nothing about challenges.
LEMMA PlainSend ==
  ASSUME IInv, NEW p \in Process, NEW c \in CodecSet, c.key = codec[p].key,
         NEW dst, NEW type \in {"FRAME", "PING", "PONG", "BYE"}, NEW payload,
         Send(p, c, dst, type, payload), acked' = acked
  PROVE  /\ codec' \in [Process -> CodecSet]
         /\ \A q \in Process : codec'[q].key = codec[q].key
         /\ \A q \in Process : q # p => codec'[q] = codec[q]
         /\ codec'[p].recvNonce = c.recvNonce
         /\ \A m \in net' : m.type \in Type /\ m.nonce \in 0..MaxNonce
         /\ NetInv'
<1>1. type \in Type /\ TypeOK /\ "L" \in Process /\ "C" \in Process
  BY DEF Type, IInv, Process
<1>2. /\ codec' \in [Process -> CodecSet]
      /\ \A q \in Process : codec'[q].key = codec[q].key
      /\ \A q \in Process : q # p => codec'[q] = codec[q]
      /\ codec'[p].recvNonce = c.recvNonce
  BY <1>1, SendFacts
<1>3. PICK a : /\ net' = net \cup {a} /\ a.type = type /\ a.hmac = c.key
               /\ a.nonce \in 0..MaxNonce /\ (c.key # NoKey => a.nonce # 0)
  BY <1>1, SendFacts
<1>4. \A m \in net' : m.type \in Type /\ m.nonce \in 0..MaxNonce
  BY <1>1, <1>3, Zenon DEF TypeOK
<1>5. NetInv'
  BY <1>1, <1>2, <1>3 DEF IInv, NetInv
<1> QED
  BY <1>2, <1>4, <1>5

\* Accepting a message with a fresh nonce keeps the log sorted and the nonce
\* window in front of it; without a key nothing is logged.
LEMMA AcceptFacts ==
  ASSUME IInv, NEW p \in Process, NEW m \in net, Decodes(codec[p], m),
         m.type \notin Handshake, phase[p] = "connected", Accept(p, m),
         NEW n, n = AfterDecode(codec[p], m).recvNonce
  PROVE  /\ log' \in [Process -> Seq(1..MaxNonce)]
         /\ \A q \in Process : q # p => log'[q] = log[q]
         /\ \A i \in DOMAIN log'[p] : log'[p][i] <= n
         /\ \A i, j \in DOMAIN log'[p] : i < j => log'[p][i] < log'[p][j]
<1>1. /\ log \in [Process -> Seq(1..MaxNonce)] /\ codec[p] \in CodecSet
      /\ m.nonce \in 0..MaxNonce
  BY DEF IInv, TypeOK, CodecSet
<1>2. /\ \A i \in DOMAIN log[p] : log[p][i] <= codec[p].recvNonce
      /\ \A i, j \in DOMAIN log[p] : i < j => log[p][i] < log[p][j]
  BY DEF IInv, LogInv, InOrderOnce
<1>3. CASE ~IsSecure(codec[p])
  <2>1. log' = log /\ n = codec[p].recvNonce
    BY <1>1, <1>3 DEF Accept, AfterDecode
  <2> QED
    BY <1>1, <1>2, <2>1
<1>4. CASE IsSecure(codec[p])
  <2>1. m.nonce \in 1..MaxNonce /\ codec[p].recvNonce < m.nonce
    <3>1. m.hmac # NoKey /\ FreshNonce(codec[p], m)
      BY <1>4 DEF Decodes, VerifyHMAC, IsSecure
    <3>2. m.nonce # 0
      BY <3>1 DEF IInv, NetInv
    <3> QED
      BY <1>1, <3>1, <3>2, SessionAssumption DEF FreshNonce, CodecSet
  <2>2. n = m.nonce
    BY <1>1, <1>4 DEF AfterDecode, CodecSet
  <2>3. log' = [log EXCEPT ![p] = Append(log[p], m.nonce)]
    BY <1>1, <1>4 DEF Accept
  <2> DEFINE s == log[p]
             t == Append(s, m.nonce)
  <2>4. s \in Seq(1..MaxNonce)
    BY <1>1
  <2>5. /\ t \in Seq(1..MaxNonce) /\ DOMAIN t = 1..(Len(s) + 1)
        /\ DOMAIN s = 1..Len(s) /\ Len(s) \in Nat
        /\ \A i \in 1..Len(s) : t[i] = s[i]
        /\ t[Len(s) + 1] = m.nonce
    BY <2>1, <2>4
  <2>6. \A i \in DOMAIN s : s[i] \in Nat /\ s[i] < m.nonce
    <3>1. \A i \in DOMAIN s : s[i] \in 1..MaxNonce
      BY <2>4, ElementOfSeq, Zenon
    <3> QED
      BY <1>1, <1>2, <2>1, <3>1, SessionAssumption, SMTT(30) DEF CodecSet
  <2>7. log'[p] = t /\ \A q \in Process : q # p => log'[q] = log[q]
    BY <1>1, <2>3
  <2>8. log' \in [Process -> Seq(1..MaxNonce)]
    BY <1>1, <2>3, <2>5
  <2> HIDE DEF s, t
  <2>9. \A i \in DOMAIN t : t[i] <= m.nonce
    BY <1>1, <2>5, <2>6
  <2>10. \A i, j \in DOMAIN t : i < j => t[i] < t[j]
    BY <1>2, <2>5, <2>6 DEF s
  <2> QED
    BY <2>2, <2>7, <2>8, <2>9, <2>10
<1> QED
  BY <1>3, <1>4

\* Every step of either process preserves the invariant.
LEMMA StepInv == IInv /\ [Next]_vars => IInv'
<1> SUFFICES ASSUME IInv, [Next]_vars PROVE IInv'
  OBVIOUS
<1> USE SessionAssumption
<1>0. /\ codec \in [Process -> CodecSet] /\ TypeOK
      /\ "L" \in Process /\ "C" \in Process
      /\ "HELLO" \in Type /\ "HELLO_ACK" \in Type
      /\ \A m \in net : m.nonce \in 0..MaxNonce
  BY Zenon DEF IInv, TypeOK, CodecSet, Process, Type
<1>1. ASSUME NEW m \in net, AcceptHello(m) PROVE IInv'
  <2> DEFINE c == ResetRecvNonce(AfterDecode(codec["L"], m))
  <2>1. /\ c \in CodecSet /\ c.key = codec["L"].key /\ c.recvNonce = 0
    <3>1. /\ AfterDecode(codec["L"], m) \in CodecSet
          /\ AfterDecode(codec["L"], m).key = codec["L"].key
      BY <1>0, CodecOps, Zenon
    <3> QED
      BY <3>1, CodecOps DEF CodecSet, ResetRecvNonce
  <2>2. /\ phase["L"] = "waiting" /\ Decodes(codec["L"], m) /\ m.type = "HELLO"
        /\ Send("L", c, m.src, "HELLO_ACK", ChallengeResponse(c, m.payload))
        /\ challenge' = [challenge EXCEPT !["L"] = m.payload]
        /\ acked' = acked \cup {<<c.key, m.payload>>}
        /\ phase' = [phase EXCEPT !["L"] = "connected"]
        /\ log' = [log EXCEPT !["L"] = <<>>]
        /\ UNCHANGED <<incarnation, lastChallenge, staleBye>>
    BY <1>1 DEF AcceptHello
  <2> HIDE DEF c
  <2>3. /\ codec' \in [Process -> CodecSet]
        /\ \A q \in Process : codec'[q].key = codec[q].key
        /\ \A q \in Process : q # "L" => codec'[q] = codec[q]
        /\ codec'["L"].recvNonce = 0
    BY <1>0, <2>1, <2>2, SendFacts, ZenonT(30)
  <2>4. PICK a : /\ net' = net \cup {a} /\ a.type = "HELLO_ACK"
                 /\ a.payload = ChallengeResponse(c, m.payload)
                 /\ a.hmac = c.key /\ a.nonce \in 0..MaxNonce
                 /\ c.key # NoKey => a.nonce # 0
    BY <1>0, <2>1, <2>2, SendFacts, SMTT(40)
  <2>5. /\ m.hmac = codec["L"].key /\ m.hmac = codec["C"].key
        /\ m.payload \in 1..MaxChallenge
    BY <2>2 DEF IInv, NetInv, Decodes, VerifyHMAC, Handshake, IsSecure
  <2>6. TypeOK'
    <3>1. acked' \subseteq (Keys \cup {NoKey}) \X (1..MaxChallenge)
      BY <1>0, <2>1, <2>2, <2>5, SMTT(40) DEF TypeOK, CodecSet
    <3>2. challenge' \in [Process -> 0..MaxChallenge]
      BY <1>0, <2>2, <2>5, SMTT(40) DEF TypeOK
    <3>3. log' \in [Process -> Seq(1..MaxNonce)]
      BY <1>0, <2>2 DEF TypeOK
    <3>4. \A x \in net' : x.type \in Type /\ x.nonce \in 0..MaxNonce
      BY <1>0, <2>4, Zenon DEF TypeOK
    <3>5. phase' \in [Process -> {"waiting", "start", "hello", "backoff",
                                  "connected", "ended"}]
      BY <1>0, <2>2 DEF TypeOK
    <3> QED
      BY <1>0, <2>2, <2>3, <3>1, <3>2, <3>3, <3>4, <3>5, Zenon DEF TypeOK, CodecSet
  <2>7. NetInv'
    BY <1>0, <2>1, <2>2, <2>3, <2>4
    DEF IInv, NetInv, ChallengeResponse, IsSecure
  <2>8. LogInv' /\ InOrderOnce'
    BY <1>0, <2>2, <2>3 DEF IInv, TypeOK, LogInv, InOrderOnce, Process
  <2>9. KeysMustMatch'
    BY <1>0, <2>3, <2>5, Zenon DEF KeysMustMatch
  <2>10. ChallengeAgreement'
    BY <1>0, <2>2, <2>3, Zenon DEF IInv, TypeOK, ChallengeAgreement, IsSecure
  <2> QED
    BY <2>6, <2>7, <2>8, <2>9, <2>10 DEF IInv
<1>2. ASSUME NEW m \in net, RefuseWithBye(m) PROVE IInv'
  <2> DEFINE c == AfterDecode(codec["L"], m)
  <2>1. /\ c \in CodecSet /\ c.key = codec["L"].key
    BY <1>0, CodecOps, Zenon
  <2>2. /\ phase["L"] = "waiting"
        /\ Send("L", c, m.src, "BYE", incarnation["L"])
        /\ UNCHANGED <<phase, incarnation, peerAddr, challenge, lastChallenge,
                       acked, log, staleBye>>
    BY <1>2 DEF RefuseWithBye
  <2> HIDE DEF c
  <2>3. /\ codec' \in [Process -> CodecSet]
        /\ \A q \in Process : codec'[q].key = codec[q].key
        /\ \A q \in Process : q # "L" => codec'[q] = codec[q]
        /\ \A x \in net' : x.type \in Type /\ x.nonce \in 0..MaxNonce
        /\ NetInv'
    BY <1>0, <2>1, <2>2, PlainSend, Zenon
  <2>4. TypeOK'
    BY <1>0, <2>2, <2>3, Zenon DEF TypeOK, CodecSet
  <2>5. LogInv' /\ InOrderOnce'
    BY <1>0, <2>2, <2>3 DEF IInv, LogInv, InOrderOnce
  <2>6. KeysMustMatch' /\ ChallengeAgreement'
    BY <1>0, <2>2, <2>3 DEF IInv, KeysMustMatch, ChallengeAgreement, IsSecure
  <2> QED
    BY <2>3, <2>4, <2>5, <2>6 DEF IInv
<1>3. ASSUME NEW m \in net, ReceiveHelloAck(m) PROVE IInv'
  <2> DEFINE c == ResetRecvNonce(codec["C"])
  <2>1. /\ c \in CodecSet /\ c.key = codec["C"].key
    BY <1>0, CodecOps
  <2>2. /\ phase["C"] = "hello" /\ Decodes(codec["C"], m)
        /\ m.type = "HELLO_ACK"
        /\ UNCHANGED <<incarnation, peerAddr, challenge, lastChallenge, net,
                       acked, staleBye>>
    BY <1>3 DEF ReceiveHelloAck
  <2>3. CASE AckVerified(m)
    <3>1. /\ codec' = [codec EXCEPT !["C"] = c]
          /\ phase' = [phase EXCEPT !["C"] = "connected"]
          /\ log' = [log EXCEPT !["C"] = <<>>]
      BY <1>3, <2>3 DEF ReceiveHelloAck
    <3> HIDE DEF c
    <3>2. /\ codec' \in [Process -> CodecSet]
          /\ \A q \in Process : codec'[q].key = codec[q].key
          /\ \A q \in Process : q # "C" => codec'[q] = codec[q]
      BY <1>0, <2>1, <3>1
    <3>3. m.hmac = codec["C"].key /\ m.hmac = codec["L"].key
      BY <2>2 DEF IInv, NetInv, Decodes, VerifyHMAC, Handshake, IsSecure
    <3>4. IsSecure(codec["C"]) => <<codec["C"].key, challenge["C"]>> \in acked
      BY <2>2, <2>3, <3>3 DEF IInv, NetInv, AckVerified, IsSecure,
                              VerifyChallengeResponse, ChallengeResponse
    <3>5. TypeOK'
      <4>1. log' \in [Process -> Seq(1..MaxNonce)]
        BY <1>0, <3>1 DEF TypeOK
      <4>2. phase' \in [Process -> {"waiting", "start", "hello", "backoff",
                                    "connected", "ended"}]
        BY <1>0, <3>1 DEF TypeOK
      <4> QED
        BY <1>0, <2>2, <3>2, <4>1, <4>2, Zenon DEF TypeOK, CodecSet
    <3>6. NetInv'
      BY <1>0, <2>2, <3>2 DEF IInv, NetInv
    <3>7. LogInv' /\ InOrderOnce'
      BY <1>0, <3>1, <3>2 DEF IInv, TypeOK, LogInv, InOrderOnce, Process
    <3>8. KeysMustMatch' /\ ChallengeAgreement'
      BY <1>0, <2>2, <3>2, <3>3, <3>4, Zenon
      DEF KeysMustMatch, ChallengeAgreement, IsSecure
    <3> QED
      BY <3>5, <3>6, <3>7, <3>8 DEF IInv
  <2>4. CASE ~AckVerified(m)
    <3>1. /\ phase' = [phase EXCEPT !["C"] = "backoff"]
          /\ UNCHANGED <<codec, log>>
      BY <1>3, <2>4 DEF ReceiveHelloAck
    <3>2. TypeOK'
      BY <1>0, <2>2, <3>1, Zenon DEF TypeOK
    <3>3. NetInv' /\ KeysMustMatch' /\ ChallengeAgreement'
      BY <1>0, <2>2, <3>1, Zenon
      DEF IInv, TypeOK, NetInv, KeysMustMatch, ChallengeAgreement, IsSecure
    <3>4. LogInv' /\ InOrderOnce'
      BY <1>0, <2>2, <3>1, Zenon DEF IInv, TypeOK, LogInv, InOrderOnce, Process
    <3> QED
      BY <3>2, <3>3, <3>4 DEF IInv
  <2> QED
    BY <2>3, <2>4
<1>4. ASSUME NEW m \in net, SkipWhileHello(m) PROVE IInv'
  <2> DEFINE c == AfterDecode(codec["C"], m)
  <2>1. /\ c \in CodecSet /\ c.key = codec["C"].key
    BY <1>0, CodecOps, Zenon
  <2>2. /\ phase["C"] = "hello"
        /\ codec' = [codec EXCEPT !["C"] = c]
        /\ UNCHANGED <<phase, incarnation, peerAddr, challenge, lastChallenge,
                       net, acked, log, staleBye>>
    BY <1>4 DEF SkipWhileHello
  <2> HIDE DEF c
  <2>3. /\ codec' \in [Process -> CodecSet]
        /\ \A q \in Process : codec'[q].key = codec[q].key
        /\ \A q \in Process : q # "C" => codec'[q] = codec[q]
    BY <1>0, <2>1, <2>2
  <2>4. TypeOK'
    BY <1>0, <2>2, <2>3, Zenon DEF TypeOK, CodecSet
  <2>5. LogInv' /\ InOrderOnce'
    BY <1>0, <2>2, <2>3 DEF IInv, LogInv, InOrderOnce
  <2>6. NetInv' /\ KeysMustMatch' /\ ChallengeAgreement'
    BY <1>0, <2>2, <2>3
    DEF IInv, NetInv, KeysMustMatch, ChallengeAgreement, IsSecure
  <2> QED
    BY <2>4, <2>5, <2>6 DEF IInv
<1>5. ASSUME NEW m \in net, NEW p \in Process, RecvData(p, m) PROVE IInv'
  <2> DEFINE c == AfterDecode(codec[p], m)
  <2>1. /\ c \in CodecSet /\ c.key = codec[p].key
    BY <1>0, CodecOps, Zenon
  <2>2. /\ phase[p] = "connected" /\ Decodes(codec[p], m)
        /\ m.type \notin Handshake /\ Accept(p, m)
        /\ UNCHANGED <<phase, incarnation, peerAddr, challenge, lastChallenge,
                       acked, staleBye>>
    BY <1>5 DEF RecvData, FromPeer, Handshake
  <2>3. /\ log' \in [Process -> Seq(1..MaxNonce)]
        /\ \A q \in Process : q # p => log'[q] = log[q]
        /\ \A i \in DOMAIN log'[p] : log'[p][i] <= c.recvNonce
        /\ \A i, j \in DOMAIN log'[p] : i < j => log'[p][i] < log'[p][j]
    BY <2>2, AcceptFacts
  <2>4. \/ Send(p, c, peerAddr[p], "PONG", 0)
        \/ codec' = [codec EXCEPT ![p] = c] /\ net' = net
    BY <1>5 DEF RecvData
  <2> HIDE DEF c
  <2>5. /\ codec' \in [Process -> CodecSet]
        /\ \A q \in Process : codec'[q].key = codec[q].key
        /\ \A q \in Process : q # p => codec'[q] = codec[q]
        /\ codec'[p].recvNonce = c.recvNonce
        /\ \A x \in net' : x.type \in Type /\ x.nonce \in 0..MaxNonce
        /\ NetInv'
    <3>1. CASE Send(p, c, peerAddr[p], "PONG", 0)
      BY <1>0, <2>1, <2>2, <3>1, PlainSend, Zenon
    <3>2. CASE codec' = [codec EXCEPT ![p] = c] /\ net' = net
      <4>1. /\ codec' \in [Process -> CodecSet]
            /\ \A q \in Process : codec'[q].key = codec[q].key
            /\ \A q \in Process : q # p => codec'[q] = codec[q]
            /\ codec'[p].recvNonce = c.recvNonce
        BY <1>0, <2>1, <3>2
      <4> QED
        BY <1>0, <2>2, <3>2, <4>1, ZenonT(30) DEF IInv, TypeOK, NetInv
    <3> QED
      BY <2>4, <3>1, <3>2
  <2>6. TypeOK'
    BY <1>0, <2>2, <2>3, <2>5, Zenon DEF TypeOK, CodecSet
  <2>7. LogInv' /\ InOrderOnce'
    BY <1>0, <2>2, <2>3, <2>5, ZenonT(30) DEF IInv, LogInv, InOrderOnce
  <2>8. KeysMustMatch' /\ ChallengeAgreement'
    BY <1>0, <2>2, <2>5 DEF IInv, KeysMustMatch, ChallengeAgreement, IsSecure
  <2> QED
    BY <2>5, <2>6, <2>7, <2>8 DEF IInv
<1>6. ASSUME NEW m \in net, NEW p \in Process, RecvBye(p, m) PROVE IInv'
  <2> DEFINE c == AfterDecode(codec[p], m)
  <2>1. /\ c \in CodecSet /\ c.key = codec[p].key
    BY <1>0, CodecOps, Zenon
  <2>2. /\ phase[p] = "connected" /\ Decodes(codec[p], m)
        /\ m.type \notin Handshake /\ Accept(p, m)
        /\ codec' = [codec EXCEPT ![p] = c]
        /\ phase' = [phase EXCEPT ![p] = "ended"]
        /\ UNCHANGED <<incarnation, peerAddr, challenge, lastChallenge, net,
                       acked, staleBye>>
    BY <1>6 DEF RecvBye, FromPeer, Handshake
  <2>3. /\ log' \in [Process -> Seq(1..MaxNonce)]
        /\ \A q \in Process : q # p => log'[q] = log[q]
        /\ \A i \in DOMAIN log'[p] : log'[p][i] <= c.recvNonce
        /\ \A i, j \in DOMAIN log'[p] : i < j => log'[p][i] < log'[p][j]
    BY <2>2, AcceptFacts
  <2> HIDE DEF c
  <2>4. /\ codec' \in [Process -> CodecSet]
        /\ \A q \in Process : codec'[q].key = codec[q].key
        /\ \A q \in Process : q # p => codec'[q] = codec[q]
        /\ codec'[p].recvNonce = c.recvNonce
    BY <1>0, <2>1, <2>2
  <2>5. /\ phase' \in [Process -> {"waiting", "start", "hello", "backoff",
                                   "connected", "ended"}]
        /\ phase'[p] = "ended" /\ \A q \in Process : q # p => phase'[q] = phase[q]
    BY <1>0, <2>2 DEF TypeOK
  <2>6. TypeOK'
    BY <1>0, <2>2, <2>3, <2>4, <2>5, Zenon DEF TypeOK, CodecSet
  <2>7. LogInv' /\ InOrderOnce'
    BY <1>0, <2>3, <2>4, <2>5, ZenonT(30) DEF IInv, LogInv, InOrderOnce
  <2>8. NetInv' /\ KeysMustMatch' /\ ChallengeAgreement'
    BY <1>0, <2>2, <2>4, <2>5
    DEF IInv, NetInv, KeysMustMatch, ChallengeAgreement, IsSecure
  <2> QED
    BY <2>6, <2>7, <2>8 DEF IInv
<1>7. ASSUME NEW m \in net, NEW p \in Process, DropBye(p, m) PROVE IInv'
  <2>1. /\ staleBye' = TRUE
        /\ UNCHANGED <<phase, codec, incarnation, challenge, lastChallenge, net,
                       acked, log>>
    BY <1>7 DEF DropBye
  <2>2. TypeOK' /\ LogInv' /\ InOrderOnce'
    BY <2>1, Zenon DEF IInv, TypeOK, LogInv, InOrderOnce
  <2>3. NetInv' /\ KeysMustMatch' /\ ChallengeAgreement'
    BY <2>1 DEF IInv, NetInv, KeysMustMatch, ChallengeAgreement, IsSecure
  <2> QED
    BY <2>2, <2>3 DEF IInv
<1>8. CASE SendHello
  <2> DEFINE c == IF phase["C"] = "backoff" THEN ResetRecvNonce(codec["C"])
                                            ELSE codec["C"]
  <2>1. /\ c \in CodecSet /\ c.key = codec["C"].key
    BY <1>0, CodecOps
  <2>2. /\ phase["C"] \in {"start", "backoff"} /\ lastChallenge < MaxChallenge
        /\ lastChallenge' = lastChallenge + 1
        /\ challenge' = [challenge EXCEPT !["C"] = lastChallenge']
        /\ Send("C", c, peerAddr["C"], "HELLO", lastChallenge')
        /\ phase' = [phase EXCEPT !["C"] = "hello"]
        /\ UNCHANGED <<incarnation, peerAddr, acked, log, staleBye>>
    BY <1>8 DEF SendHello
  <2> HIDE DEF c
  <2>3. /\ codec' \in [Process -> CodecSet]
        /\ \A q \in Process : codec'[q].key = codec[q].key
        /\ \A q \in Process : q # "C" => codec'[q] = codec[q]
    BY <1>0, <2>1, <2>2, SendFacts, Zenon
  <2>4. PICK a : /\ net' = net \cup {a} /\ a.type = "HELLO"
                 /\ a.payload = lastChallenge'
                 /\ a.hmac = c.key /\ a.nonce \in 0..MaxNonce
                 /\ c.key # NoKey => a.nonce # 0
    <3>1. PICK n : n = lastChallenge'
      OBVIOUS
    <3>2. Send("C", c, peerAddr["C"], "HELLO", n)
      BY <2>2, <3>1
    <3> QED
      BY <1>0, <2>1, <3>1, <3>2, SendFacts
  <2>5. lastChallenge' \in 1..MaxChallenge
    BY <1>0, <2>2 DEF TypeOK
  <2>6. /\ phase' \in [Process -> {"waiting", "start", "hello", "backoff",
                                   "connected", "ended"}]
        /\ phase'["C"] = "hello" /\ phase'["L"] = phase["L"]
    BY <1>0, <2>2 DEF TypeOK
  <2>7. TypeOK'
    <3>1. /\ challenge' \in [Process -> 0..MaxChallenge]
          /\ lastChallenge' \in 0..MaxChallenge
      BY <1>0, <2>2, <2>5 DEF TypeOK
    <3>2. \A x \in net' : x.type \in Type /\ x.nonce \in 0..MaxNonce
      BY <1>0, <2>4, Zenon DEF TypeOK
    <3> QED
      BY <1>0, <2>2, <2>3, <2>6, <3>1, <3>2, Zenon DEF TypeOK, CodecSet
  <2>8. NetInv'
    BY <1>0, <2>1, <2>2, <2>3, <2>4, <2>5 DEF IInv, NetInv
  <2>9. LogInv' /\ InOrderOnce'
    <3>1. log["C"] = <<>>
      BY <1>0, <2>2 DEF IInv, LogInv
    <3> QED
      BY <1>0, <2>2, <2>3, <2>6, <3>1 DEF IInv, LogInv, InOrderOnce, Process
  <2>10. KeysMustMatch' /\ ChallengeAgreement'
    BY <1>0, <2>2, <2>3, <2>6
    DEF IInv, KeysMustMatch, ChallengeAgreement, Process
  <2> QED
    BY <2>7, <2>8, <2>9, <2>10 DEF IInv
<1>9. CASE AttemptFails
  <2>1. /\ phase["C"] = "hello" /\ phase' = [phase EXCEPT !["C"] = "backoff"]
        /\ UNCHANGED <<codec, incarnation, challenge, lastChallenge, net, acked,
                       log, staleBye>>
    BY <1>9 DEF AttemptFails
  <2>2. TypeOK'
    BY <1>0, <2>1, Zenon DEF TypeOK
  <2>3. NetInv' /\ KeysMustMatch' /\ ChallengeAgreement'
    BY <1>0, <2>1
    DEF IInv, TypeOK, NetInv, KeysMustMatch, ChallengeAgreement, IsSecure
  <2>4. LogInv' /\ InOrderOnce'
    BY <1>0, <2>1, Zenon DEF IInv, TypeOK, LogInv, InOrderOnce, Process
  <2> QED
    BY <2>2, <2>3, <2>4 DEF IInv
<1>10. ASSUME NEW p \in Process, SendData(p) PROVE IInv'
  <2>1. PICK type \in {"FRAME", "PING"} : Send(p, codec[p], peerAddr[p], type, 0)
    BY <1>10 DEF SendData
  <2>2. UNCHANGED <<phase, incarnation, challenge, lastChallenge, acked, log,
                    staleBye>>
    BY <1>10 DEF SendData
  <2>3. /\ codec' \in [Process -> CodecSet]
        /\ \A q \in Process : codec'[q].key = codec[q].key
        /\ \A q \in Process : codec'[q].recvNonce = codec[q].recvNonce
        /\ \A x \in net' : x.type \in Type /\ x.nonce \in 0..MaxNonce
        /\ NetInv'
    <3>1. /\ codec[p] \in CodecSet /\ acked' = acked
          /\ type \in {"FRAME", "PING", "PONG", "BYE"}
      BY <1>0, <2>2
    <3>2. /\ codec' \in [Process -> CodecSet]
          /\ \A q \in Process : codec'[q].key = codec[q].key
          /\ \A q \in Process : q # p => codec'[q] = codec[q]
          /\ codec'[p].recvNonce = codec[p].recvNonce
          /\ \A x \in net' : x.type \in Type /\ x.nonce \in 0..MaxNonce
          /\ NetInv'
      BY <2>1, <3>1, PlainSend, Zenon
    <3> QED
      BY <3>2
  <2>4. TypeOK'
    BY <1>0, <2>2, <2>3, Zenon DEF TypeOK, CodecSet
  <2>5. LogInv' /\ InOrderOnce'
    BY <1>0, <2>2, <2>3 DEF IInv, LogInv, InOrderOnce
  <2>6. KeysMustMatch' /\ ChallengeAgreement'
    BY <1>0, <2>2, <2>3 DEF IInv, KeysMustMatch, ChallengeAgreement, IsSecure
  <2> QED
    BY <2>3, <2>4, <2>5, <2>6 DEF IInv
<1>11. ASSUME NEW p \in Process, Shutdown(p) PROVE IInv'
  <2>1. /\ phase[p] = "connected"
        /\ Send(p, codec[p], peerAddr[p], "BYE", incarnation[p])
        /\ phase' = [phase EXCEPT ![p] = "ended"]
        /\ UNCHANGED <<incarnation, challenge, lastChallenge, acked, log,
                       staleBye>>
    BY <1>11 DEF Shutdown
  <2>2. /\ codec' \in [Process -> CodecSet]
        /\ \A q \in Process : codec'[q].key = codec[q].key
        /\ \A q \in Process : codec'[q].recvNonce = codec[q].recvNonce
        /\ \A x \in net' : x.type \in Type /\ x.nonce \in 0..MaxNonce
        /\ NetInv'
    BY <1>0, <2>1, PlainSend, Zenon
  <2>3. /\ phase' \in [Process -> {"waiting", "start", "hello", "backoff",
                                   "connected", "ended"}]
        /\ phase'[p] = "ended" /\ \A q \in Process : q # p => phase'[q] = phase[q]
    BY <1>0, <2>1 DEF TypeOK
  <2>4. TypeOK'
    BY <1>0, <2>1, <2>2, <2>3, Zenon DEF TypeOK, CodecSet
  <2>5. LogInv' /\ InOrderOnce'
    BY <1>0, <2>1, <2>2, <2>3 DEF IInv, LogInv, InOrderOnce
  <2>6. KeysMustMatch' /\ ChallengeAgreement'
    BY <1>0, <2>1, <2>2, <2>3
    DEF IInv, KeysMustMatch, ChallengeAgreement, IsSecure
  <2> QED
    BY <2>2, <2>4, <2>5, <2>6 DEF IInv
<1>12. ASSUME NEW p \in Process, EndSilently(p) PROVE IInv'
  <2>1. /\ phase' = [phase EXCEPT ![p] = "ended"]
        /\ UNCHANGED <<codec, incarnation, challenge, lastChallenge, net, acked,
                       log, staleBye>>
    BY <1>12 DEF EndSilently
  <2>2. /\ phase' \in [Process -> {"waiting", "start", "hello", "backoff",
                                   "connected", "ended"}]
        /\ phase'[p] = "ended" /\ \A q \in Process : q # p => phase'[q] = phase[q]
    BY <1>0, <2>1 DEF TypeOK
  <2>3. TypeOK' /\ NetInv' /\ LogInv' /\ InOrderOnce'
    BY <1>0, <2>1, <2>2, Zenon DEF IInv, TypeOK, NetInv, LogInv, InOrderOnce
  <2>4. KeysMustMatch' /\ ChallengeAgreement'
    BY <1>0, <2>1, <2>2 DEF IInv, KeysMustMatch, ChallengeAgreement, IsSecure
  <2> QED
    BY <2>3, <2>4 DEF IInv
<1>13. ASSUME NEW p \in Process, Restart(p) PROVE IInv'
  <2> DEFINE c == NewCodec(codec[p].key)
  <2>1. c \in CodecSet /\ c.key = codec[p].key
    BY <1>0 DEF NewCodec, CodecSet
  <2>2. /\ incarnation[p] < MaxRestart
        /\ incarnation' = [incarnation EXCEPT ![p] = @ + 1]
        /\ phase' = [phase EXCEPT ![p] = FirstPhase(p)]
        /\ codec' = [codec EXCEPT ![p] = c]
        /\ challenge' = [challenge EXCEPT ![p] = 0]
        /\ log' = [log EXCEPT ![p] = <<>>]
        /\ UNCHANGED <<lastChallenge, net, acked, staleBye>>
    BY <1>13 DEF Restart
  <2> HIDE DEF c
  <2>3. /\ codec' \in [Process -> CodecSet]
        /\ \A q \in Process : codec'[q].key = codec[q].key
        /\ \A q \in Process : q # p => codec'[q] = codec[q]
    BY <1>0, <2>1, <2>2
  <2>4. /\ phase' \in [Process -> {"waiting", "start", "hello", "backoff",
                                   "connected", "ended"}]
        /\ phase'[p] \in {"waiting", "start"}
        /\ \A q \in Process : q # p => phase'[q] = phase[q]
    BY <1>0, <2>2 DEF TypeOK, FirstPhase
  <2>5. /\ log' \in [Process -> Seq(1..MaxNonce)] /\ log'[p] = <<>>
        /\ \A q \in Process : q # p => log'[q] = log[q]
    BY <1>0, <2>2 DEF TypeOK
  <2>6. /\ challenge' \in [Process -> 0..MaxChallenge]
        /\ \A q \in Process : q # p => challenge'[q] = challenge[q]
    BY <1>0, <2>2 DEF TypeOK
  <2>7. TypeOK'
    <3>1. incarnation' \in [Process -> 0..MaxRestart]
      <4>1. incarnation \in [Process -> 0..MaxRestart]
        BY <1>0 DEF TypeOK
      <4>2. incarnation[p] + 1 \in 0..MaxRestart
        BY <2>2, <4>1
      <4> QED
        BY <2>2, <4>1, <4>2
    <3> QED
      BY <1>0, <2>2, <2>3, <2>4, <2>5, <2>6, <3>1, Zenon DEF TypeOK, CodecSet
  <2>8. LogInv' /\ InOrderOnce'
    <3>1. DOMAIN log'[p] = {}
      BY <2>5
    <3>2. LogInv'
      BY <1>0, <2>3, <2>4, <2>5, <3>1, Zenon DEF IInv, LogInv
    <3>3. InOrderOnce'
      BY <2>5, <3>1, Zenon DEF IInv, InOrderOnce
    <3> QED
      BY <3>2, <3>3
  <2>9. NetInv'
    BY <1>0, <2>2, <2>3 DEF IInv, NetInv
  <2>10. KeysMustMatch' /\ ChallengeAgreement'
    BY <1>0, <2>2, <2>3, <2>4, <2>6, Zenon
    DEF IInv, KeysMustMatch, ChallengeAgreement, IsSecure
  <2> QED
    BY <2>7, <2>8, <2>9, <2>10 DEF IInv
<1>14. CASE UNCHANGED vars
  BY <1>14, Zenon DEF vars, IInv, TypeOK, NetInv, LogInv, KeysMustMatch,
               ChallengeAgreement, InOrderOnce, IsSecure
<1> QED
  BY <1>1, <1>2, <1>3, <1>4, <1>5, <1>6, <1>7, <1>8, <1>9, <1>10, <1>11, <1>12,
     <1>13, <1>14 DEF Next

\* The inductive invariant holds in every reachable state.
LEMMA Invariance == Spec => []IInv
<1> QED
  BY InitInv, StepInv, PTL DEF Spec

-----------------------------------------------------------------------------
\* The two processes' state stays well typed: no nonce or challenge leaves its
\* range and every message in the network has a known type.
THEOREM TypeCorrect == Spec => []TypeOK
<1>1. IInv => TypeOK
  BY DEF IInv
<1> QED
  BY <1>1, Invariance, PTL

\* WaitForPeer and attemptHandshake never connect processes whose keys differ,
\* whatever the network delivers and however often either is restarted.
THEOREM OnlyMatchingKeysConnect == Spec => []KeysMustMatch
<1>1. IInv => KeysMustMatch
  BY DEF IInv
<1> QED
  BY <1>1, Invariance, PTL

\* attemptHandshake connects a keyed connector only on the answer to its
\* latest challenge.
THEOREM ConnectedIsAnswered == Spec => []ChallengeAgreement
<1>1. IInv => ChallengeAgreement
  BY DEF IInv
<1> QED
  BY <1>1, Invariance, PTL

\* recvLoop with a key handles no message twice and none out of order, over a
\* network that duplicates and reorders without limit.
THEOREM ReplayProtection == Spec => []InOrderOnce
<1>1. IInv => InOrderOnce
  BY DEF IInv
<1> QED
  BY <1>1, Invariance, PTL
=============================================================================
