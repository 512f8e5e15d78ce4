------------------------------ MODULE Session ------------------------------
(***************************************************************************)
(* Two xbslink-ng processes, the listener "L" and the connector "C": the    *)
(* handshake of the transports, the messages of a session, BYE, shutdown,   *)
(* crash and restart, over a network that delays, reorders, duplicates and  *)
(* loses.  A message once sent stays in net: it may be delivered at any     *)
(* later time, any number of times, or never.                               *)
(*                                                                         *)
(* A process whose session is over stays "ended" until the user starts it   *)
(* again: after a BYE or a keep-alive timeout Run does not return by itself *)
(* (see DisconnectReturns in module Bridge).                                *)
(***************************************************************************)
EXTENDS Codec, Sequences

CONSTANTS
  Keys,           \* pre-shared keys users may choose
  FixedPort,      \* the connector is started with --port
  MaxNonce,       \* bound: messages a process encodes in secure mode
  MaxChallenge,   \* bound: handshake attempts
  MaxRestart      \* bound: restarts of a process

ASSUME SessionAssumption ==
  /\ NoKey \notin Keys
  /\ FixedPort \in BOOLEAN
  /\ MaxNonce \in Nat /\ MaxChallenge \in Nat /\ MaxRestart \in Nat

VARIABLES
  phase,          \* progress of a process
  codec,          \* its protocol.Codec
  incarnation,    \* how often it was restarted
  peerAddr,       \* t.peerAddr
  challenge,      \* t.challenge; 0: none
  lastChallenge,  \* challenges are drawn at random: the last one drawn
  net,            \* all messages ever sent
  acked,          \* history: challenges answered by a HELLO_ACK, with the key
  log,            \* history: nonces accepted by recvLoop in this session
  staleBye        \* history: recvLoop dropped a BYE of its own peer process

vars == <<phase, codec, incarnation, peerAddr, challenge, lastChallenge, net,
          acked, log, staleBye>>

Process == {"L", "C"}
Type == {"HELLO", "HELLO_ACK", "FRAME", "PING", "PONG", "BYE"}
Nobody == <<"nobody", 0>>

\* The listener has a fixed port; the connector's is assigned by the system
\* unless --port is given.
Addr(p) == <<p, IF p = "L" \/ FixedPort THEN 0 ELSE incarnation[p]>>
Other(p) == IF p = "L" THEN "C" ELSE "L"

TypeOK ==
  /\ phase \in [Process -> {"waiting", "start", "hello", "backoff",
                            "connected", "ended"}]
  /\ codec \in [Process -> [key : Keys \cup {NoKey}, sendNonce : 0..MaxNonce,
                            recvNonce : 0..MaxNonce]]
  /\ incarnation \in [Process -> 0..MaxRestart]
  /\ challenge \in [Process -> 0..MaxChallenge]
  /\ lastChallenge \in 0..MaxChallenge
  /\ acked \subseteq (Keys \cup {NoKey}) \X (1..MaxChallenge)
  /\ log \in [Process -> Seq(1..MaxNonce)]
  /\ staleBye \in BOOLEAN
  /\ \A m \in net : m.type \in Type /\ m.nonce \in 0..MaxNonce

FirstPhase(p) == IF p = "L" THEN "waiting" ELSE "start"

Init ==
  /\ phase = [p \in Process |-> FirstPhase(p)]
  /\ \E key \in [Process -> Keys \cup {NoKey}] :
       codec = [p \in Process |-> NewCodec(key[p])]
  /\ incarnation = [p \in Process |-> 0]
  /\ peerAddr = [p \in Process |-> IF p = "C" THEN <<"L", 0>> ELSE Nobody]
  /\ challenge = [p \in Process |-> 0]
  /\ lastChallenge = 0
  /\ net = {} /\ acked = {} /\ staleBye = FALSE
  /\ log = [p \in Process |-> <<>>]

-----------------------------------------------------------------------------
CanSend(c) == c.sendNonce < MaxNonce

\* Process p, whose codec is c by now, encodes a message and sends it.  (A
\* BYE has no payload; the one in the model tells which process sent it.)
Send(p, c, dst, type, payload) ==
  /\ CanSend(c)
  /\ net' = net \cup {Encode(c, Addr(p), dst, type, payload)}
  /\ codec' = [codec EXCEPT ![p] = AfterEncode(c)]

Arrives(p, m) == m \in net /\ m.dst = Addr(p)

-----------------------------------------------------------------------------
(* WaitForPeer. *)

\* A HELLO: remember peer and challenge, reset the nonce window, answer.
AcceptHello(m) ==
  LET c == ResetRecvNonce(AfterDecode(codec["L"], m)) IN
  /\ phase["L"] = "waiting"
  /\ Arrives("L", m) /\ Decodes(codec["L"], m)
  /\ m.type = "HELLO"
  /\ peerAddr' = [peerAddr EXCEPT !["L"] = m.src]
  /\ challenge' = [challenge EXCEPT !["L"] = m.payload]
  /\ Send("L", c, m.src, "HELLO_ACK", ChallengeResponse(c, m.payload))
  /\ acked' = acked \cup {<<c.key, m.payload>>}
  /\ phase' = [phase EXCEPT !["L"] = "connected"]
  /\ log' = [log EXCEPT !["L"] = <<>>]
  /\ UNCHANGED <<incarnation, lastChallenge, staleBye>>

\* Anything else that decodes: say BYE to ask for a fresh handshake.
RefuseWithBye(m) ==
  /\ phase["L"] = "waiting"
  /\ Arrives("L", m) /\ Decodes(codec["L"], m)
  /\ m.type # "HELLO"
  /\ Send("L", AfterDecode(codec["L"], m), m.src, "BYE", incarnation["L"])
  /\ UNCHANGED <<phase, incarnation, peerAddr, challenge, lastChallenge, acked,
                 log, staleBye>>

-----------------------------------------------------------------------------
(* Connect and attemptHandshake. *)

\* The first attempt, or the next one after the backoff, which begins by
\* resetting the nonce window.
SendHello ==
  LET c == IF phase["C"] = "backoff" THEN ResetRecvNonce(codec["C"])
                                     ELSE codec["C"] IN
  /\ phase["C"] \in {"start", "backoff"}
  /\ lastChallenge < MaxChallenge
  /\ lastChallenge' = lastChallenge + 1
  /\ challenge' = [challenge EXCEPT !["C"] = lastChallenge']
  /\ Send("C", c, peerAddr["C"], "HELLO", lastChallenge')
  /\ phase' = [phase EXCEPT !["C"] = "hello"]
  /\ UNCHANGED <<incarnation, peerAddr, acked, log, staleBye>>

\* Mutant: the response is not verified.
AckVerified_Skipped(m) == TRUE

AckVerified(m) ==
  VerifyChallengeResponse(codec["C"], challenge["C"], m.payload)

\* A HELLO_ACK: connected, or (a wrong response) the attempt has failed.
ReceiveHelloAck(m) ==
  /\ phase["C"] = "hello"
  /\ Arrives("C", m) /\ m.src = peerAddr["C"] /\ Decodes(codec["C"], m)
  /\ m.type = "HELLO_ACK"
  /\ IF AckVerified(m)
       THEN /\ codec' = [codec EXCEPT !["C"] = ResetRecvNonce(@)]
            /\ phase' = [phase EXCEPT !["C"] = "connected"]
            /\ log' = [log EXCEPT !["C"] = <<>>]
       ELSE /\ phase' = [phase EXCEPT !["C"] = "backoff"]
            /\ UNCHANGED <<codec, log>>
  /\ UNCHANGED <<incarnation, peerAddr, challenge, lastChallenge, net, acked,
                 staleBye>>

\* Any other message only moves the nonce window.
SkipWhileHello(m) ==
  /\ phase["C"] = "hello"
  /\ Arrives("C", m) /\ m.src = peerAddr["C"] /\ Decodes(codec["C"], m)
  /\ m.type # "HELLO_ACK"
  /\ codec' = [codec EXCEPT !["C"] = AfterDecode(@, m)]
  /\ UNCHANGED <<phase, incarnation, peerAddr, challenge, lastChallenge, net,
                 acked, log, staleBye>>

\* HandshakeTimeout, or a socket error.
AttemptFails ==
  /\ phase["C"] = "hello"
  /\ phase' = [phase EXCEPT !["C"] = "backoff"]
  /\ UNCHANGED <<codec, incarnation, peerAddr, challenge, lastChallenge, net,
                 acked, log, staleBye>>

-----------------------------------------------------------------------------
(* The connected bridge. *)

\* sendLoop and sendPing.
SendData(p) ==
  /\ phase[p] = "connected"
  /\ \E type \in {"FRAME", "PING"} : Send(p, codec[p], peerAddr[p], type, 0)
  /\ UNCHANGED <<phase, incarnation, peerAddr, challenge, lastChallenge, acked,
                 log, staleBye>>

FromPeer(p, m) ==
  /\ phase[p] = "connected"
  /\ Arrives(p, m) /\ m.src = peerAddr[p]

\* History: nonces exist in secure mode only.
Accept(p, m) ==
  log' = [log EXCEPT ![p] = IF IsSecure(codec[p]) THEN Append(@, m.nonce) ELSE @]

\* recvLoop: FRAME and PONG are consumed (see Bridge and KeepAlive), a PING is
\* answered.  HELLO and HELLO_ACK are "unexpected message type", no change.
RecvData(p, m) ==
  /\ FromPeer(p, m) /\ Decodes(codec[p], m)
  /\ m.type \in {"FRAME", "PING", "PONG"}
  /\ Accept(p, m)
  /\ IF m.type = "PING"
       THEN Send(p, AfterDecode(codec[p], m), peerAddr[p], "PONG", 0)
       ELSE codec' = [codec EXCEPT ![p] = AfterDecode(@, m)] /\ UNCHANGED net
  /\ UNCHANGED <<phase, incarnation, peerAddr, challenge, lastChallenge, acked,
                 staleBye>>

RecvBye(p, m) ==
  /\ FromPeer(p, m) /\ Decodes(codec[p], m)
  /\ m.type = "BYE"
  /\ Accept(p, m)
  /\ codec' = [codec EXCEPT ![p] = AfterDecode(@, m)]
  /\ phase' = [phase EXCEPT ![p] = "ended"]
  /\ UNCHANGED <<incarnation, peerAddr, challenge, lastChallenge, net, acked,
                 staleBye>>

\* recvLoop rejects the BYE of a peer process that is waiting for a HELLO.
\* (Any other message that does not decode changes nothing.)
DropBye(p, m) ==
  /\ FromPeer(p, m) /\ ~Decodes(codec[p], m)
  /\ m.type = "BYE" /\ m.payload = incarnation[Other(p)]
  /\ phase[Other(p)] = "waiting"
  /\ staleBye' = TRUE
  /\ UNCHANGED <<phase, codec, incarnation, peerAddr, challenge, lastChallenge,
                 net, acked, log>>

\* The user stops the program: SendBye when connected.
Shutdown(p) ==
  /\ phase[p] = "connected"
  /\ Send(p, codec[p], peerAddr[p], "BYE", incarnation[p])
  /\ phase' = [phase EXCEPT ![p] = "ended"]
  /\ UNCHANGED <<incarnation, peerAddr, challenge, lastChallenge, acked, log,
                 staleBye>>

\* The session ends without a BYE: the process crashed, or was stopped before
\* it connected, or its ping loop gave the peer up.
EndSilently(p) ==
  /\ phase[p] # "ended"
  /\ phase' = [phase EXCEPT ![p] = "ended"]
  /\ UNCHANGED <<codec, incarnation, peerAddr, challenge, lastChallenge, net,
                 acked, log, staleBye>>

\* A new process with the same command line; all its state is fresh.
Restart(p) ==
  /\ phase[p] = "ended"
  /\ incarnation[p] < MaxRestart
  /\ incarnation' = [incarnation EXCEPT ![p] = @ + 1]
  /\ phase' = [phase EXCEPT ![p] = FirstPhase(p)]
  /\ codec' = [codec EXCEPT ![p] = NewCodec(@.key)]
  /\ peerAddr' = [peerAddr EXCEPT ![p] = IF p = "C" THEN @ ELSE Nobody]
  /\ challenge' = [challenge EXCEPT ![p] = 0]
  /\ log' = [log EXCEPT ![p] = <<>>]
  /\ UNCHANGED <<lastChallenge, net, acked, staleBye>>

Next ==
  \/ \E m \in net : \/ AcceptHello(m) \/ RefuseWithBye(m)
                     \/ ReceiveHelloAck(m) \/ SkipWhileHello(m)
                     \/ \E p \in Process :
                          RecvData(p, m) \/ RecvBye(p, m) \/ DropBye(p, m)
  \/ SendHello \/ AttemptFails
  \/ \E p \in Process :
       SendData(p) \/ Shutdown(p) \/ EndSilently(p) \/ Restart(p)

Spec == Init /\ [][Next]_vars

-----------------------------------------------------------------------------
\* Only processes started with the same key (or both without one) connect,
\* whatever either side receives.
KeysMustMatch ==
  codec["L"].key # codec["C"].key => \A p \in Process : phase[p] # "connected"

\* With a key, a connected connector has had its latest challenge answered
\* by a listener that knows the key: the HELLO_ACK of an earlier attempt or of
\* an earlier process does not connect it.
ChallengeAgreement ==
  phase["C"] = "connected" /\ IsSecure(codec["C"])
    => <<codec["C"].key, challenge["C"]>> \in acked

\* With a key, what recvLoop accepts in one session has strictly growing
\* nonces: no message is handled twice and none after a later one, however the
\* network duplicates and reorders.
InOrderOnce ==
  \A p \in Process : \A i, j \in DOMAIN log[p] : i < j => log[p][i] < log[p][j]

\* "Send BYE to signal we need fresh handshake (enables sub-second session
\* reset detection)": a connected peer obeys the BYE of a restarted listener.
ResetByeObeyed == ~staleBye
=============================================================================
