------------------------------- MODULE Codec -------------------------------
(***************************************************************************)
(* protocol.Codec: what encode and decode do to a message and to the two    *)
(* nonce counters.  A message is a record; its HMAC is the key it was made  *)
(* with (nobody else can make it), NoKey when the sender runs without one.  *)
(* The 64-bit nonces do not wrap at any rate a network can carry.           *)
(***************************************************************************)
EXTENDS Naturals

CONSTANT NoKey      \* insecure mode

NewCodec(key) == [key |-> key, sendNonce |-> 0, recvNonce |-> 0]

IsSecure(c) == c.key # NoKey

\* nextNonce is called by encode in secure mode only.
AfterEncode(c) ==
  [c EXCEPT !.sendNonce = IF IsSecure(c) THEN c.sendNonce + 1
                                          ELSE c.sendNonce]

\* encode: Type, Nonce, Payload, HMAC; or Type and Payload alone.
Encode(c, src, dst, type, payload) ==
  [src |-> src, dst |-> dst, type |-> type, payload |-> payload,
   nonce |-> AfterEncode(c).sendNonce, hmac |-> c.key]

\* HMAC-SHA256(key, challenge), or zeros without a key.
ChallengeResponse(c, challenge) ==
  IF IsSecure(c) THEN <<c.key, challenge>> ELSE <<NoKey, 0>>

VerifyChallengeResponse(c, challenge, response) ==
  ~IsSecure(c) \/ response = ChallengeResponse(c, challenge)

Handshake == {"HELLO", "HELLO_ACK"}

\* Mutant: the signature is not looked at.
VerifyHMAC_Skipped(c, m) == TRUE

\* A secure codec wants its own key's HMAC; a bare message is too short or
\* fails the comparison.
VerifyHMAC(c, m) == m.hmac = c.key

\* Mutant: equal nonces pass.
FreshNonceOrSame(c, m) == m.nonce = 0 \/ m.nonce >= c.recvNonce

\* Mutant: off by one, the next nonce is rejected too.
FreshNonceAfterNext(c, m) == m.nonce = 0 \/ m.nonce > c.recvNonce + 1

\* Replay protection: 0 passes, any other nonce must grow.
FreshNonce(c, m) == m.nonce = 0 \/ m.nonce > c.recvNonce

\* Decode succeeds.  Without a key, nonce and HMAC of a secure message are
\* taken for payload: its HELLO and HELLO_ACK then show a wrong version.
Decodes(c, m) ==
  IF IsSecure(c)
    THEN VerifyHMAC(c, m) /\ (m.type \in Handshake \/ FreshNonce(c, m))
    ELSE m.type \in Handshake => m.hmac = NoKey

\* What a successful Decode leaves behind.
AfterDecode(c, m) ==
  IF IsSecure(c) /\ m.type \notin Handshake
    THEN [c EXCEPT !.recvNonce = m.nonce]
    ELSE c

ResetRecvNonce(c) == [c EXCEPT !.recvNonce = 0]
=============================================================================
