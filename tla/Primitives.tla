----------------------------- MODULE Primitives -----------------------------
(***************************************************************************)
(* The exports of lib.rs that compute, and two functions behind others: a   *)
(* call, and what it returns or throws.  A call that throws leaves nothing  *)
(* behind; a panic would be one that throws, under catch_unwind.            *)
(***************************************************************************)
EXTENDS Curve, Cbc, Archive

CONSTANTS Text, Ciphertext, \* what is encrypted and decrypted
          Vector,     \* the initialisation vectors
          Entries     \* sequences of entries, in the order of their keys

\* What the selections read of an entry: -1 for an open one, and when it was
\* used.
Listed == [closed : Int, used : Int]

ASSUME PrimitivesAssumption ==
  /\ Text \subseteq Bytes /\ Ciphertext \subseteq Bytes /\ Vector \subseteq Blocks
  /\ Entries \subseteq Seq(Listed) \ {<<>>}

VARIABLES call, reply

vars == <<call, reply>>

NoCall == [op |-> "none"]
NoReply == [ok |-> FALSE, value |-> <<>>]
Throws == [ok |-> FALSE, value |-> <<>>]
Returns(v) == [ok |-> TRUE, value |-> v]

Init == call = NoCall /\ reply = NoReply

CurveGenerateKeypair ==
  /\ call = NoCall
  /\ \E seed \in Secret :
     /\ call' = [op |-> "generate", secret |-> seed]
     /\ reply' = IF Degenerate(seed) THEN Throws ELSE Returns(PublicOf(seed))

CurveScalarMultiply ==
  /\ call = NoCall
  /\ \E sk \in Secret, u \in PublicKey :
     /\ call' = [op |-> "multiply", secret |-> sk, key |-> u]
     /\ reply' = IF NonContributory(Shared(sk, u)) THEN Throws ELSE Returns(Shared(sk, u))

CurveSign ==
  /\ call = NoCall
  /\ \E sk \in Secret, msg \in Message, r \in Nonce :
     /\ call' = [op |-> "sign", secret |-> sk, msg |-> msg]
     /\ reply' = Returns(Signed(sk, msg, r))

CurveVerify ==
  /\ call = NoCall
  /\ \E u \in PublicKey, msg \in Message, R \in Point, S \in Secret :
     /\ call' = [op |-> "verify", key |-> u, msg |-> msg, sig |-> [R |-> R, S |-> S]]
     /\ reply' = Returns(Verifies(u, msg, [R |-> R, S |-> S]))

AesCbcEncrypt ==
  /\ call = NoCall
  /\ \E iv \in Vector, text \in Text :
     /\ call' = [op |-> "seal", iv |-> iv, text |-> text]
     /\ reply' = Returns(CbcEncrypt(iv, text))

AesCbcDecrypt ==
  /\ call = NoCall
  /\ \E iv \in Vector, bytes \in Ciphertext :
     /\ call' = [op |-> "unseal", iv |-> iv, bytes |-> bytes]
     /\ reply' = LET text == CbcDecrypt(iv, bytes) IN IF text = CbcError THEN Throws ELSE Returns(text)

\* currentSessionEntry, the reduction of a sequence
Preferred(best, e) ==
  IF IsOpen(e) # IsOpen(best) THEN (IF IsOpen(e) THEN e ELSE best)
  ELSE IF e.used > best.used THEN e ELSE best

Reduced(r) ==
  LET best[i \in 0..(Len(r) - 1)] == IF i = 0 THEN r[1] ELSE Preferred(best[i - 1], r[i + 1])
  IN  best[Len(r) - 1]

\* current_session_mut
Current(r) == CHOOSE i \in Foremost(r) : \A k \in Foremost(r) : k <= i

CurrentSession ==
  /\ call = NoCall
  /\ \E r \in Entries :
     /\ call' = [op |-> "current", entries |-> r]
     /\ reply' = Returns(r[Current(r)])

PrimitiveCall == \/ CurveGenerateKeypair \/ CurveScalarMultiply \/ CurveSign \/ CurveVerify
                 \/ AesCbcEncrypt \/ AesCbcDecrypt \/ CurrentSession
-----------------------------------------------------------------------------
(* Properties *)

\* An agreement throws for a public key of small order, on the curve or on its
\* twist, and for no other, whatever the secret: the secret counts in every one
\* that is returned, and both sides get the same (curve.rs:194-233).
Contributory ==
  call.op = "multiply" =>
    /\ reply.ok <=> ~SmallOrder(call.key)
    /\ \A sk \in Secret : ~Degenerate(sk) /\ PublicOf(sk) = call.key
         => reply = Returns(Shared(sk, PublicOf(call.secret)))

\* A signature verifies under the key of the secret it was made with, whichever
\* of the two points the key stands for (curve.rs:77-179).
SignedVerifies ==
  call.op = "sign" => Verifies(PublicOf(call.secret), call.msg, reply.value)

\* What verifies under the key of a secret is what signing makes, with that
\* secret or its opposite, and nothing else: not another S of the same class,
\* and nothing under a key of small order or of the twist (curve.rs:144-179).
OnlySignedVerifies ==
  call.op = "verify" /\ reply.value =>
    /\ call.key.on = "curve" /\ ~SmallOrder(call.key)
    /\ \A sk \in Secret : PublicOf(sk) = call.key =>
         \E a \in {Clamp(sk) % Order, Order - (Clamp(sk) % Order)}, r \in Nonce :
           call.sig = SignatureOf(a, call.msg, r)

\* Decryption undoes encryption at every length, and opens nothing that
\* encryption does not make (ratchet.rs:50-105).
CbcExact ==
  /\ call.op = "seal" => CbcDecrypt(call.iv, reply.value) = call.text
  /\ call.op = "unseal" /\ reply.ok => CbcEncrypt(call.iv, reply.value) = call.bytes

\* The two selections of an entry, native and JavaScript, agree up to entries
\* of the same age, and an open entry comes first (session.rs:231-254,
\* session-cipher.js:8-22).
SelectionsAgree ==
  call.op = "current" =>
    LET e == Reduced(call.entries)
    IN  /\ IsOpen(reply.value) <=> \E i \in DOMAIN call.entries : IsOpen(call.entries[i])
        /\ IsOpen(e) = IsOpen(reply.value) /\ e.used = reply.value.used
=============================================================================
