-------------------------- MODULE MCSessionCipher --------------------------
(* Instances of SessionCipher for TLC. *)
EXTENDS SessionCipher, TLC

CONSTANTS r1, r2, k1, s1, s2

Pkmsg(base, n, preKey, signedPreKey, authentic) ==
  [kind |-> "pkmsg", base |-> base, inc |-> 0, n |-> n, preKey |-> preKey,
   signedPreKey |-> signedPreKey, authentic |-> authentic]

Whisper(inc, n, authentic) ==
  [kind |-> "whisper", base |-> None, inc |-> inc, n |-> n, preKey |-> None,
   signedPreKey |-> None, authentic |-> authentic]

\* The peer opens two sessions, the first with a one-time prekey, and answers
\* the first; and one frame is forged.
TwoSessions == {Pkmsg(r1, 0, k1, s1, TRUE), Pkmsg(r1, 1, k1, s1, TRUE), Pkmsg(r2, 0, None, s1, TRUE),
                Pkmsg(r2, 1, None, s1, FALSE), Whisper(1, 0, TRUE)}

JobSymmetry == Permutations(Job)
=============================================================================
