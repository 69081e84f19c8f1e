------------------------------- MODULE Curve -------------------------------
(***************************************************************************)
(* curve.rs: X25519 key pairs and agreements, and XEdDSA signatures, over a *)
(* group of the same structure and a smaller size.                          *)
(*                                                                          *)
(* The points of the curve are the numbers modulo 8 * Order, those of its   *)
(* twist the numbers modulo 4 * TwistOrder.  A public key is a              *)
(* u-coordinate, which a point shares with its negative; the identity and   *)
(* the point of order two share it on both curves.  A secret, and the S of  *)
(* a signature, is a number of Width bits.                                  *)
(***************************************************************************)
EXTENDS Integers, FiniteSets

CONSTANTS
  Width,       \* bits of a secret: 256
  Unit,        \* 2^(Width - 4)
  Order,       \* the order of the base point: a little over Unit
  TwistOrder,  \* the twist has 4 * TwistOrder points: about 8 * Unit
  Base,        \* the base point
  Light,       \* a seed with at most this many bits set is degenerate: 32
  Message,     \* what is signed
  Challenge(_, _, _)  \* challenge: some function of R, A and a message into
                      \* the scalars

Prime(n) == n > 1 /\ \A d \in 2..(n - 1) : n % d # 0

ASSUME WidthAssumption == Width \in Nat /\ Width > 4 /\ Unit = 2^(Width - 4)

ASSUME CurveAssumption ==
  /\ Unit \in Nat /\ Unit > 1 /\ Unit % 2 = 0
  /\ Order \in Nat /\ Prime(Order) /\ Unit < Order /\ Order < 2 * Unit
  /\ TwistOrder \in Nat /\ Prime(TwistOrder) /\ TwistOrder > Unit
  /\ Base \in 1..(8 * Order - 1) /\ Base % 8 = 0
  /\ Light \in 0..Width

Secret == 0..(16 * Unit - 1)
TopBit == 8 * Unit

Size(on) == IF on = "curve" THEN 8 * Order ELSE 4 * TwistOrder
Point == 0..(Size("curve") - 1)

Times(k, point) == (k * point) % Size("curve")

Zero == [on |-> "curve", at |-> Size("curve") \div 2]
PublicKey == [on : {"curve"}, at : 1..(Size("curve") \div 2)]
               \cup [on : {"twist"}, at : 1..(Size("twist") \div 2 - 1)]

\* The u-coordinate of a point: the identity is written as zero.
U(on, point) ==
  LET opposite == Size(on) - point
  IN  IF point \in {0, opposite} THEN Zero
      ELSE [on |-> on, at |-> IF point < opposite THEN point ELSE opposite]

SmallOrder(u) == (8 * u.at) % Size(u.on) = 0
-----------------------------------------------------------------------------
(* X25519 *)

\* The three low bits and the top bit are cleared, the bit below it is set.
Clamp(sk) == (sk % (TopBit \div 2)) - (sk % 8) + TopBit \div 2

PublicOf(sk) == U("curve", Times(Clamp(sk), Base))

BitsSet(sk) == Cardinality({i \in 0..(Width - 1) : (sk \div 2^i) % 2 = 1})
Degenerate(seed) == BitsSet(seed) <= Light \/ BitsSet(seed) = Width

Shared(sk, u) == U(u.on, (Clamp(sk) * u.at) % Size(u.on))

\* Mutation: any result will do.
NonContributoryNever(shared) == FALSE

\* The bytes of the result are all zero.
NonContributory(shared) == shared = Zero
-----------------------------------------------------------------------------
(* XEdDSA: Edwards points are the points of the curve, and the sign bit     *)
(* tells a point from its negative.                                         *)

SignBit(point) == IF 2 * point > Size("curve") THEN 1 ELSE 0

ASSUME ChallengeAssumption ==
  \A R, A \in Point, msg \in Message : Challenge(R, A, msg) \in 0..(Order - 1)

\* nonce_rnd: drawn from all scalars; zero is left out, as likely as a guessed
\* key.
Nonce == 1..(Order - 1)

\* The signature of scalar a and nonce r; the sign bit of the public key is
\* carried in the top bit of S.
SignatureOf(a, msg, r) ==
  LET A == Times(a, Base)
      R == Times(r, Base)
  IN  [R |-> R, S |-> ((r + Challenge(R, A, msg) * a) % Order) + SignBit(A) * TopBit]

\* Mutation: the top bit of S stays clear.
SignedWithoutBit(sk, msg, r) ==
  LET sig == SignatureOf(Clamp(sk) % Order, msg, r) IN [sig EXCEPT !.S = @ % TopBit]

Signed(sk, msg, r) == SignatureOf(Clamp(sk) % Order, msg, r)

\* pubkey_montgomery_to_edwards: nothing for a key of the twist.
EdwardsOf(u, bit) ==
  {point \in Point : /\ U("curve", point) = u
                     /\ point # 0
                     /\ SignBit(point) = bit \/ u = Zero}

\* Mutation: the equation alone, as verify has it and verify_strict does not.
VerifiesLoosely(u, msg, sig) ==
  LET S == sig.S % TopBit
  IN  \E A \in EdwardsOf(u, sig.S \div TopBit) :
        S < Order /\ (S * Base - Challenge(sig.R, A, msg) * A) % Size("curve") = sig.R

\* verify_strict, on the key that the sign bit picks: S in range, neither the
\* key nor R of small order, and the equation.
Verifies(u, msg, sig) ==
  LET S == sig.S % TopBit
  IN  \E A \in EdwardsOf(u, sig.S \div TopBit) :
        /\ S < Order
        /\ ~SmallOrder(u) /\ ~SmallOrder(U("curve", sig.R))
        /\ (S * Base - Challenge(sig.R, A, msg) * A) % Size("curve") = sig.R
=============================================================================
