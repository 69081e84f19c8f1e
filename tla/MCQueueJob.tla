----------------------------- MODULE MCQueueJob -----------------------------
(* Instances of QueueJob for TLC. *)
EXTENDS QueueJob, TLC

CONSTANTS q1, q2, k1, k2

\* One storage, two addresses.
TwoAddresses == (q1 :> k1) @@ (q2 :> k2)

Ordered == {<<q1, q1>>, <<q1, q2>>, <<q2, q2>>}
Cyclic == Ordered \cup {<<q2, q1>>}

CallSymmetry == Permutations(Call)
=============================================================================
