----------------------------- MODULE ChainWalk -----------------------------
(***************************************************************************)
(* A receiving chain, starting from anything a stored record may hold, and  *)
(* the message keys that an endpoint takes from it.  The start includes the *)
(* records that libsignal-js wrote: a chain it retired has no key, and its  *)
(* store of skipped keys has no cap (ratchet.rs:237-251, 349-356).          *)
(***************************************************************************)
EXTENDS Chain

CONSTANTS Seed,       \* of the chain when it is open
          MaxStored,  \* bound: counter of the stored chain
          MaxReached  \* bound: counters asked for

ASSUME WalkAssumption == MaxStored \in Nat /\ MaxReached \in Nat

VARIABLE chain

\* The chain at a counter with these keys not yet used, closed or not.
StoredChain(counter, kept, closed) ==
  [NewChain("receiving", Seed) EXCEPT
     !.counter = counter,
     !.key = IF closed THEN ChainKey(NoSeed) ELSE Advance(ChainKey(Seed), counter + 1),
     !.kept = [c \in kept |-> Advance(ChainKey(Seed), c)]]

Init == \E counter \in -1..MaxStored : \E kept \in SUBSET (0..counter), closed \in BOOLEAN :
          chain = StoredChain(counter, kept, closed)

Take(n) == HasKey(chain, n) /\ chain' = TakeMessageKey(chain, n)

Next == \E n \in 0..MaxReached : Take(n)

Spec == Init /\ [][Next]_chain
-----------------------------------------------------------------------------
(* The recursion of fill_message_keys, level by level.                      *)

PopLowest(kept) ==
  IF Cardinality(DOMAIN kept) <= MaxRetained
  THEN kept
  ELSE [c \in Newest(DOMAIN kept) |-> kept[c]]

Level(ch) ==
  LET next == ch.counter + 1
  IN  [ch EXCEPT !.kept = PopLowest([c \in DOMAIN @ \cup {next} |-> IF c = next THEN ch.key ELSE @[c]]),
                 !.key = Advance(@, 1),
                 !.counter = next]

Levels(ch) ==
  LET f[i \in Nat] == IF i = 0 THEN ch ELSE Level(f[i - 1])
  IN  f

FillByLevels(ch, n) == IF n <= ch.counter THEN ch ELSE Levels(ch)[n - ch.counter]
-----------------------------------------------------------------------------
TypeOK == ChainOK(chain)

\* What the walk leaves behind is what its levels leave behind one by one
\* (ratchet.rs:252-276): each inserts, trims to the cap and steps the key.
FillIsItsLevels ==
  \A n \in 0..MaxReached : ~Refuses(chain, n) => FillMessageKeys(chain, n) = FillByLevels(chain, n)

\* The key that the read-only pass found, and the MAC was checked with, is the
\* one the walk then has in the store to be removed (ratchet.rs:283-301,
\* 686-699), on a record over the cap as well.
PeekMatchesFill ==
  \A n \in 0..MaxReached : HasKey(chain, n) =>
    LET filled == FillMessageKeys(chain, n)
    IN  n \in DOMAIN filled.kept /\ filled.kept[n] = PeekMessageKey(chain, n)

\* Every key in the chain is the one of its counter (ratchet.rs:264-275): the
\* chain key has taken one step per counter passed.
KeysInStep ==
  /\ ~IsClosed(chain) => chain.key = Advance(ChainKey(Seed), chain.counter + 1)
  /\ \A c \in DOMAIN chain.kept : chain.kept[c] = Advance(ChainKey(Seed), c)

\* Taking a key the chain has passed costs no other key; taking one ahead of it
\* brings the store under the cap (ratchet.rs:204-210, 222-251).
TrimsOnlyWhenGrowing ==
  [][\A n \in 0..MaxReached : Take(n) =>
       IF n <= chain.counter
       THEN DOMAIN chain'.kept = DOMAIN chain.kept \ {n}
       ELSE Cardinality(DOMAIN chain'.kept) < MaxRetained]_chain
=============================================================================
