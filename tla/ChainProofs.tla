---------------------------- MODULE ChainProofs ----------------------------
(***************************************************************************)
(* Theorems about ChainWalk, for every cap, every MAX_SKIP and every chain  *)
(* that a record may hold.                                                  *)
(***************************************************************************)
EXTENDS ChainWalk, RatchetLemmas

\* Neither ChainOK nor KeysInStep is preserved alone: the counters kept are in
\* range, and their keys in step, because the chain key is.
IInv == IsChain(chain) /\ TypeOK /\ KeysInStep
-----------------------------------------------------------------------------
(* The invariant *)

LEMMA SeedKey ==
  ASSUME NEW n \in Nat
  PROVE  Advance(ChainKey(Seed), n) = [seed |-> Seed, step |-> n] /\ IsKey(Advance(ChainKey(Seed), n))
BY DEF Advance, ChainKey, IsKey

LEMMA InitIInv == Init => IInv
<1> SUFFICES ASSUME NEW counter \in -1..MaxStored, NEW kept \in SUBSET (0..counter),
                    NEW closed \in BOOLEAN, chain = StoredChain(counter, kept, closed)
             PROVE  IInv
  BY DEF Init
<1>1. chain = [type |-> "receiving", counter |-> counter,
               key |-> IF closed THEN ChainKey(NoSeed) ELSE Advance(ChainKey(Seed), counter + 1),
               kept |-> [c \in kept |-> Advance(ChainKey(Seed), c)]]
  BY DEF StoredChain, NewChain
<1>2. counter \in Int /\ counter >= -1 /\ counter + 1 \in Nat /\ kept \subseteq 0..counter /\ kept \subseteq Nat
  BY WalkAssumption
<1>3. IsKey(chain.key) /\ (~closed => chain.key = Advance(ChainKey(Seed), counter + 1))
  <2>1. chain.key = IF closed THEN ChainKey(NoSeed) ELSE Advance(ChainKey(Seed), counter + 1)
    BY <1>1
  <2>2. IsKey(ChainKey(NoSeed))
    BY DEF ChainKey, IsKey
  <2>3. IsKey(Advance(ChainKey(Seed), counter + 1))
    BY <1>2, SeedKey
  <2> QED
    BY <2>1, <2>2, <2>3
<1>4. \A c \in kept : chain.kept[c] = Advance(ChainKey(Seed), c) /\ IsKey(chain.kept[c])
  BY <1>1, <1>2, SeedKey
<1>5. IsChain(chain)
  BY <1>1, <1>3, <1>4 DEF IsChain
<1>6. TypeOK
  BY <1>1, <1>2, <1>3 DEF TypeOK, ChainOK, IsKey
<1>7. KeysInStep
  <2>1. closed => IsClosed(chain)
    BY <1>1 DEF IsClosed, ChainKey
  <2> QED
    BY <1>1, <1>3, <1>4, <2>1 DEF KeysInStep
<1> QED
  BY <1>5, <1>6, <1>7 DEF IInv

\* A key derived ahead of an open chain in step is in step.
LEMMA AheadInStep ==
  ASSUME IInv, ~IsClosed(chain), NEW c \in Nat, c > chain.counter
  PROVE  KeyAhead(chain, c) = Advance(ChainKey(Seed), c)
<1>1. chain.counter \in Int /\ chain.counter + 1 \in Nat
  BY DEF IInv, TypeOK, ChainOK
<1>2. IsKey(chain.key) /\ chain.key = [seed |-> Seed, step |-> chain.counter + 1]
  BY <1>1, SeedKey DEF IInv, KeysInStep, IsChain
<1>3. KeyAhead(chain, c) = [seed |-> Seed, step |-> (chain.counter + 1) + (c - chain.counter - 1)]
  BY <1>1, <1>2, AdvanceIsStep DEF KeyAhead
<1> QED
  BY <1>1, <1>3, SeedKey

LEMMA TakeAheadIInv ==
  ASSUME IInv, NEW n \in Nat, n > chain.counter, Take(n)
  PROVE  IInv'
<1>1. /\ chain.counter \in Int /\ chain.counter >= -1 /\ chain.counter + 1 \in Nat
      /\ chain.type \in {"sending", "receiving"}
  BY DEF IInv, TypeOK, ChainOK
<1>2. ~IsClosed(chain)
  BY DEF Take, HasKey, Refuses
<1>3. chain' = [type |-> chain.type, counter |-> n, key |-> Advance(chain.key, n - chain.counter),
                kept |-> [c \in Newest(Held(chain, n)) \ {n} |->
                            IF c > chain.counter THEN KeyAhead(chain, c) ELSE chain.kept[c]]]
  BY TakenAhead DEF Take, IInv, TypeOK
<1>4. Newest(Held(chain, n)) \subseteq 0..n
  BY HeldInRange DEF Newest, IInv, TypeOK
<1>5. chain'.key = Advance(ChainKey(Seed), n + 1)
  <2>1. IsKey(chain.key) /\ chain.key = [seed |-> Seed, step |-> chain.counter + 1]
    BY <1>1, <1>2, SeedKey DEF IInv, KeysInStep, IsChain
  <2>2. chain'.key = [seed |-> Seed, step |-> (chain.counter + 1) + (n - chain.counter)]
    BY <1>1, <1>3, <2>1, AdvanceIsStep
  <2> QED
    BY <1>1, <2>2, SeedKey
<1>6. ASSUME NEW c \in DOMAIN chain'.kept
      PROVE  chain'.kept[c] = Advance(ChainKey(Seed), c) /\ IsKey(chain'.kept[c])
  <2>1. c \in Nat /\ c \in Newest(Held(chain, n)) \ {n}
    BY <1>3, <1>4
  <2>2. CASE c > chain.counter
    BY <1>2, <1>3, <2>1, <2>2, AheadInStep, SeedKey
  <2>3. CASE ~(c > chain.counter)
    <3>1. c \in DOMAIN chain.kept
      BY <1>1, <2>1, <2>3 DEF Newest, Held
    <3> QED
      BY <1>3, <2>1, <2>3, <3>1, SeedKey DEF IInv, KeysInStep
  <2> QED
    BY <2>2, <2>3
<1>7. IsChain(chain)'
  <2>1. n + 1 \in Nat
    OBVIOUS
  <2> QED
    BY <1>3, <1>5, <1>6, <2>1, SeedKey DEF IsChain
<1>8. TypeOK'
  <2>1. n \in Int /\ n >= -1 /\ DOMAIN chain'.kept \subseteq 0..n
    BY <1>3, <1>4
  <2>2. chain'.key.step \in Nat
    BY <1>5, SeedKey
  <2> QED
    BY <1>1, <1>3, <2>1, <2>2 DEF TypeOK, ChainOK
<1>9. KeysInStep'
  BY <1>3, <1>5, <1>6 DEF KeysInStep
<1> QED
  BY <1>7, <1>8, <1>9 DEF IInv

LEMMA TakeBehindIInv ==
  ASSUME IInv, NEW n \in Nat, n <= chain.counter, Take(n)
  PROVE  IInv'
<1>1. chain' = [type |-> chain.type, counter |-> chain.counter, key |-> chain.key,
                kept |-> [c \in DOMAIN chain.kept \ {n} |-> chain.kept[c]]]
  BY TakenBehind DEF Take, IInv
<1>2. IsChain(chain)'
  BY <1>1 DEF IInv, IsChain
<1>3. TypeOK'
  BY <1>1 DEF IInv, TypeOK, ChainOK
<1>4. KeysInStep'
  BY <1>1 DEF IInv, KeysInStep, IsClosed
<1> QED
  BY <1>2, <1>3, <1>4 DEF IInv

LEMMA NextIInv == IInv /\ [Next]_chain => IInv'
<1> SUFFICES ASSUME IInv, [Next]_chain PROVE IInv'
  OBVIOUS
<1>1. ASSUME NEW n \in 0..MaxReached, Take(n) PROVE IInv'
  <2>1. n \in Nat /\ chain.counter \in Int
    BY WalkAssumption DEF IInv, TypeOK, ChainOK
  <2> QED
    BY <1>1, <2>1, TakeAheadIInv, TakeBehindIInv
<1>2. CASE UNCHANGED chain
  BY <1>2 DEF IInv, IsChain, TypeOK, KeysInStep, IsClosed
<1> QED
  BY <1>1, <1>2 DEF Next

LEMMA ChainInvariant == Spec => []IInv
<1> QED
  BY InitIInv, NextIInv, PTL DEF Spec

-----------------------------------------------------------------------------
(* The theorems *)

\* A chain keeps its form, and its counters stay behind it, for every cap.
THEOREM TypeCorrect == Spec => []TypeOK
<1>1. IInv => TypeOK
  BY DEF IInv
<1> QED
  BY <1>1, ChainInvariant, PTL

\* Every key in a chain is the one of its counter (ratchet.rs:264-275).
THEOREM KeysStayInStep == Spec => []KeysInStep
<1>1. IInv => KeysInStep
  BY DEF IInv
<1> QED
  BY <1>1, ChainInvariant, PTL

\* The key the MAC was checked with is the one the walk leaves in the store to
\* be removed, whatever the trimming drops (ratchet.rs:283-301, 686-699).
THEOREM PeekIsFill == Spec => []PeekMatchesFill
<1>1. IInv => PeekMatchesFill
  <2> SUFFICES ASSUME IInv, NEW n \in 0..MaxReached, HasKey(chain, n)
               PROVE  LET filled == FillMessageKeys(chain, n)
                      IN  n \in DOMAIN filled.kept /\ filled.kept[n] = PeekMessageKey(chain, n)
    BY DEF PeekMatchesFill
  <2>1. n \in Nat /\ chain.counter \in Int
    BY WalkAssumption DEF IInv, TypeOK, ChainOK
  <2>2. CASE n <= chain.counter
    BY <2>1, <2>2 DEF HasKey, FillMessageKeys, PeekMessageKey
  <2>3. CASE n > chain.counter
    <3>1. n \in Newest(Held(chain, n))
      BY <2>1, <2>3, HeldInRange, TopIsNewest DEF IInv, TypeOK
    <3>2. FillMessageKeys(chain, n).kept =
            [c \in Newest(Held(chain, n)) |->
               IF c > chain.counter THEN KeyAhead(chain, c) ELSE chain.kept[c]]
      BY <2>1, <2>3, Filled DEF IInv, TypeOK
    <3> QED
      BY <2>1, <2>3, <3>1, <3>2 DEF PeekMessageKey
  <2> QED
    BY <2>1, <2>2, <2>3
<1> QED
  BY <1>1, ChainInvariant, PTL

\* A key taken from behind costs no other, and one taken ahead leaves the store
\* under the cap, on a record that was over it too (ratchet.rs:204-251).
THEOREM TrimsWhenGrowing == Spec => TrimsOnlyWhenGrowing
<1>1. ASSUME IInv, [Next]_chain, NEW n \in 0..MaxReached, Take(n)
      PROVE  IF n <= chain.counter
             THEN DOMAIN chain'.kept = DOMAIN chain.kept \ {n}
             ELSE Cardinality(DOMAIN chain'.kept) < MaxRetained
  <2>1. n \in Nat /\ chain.counter \in Int
    BY <1>1, WalkAssumption DEF IInv, TypeOK, ChainOK
  <2>2. CASE n <= chain.counter
    <3>1. chain'.kept = [c \in DOMAIN chain.kept \ {n} |-> chain.kept[c]]
      BY <1>1, <2>1, <2>2, TakenBehind DEF Take, IInv
    <3> QED
      BY <2>2, <3>1
  <2>3. CASE n > chain.counter
    <3> DEFINE N == Newest(Held(chain, n))
    <3>0. chain' = [type |-> chain.type, counter |-> n, key |-> Advance(chain.key, n - chain.counter),
                    kept |-> [c \in N \ {n} |->
                                IF c > chain.counter THEN KeyAhead(chain, c) ELSE chain.kept[c]]]
      BY <1>1, <2>1, <2>3, TakenAhead DEF Take, IInv, TypeOK
    <3>1. DOMAIN chain'.kept = N \ {n}
      BY <3>0
    <3>2. n \in N /\ IsFiniteSet(N) /\ Cardinality(N) <= MaxRetained
      BY <1>1, <2>1, <2>3, HeldInRange, TopIsNewest, NewestBounded DEF IInv, TypeOK
    <3>3. Cardinality(N \ {n}) = Cardinality(N) - 1 /\ Cardinality(N) \in Nat
      BY <3>2, FS_RemoveElement, FS_CardinalityType
    <3> HIDE DEF N
    <3> QED
      BY <2>1, <2>3, <3>1, <3>2, <3>3, ChainAssumption
  <2> QED
    BY <2>1, <2>2, <2>3
<1>2. IInv /\ [Next]_chain =>
        [\A n \in 0..MaxReached : Take(n) =>
           IF n <= chain.counter
           THEN DOMAIN chain'.kept = DOMAIN chain.kept \ {n}
           ELSE Cardinality(DOMAIN chain'.kept) < MaxRetained]_chain
  BY <1>1
<1> QED
  BY <1>2, ChainInvariant, PTL DEF Spec, TrimsOnlyWhenGrowing
-----------------------------------------------------------------------------
(* The recursion                                                            *)

\* Trimming before a counter is added costs nothing that the trimming after it
\* would have kept.
LEMMA NewestGrows ==
  ASSUME NEW n \in Nat, NEW S, S \subseteq 0..n, NEW x \in Nat, x > n
  PROVE  Newest(Newest(S) \cup {x}) = Newest(S \cup {x})
<1> DEFINE Above(T, c) == {d \in T : d > c}
<1>1. \A d \in S : d \in Nat /\ d < x
  OBVIOUS
<1>2. S \cup {x} \subseteq 0..x /\ Newest(S) \subseteq S
  BY <1>1 DEF Newest
<1>3. ASSUME NEW c \in Newest(S) \cup {x}
      PROVE  Above(Newest(S) \cup {x}, c) = Above(S \cup {x}, c)
  <2>1. CASE c = x
    <3>1. \A d \in S \cup {x} : ~(d > x)
      BY <1>1
    <3> QED
      BY <1>2, <2>1, <3>1
  <2>2. CASE c \in Newest(S)
    <3>1. ASSUME NEW d \in S, d > c PROVE d \in Newest(S)
      <4>1. Above(S, d) \subseteq Above(S, c)
        <5> SUFFICES ASSUME NEW e \in S, e > d PROVE e > c
          OBVIOUS
        <5>1. e \in Nat /\ d \in Nat /\ c \in Nat
          BY <1>1, <1>2, <2>2
        <5> QED
          BY <3>1, <5>1
      <4>2. Cardinality(Above(S, d)) <= Cardinality(Above(S, c))
        BY <4>1, AboveFinite, FS_Subset
      <4>3. Cardinality(Above(S, c)) < MaxRetained
        BY <2>2 DEF Newest
      <4>4. Cardinality(Above(S, d)) \in Nat /\ Cardinality(Above(S, c)) \in Nat
        BY AboveFinite
      <4>5. Cardinality(Above(S, d)) < MaxRetained
        BY <4>2, <4>3, <4>4, ChainAssumption
      <4> QED
        BY <4>5 DEF Newest
    <3> QED
      BY <1>2, <3>1
  <2> QED
    BY <2>1, <2>2
<1>4. ASSUME NEW c \in S, c \notin Newest(S)
      PROVE  c \notin Newest(S \cup {x})
  <2>1. Above(S, c) \subseteq Above(S \cup {x}, c)
    OBVIOUS
  <2>2. /\ IsFiniteSet(Above(S \cup {x}, c))
        /\ Cardinality(Above(S \cup {x}, c)) \in Nat
        /\ Cardinality(Above(S, c)) \in Nat
    BY <1>2, AboveFinite
  <2>3. Cardinality(Above(S, c)) <= Cardinality(Above(S \cup {x}, c))
    BY <2>1, <2>2, FS_Subset
  <2>4. ~(Cardinality(Above(S, c)) < MaxRetained)
    BY <1>4 DEF Newest
  <2>5. ~(Cardinality(Above(S \cup {x}, c)) < MaxRetained)
    BY <2>2, <2>3, <2>4, ChainAssumption
  <2> QED
    BY <2>5 DEF Newest
<1>5. \A c : c \in Newest(Newest(S) \cup {x}) <=>
              c \in Newest(S) \cup {x} /\ Cardinality(Above(Newest(S) \cup {x}, c)) < MaxRetained
  BY DEF Newest
<1>6. \A c : c \in Newest(S \cup {x}) <=>
              c \in S \cup {x} /\ Cardinality(Above(S \cup {x}, c)) < MaxRetained
  BY DEF Newest
<1> HIDE DEF Above
<1> QED
  BY <1>2, <1>3, <1>4, <1>5, <1>6

\* A store within the cap has none but newest.
LEMMA AllAreNewest ==
  ASSUME NEW n \in Nat, NEW S, S \subseteq 0..n, Cardinality(S) <= MaxRetained
  PROVE  Newest(S) = S
<1>1. IsFiniteSet(S) /\ Cardinality(S) \in Nat
  BY AboveFinite, FS_CardinalityType
<1>2. ASSUME NEW c \in S PROVE Cardinality({d \in S : d > c}) < MaxRetained
  <2>1. {d \in S : d > c} \subseteq S \ {c}
    <3>1. c \in 0..n
      OBVIOUS
    <3> QED
      BY <3>1
  <2>2. IsFiniteSet(S \ {c}) /\ Cardinality(S \ {c}) = Cardinality(S) - 1
    BY <1>1, FS_RemoveElement
  <2>3. Cardinality({d \in S : d > c}) <= Cardinality(S) - 1
    BY <2>1, <2>2, FS_Subset
  <2>4. Cardinality({d \in S : d > c}) \in Nat
    BY AboveFinite
  <2> QED
    BY <1>1, <2>3, <2>4, ChainAssumption
<1> QED
  BY <1>2 DEF Newest

\* So the trimming of one level, which looks at the size first, is the cap.
LEMMA PopIsNewest ==
  ASSUME NEW n \in Nat, NEW kept, kept = [c \in DOMAIN kept |-> kept[c]], DOMAIN kept \subseteq 0..n
  PROVE  PopLowest(kept) = [c \in Newest(DOMAIN kept) |-> kept[c]]
BY AllAreNewest DEF PopLowest

\* One more level is a walk to one more counter.
LEMMA LevelOfFill ==
  ASSUME NEW ch, IsChain(ch), ChainOK(ch), NEW i \in Nat
  PROVE  Level(FillMessageKeys(ch, ch.counter + i)) = FillMessageKeys(ch, ch.counter + i + 1)
<1> DEFINE m == ch.counter + i
           n == m + 1
           g == FillMessageKeys(ch, m)
           D == IF i = 0 THEN DOMAIN ch.kept ELSE Newest(Held(ch, m))
           V(c) == IF c > ch.counter THEN KeyAhead(ch, c) ELSE ch.kept[c]
<1>1. /\ ch.counter \in Int /\ ch.counter >= -1 /\ DOMAIN ch.kept \subseteq 0..ch.counter
      /\ m \in Int /\ n \in Nat /\ n > ch.counter /\ IsKey(ch.key)
  BY DEF ChainOK, IsChain
<1>2. g = [type |-> ch.type, counter |-> m, key |-> Advance(ch.key, i), kept |-> [c \in D |-> V(c)]]
  <2>1. CASE i = 0
    <3>1. g = ch /\ m = ch.counter
      BY <1>1, <2>1 DEF FillMessageKeys
    <3>2. Advance(ch.key, i) = ch.key
      BY <1>1, <2>1, AdvanceIsStep DEF IsKey
    <3>3. ch.kept = [c \in D |-> V(c)]
      <4>1. \A c \in DOMAIN ch.kept : ~(c > ch.counter)
        <5> SUFFICES ASSUME NEW c \in DOMAIN ch.kept PROVE ~(c > ch.counter)
          OBVIOUS
        <5>1. c \in 0..ch.counter
          BY <1>1
        <5> QED
          BY <1>1, <5>1
      <4> QED
        BY <2>1, <4>1 DEF IsChain
    <3> HIDE DEF m, g, D, V
    <3> QED
      BY <3>1, <3>2, <3>3 DEF IsChain
  <2>2. CASE i # 0
    <3>1. m \in Nat /\ m > ch.counter /\ m - ch.counter = i
      BY <1>1, <2>2
    <3> QED
      BY <2>2, <3>1, Filled
  <2> QED
    BY <2>1, <2>2
<1>3. D \cup {n} \subseteq 0..n /\ n \notin D /\ Newest(D \cup {n}) = Newest(Held(ch, n))
  <2>1. CASE i = 0
    <3>1. D \cup {n} = Held(ch, n)
      BY <1>1, <2>1 DEF Held
    <3>2. \A c \in D : c < n
      <4> SUFFICES ASSUME NEW c \in DOMAIN ch.kept PROVE c < n
        BY <2>1
      <4>1. c \in 0..ch.counter
        BY <1>1
      <4> QED
        BY <1>1, <4>1
    <3>3. D \cup {n} \subseteq 0..n
      <4> HIDE DEF D, n
      <4> QED
        BY <1>1, <3>1, HeldInRange
    <3>4. n \notin D
      <4> HIDE DEF D
      <4> QED
        BY <1>1, <3>2
    <3> HIDE DEF D, n
    <3> QED
      BY <3>1, <3>3, <3>4
  <2>2. CASE i # 0
    <3>1. m \in Nat /\ m > ch.counter /\ n > m
      BY <1>1, <2>2
    <3>2. Held(ch, m) \subseteq 0..m
      BY <3>1, HeldInRange
    <3>3. Held(ch, n) = Held(ch, m) \cup {n}
      <4>1. (ch.counter + 1)..n = (ch.counter + 1)..m \cup {n}
        BY <1>1, <3>1
      <4> QED
        BY <4>1 DEF Held
    <3>4. D \subseteq Held(ch, m)
      BY <2>2 DEF Newest
    <3>5. \A c \in D : c \in 0..m
      BY <3>2, <3>4
    <3> QED
      BY <1>1, <2>2, <3>1, <3>2, <3>3, <3>5, NewestGrows
  <2> QED
    BY <2>1, <2>2
<1> DEFINE added == [c \in D \cup {n} |-> V(c)]
<1>4. Level(g) = [type |-> ch.type, counter |-> n, key |-> Advance(Advance(ch.key, i), 1),
                  kept |-> PopLowest(added)]
  <2>1. KeyAhead(ch, n) = Advance(ch.key, i)
    <3>1. n - ch.counter - 1 = i
      BY <1>1
    <3> QED
      BY <3>1 DEF KeyAhead
  <2>2. V(n) = g.key
    BY <1>1, <1>2, <2>1
  <2>3. added = [c \in D \cup {n} |-> IF c = n THEN g.key ELSE g.kept[c]]
    <3>1. \A c \in D : g.kept[c] = V(c)
      BY <1>2
    <3> HIDE DEF g, D, V
    <3> QED
      BY <2>2, <3>1
  <2>4. g.counter + 1 = n /\ DOMAIN g.kept = D
    BY <1>2
  <2> HIDE DEF m, n, D, V, added
  <2>5. Level(g) = [g EXCEPT !.kept = PopLowest(added), !.key = Advance(@, 1), !.counter = n]
    <3> HIDE DEF g
    <3> QED
      BY <2>3, <2>4 DEF Level
  <2> HIDE DEF g
  <2> QED
    BY <1>2, <2>5
<1>5. Advance(Advance(ch.key, i), 1) = Advance(ch.key, n - ch.counter)
  <2>1. Advance(ch.key, i) = [seed |-> ch.key.seed, step |-> ch.key.step + i]
    BY <1>1, AdvanceIsStep
  <2>2. IsKey(Advance(ch.key, i))
    BY <1>1, <2>1 DEF IsKey
  <2>3. Advance(Advance(ch.key, i), 1) = [seed |-> ch.key.seed, step |-> (ch.key.step + i) + 1]
    BY <2>1, <2>2, AdvanceIsStep
  <2>4. ch.key.step \in Nat /\ n - ch.counter = i + 1
    BY <1>1 DEF IsKey
  <2>5. Advance(ch.key, i + 1) = [seed |-> ch.key.seed, step |-> ch.key.step + (i + 1)]
    BY <1>1, AdvanceIsStep
  <2> QED
    BY <2>3, <2>4, <2>5
<1>6. PopLowest(added) = [c \in Newest(Held(ch, n)) |-> V(c)]
  <2>1. DOMAIN added = D \cup {n} /\ added = [c \in DOMAIN added |-> added[c]]
    OBVIOUS
  <2>2. PopLowest(added) = [c \in Newest(DOMAIN added) |-> added[c]]
    <3>1. n \in Nat
      BY <1>1
    <3>2. DOMAIN added \subseteq 0..n
      BY <1>1, <1>3, <2>1
    <3> HIDE DEF added, D, n
    <3> QED
      BY <2>1, <3>1, <3>2, PopIsNewest
  <2>3. Newest(D \cup {n}) \subseteq D \cup {n}
    BY DEF Newest
  <2> HIDE DEF D, V
  <2> QED
    BY <1>3, <2>1, <2>2, <2>3
<1>7. FillMessageKeys(ch, n) = [type |-> ch.type, counter |-> n, key |-> Advance(ch.key, n - ch.counter),
                                kept |-> [c \in Newest(Held(ch, n)) |-> V(c)]]
  BY <1>1, Filled
<1> QED
  BY <1>4, <1>5, <1>6, <1>7

\* The recursion, as far down as it goes, is the walk.
LEMMA LevelsAreWalks ==
  ASSUME NEW ch, IsChain(ch), ChainOK(ch)
  PROVE  \A i \in Nat : Levels(ch)[i] = FillMessageKeys(ch, ch.counter + i)
<1> DEFINE Deeper(h) == [i \in Nat |-> IF i = 0 THEN ch ELSE Level(h[i - 1])]
           walk == [i \in Nat |-> FillMessageKeys(ch, ch.counter + i)]
           T == {i \in Nat : Levels(ch)[i] # walk[i]}
<1>0. ch.counter \in Int
  BY DEF ChainOK
<1>1. walk = Deeper(walk)
  <2>1. ASSUME NEW i \in Nat PROVE walk[i] = Deeper(walk)[i]
    <3>1. CASE i = 0
      BY <1>0, <3>1 DEF FillMessageKeys
    <3>2. CASE i # 0
      <4>1. i - 1 \in Nat /\ ch.counter + (i - 1) + 1 = ch.counter + i
        BY <1>0, <3>2
      <4>2. walk[i] = Level(walk[i - 1])
        BY <4>1, LevelOfFill
      <4> QED
        BY <3>2, <4>2
    <3> QED
      BY <3>1, <3>2
  <2> HIDE DEF walk
  <2>2. walk = [i \in Nat |-> walk[i]]
    BY DEF walk
  <2> QED
    BY <2>1, <2>2
<1>2. Levels(ch) = CHOOSE h : h = Deeper(h)
  BY DEF Levels
<1>3. Levels(ch) = Deeper(Levels(ch))
  <2> HIDE DEF walk, Deeper
  <2> QED
    BY <1>1, <1>2
<1>4. T = {}
  <2> SUFFICES ASSUME T # {} PROVE FALSE
    OBVIOUS
  <2>1. PICK i \in T : \A j \in T : i <= j
    <3>1. T \subseteq Nat
      OBVIOUS
    <3> HIDE DEF T
    <3> QED
      BY <3>1, Smallest
  <2>2. CASE i = 0
    <3>1. Levels(ch)[i] = ch
      BY <1>3, <2>2
    <3>2. walk[i] = ch
      BY <1>1, <2>2
    <3> QED
      BY <2>1, <3>1, <3>2
  <2>3. CASE i # 0
    <3>1. i - 1 \in Nat /\ i \in Nat /\ i - 1 \notin T
      BY <2>1, <2>3
    <3>2. Levels(ch)[i - 1] = walk[i - 1]
      BY <3>1
    <3> HIDE DEF walk
    <3>3. Levels(ch)[i] = Level(Levels(ch)[i - 1])
      BY <1>3, <2>3, <3>1
    <3>4. walk[i] = Level(walk[i - 1])
      BY <1>1, <2>3, <3>1
    <3> QED
      BY <2>1, <3>2, <3>3, <3>4
  <2> QED
    BY <2>2, <2>3
<1> QED
  BY <1>4

\* What the walk leaves behind is what the levels of fill_message_keys leave
\* behind one by one (ratchet.rs:252-276).
THEOREM WalkIsRecursion == Spec => []FillIsItsLevels
<1>1. IInv => FillIsItsLevels
  <2> SUFFICES ASSUME IInv, NEW n \in 0..MaxReached
               PROVE  FillMessageKeys(chain, n) = FillByLevels(chain, n)
    BY DEF FillIsItsLevels
  <2>1. n \in Nat /\ chain.counter \in Int
    BY WalkAssumption DEF IInv, TypeOK, ChainOK
  <2>2. CASE n <= chain.counter
    BY <2>2 DEF FillMessageKeys, FillByLevels
  <2>3. CASE n > chain.counter
    <3>1. n - chain.counter \in Nat /\ chain.counter + (n - chain.counter) = n
      BY <2>1, <2>3
    <3>2. Levels(chain)[n - chain.counter] = FillMessageKeys(chain, n)
      BY <3>1, LevelsAreWalks DEF IInv, TypeOK
    <3> QED
      BY <2>1, <2>3, <3>2 DEF FillByLevels
  <2> QED
    BY <2>1, <2>2, <2>3
<1> QED
  BY <1>1, ChainInvariant, PTL
=============================================================================
