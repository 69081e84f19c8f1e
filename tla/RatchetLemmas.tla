------------------------------ MODULE RatchetLemmas -----------------------------
(***************************************************************************)
(* What the operators of Chain, Ratchet and X3dh do to a chain and to an    *)
(* entry, for every cap, every MAX_SKIP and every state they may be in.     *)
(***************************************************************************)
EXTENDS X3dh, FiniteSetTheorems, SequenceTheorems, TLAPS

IsKey(k) == k = [seed |-> k.seed, step |-> k.step] /\ k.step \in Nat

\* What the fields of a chain are; ChainOK says how they fit together.
IsChain(ch) ==
  /\ ch = [type |-> ch.type, counter |-> ch.counter, key |-> ch.key, kept |-> ch.kept]
  /\ IsKey(ch.key)
  /\ ch.kept = [c \in DOMAIN ch.kept |-> ch.kept[c]]
  /\ \A c \in DOMAIN ch.kept : IsKey(ch.kept[c])

\* All that is in the store before a walk up to n trims it.
Held(ch, n) == DOMAIN ch.kept \cup (ch.counter + 1)..n
-----------------------------------------------------------------------------
(* Counting                                                                 *)

\* A set of naturals has a smallest element.  The library's induction over Nat
\* takes a predicate; this comes from the order of the intervals 1..x by
\* inclusion.
LEMMA Smallest ==
  ASSUME NEW T, T \subseteq Nat, T # {}
  PROVE  \E x \in T : \A y \in T : x <= y
<1> DEFINE W == {1..x : x \in T}
<1>1. IsWellFoundedOn(StrictSubsetOrdering(Nat), FiniteSubsetsOf(Nat))
  BY FS_StrictSubsetOrderingWellFounded
<1>2. W \subseteq FiniteSubsetsOf(Nat)
  <2>1. \A x \in T : 1..x \subseteq Nat /\ IsFiniteSet(1..x)
    BY FS_Interval
  <2> QED
    BY <2>1 DEF FiniteSubsetsOf
<1>3. W # {}
  OBVIOUS
<1> HIDE DEF W
<1>4. PICK w \in W : \A v \in W : <<v, w>> \notin StrictSubsetOrdering(Nat)
  BY <1>1, <1>2, <1>3, WFMin
<1> USE DEF W
<1>5. PICK x \in T : w = 1..x
  OBVIOUS
<1>6. ASSUME NEW y \in T, y < x PROVE FALSE
  <2>1. 1..y \in W /\ 1..y \subseteq 1..x /\ x \in 1..x /\ x \notin 1..y /\ 1..x \subseteq Nat
    BY <1>6
  <2>2. <<1..y, 1..x>> \in StrictSubsetOrdering(Nat)
    BY <2>1 DEF StrictSubsetOrdering
  <2> QED
    BY <2>1, <2>2, <1>4, <1>5
<1> QED
  BY <1>6

\* The counters above one are finitely many.
LEMMA AboveFinite ==
  ASSUME NEW n \in Nat, NEW S, S \subseteq 0..n, NEW c
  PROVE  /\ IsFiniteSet(S)
         /\ IsFiniteSet({d \in S : d > c})
         /\ Cardinality({d \in S : d > c}) \in Nat
<1>1. IsFiniteSet(S)
  <2>1. IsFiniteSet(0..n)
    BY FS_Interval
  <2> QED
    BY <2>1, FS_Subset
<1>2. IsFiniteSet({d \in S : d > c})
  BY <1>1, FS_Subset
<1> QED
  BY <1>1, <1>2, FS_CardinalityType

\* The highest counter is always among the newest.
LEMMA TopIsNewest ==
  ASSUME NEW n \in Nat, NEW S, S \subseteq 0..n, n \in S
  PROVE  n \in Newest(S)
<1>1. {d \in S : d > n} = {}
  <2> SUFFICES ASSUME NEW d \in S, d > n PROVE FALSE
    OBVIOUS
  <2>1. d \in 0..n
    OBVIOUS
  <2> QED
    BY <2>1
<1> QED
  BY <1>1, FS_EmptySet, ChainAssumption DEF Newest

\* And no more than MaxRetained are: all but the lowest of them are above it.
LEMMA NewestBounded ==
  ASSUME NEW n \in Nat, NEW S, S \subseteq 0..n
  PROVE  IsFiniteSet(Newest(S)) /\ Cardinality(Newest(S)) <= MaxRetained
<1>1. Newest(S) \subseteq S
  BY DEF Newest
<1>0. \A d \in S : d \in Nat
  OBVIOUS
<1>2. IsFiniteSet(Newest(S))
  BY <1>1, AboveFinite, FS_Subset
<1>3. CASE Newest(S) = {}
  BY <1>3, FS_EmptySet, ChainAssumption
<1>4. CASE Newest(S) # {}
  <2>1. PICK m \in Newest(S) : \A y \in Newest(S) : m <= y
    BY <1>0, <1>1, <1>4, Smallest
  <2>2. Newest(S) \ {m} \subseteq {d \in S : d > m}
    <3> SUFFICES ASSUME NEW y \in Newest(S), y # m PROVE y \in S /\ y > m
      OBVIOUS
    <3>1. y \in Nat /\ m \in Nat /\ m <= y
      BY <1>0, <1>1, <2>1
    <3> QED
      BY <1>1, <3>1
  <2>3. Cardinality(Newest(S) \ {m}) <= Cardinality({d \in S : d > m})
    BY <2>2, AboveFinite, FS_Subset
  <2>4. Cardinality({d \in S : d > m}) < MaxRetained
    BY <2>1 DEF Newest
  <2>5. Cardinality(Newest(S) \ {m}) = Cardinality(Newest(S)) - 1
    BY <1>2, <2>1, FS_RemoveElement
  <2>6. Cardinality(Newest(S)) \in Nat /\ Cardinality({d \in S : d > m}) \in Nat
    BY <1>2, AboveFinite, FS_CardinalityType
  <2> QED
    BY <1>2, <2>3, <2>4, <2>5, <2>6, ChainAssumption
<1> QED
  BY <1>2, <1>3, <1>4
-----------------------------------------------------------------------------
(* The operators on a chain                                                 *)

LEMMA AdvanceIsStep ==
  ASSUME NEW k, IsKey(k), NEW n \in Int
  PROVE  Advance(k, n) = [seed |-> k.seed, step |-> k.step + n]
BY DEF Advance, IsKey

LEMMA HeldInRange ==
  ASSUME NEW ch, ChainOK(ch), NEW n \in Nat, n > ch.counter
  PROVE  Held(ch, n) \subseteq 0..n /\ n \in Held(ch, n)
<1>1. ch.counter \in Int /\ ch.counter >= -1 /\ DOMAIN ch.kept \subseteq 0..ch.counter
  BY DEF ChainOK
<1>2. ASSUME NEW c \in DOMAIN ch.kept PROVE c \in 0..n
  <2>1. c \in 0..ch.counter
    BY <1>1
  <2> QED
    BY <1>1, <2>1
<1> QED
  BY <1>1, <1>2 DEF Held

\* A walk to a counter ahead of the chain, field by field.
LEMMA Filled ==
  ASSUME NEW ch, IsChain(ch), ChainOK(ch), NEW n \in Nat, n > ch.counter
  PROVE  FillMessageKeys(ch, n) =
           [type |-> ch.type, counter |-> n, key |-> Advance(ch.key, n - ch.counter),
            kept |-> [c \in Newest(Held(ch, n)) |->
                        IF c > ch.counter THEN KeyAhead(ch, c) ELSE ch.kept[c]]]
<1> DEFINE derived == (ch.counter + 1)..n
           all == [c \in DOMAIN ch.kept \cup derived |->
                     IF c \in derived THEN KeyAhead(ch, c) ELSE ch.kept[c]]
<1>1. ch.counter \in Int /\ ~(n <= ch.counter)
  BY DEF ChainOK
<1>2. FillMessageKeys(ch, n) = [ch EXCEPT !.counter = n, !.key = Advance(@, n - ch.counter),
                                          !.kept = Evicted(all)]
  BY <1>1 DEF FillMessageKeys
<1>3. Evicted(all) = [c \in Newest(Held(ch, n)) |-> all[c]]
  BY DEF Evicted, Held
<1>4. ASSUME NEW c \in Newest(Held(ch, n))
      PROVE  all[c] = IF c > ch.counter THEN KeyAhead(ch, c) ELSE ch.kept[c]
  <2>0. c \in Held(ch, n)
    BY DEF Newest
  <2>1. c \in DOMAIN ch.kept \cup derived /\ c \in 0..n
    BY <2>0, HeldInRange DEF Held
  <2>2. c \in derived <=> c > ch.counter
    BY <1>1, <2>1
  <2> QED
    BY <2>1, <2>2
<1>5. Evicted(all) = [c \in Newest(Held(ch, n)) |-> IF c > ch.counter THEN KeyAhead(ch, c) ELSE ch.kept[c]]
  <2> HIDE DEF all
  <2> QED
    BY <1>3, <1>4
<1>6. ch = [type |-> ch.type, counter |-> ch.counter, key |-> ch.key, kept |-> ch.kept]
  BY DEF IsChain
<1> HIDE DEF all
<1> QED
  BY <1>2, <1>5, <1>6

\* Taking the key of a counter ahead of the chain,
LEMMA TakenAhead ==
  ASSUME NEW ch, IsChain(ch), ChainOK(ch), NEW n \in Nat, n > ch.counter
  PROVE  TakeMessageKey(ch, n) =
           [type |-> ch.type, counter |-> n, key |-> Advance(ch.key, n - ch.counter),
            kept |-> [c \in Newest(Held(ch, n)) \ {n} |->
                        IF c > ch.counter THEN KeyAhead(ch, c) ELSE ch.kept[c]]]
BY Filled DEF TakeMessageKey

\* and of one it has passed.
LEMMA TakenBehind ==
  ASSUME NEW ch, IsChain(ch), NEW n \in Nat, n <= ch.counter
  PROVE  TakeMessageKey(ch, n) = [type |-> ch.type, counter |-> ch.counter, key |-> ch.key,
                                  kept |-> [c \in DOMAIN ch.kept \ {n} |-> ch.kept[c]]]
<1>1. FillMessageKeys(ch, n) = ch
  BY DEF FillMessageKeys
<1> QED
  BY <1>1 DEF TakeMessageKey, IsChain
-----------------------------------------------------------------------------
(* A chain that only encrypt and decrypt_entry walk                         *)

\* Every key of the chain is the one of its place, and one is free in the store.
InStep(ch) ==
  /\ IsChain(ch) /\ ChainOK(ch)
  /\ ch.key.step = ch.counter + 1
  /\ \A c \in DOMAIN ch.kept : ch.kept[c] = [seed |-> ch.key.seed, step |-> c]
  /\ Cardinality(DOMAIN ch.kept) < MaxRetained

\* No key of counter c is left, nor will there be one again.
Spent(ch, c) == c <= ch.counter /\ c \notin DOMAIN ch.kept

LEMMA NewChainInStep ==
  ASSUME NEW type \in {"sending", "receiving"}, NEW seed
  PROVE  /\ InStep(NewChain(type, seed))
         /\ NewChain(type, seed).type = type
         /\ NewChain(type, seed).counter = -1
         /\ NewChain(type, seed).key.seed = seed
<1> DEFINE ch == NewChain(type, seed)
<1>1. /\ ch = [type |-> type, counter |-> -1, key |-> [seed |-> seed, step |-> 0],
               kept |-> [c \in {} |-> ChainKey(seed)]]
      /\ DOMAIN ch.kept = {}
  BY DEF NewChain, ChainKey
<1>2. Cardinality(DOMAIN ch.kept) = 0
  BY <1>1, FS_EmptySet
<1>3. ch.kept = [c \in DOMAIN ch.kept |-> ch.kept[c]]
  BY <1>1
<1> HIDE DEF ch
<1>4. IsChain(ch) /\ ChainOK(ch)
  BY <1>1, <1>3 DEF IsChain, ChainOK, IsKey
<1>5. InStep(ch)
  BY <1>1, <1>2, <1>4, ChainAssumption DEF InStep
<1> QED
  BY <1>1, <1>5 DEF ch

\* The key ahead of a chain in step is the one of its place,
LEMMA AheadOfStep ==
  ASSUME NEW ch, InStep(ch), NEW n \in Nat, n > ch.counter
  PROVE  KeyAhead(ch, n) = [seed |-> ch.key.seed, step |-> n]
<1>1. ch.counter \in Int /\ ch.key.step = ch.counter + 1 /\ IsKey(ch.key)
  BY DEF InStep, ChainOK, IsChain
<1>2. n - ch.counter - 1 \in Int /\ (ch.counter + 1) + (n - ch.counter - 1) = n
  BY <1>1
<1> QED
  BY <1>1, <1>2, AdvanceIsStep DEF KeyAhead

\* and so is the one that the read-only pass finds.
LEMMA PeekInStep ==
  ASSUME NEW ch, InStep(ch), NEW n \in Nat, HasKey(ch, n)
  PROVE  PeekMessageKey(ch, n) = [seed |-> ch.key.seed, step |-> n] /\ ~Spent(ch, n)
<1>1. ch.counter \in Int
  BY DEF InStep, ChainOK
<1>2. CASE n <= ch.counter
  BY <1>2 DEF InStep, HasKey, PeekMessageKey, Spent
<1>3. CASE n > ch.counter
  BY <1>1, <1>3, AheadOfStep DEF PeekMessageKey, Spent
<1> QED
  BY <1>1, <1>2, <1>3

\* encrypt and decrypt_entry leave a chain in step, and every key they use or
\* drop is gone for good.
LEMMA TakeInStep ==
  ASSUME NEW ch, InStep(ch), NEW n \in Nat, NEW o, o = TakeMessageKey(ch, n)
  PROVE  /\ InStep(o)
         /\ o.type = ch.type
         /\ o.key.seed = ch.key.seed
         /\ o.counter = IF n > ch.counter THEN n ELSE ch.counter
         /\ Spent(o, n)
         /\ \A c \in Int : Spent(ch, c) => Spent(o, c)
<1>1. /\ IsChain(ch) /\ ChainOK(ch) /\ IsKey(ch.key) /\ ch.counter \in Int /\ ch.counter >= -1
      /\ ch.type \in {"sending", "receiving"} /\ ch.key.step = ch.counter + 1
      /\ DOMAIN ch.kept \subseteq 0..ch.counter
  BY DEF InStep, ChainOK, IsChain
<1>2. CASE n <= ch.counter
  <2>0. o = [type |-> ch.type, counter |-> ch.counter, key |-> ch.key,
             kept |-> [c \in DOMAIN ch.kept \ {n} |-> ch.kept[c]]]
    BY <1>1, <1>2, TakenBehind
  <2>1. /\ o.type = ch.type /\ o.counter = ch.counter /\ o.key = ch.key
        /\ o.kept = [c \in DOMAIN ch.kept \ {n} |-> ch.kept[c]]
        /\ DOMAIN o.kept = DOMAIN ch.kept \ {n}
        /\ o = [type |-> o.type, counter |-> o.counter, key |-> o.key, kept |-> o.kept]
    BY <2>0
  <2>2. Cardinality(DOMAIN o.kept) < MaxRetained
    <3>0. IsFiniteSet(0..ch.counter)
      BY <1>1, FS_Interval
    <3>1. IsFiniteSet(DOMAIN ch.kept) /\ Cardinality(DOMAIN ch.kept) \in Nat
      BY <1>1, <3>0, FS_Subset, FS_CardinalityType
    <3>2. IsFiniteSet(DOMAIN o.kept) /\ Cardinality(DOMAIN o.kept) <= Cardinality(DOMAIN ch.kept)
      BY <2>1, <3>1, FS_Subset
    <3>3. Cardinality(DOMAIN o.kept) \in Nat
      BY <3>2, FS_CardinalityType
    <3> QED
      BY <3>1, <3>2, <3>3, ChainAssumption DEF InStep
  <2>3. \A c \in DOMAIN o.kept : o.kept[c] = [seed |-> ch.key.seed, step |-> c] /\ IsKey(o.kept[c])
    BY <2>1 DEF InStep, IsChain
  <2>4. IsChain(o) /\ ChainOK(o)
    BY <1>1, <2>1, <2>3 DEF IsChain, ChainOK, IsKey
  <2>5. InStep(o)
    BY <1>1, <2>1, <2>2, <2>3, <2>4 DEF InStep
  <2> QED
    BY <1>1, <1>2, <2>1, <2>5 DEF Spent
<1>3. CASE n > ch.counter
  <2> DEFINE S == Newest(Held(ch, n))
  <2>0. o = [type |-> ch.type, counter |-> n, key |-> Advance(ch.key, n - ch.counter),
             kept |-> [c \in S \ {n} |-> IF c > ch.counter THEN KeyAhead(ch, c) ELSE ch.kept[c]]]
    BY <1>1, <1>3, TakenAhead
  <2>1. /\ o.type = ch.type /\ o.counter = n /\ o.key = Advance(ch.key, n - ch.counter)
        /\ o.kept = [c \in S \ {n} |-> IF c > ch.counter THEN KeyAhead(ch, c) ELSE ch.kept[c]]
        /\ DOMAIN o.kept = S \ {n}
        /\ o = [type |-> o.type, counter |-> o.counter, key |-> o.key, kept |-> o.kept]
    <3> HIDE DEF S
    <3> QED
      BY <2>0
  <2>2. Held(ch, n) \subseteq 0..n /\ n \in Held(ch, n)
    BY <1>1, <1>3, HeldInRange
  <2>3. S \subseteq Held(ch, n) /\ S \subseteq 0..n
    BY <2>2 DEF Newest
  <2>4. IsFiniteSet(S) /\ Cardinality(S) <= MaxRetained /\ n \in S
    BY <2>2, NewestBounded, TopIsNewest
  <2> HIDE DEF S
  <2>5. Cardinality(DOMAIN o.kept) < MaxRetained
    <3>1. Cardinality(S \ {n}) = Cardinality(S) - 1 /\ Cardinality(S) \in Nat
      BY <2>4, FS_RemoveElement, FS_CardinalityType
    <3> QED
      BY <2>1, <2>4, <3>1, ChainAssumption
  <2>6. ASSUME NEW c \in S \ {n}
        PROVE  o.kept[c] = [seed |-> ch.key.seed, step |-> c] /\ c \in 0..n /\ IsKey(o.kept[c])
    <3>1. c \in 0..n /\ c \in Held(ch, n) /\ c \in Nat
      BY <2>3
    <3>2. o.kept[c] = [seed |-> ch.key.seed, step |-> c]
      <4>1. CASE c > ch.counter
        BY <2>1, <3>1, <4>1, AheadOfStep
      <4>2. CASE c <= ch.counter
        <5>1. c \in DOMAIN ch.kept
          BY <1>1, <3>1, <4>2 DEF Held
        <5>2. o.kept[c] = ch.kept[c]
          BY <1>1, <2>1, <3>1, <4>2
        <5> QED
          BY <5>1, <5>2 DEF InStep
      <4> QED
        BY <1>1, <3>1, <4>1, <4>2
    <3> QED
      BY <3>1, <3>2 DEF IsKey
  <2>7. o.key = [seed |-> ch.key.seed, step |-> n + 1]
    <3>1. n - ch.counter \in Int /\ (ch.counter + 1) + (n - ch.counter) = n + 1
      BY <1>1
    <3> QED
      BY <1>1, <2>1, <3>1, AdvanceIsStep
  <2>8. IsChain(o)
    <3>1. o.kept = [c \in DOMAIN o.kept |-> o.kept[c]]
      BY <2>1
    <3>2. o = [type |-> o.type, counter |-> o.counter, key |-> o.key, kept |-> o.kept]
      BY <2>1
    <3>3. IsKey(o.key)
      BY <2>7 DEF IsKey
    <3> QED
      BY <2>1, <2>6, <3>1, <3>2, <3>3 DEF IsChain
  <2>9. o.type = ch.type /\ o.counter = n
    BY <2>1
  <2>10. ChainOK(o)
    <3>1. DOMAIN o.kept \subseteq 0..n
      BY <2>1, <2>6
    <3> QED
      BY <1>1, <2>7, <2>9, <3>1 DEF ChainOK
  <2>11. InStep(o)
    BY <2>1, <2>5, <2>6, <2>7, <2>8, <2>9, <2>10 DEF InStep
  <2>12. ASSUME NEW c \in Int, Spent(ch, c) PROVE Spent(o, c)
    <3>1. c <= ch.counter /\ c \notin DOMAIN ch.kept
      BY <2>12 DEF Spent
    <3>2. c \notin Held(ch, n)
      BY <1>1, <3>1 DEF Held
    <3> QED
      BY <1>1, <1>3, <2>1, <2>3, <2>9, <3>1, <3>2 DEF Spent
  <2>13. Spent(o, n)
    BY <2>1, <2>9 DEF Spent
  <2> QED
    BY <1>1, <1>3, <2>7, <2>9, <2>11, <2>12, <2>13
<1> QED
  BY <1>1, <1>2, <1>3

\* The key that encrypt takes is the one of its counter.
LEMMA FilledKey ==
  ASSUME NEW ch, InStep(ch)
  PROVE  FillMessageKeys(ch, ch.counter + 1).kept[ch.counter + 1]
           = [seed |-> ch.key.seed, step |-> ch.counter + 1]
<1> DEFINE n == ch.counter + 1
<1>1. IsChain(ch) /\ ChainOK(ch) /\ ch.counter \in Int /\ n \in Nat /\ n > ch.counter
  BY DEF InStep, ChainOK
<1>2. n \in Newest(Held(ch, n))
  BY <1>1, HeldInRange, TopIsNewest
<1>3. FillMessageKeys(ch, n).kept = [c \in Newest(Held(ch, n)) |->
                                      IF c > ch.counter THEN KeyAhead(ch, c) ELSE ch.kept[c]]
  BY <1>1, Filled
<1>4. KeyAhead(ch, n) = [seed |-> ch.key.seed, step |-> n]
  BY <1>1, AheadOfStep
<1> HIDE DEF n
<1>5. FillMessageKeys(ch, n).kept[n] = [seed |-> ch.key.seed, step |-> n]
  BY <1>1, <1>2, <1>3, <1>4
<1> QED
  BY <1>5 DEF n
-----------------------------------------------------------------------------
(* A session entry                                                          *)

IsId(i) == i = Id(i.key, i.form) /\ i.form \in {"bare", "wire"}

\* A root key is a session secret and the agreements of the steps since.
IsRoot(r) == r \in Seq(Range(r)) /\ Len(r) \in Nat \ {0}

\* Of chain ch, stored under i: it is the one that e sends on,
SendsOn(e, i, ch) ==
  IsSending(ch) /\ i \in KeyIds(e.own) /\ ch.key.seed = e.root /\ ch.counter <= MaxCounter

\* or the one for the remote key that e last stepped to.
ReceivesOn(e, i, ch) ==
  /\ IsReceiving(ch) /\ i \in KeyIds(e.lastRemote)
  /\ IsRoot(ch.key.seed) /\ Len(ch.key.seed) <= Len(e.root) /\ ch.key.seed[1] = e.root[1]

\* At most those two are in the entry, however they are encoded.
IsRatchet(e) ==
  /\ e = [root |-> e.root, own |-> e.own, lastRemote |-> e.lastRemote,
          previousCounter |-> e.previousCounter, chains |-> e.chains, pending |-> e.pending]
  /\ IsRoot(e.root)
  /\ IsId(e.own) /\ IsId(e.lastRemote) /\ e.own.key # e.lastRemote.key
  /\ e.previousCounter \in 0..MaxCounter /\ e.pending \in BOOLEAN
  /\ e.chains = [i \in DOMAIN e.chains |-> e.chains[i]]
  /\ \A i \in DOMAIN e.chains :
       InStep(e.chains[i]) /\ (SendsOn(e, i, e.chains[i]) \/ ReceivesOn(e, i, e.chains[i]))
  /\ \A i, j \in DOMAIN e.chains : i.key = j.key => i = j

LEMMA IdKey ==
  ASSUME NEW id, IsId(id), NEW i \in KeyIds(id)
  PROVE  IsId(i) /\ i.key = id.key
BY DEF IsId, KeyIds, Bare, Id

LEMMA OneDirection ==
  ASSUME NEW ch
  PROVE  ~(IsSending(ch) /\ IsReceiving(ch))
BY DEF IsSending, IsReceiving

\* An entry sends on one chain.
LEMMA OneSending ==
  ASSUME NEW e, IsRatchet(e), NEW i \in DOMAIN e.chains, IsSending(e.chains[i]),
         NEW j \in DOMAIN e.chains, IsSending(e.chains[j])
  PROVE  i = j
<1>1. i \in KeyIds(e.own) /\ j \in KeyIds(e.own)
  BY OneDirection DEF IsRatchet, SendsOn, ReceivesOn
<1>2. i.key = j.key
  BY <1>1, IdKey DEF IsRatchet
<1> QED
  BY <1>2 DEF IsRatchet

\* What FindChain returns is the chain stored under one of the encodings.
LEMMA Found ==
  ASSUME NEW chains, NEW id, HasChain(chains, id)
  PROVE  ChainId(chains, id) \in KeyIds(id) \cap DOMAIN chains
BY DEF HasChain, ChainId, KeyIds

\* encrypt sends on the chain of the entry's own key.
LEMMA SendingChain ==
  ASSUME NEW e, IsRatchet(e), SendingChains(e) # {}
  PROVE  /\ SendingId(e) \in DOMAIN e.chains
         /\ SendsOn(e, SendingId(e), e.chains[SendingId(e)])
         /\ InStep(e.chains[SendingId(e)])
         /\ NextCounter(e) = e.chains[SendingId(e)].counter + 1
         /\ NextCounter(e) \in Nat
<1>1. SendingId(e) \in SendingChains(e)
  BY DEF SendingId
<1>2. SendingId(e) \in DOMAIN e.chains /\ IsSending(e.chains[SendingId(e)])
  BY <1>1 DEF SendingChains, NamedSending
<1>3. InStep(e.chains[SendingId(e)]) /\ SendsOn(e, SendingId(e), e.chains[SendingId(e)])
  BY <1>2, OneDirection DEF IsRatchet, ReceivesOn
<1>4. e.chains[SendingId(e)].counter \in Int /\ e.chains[SendingId(e)].counter >= -1
  BY <1>3 DEF InStep, ChainOK
<1>5. NextCounter(e) = e.chains[SendingId(e)].counter + 1
  BY DEF NextCounter
<1> QED
  BY <1>2, <1>3, <1>4, <1>5

\* The chains may have moved, on the same keys.
OnSameKeys(e, o) == o = [e EXCEPT !.chains = o.chains, !.pending = o.pending]

\* Putting in the place of a chain one that is still good for its place.
LEMMA ChainReplaced ==
  ASSUME NEW e, IsRatchet(e), NEW i \in DOMAIN e.chains, NEW ch, InStep(ch),
         SendsOn(e, i, ch) \/ ReceivesOn(e, i, ch),
         NEW o, OnSameKeys(e, o),
         o.chains = [e.chains EXCEPT ![i] = ch], o.pending \in BOOLEAN
  PROVE  /\ IsRatchet(o)
         /\ o.root = e.root /\ o.own = e.own /\ o.lastRemote = e.lastRemote
<1>1. o = [root |-> e.root, own |-> e.own, lastRemote |-> e.lastRemote,
           previousCounter |-> e.previousCounter, chains |-> o.chains, pending |-> o.pending]
  BY DEF IsRatchet, OnSameKeys
<1>2. /\ o.root = e.root /\ o.own = e.own /\ o.lastRemote = e.lastRemote
      /\ o.previousCounter = e.previousCounter
      /\ o = [root |-> o.root, own |-> o.own, lastRemote |-> o.lastRemote,
              previousCounter |-> o.previousCounter, chains |-> o.chains, pending |-> o.pending]
  BY <1>1
<1>3. /\ DOMAIN o.chains = DOMAIN e.chains /\ o.chains[i] = ch
      /\ \A j \in DOMAIN e.chains \ {i} : o.chains[j] = e.chains[j]
      /\ o.chains = [j \in DOMAIN o.chains |-> o.chains[j]]
  BY <1>2 DEF IsRatchet
<1>4. \A j \in DOMAIN o.chains :
        InStep(o.chains[j]) /\ (SendsOn(o, j, o.chains[j]) \/ ReceivesOn(o, j, o.chains[j]))
  <2> SUFFICES ASSUME NEW j \in DOMAIN e.chains
               PROVE  InStep(o.chains[j]) /\ (SendsOn(e, j, o.chains[j]) \/ ReceivesOn(e, j, o.chains[j]))
    BY <1>2, <1>3 DEF SendsOn, ReceivesOn
  <2>1. CASE j = i
    BY <1>3, <2>1
  <2>2. CASE j # i
    BY <1>3, <2>2 DEF IsRatchet
  <2> QED
    BY <2>1, <2>2
<1>5. IsRatchet(o)
  BY <1>2, <1>3, <1>4 DEF IsRatchet
<1> QED
  BY <1>2, <1>5

\* A frame is encrypted under the next key of the root's own chain, and that
\* chain moves on.
EncryptsOn(e, i, o) ==
  /\ Frame(e).key = [seed |-> e.root, step |-> NextCounter(e)]
  /\ IsRatchet(o)
  /\ o.root = e.root /\ o.own = e.own /\ o.lastRemote = e.lastRemote /\ o.pending = e.pending
  /\ o.chains = [e.chains EXCEPT ![i] = TakeMessageKey(e.chains[i], NextCounter(e))]
  /\ i \in DOMAIN e.chains /\ IsSending(o.chains[i])
  /\ o.chains[i].counter = NextCounter(e)
  /\ NextCounter(e) = e.chains[i].counter + 1

LEMMA EncryptedRatchet ==
  ASSUME NEW e, IsRatchet(e), SendingChains(e) # {}, NextCounter(e) <= MaxCounter,
         NEW i, i = SendingId(e), NEW o, o = Encrypted(e)
  PROVE  EncryptsOn(e, i, o)
<1> DEFINE n == NextCounter(e)
           ch == TakeMessageKey(e.chains[i], n)
           chains == [e.chains EXCEPT ![i] = ch]
<1>1. /\ i \in DOMAIN e.chains /\ SendsOn(e, i, e.chains[i]) /\ InStep(e.chains[i])
      /\ n \in Nat /\ n = e.chains[i].counter + 1 /\ n <= MaxCounter
  BY SendingChain
<1>2. Frame(e).key = [seed |-> e.root, step |-> n]
  <2>1. Frame(e).key = FillMessageKeys(e.chains[i], n).kept[n]
    BY DEF Frame
  <2> HIDE DEF n
  <2> QED
    BY <1>1, <2>1, FilledKey DEF SendsOn
<1>3. /\ OnSameKeys(e, o)
      /\ o.chains = chains /\ o.pending = e.pending
  <2>1. o = [e EXCEPT !.chains = chains]
    BY DEF Encrypted
  <2>2. e = [root |-> e.root, own |-> e.own, lastRemote |-> e.lastRemote,
             previousCounter |-> e.previousCounter, chains |-> e.chains, pending |-> e.pending]
    BY DEF IsRatchet
  <2> HIDE DEF chains
  <2> QED
    BY <2>1, <2>2 DEF OnSameKeys
<1>0. ch = TakeMessageKey(e.chains[i], n) /\ chains = [e.chains EXCEPT ![i] = ch]
  OBVIOUS
<1> HIDE DEF n, ch, chains
<1>4. /\ InStep(ch) /\ ch.type = e.chains[i].type /\ ch.key.seed = e.chains[i].key.seed
      /\ ch.counter = n
  <2>0. InStep(e.chains[i]) /\ n \in Nat /\ ch = TakeMessageKey(e.chains[i], n)
    BY <1>0, <1>1
  <2>1. /\ InStep(ch) /\ ch.type = e.chains[i].type /\ ch.key.seed = e.chains[i].key.seed
        /\ ch.counter = IF n > e.chains[i].counter THEN n ELSE e.chains[i].counter
    BY <2>0, TakeInStep
  <2>2. e.chains[i].counter \in Int
    BY <1>1 DEF InStep, ChainOK
  <2>3. n > e.chains[i].counter
    BY <1>1, <2>2
  <2> QED
    BY <2>1, <2>3
<1>5. SendsOn(e, i, ch)
  BY <1>1, <1>4 DEF SendsOn, IsSending
<1>6. o.pending \in BOOLEAN
  BY <1>3 DEF IsRatchet
<1>7. /\ IsRatchet(o) /\ o.root = e.root /\ o.own = e.own /\ o.lastRemote = e.lastRemote
      /\ o.chains = chains
  <2>1. i \in DOMAIN e.chains /\ InStep(ch) /\ o.chains = [e.chains EXCEPT ![i] = ch]
    BY <1>0, <1>1, <1>3, <1>4
  <2> QED
    BY <1>3, <1>5, <1>6, <2>1, ChainReplaced
<1>8. o.chains[i] = ch
  BY <1>0, <1>1, <1>7
<1>9. IsSending(o.chains[i])
  BY <1>5, <1>8 DEF SendsOn
<1> QED
  BY <1>0, <1>1, <1>2, <1>3, <1>4, <1>7, <1>8, <1>9 DEF n, EncryptsOn
-----------------------------------------------------------------------------
(* A ratchet step                                                           *)

\* The root of a session that has not stepped is its secret alone.
LEMMA SecretIsRoot ==
  ASSUME NEW secret
  PROVE  IsRoot(<<secret>>) /\ Len(<<secret>>) = 1 /\ <<secret>>[1] = secret
<1> DEFINE root == <<secret>>
<1>1. root \in Seq({secret}) /\ Len(root) = 1 /\ root[1] = secret
  OBVIOUS
<1>2. root = [i \in 1..1 |-> root[i]] /\ DOMAIN root = 1..1
  BY <1>1
<1> HIDE DEF root
<1>3. \A i \in 1..1 : root[i] \in Range(root)
  BY <1>2 DEF Range
<1>4. root \in [1..1 -> Range(root)]
  BY <1>2, <1>3
<1>5. root \in Seq(Range(root))
  BY <1>4, SeqDef
<1> QED
  BY <1>1, <1>5 DEF IsRoot, root

\* A sequence is one of its own elements.
LEMMA OwnRange ==
  ASSUME NEW s, NEW S, s \in Seq(S), NEW n \in Nat, Len(s) = n
  PROVE  s \in Seq(Range(s))
<1>1. s = [i \in 1..n |-> s[i]] /\ DOMAIN s = 1..n
  OBVIOUS
<1>2. \A i \in 1..n : s[i] \in Range(s)
  BY <1>1 DEF Range
<1>3. s \in [1..n -> Range(s)]
  BY <1>1, <1>2
<1> QED
  BY <1>3, SeqDef

Extended(next, s, x) == next = Append(s, x)

\* A sequence keeps what it has when something is appended.
LEMMA Appended ==
  ASSUME NEW s, s \in Seq(Range(s)), NEW x, NEW next, Extended(next, s, x)
  PROVE  /\ next \in Seq(Range(next)) /\ Len(s) \in Nat /\ Len(next) = Len(s) + 1
         /\ next[Len(s) + 1] = x /\ \A i \in 1..Len(s) : next[i] = s[i]
<1> DEFINE S == Range(s) \cup {x}
           n == Len(s)
<1>1. s \in Seq(Range(s)) /\ n \in Nat
  OBVIOUS
<1>2. s \in Seq(S)
  BY <1>1
<1>3. x \in S
  OBVIOUS
<1> HIDE DEF S
<1>4. next \in Seq(S) /\ Len(next) = n + 1 /\ \A i \in 1..n : next[i] = s[i]
  BY <1>2, <1>3 DEF Extended
<1>5. next[n + 1] = x
  BY <1>2, <1>3 DEF Extended
<1>6. n + 1 \in Nat
  BY <1>1
<1>7. next \in Seq(Range(next))
  BY <1>4, <1>6, OwnRange
<1> QED
  BY <1>1, <1>4, <1>5, <1>7

\* A derived root is one agreement longer, and of the same session.
LEMMA Derived ==
  ASSUME NEW root, IsRoot(root), NEW dh, NEW next, next = Derive(root, dh)
  PROVE  IsRoot(next) /\ Len(next) = Len(root) + 1 /\ next[1] = root[1]
<1>1. root \in Seq(Range(root)) /\ Len(root) \in Nat /\ Len(root) >= 1
  BY DEF IsRoot
<1>2. Extended(next, root, dh)
  BY DEF Derive, Extended
<1>3. /\ next \in Seq(Range(next)) /\ Len(next) = Len(root) + 1
      /\ \A i \in 1..Len(root) : next[i] = root[i]
  BY <1>1, <1>2, Appended
<1> QED
  BY <1>1, <1>3 DEF IsRoot

\* The two roots of a step are new, by their length.
LEMMA SteppedRoots ==
  ASSUME NEW e, IsRatchet(e), NEW id, NEW fresh
  PROVE  /\ IsRoot(ReceivingRoot(e, id)) /\ Len(ReceivingRoot(e, id)) = Len(e.root) + 1
         /\ ReceivingRoot(e, id)[1] = e.root[1]
         /\ IsRoot(SendingRoot(e, id, fresh)) /\ Len(SendingRoot(e, id, fresh)) = Len(e.root) + 2
         /\ SendingRoot(e, id, fresh)[1] = e.root[1]
         /\ Len(e.root) \in Nat
<1>1. IsRoot(e.root) /\ Len(e.root) \in Nat
  BY DEF IsRatchet, IsRoot
<1>2. IsRoot(ReceivingRoot(e, id)) /\ Len(ReceivingRoot(e, id)) = Len(e.root) + 1
      /\ ReceivingRoot(e, id)[1] = e.root[1]
  BY <1>1, Derived DEF ReceivingRoot
<1>3. /\ IsRoot(SendingRoot(e, id, fresh)) /\ Len(SendingRoot(e, id, fresh)) = Len(ReceivingRoot(e, id)) + 1
      /\ SendingRoot(e, id, fresh)[1] = ReceivingRoot(e, id)[1]
  BY <1>2, Derived DEF SendingRoot
<1> QED
  BY <1>1, <1>2, <1>3

LEMMA PlannedInRange ==
  ASSUME NEW e, IsRatchet(e)
  PROVE  PlannedPreviousCounter(e) \in 0..MaxCounter
<1>1. CASE HasChain(e.chains, e.own) /\ IsSending(FindChain(e.chains, e.own))
  <2> DEFINE ch == FindChain(e.chains, e.own)
  <2>1. ChainId(e.chains, e.own) \in DOMAIN e.chains /\ ch = e.chains[ChainId(e.chains, e.own)]
    BY <1>1, Found DEF FindChain
  <2>2. InStep(ch) /\ ch.counter <= MaxCounter
    BY <1>1, <2>1, OneDirection DEF IsRatchet, SendsOn, ReceivesOn
  <2>3. ch.counter \in Int
    BY <2>2 DEF InStep, ChainOK
  <2>4. PlannedPreviousCounter(e) = NonNegative(ch.counter)
    BY <1>1 DEF PlannedPreviousCounter
  <2> HIDE DEF ch
  <2> QED
    BY <2>2, <2>3, <2>4, RatchetAssumption DEF NonNegative
<1>2. CASE ~(HasChain(e.chains, e.own) /\ IsSending(FindChain(e.chains, e.own)))
  BY <1>2 DEF PlannedPreviousCounter, IsRatchet
<1> QED
  BY <1>1, <1>2

\* The chains that a step leaves behind: the two that it made.
LEMMA SteppedChains ==
  ASSUME NEW e, IsRatchet(e), NEW id, IsId(id), id.key # e.own.key, StepNeeded(e, id),
         NEW fresh, fresh # id.key, NEW o, o = ApplyRatchet(e, id, fresh),
         NEW own, own = Id(fresh, "wire")
  PROVE  o.chains = [i \in {id, own} |->
                       IF i = own THEN NewChain("sending", SendingRoot(e, id, fresh))
                       ELSE NewChain("receiving", ReceivingRoot(e, id))]
<1> DEFINE rest == Without(e.chains, RetiredReceiving(e))
           received == With(rest, id, ReceivingChain(e, id))
           kept == Without(received, {ChainId(received, e.own)})
<1>1. ReceivingChain(e, id) = NewChain("receiving", ReceivingRoot(e, id))
  BY DEF ReceivingChain
<1>2. o.chains = With(kept, own, NewChain("sending", SendingRoot(e, id, fresh)))
  BY DEF ApplyRatchet, IsRatchet
<1>3. DOMAIN received = (DOMAIN e.chains \ KeyIds(e.lastRemote)) \cup {id} /\ received[id] = ReceivingChain(e, id)
  BY DEF With, Without, RetiredReceiving, Restrict
<1>4. DOMAIN kept = DOMAIN received \ {ChainId(received, e.own)}
  BY DEF Without, Restrict
<1>5. \A i \in KeyIds(e.own) : i.key = e.own.key /\ i # id
  BY IdKey DEF IsRatchet
<1>6. DOMAIN kept \subseteq {id}
  <2> SUFFICES ASSUME NEW i \in DOMAIN e.chains, i \notin KeyIds(e.lastRemote), i # id
               PROVE  i = ChainId(received, e.own)
    BY <1>3, <1>4
  <2>1. i \in KeyIds(e.own) /\ i \in DOMAIN received
    BY <1>3 DEF IsRatchet, SendsOn, ReceivesOn
  <2>2. ChainId(received, e.own) \in KeyIds(e.own) \cap DOMAIN received
    BY <2>1, Found DEF HasChain
  <2>3. ChainId(received, e.own) \in DOMAIN e.chains /\ ChainId(received, e.own).key = i.key
    BY <1>3, <1>5, <2>1, <2>2
  <2> HIDE DEF received
  <2> QED
    BY <2>3 DEF IsRatchet
<1>7. id \in DOMAIN kept
  <2>1. ChainId(received, e.own) \in KeyIds(e.own)
    BY DEF ChainId, KeyIds
  <2> QED
    BY <1>3, <1>4, <1>5, <2>1
<1>8. kept[id] = NewChain("receiving", ReceivingRoot(e, id))
  <2>1. kept[id] = received[id]
    BY <1>4, <1>7 DEF Without, Restrict
  <2> QED
    BY <1>1, <1>3, <2>1
<1>9. own # id
  BY DEF Id
<1> HIDE DEF kept
<1> QED
  BY <1>2, <1>6, <1>7, <1>8, <1>9 DEF With

LEMMA SteppedRatchet ==
  ASSUME NEW e, IsRatchet(e), NEW id, IsId(id), id.key # e.own.key, StepNeeded(e, id),
         NEW fresh, fresh # id.key, NEW o, o = ApplyRatchet(e, id, fresh)
  PROVE  /\ IsRatchet(o)
         /\ o.root = SendingRoot(e, id, fresh) /\ o.own = Id(fresh, "wire") /\ o.lastRemote = id
         /\ DOMAIN o.chains = {id, o.own} /\ id # o.own
         /\ o.chains[id] = ReceivingChain(e, id)
         /\ IsReceiving(o.chains[id]) /\ IsSending(o.chains[o.own])
         /\ Len(o.chains[id].key.seed) = Len(e.root) + 1
         /\ o.root[1] = e.root[1] /\ o.chains[o.own] = NewChain("sending", o.root)
<1> DEFINE own == Id(fresh, "wire")
           root == SendingRoot(e, id, fresh)
           made == ReceivingRoot(e, id)
<1>0. PICK c \in {e.previousCounter, PlannedPreviousCounter(e)} :
        \E chains : o = [e EXCEPT !.chains = chains, !.previousCounter = c,
                                  !.root = root, !.own = own, !.lastRemote = id]
  BY DEF ApplyRatchet, AppliedPreviousCounter
<1>1. o = [root |-> root, own |-> own, lastRemote |-> id,
           previousCounter |-> c, chains |-> o.chains, pending |-> e.pending]
  <2>1. e = [root |-> e.root, own |-> e.own, lastRemote |-> e.lastRemote,
             previousCounter |-> e.previousCounter, chains |-> e.chains, pending |-> e.pending]
    BY DEF IsRatchet
  <2>2. PICK chains :
          o = [e EXCEPT !.chains = chains, !.previousCounter = c,
                        !.root = root, !.own = own, !.lastRemote = id]
    BY <1>0
  <2> HIDE DEF own, root
  <2> QED
    BY <2>1, <2>2
<1>2. o.chains = [i \in {id, own} |-> IF i = own THEN NewChain("sending", root) ELSE NewChain("receiving", made)]
  BY SteppedChains
<1>3. IsId(own) /\ own.key = fresh /\ own # id /\ own \in KeyIds(own) /\ id \in KeyIds(id)
  BY DEF IsId, Id, KeyIds
<1>4. /\ IsRoot(made) /\ Len(made) = Len(e.root) + 1 /\ made[1] = e.root[1]
      /\ IsRoot(root) /\ Len(root) = Len(e.root) + 2 /\ root[1] = e.root[1] /\ Len(e.root) \in Nat
  BY SteppedRoots
<1>5. c \in 0..MaxCounter /\ e.pending \in BOOLEAN
  BY <1>0, PlannedInRange DEF IsRatchet
<1>6. ReceivingChain(e, id) = NewChain("receiving", made)
  BY DEF ReceivingChain
<1> HIDE DEF own, root, made
<1>7. /\ o.root = root /\ o.own = own /\ o.lastRemote = id
      /\ o.previousCounter = c /\ o.pending = e.pending
      /\ o = [root |-> o.root, own |-> o.own, lastRemote |-> o.lastRemote,
              previousCounter |-> o.previousCounter, chains |-> o.chains, pending |-> o.pending]
  BY <1>1
<1>8. /\ DOMAIN o.chains = {id, own}
      /\ o.chains[id] = NewChain("receiving", made) /\ o.chains[own] = NewChain("sending", root)
      /\ o.chains = [i \in DOMAIN o.chains |-> o.chains[i]]
  BY <1>2, <1>3
<1>9. /\ InStep(o.chains[id]) /\ o.chains[id].type = "receiving" /\ o.chains[id].key.seed = made
      /\ InStep(o.chains[own]) /\ o.chains[own].type = "sending" /\ o.chains[own].counter = -1
      /\ o.chains[own].key.seed = root
  BY <1>8, NewChainInStep
<1>10. ReceivesOn(o, id, o.chains[id]) /\ SendsOn(o, own, o.chains[own])
  <2>1. Len(made) <= Len(root) /\ -1 <= MaxCounter
    BY <1>4, RatchetAssumption
  <2> QED
    BY <1>3, <1>4, <1>7, <1>9, <2>1 DEF ReceivesOn, SendsOn, IsReceiving, IsSending
<1>11. IsRatchet(o)
  <2>1. \A i \in DOMAIN o.chains :
          InStep(o.chains[i]) /\ (SendsOn(o, i, o.chains[i]) \/ ReceivesOn(o, i, o.chains[i]))
    BY <1>8, <1>9, <1>10
  <2>2. \A i, j \in DOMAIN o.chains : i.key = j.key => i = j
    BY <1>3, <1>8
  <2>3. o.own.key # o.lastRemote.key
    BY <1>3, <1>7
  <2> QED
    BY <1>3, <1>4, <1>5, <1>7, <1>8, <2>1, <2>2, <2>3 DEF IsRatchet
<1> QED
  BY <1>3, <1>4, <1>6, <1>7, <1>8, <1>9, <1>11 DEF own, root, IsReceiving, IsSending

\* o is s after the frame of counter n was opened on the chain under i.
TakesOn(s, i, n, o) == o = [s EXCEPT !.chains[i] = TakeMessageKey(@, n), !.pending = FALSE]

\* decrypt_entry on a chain of the entry as the step leaves it.
OpensOn(s, i, ch, n, o) ==
  /\ IsRatchet(o)
  /\ o.root = s.root /\ o.own = s.own /\ o.lastRemote = s.lastRemote
  /\ o.chains = [s.chains EXCEPT ![i] = TakeMessageKey(ch, n)]
  /\ i \in DOMAIN s.chains /\ ReceivesOn(s, i, ch) /\ InStep(ch)

LEMMA DecryptedOn ==
  ASSUME NEW s, IsRatchet(s), NEW id, IsId(id), NEW n \in Nat,
         HasChain(s.chains, id), NEW ch, ch = FindChain(s.chains, id), IsReceiving(ch),
         NEW i, i = ChainId(s.chains, id),
         NEW o, TakesOn(s, i, n, o)
  PROVE  OpensOn(s, i, ch, n, o)
<1> DEFINE taken == TakeMessageKey(ch, n)
           chains == [s.chains EXCEPT ![i] = taken]
<1>1. i \in DOMAIN s.chains /\ ch = s.chains[i]
  BY Found DEF FindChain
<1>2. InStep(ch) /\ ReceivesOn(s, i, ch)
  BY <1>1, OneDirection DEF IsRatchet, SendsOn
<1>3. OnSameKeys(s, o) /\ o.chains = chains /\ o.pending = FALSE
  <2>1. s = [root |-> s.root, own |-> s.own, lastRemote |-> s.lastRemote,
             previousCounter |-> s.previousCounter, chains |-> s.chains, pending |-> s.pending]
    BY DEF IsRatchet
  <2>2. o = [s EXCEPT !.chains = chains, !.pending = FALSE]
    BY <1>1 DEF TakesOn
  <2> HIDE DEF chains
  <2> QED
    BY <2>1, <2>2 DEF OnSameKeys
<1>4. taken = TakeMessageKey(ch, n) /\ o.chains = [s.chains EXCEPT ![i] = taken]
  BY <1>3
<1> HIDE DEF taken, chains
<1>5. InStep(taken) /\ taken.type = ch.type /\ taken.key.seed = ch.key.seed
  BY <1>2, <1>4, TakeInStep
<1>6. ReceivesOn(s, i, taken)
  BY <1>2, <1>5 DEF ReceivesOn, IsReceiving
<1>7. IsRatchet(o) /\ o.root = s.root /\ o.own = s.own /\ o.lastRemote = s.lastRemote
  <2>1. OnSameKeys(s, o) /\ o.pending \in BOOLEAN
    BY <1>3
  <2>2. i \in DOMAIN s.chains /\ o.chains = [s.chains EXCEPT ![i] = taken]
    BY <1>1, <1>4
  <2> QED
    BY <1>5, <1>6, <2>1, <2>2, ChainReplaced
<1> QED
  BY <1>1, <1>2, <1>4, <1>7 DEF OpensOn

\* Nothing is pending once a frame of the peer was opened.
LEMMA NotPending ==
  ASSUME NEW s, IsRatchet(s), NEW i, NEW n, NEW o, TakesOn(s, i, n, o)
  PROVE  ~o.pending
<1>1. s = [root |-> s.root, own |-> s.own, lastRemote |-> s.lastRemote,
           previousCounter |-> s.previousCounter, chains |-> s.chains, pending |-> s.pending]
  BY DEF IsRatchet
<1>2. PICK chains : o = [s EXCEPT !.chains = chains, !.pending = FALSE]
  BY DEF TakesOn
<1> QED
  BY <1>1, <1>2

\* What opening a frame does to the entry: the frame's chain is the only
\* receiving one that is left, and the frame's key is gone from it; without a
\* step the keys stay, and with one the new root is longer.
LEMMA DecryptedRatchet ==
  ASSUME NEW e, IsRatchet(e), NEW frame, IsId(frame.id), frame.id.key # e.own.key,
         frame.counter \in Nat, NEW fresh, fresh # frame.id.key,
         NEW ch, ch = ReceivingChain(e, frame.id), IsReceiving(ch),
         NEW o, o = Decrypted(e, frame, fresh)
  PROVE  /\ IsRatchet(o)
         /\ InStep(ch)
         /\ ~o.pending /\ o.root[1] = e.root[1] /\ ch.key.seed[1] = e.root[1]
         /\ Len(ch.key.seed) <= Len(o.root)
         /\ \A i \in DOMAIN o.chains :
              IsReceiving(o.chains[i]) => o.chains[i] = TakeMessageKey(ch, frame.counter)
         /\ IF StepNeeded(e, frame.id)
            THEN /\ Len(o.root) = Len(e.root) + 2 /\ o.own = Id(fresh, "wire") /\ o.lastRemote = frame.id
                 /\ frame.id \in DOMAIN o.chains /\ IsReceiving(o.chains[frame.id])
                 /\ o.root = SendingRoot(e, frame.id, fresh)
                 /\ o.own \in DOMAIN o.chains /\ o.chains[o.own] = NewChain("sending", o.root)
                 /\ Len(ch.key.seed) = Len(e.root) + 1
            ELSE /\ o.root = e.root /\ o.own = e.own
                 /\ ch \in {e.chains[i] : i \in DOMAIN e.chains}
                 /\ \A i \in DOMAIN o.chains :
                      IsSending(o.chains[i]) => i \in DOMAIN e.chains /\ o.chains[i] = e.chains[i]
<1> DEFINE id == frame.id
           n == frame.counter
           s == Stepped(e, frame, fresh)
           i == ChainId(s.chains, id)
<1>1. TakesOn(s, i, n, o)
  BY DEF Decrypted, TakesOn
<1>2. CASE StepNeeded(e, id)
  <2>1. s = ApplyRatchet(e, id, fresh)
    BY <1>2 DEF Stepped
  <2> HIDE DEF s
  <2>2. /\ IsRatchet(s)
        /\ s.root = SendingRoot(e, id, fresh) /\ s.own = Id(fresh, "wire") /\ s.lastRemote = id
        /\ DOMAIN s.chains = {id, s.own} /\ id # s.own
        /\ s.chains[id] = ch
        /\ IsReceiving(s.chains[id]) /\ IsSending(s.chains[s.own])
        /\ Len(s.chains[id].key.seed) = Len(e.root) + 1
        /\ s.root[1] = e.root[1] /\ s.chains[s.own] = NewChain("sending", s.root)
    BY <1>2, <2>1, SteppedRatchet
  <2>3. HasChain(s.chains, id) /\ i = id /\ FindChain(s.chains, id) = ch
    BY <2>2 DEF HasChain, KeyIds, ChainId, FindChain
  <2>4. /\ IsRatchet(o) /\ o.root = s.root /\ o.own = s.own /\ o.lastRemote = s.lastRemote
        /\ o.chains = [s.chains EXCEPT ![i] = TakeMessageKey(ch, n)] /\ InStep(ch)
    <3>1. OpensOn(s, i, ch, n, o)
      BY <1>1, <2>2, <2>3, DecryptedOn
    <3> QED
      BY <3>1 DEF OpensOn
  <2>0. ~o.pending
    BY <1>1, <2>2, NotPending
  <2>5. Len(s.root) = Len(e.root) + 2 /\ Len(e.root) \in Nat
    BY <2>2, SteppedRoots
  <2>6. ASSUME NEW j \in DOMAIN o.chains, IsReceiving(o.chains[j])
        PROVE  o.chains[j] = TakeMessageKey(ch, n)
    <3>1. j = id
      <4> SUFFICES ASSUME j # id PROVE FALSE
        OBVIOUS
      <4>1. o.chains[j] = s.chains[s.own]
        BY <2>2, <2>3, <2>4
      <4> QED
        BY <2>2, <2>6, <4>1, OneDirection
    <3> QED
      BY <2>2, <2>3, <2>4, <3>1
  <2>7. id \in DOMAIN o.chains /\ o.chains[id] = TakeMessageKey(ch, n)
    BY <2>2, <2>3, <2>4
  <2>8. IsReceiving(o.chains[id])
    <3>1. PICK t : t = TakeMessageKey(ch, n)
      OBVIOUS
    <3>2. InStep(ch) /\ n \in Nat
      BY <2>4
    <3>3. t.type = ch.type
      BY <3>1, <3>2, TakeInStep
    <3>4. o.chains[id] = t
      BY <2>7, <3>1
    <3>5. IsReceiving(ch)
      BY <2>4
    <3> QED
      BY <3>3, <3>4, <3>5 DEF IsReceiving
  <2>9. s.own \in DOMAIN o.chains /\ o.chains[s.own] = s.chains[s.own]
    BY <2>2, <2>3, <2>4
  <2>10. ch.key.seed[1] = s.root[1] /\ Len(ch.key.seed) <= Len(s.root)
    <3>1. IsReceiving(ch) /\ ch = s.chains[id] /\ id \in DOMAIN s.chains
      BY <2>2
    <3>2. SendsOn(s, id, ch) \/ ReceivesOn(s, id, ch)
      BY <2>2, <3>1 DEF IsRatchet
    <3>3. ReceivesOn(s, id, ch)
      BY <3>1, <3>2, OneDirection DEF SendsOn
    <3> QED
      BY <3>3 DEF ReceivesOn
  <2> QED
    BY <1>2, <2>0, <2>2, <2>4, <2>5, <2>6, <2>7, <2>8, <2>9, <2>10
<1>3. CASE ~StepNeeded(e, id)
  <2>1. s = e
    BY <1>3 DEF Stepped
  <2> HIDE DEF s
  <2>2. HasChain(s.chains, id) /\ FindChain(s.chains, id) = ch
    BY <1>3, <2>1 DEF StepNeeded, ReceivingChain
  <2>3. /\ IsRatchet(o) /\ o.root = e.root /\ o.own = e.own /\ o.lastRemote = e.lastRemote
        /\ o.chains = [e.chains EXCEPT ![i] = TakeMessageKey(ch, n)]
        /\ i \in DOMAIN e.chains /\ ReceivesOn(e, i, ch) /\ InStep(ch)
    <3>1. OpensOn(s, i, ch, n, o)
      BY <1>1, <2>1, <2>2, DecryptedOn
    <3> QED
      BY <2>1, <3>1 DEF OpensOn
  <2>0. ~o.pending
    BY <1>1, <2>1, NotPending
  <2>4. ch = e.chains[i]
    BY <2>1, <2>2 DEF FindChain
  <2>5. DOMAIN o.chains = DOMAIN e.chains /\ o.chains[i] = TakeMessageKey(ch, n)
    BY <2>3
  <2>6. \A j \in DOMAIN o.chains : j # i => o.chains[j] = e.chains[j]
    BY <2>3
  <2>7. IsReceiving(o.chains[i])
    <3>1. TakeMessageKey(ch, n).type = ch.type
      BY <2>3, TakeInStep
    <3> QED
      BY <2>5, <3>1 DEF IsReceiving
  <2>8. ASSUME NEW j \in DOMAIN o.chains, IsReceiving(o.chains[j])
        PROVE  j = i
    <3>1. j \in KeyIds(o.lastRemote) /\ i \in KeyIds(o.lastRemote)
      BY <2>3, <2>5, <2>7, <2>8, OneDirection DEF IsRatchet, SendsOn, ReceivesOn
    <3>2. j.key = i.key
      BY <2>3, <3>1, IdKey DEF IsRatchet
    <3> QED
      BY <2>3, <2>5, <3>2 DEF IsRatchet
  <2>9. ASSUME NEW j \in DOMAIN o.chains, IsSending(o.chains[j])
        PROVE  j \in DOMAIN e.chains /\ o.chains[j] = e.chains[j]
    <3>1. j # i
      BY <2>7, <2>9, OneDirection
    <3> QED
      BY <2>5, <2>6, <3>1
  <2>10. Len(ch.key.seed) <= Len(o.root) /\ ch.key.seed[1] = e.root[1]
    BY <2>3 DEF ReceivesOn
  <2> HIDE DEF i
  <2> QED
    BY <1>3, <2>0, <2>3, <2>4, <2>5, <2>8, <2>9, <2>10
<1> QED
  BY <1>2, <1>3
-----------------------------------------------------------------------------
(* Replays                                                                  *)

\* The message key is in no chain of the entry, and no step derives its seed
\* again.
UsedUp(e, key) ==
  /\ Len(key.seed) <= Len(e.root)
  /\ \A i \in DOMAIN e.chains :
       IsReceiving(e.chains[i]) /\ e.chains[i].key.seed = key.seed => Spent(e.chains[i], key.step)

IsMessageKey(key) == IsKey(key) /\ IsRoot(key.seed)

\* What opens is encrypted under the key of its counter,
LEMMA OpenedKey ==
  ASSUME NEW e, IsRatchet(e), NEW frame, IsId(frame.id), frame.counter \in Nat, Opens(e, frame),
         NEW ch, ch = ReceivingChain(e, frame.id)
  PROVE  /\ IsReceiving(ch) /\ InStep(ch)
         /\ frame.key = [seed |-> ch.key.seed, step |-> frame.counter] /\ ~Spent(ch, frame.counter)
         /\ IsMessageKey(frame.key) /\ frame.key.seed[1] = e.root[1]
<1>1. /\ IsReceiving(ch) /\ HasKey(ch, frame.counter)
      /\ PeekMessageKey(ch, frame.counter) = frame.key
  BY DEF Opens
<1>2. InStep(ch) /\ IsRoot(ch.key.seed) /\ ch.key.seed[1] = e.root[1]
  <2>1. CASE StepNeeded(e, frame.id)
    <3>1. ch = NewChain("receiving", ReceivingRoot(e, frame.id))
      BY <2>1 DEF ReceivingChain
    <3>2. InStep(ch) /\ ch.key.seed = ReceivingRoot(e, frame.id)
      BY <3>1, NewChainInStep
    <3> QED
      BY <3>2, SteppedRoots
  <2>2. CASE ~StepNeeded(e, frame.id)
    <3>1. PICK i \in DOMAIN e.chains : ch = e.chains[i]
      BY <2>2, Found DEF StepNeeded, ReceivingChain, FindChain
    <3>2. InStep(ch) /\ ReceivesOn(e, i, ch)
      BY <1>1, <3>1, OneDirection DEF IsRatchet, SendsOn
    <3> QED
      BY <3>2 DEF ReceivesOn
  <2> QED
    BY <2>1, <2>2
<1>3. frame.key = [seed |-> ch.key.seed, step |-> frame.counter] /\ ~Spent(ch, frame.counter)
  BY <1>1, <1>2, PeekInStep
<1>4. IsMessageKey(frame.key) /\ frame.key.seed[1] = e.root[1]
  <2>1. frame.key.seed = ch.key.seed /\ frame.key.step = frame.counter
    BY <1>3
  <2>2. IsKey(frame.key)
    BY <1>3, <2>1 DEF IsKey
  <2> QED
    BY <1>2, <2>1, <2>2 DEF IsMessageKey
<1> QED
  BY <1>1, <1>2, <1>3, <1>4

\* and is not used up.
LEMMA UsedNeverOpens ==
  ASSUME NEW e, IsRatchet(e), NEW frame, IsId(frame.id), frame.counter \in Nat, UsedUp(e, frame.key)
  PROVE  ~Opens(e, frame)
<1> SUFFICES ASSUME Opens(e, frame) PROVE FALSE
  OBVIOUS
<1> DEFINE ch == ReceivingChain(e, frame.id)
<1>0. ch = ReceivingChain(e, frame.id)
  OBVIOUS
<1> HIDE DEF ch
<1>1. /\ IsReceiving(ch) /\ frame.key.seed = ch.key.seed /\ frame.key.step = frame.counter
      /\ ~Spent(ch, frame.counter) /\ IsRoot(frame.key.seed)
  <2>1. /\ IsReceiving(ch) /\ frame.key = [seed |-> ch.key.seed, step |-> frame.counter]
        /\ ~Spent(ch, frame.counter) /\ IsMessageKey(frame.key)
    BY <1>0, OpenedKey
  <2> QED
    BY <2>1 DEF IsMessageKey
<1>2. Len(frame.key.seed) <= Len(e.root) /\ Len(e.root) \in Nat
  BY SteppedRoots DEF UsedUp
<1>3. CASE StepNeeded(e, frame.id)
  <2>1. ch.key.seed = ReceivingRoot(e, frame.id)
    BY <1>0, <1>3, NewChainInStep DEF ReceivingChain
  <2>2. Len(ReceivingRoot(e, frame.id)) = Len(e.root) + 1
    BY SteppedRoots
  <2> QED
    BY <1>1, <1>2, <2>1, <2>2
<1>4. CASE ~StepNeeded(e, frame.id)
  <2>1. PICK i \in DOMAIN e.chains : ch = e.chains[i]
    BY <1>0, <1>4, Found DEF StepNeeded, ReceivingChain, FindChain
  <2> QED
    BY <1>1, <2>1 DEF UsedUp
<1> QED
  BY <1>3, <1>4

\* Encrypting uses nothing of what is received,
LEMMA UsedAfterSending ==
  ASSUME NEW e, IsRatchet(e), SendingChains(e) # {}, NextCounter(e) <= MaxCounter,
         NEW o, o = Encrypted(e), NEW key, UsedUp(e, key)
  PROVE  UsedUp(o, key)
<1> DEFINE i == SendingId(e)
<1>0. i = SendingId(e)
  OBVIOUS
<1> HIDE DEF i
<1>1. /\ o.root = e.root /\ i \in DOMAIN e.chains /\ IsSending(o.chains[i])
      /\ o.chains = [e.chains EXCEPT ![i] = TakeMessageKey(e.chains[i], NextCounter(e))]
  <2>1. EncryptsOn(e, i, o)
    BY <1>0, EncryptedRatchet
  <2> QED
    BY <2>1 DEF EncryptsOn
<1>2. /\ DOMAIN o.chains = DOMAIN e.chains
      /\ \A j \in DOMAIN o.chains : j # i => o.chains[j] = e.chains[j]
  BY <1>1
<1>3. \A j \in DOMAIN o.chains : IsReceiving(o.chains[j]) => j # i
  BY <1>1, OneDirection
<1> QED
  BY <1>1, <1>2, <1>3 DEF UsedUp

\* and opening a frame uses up its key, besides those that were.
LEMMA UsedAfterOpening ==
  ASSUME NEW e, IsRatchet(e), NEW frame, IsId(frame.id), frame.id.key # e.own.key,
         frame.counter \in Nat, NEW fresh, fresh # frame.id.key, Opens(e, frame),
         NEW o, o = Decrypted(e, frame, fresh)
  PROVE  /\ UsedUp(o, frame.key)
         /\ \A key : IsMessageKey(key) /\ UsedUp(e, key) => UsedUp(o, key)
<1> DEFINE n == frame.counter
           ch == ReceivingChain(e, frame.id)
           taken == TakeMessageKey(ch, n)
<1>1. /\ IsReceiving(ch) /\ frame.key = [seed |-> ch.key.seed, step |-> n]
  BY OpenedKey
<1>2. ch = ReceivingChain(e, frame.id)
  OBVIOUS
<1> HIDE DEF ch
<1>3. /\ IsRatchet(o) /\ InStep(ch) /\ Len(ch.key.seed) <= Len(o.root)
      /\ \A i \in DOMAIN o.chains : IsReceiving(o.chains[i]) => o.chains[i] = taken
      /\ StepNeeded(e, frame.id) => /\ Len(o.root) = Len(e.root) + 2
                                    /\ Len(ch.key.seed) = Len(e.root) + 1
      /\ ~StepNeeded(e, frame.id) => /\ o.root = e.root
                                     /\ ch \in {e.chains[i] : i \in DOMAIN e.chains}
  BY <1>1, <1>2, DecryptedRatchet
<1>4. taken = TakeMessageKey(ch, n) /\ n \in Nat
  OBVIOUS
<1> HIDE DEF taken, n
<1>5. taken.key.seed = ch.key.seed /\ Spent(taken, n) /\ \A c \in Int : Spent(ch, c) => Spent(taken, c)
  <2>1. InStep(ch)
    BY <1>3
  <2> QED
    BY <1>4, <2>1, TakeInStep
<1>6. Len(e.root) \in Nat
  BY SteppedRoots
<1>7. UsedUp(o, frame.key)
  <2>1. frame.key.seed = ch.key.seed /\ frame.key.step = n
    BY <1>1
  <2> QED
    BY <1>3, <1>5, <2>1 DEF UsedUp
<1>8. ASSUME NEW key, IsMessageKey(key), UsedUp(e, key) PROVE UsedUp(o, key)
  <2>1. Len(key.seed) \in Nat /\ key.step \in Int /\ Len(key.seed) <= Len(e.root)
    BY <1>8 DEF IsMessageKey, IsKey, IsRoot, UsedUp
  <2>2. Len(key.seed) <= Len(o.root)
    BY <1>3, <1>6, <2>1
  <2>3. ASSUME NEW i \in DOMAIN o.chains, IsReceiving(o.chains[i]), o.chains[i].key.seed = key.seed
        PROVE  Spent(o.chains[i], key.step)
    <3>1. o.chains[i] = taken /\ ch.key.seed = key.seed
      BY <1>3, <1>5, <2>3
    <3>2. ~StepNeeded(e, frame.id)
      BY <1>3, <1>6, <2>1, <3>1
    <3>3. Spent(ch, key.step)
      BY <1>1, <1>3, <1>8, <3>1, <3>2 DEF UsedUp
    <3> QED
      BY <1>5, <2>1, <3>1, <3>3
  <2> QED
    BY <2>2, <2>3 DEF UsedUp
<1> QED
  BY <1>7, <1>8
-----------------------------------------------------------------------------
(* The sessions that X3dh builds                                            *)

LEMMA NoChains == DOMAIN <<>> = {}
OBVIOUS

LEMMA BareId ==
  ASSUME NEW id
  PROVE  IsId(Bare(id)) /\ Bare(id).key = id.key /\ Bare(Bare(id)) = Bare(id)
BY DEF Bare, Id, IsId

\* An entry that sends on the root of a session secret and has stepped never,
Initiates(e, base, spk, secret) ==
  /\ IsRatchet(e) /\ Len(e.root) = 2
  /\ e.root = Derive(<<secret>>, DH(base, spk)) /\ e.root[1] = secret
  /\ e.own = Bare(base) /\ e.lastRemote = Bare(spk) /\ e.pending = TRUE
  /\ DOMAIN e.chains = {Bare(base)} /\ e.chains[Bare(base)] = NewChain("sending", e.root)

\* and one that has no chain yet.
Responds(e, base, spk, secret) ==
  /\ IsRatchet(e) /\ Len(e.root) = 1
  /\ e.root = <<secret>> /\ e.root[1] = secret
  /\ e.own = Bare(spk) /\ e.lastRemote = Bare(base) /\ e.pending = FALSE
  /\ DOMAIN e.chains = {}

LEMMA InitialInOrder ==
  ASSUME NEW identity, NEW base, NEW remote, NEW spk, NEW opk, base.key # spk.key
  PROVE  Initiates(InitialSession(identity, base, remote, spk, opk), base, spk,
                   InitialSecret(identity, base, remote, spk, opk))
<1> DEFINE e == InitialSession(identity, base, remote, spk, opk)
<1> DEFINE secret == InitialSecret(identity, base, remote, spk, opk)
           first == <<secret>>
           root == Derive(first, DH(base, spk))
           own == Bare(base)
           it == Bare(spk)
<1>1. IsRoot(first) /\ Len(first) = 1 /\ first[1] = secret
  BY SecretIsRoot
<1>2. e = [root |-> root, own |-> own, lastRemote |-> it, previousCounter |-> 0,
           chains |-> With(<<>>, own, NewChain("sending", root)), pending |-> TRUE]
  BY DEF InitialSession
<1> HIDE DEF first, e
<1>3. IsRoot(root) /\ Len(root) = 2 /\ root[1] = secret
  <2>1. IsRoot(root) /\ Len(root) = Len(first) + 1 /\ root[1] = first[1]
    BY <1>1, Derived
  <2> QED
    BY <1>1, <2>1
<1>4. IsId(own) /\ IsId(it) /\ own.key # it.key
  BY BareId
<1>0. root = Derive(<<secret>>, DH(base, spk)) /\ own = Bare(base) /\ it = Bare(spk)
  BY DEF first
<1> HIDE DEF root, own, it
<1>5. /\ e.root = root /\ e.own = own /\ e.lastRemote = it /\ e.previousCounter = 0
      /\ e.pending = TRUE /\ e.chains = [i \in {own} |-> NewChain("sending", root)]
      /\ e = [root |-> e.root, own |-> e.own, lastRemote |-> e.lastRemote,
              previousCounter |-> e.previousCounter, chains |-> e.chains, pending |-> e.pending]
  <2>1. With(<<>>, own, NewChain("sending", root)) = [i \in {own} |-> NewChain("sending", root)]
    BY NoChains DEF With
  <2> QED
    BY <1>2, <2>1
<1>6. /\ InStep(NewChain("sending", root)) /\ IsSending(NewChain("sending", root))
      /\ NewChain("sending", root).counter = -1 /\ NewChain("sending", root).key.seed = root
  BY NewChainInStep DEF IsSending
<1>7. SendsOn(e, own, NewChain("sending", root))
  <2>1. -1 <= MaxCounter
    BY RatchetAssumption
  <2> QED
    BY <1>5, <1>6, <2>1 DEF SendsOn, KeyIds
<1>8. e.chains = [i \in DOMAIN e.chains |-> e.chains[i]]
  BY <1>5
<1>9. e.previousCounter \in 0..MaxCounter /\ e.pending \in BOOLEAN
  <2>1. 0 \in 0..MaxCounter
    BY RatchetAssumption
  <2> QED
    BY <1>5, <2>1
<1>10. /\ \A i \in DOMAIN e.chains : InStep(e.chains[i]) /\ SendsOn(e, i, e.chains[i])
       /\ \A i, j \in DOMAIN e.chains : i.key = j.key => i = j
  BY <1>5, <1>6, <1>7
<1>11. IsRoot(e.root) /\ IsId(e.own) /\ IsId(e.lastRemote) /\ e.own.key # e.lastRemote.key
  BY <1>3, <1>4, <1>5
<1>12. IsRatchet(e)
  BY <1>5, <1>8, <1>9, <1>10, <1>11 DEF IsRatchet
<1> QED
  BY <1>0, <1>3, <1>5, <1>12 DEF Initiates, e

LEMMA RecipientInOrder ==
  ASSUME NEW identity, NEW spk, NEW opk, NEW remote, NEW base, base.key # spk.key
  PROVE  Responds(RecipientSession(identity, spk, opk, remote, base), base, spk,
                 RecipientSecret(identity, spk, opk, remote, base))
<1> DEFINE e == RecipientSession(identity, spk, opk, remote, base)
<1> DEFINE secret == RecipientSecret(identity, spk, opk, remote, base)
           own == Bare(spk)
           it == Bare(base)
<1>1. IsRoot(<<secret>>) /\ Len(<<secret>>) = 1 /\ <<secret>>[1] = secret
  BY SecretIsRoot
<1>2. e = [root |-> <<secret>>, own |-> own, lastRemote |-> it, previousCounter |-> 0,
           chains |-> <<>>, pending |-> FALSE]
  BY DEF RecipientSession
<1>3. IsId(own) /\ IsId(it) /\ own.key # it.key
  BY BareId
<1>0. own = Bare(spk) /\ it = Bare(base)
  OBVIOUS
<1> HIDE DEF own, it, e
<1>4. /\ e.root = <<secret>> /\ e.own = own /\ e.lastRemote = it /\ e.previousCounter = 0
      /\ e.pending = FALSE /\ e.chains = <<>>
      /\ e = [root |-> e.root, own |-> e.own, lastRemote |-> e.lastRemote,
              previousCounter |-> e.previousCounter, chains |-> e.chains, pending |-> e.pending]
  BY <1>2
<1>5. DOMAIN e.chains = {} /\ e.chains = [i \in DOMAIN e.chains |-> e.chains[i]]
  BY <1>4, NoChains
<1>6. e.previousCounter \in 0..MaxCounter /\ e.pending \in BOOLEAN
  <2>1. 0 \in 0..MaxCounter
    BY RatchetAssumption
  <2> QED
    BY <1>4, <2>1
<1>7. IsRoot(e.root) /\ IsId(e.own) /\ IsId(e.lastRemote) /\ e.own.key # e.lastRemote.key
  BY <1>1, <1>3, <1>4
<1>8. IsRatchet(e)
  BY <1>4, <1>5, <1>6, <1>7 DEF IsRatchet
<1> QED
  BY <1>0, <1>1, <1>4, <1>5, <1>8 DEF Responds, e

\* Both concatenate the same agreements.
LEMMA SecretsAgree ==
  ASSUME NEW identity, NEW base, NEW remote, NEW spk, NEW opk
  PROVE  InitialSecret(identity, base, remote, spk, opk) = RecipientSecret(remote, spk, opk, identity, base)
<1>1. /\ DH(identity, spk) = DH(spk, identity) /\ DH(base, remote) = DH(remote, base)
      /\ DH(base, spk) = DH(spk, base)
  BY DEF DH
<1> QED
  BY <1>1 DEF InitialSecret, RecipientSecret

\* What an initiator sends before it got an answer opens the recipient's session,
\* as long as it is not too far ahead.
LEMMA FirstOpens ==
  ASSUME NEW y, NEW base, NEW spk, NEW secret, Responds(y, base, spk, secret),
         NEW frame, frame.id.key = base.key, NEW n \in Nat, n < MaxSkip, frame.counter = n,
         frame.key = [seed |-> Derive(<<secret>>, DH(base, spk)), step |-> n]
  PROVE  Opens(y, frame)
<1>1. IsRatchet(y) /\ y.root = <<secret>> /\ y.own = Bare(spk) /\ DOMAIN y.chains = {}
  BY DEF Responds
<1>2. StepNeeded(y, frame.id) /\ ~StepRefused(y, frame.previousCounter)
  BY <1>1 DEF StepNeeded, StepRefused, HasChain
<1>3. ReceivingRoot(y, frame.id) = Derive(<<secret>>, DH(base, spk))
  <2>1. DH(y.own, frame.id) = DH(base, spk)
    BY <1>1, BareId DEF DH
  <2> QED
    BY <1>1, <2>1 DEF ReceivingRoot
<1> DEFINE root == ReceivingRoot(y, frame.id)
           ch == NewChain("receiving", root)
<1>4. IsRoot(root)
  BY <1>1, SteppedRoots
<1>5. ReceivingChain(y, frame.id) = ch
  BY <1>2 DEF ReceivingChain
<1> HIDE DEF root
<1>6. InStep(ch) /\ IsReceiving(ch) /\ ch.counter = -1 /\ ch.key.seed = root
  BY NewChainInStep DEF IsReceiving
<1> HIDE DEF ch
<1>7. ~IsClosed(ch)
  BY <1>4, <1>6 DEF IsClosed, NoSeed, IsRoot
<1>8. HasKey(ch, n)
  BY <1>6, <1>7, ChainAssumption DEF HasKey, Refuses
<1>9. PeekMessageKey(ch, n) = [seed |-> root, step |-> n]
  BY <1>6, <1>8, PeekInStep
<1> QED
  BY <1>2, <1>3, <1>5, <1>6, <1>8, <1>9 DEF Opens, root

\* The entry that the recipient has after it opened such a frame.
Answered(o, base, spk, secret, fresh) ==
  /\ IsRatchet(o) /\ o.own = Id(fresh, "wire") /\ o.root[1] = secret
  /\ o.root = Derive(Derive(<<secret>>, DH(base, spk)), {base.key, fresh})
  /\ o.own \in DOMAIN o.chains /\ o.chains[o.own] = NewChain("sending", o.root)

LEMMA FirstOpened ==
  ASSUME NEW y, NEW base, NEW spk, NEW secret, Responds(y, base, spk, secret),
         NEW frame, IsId(frame.id), frame.id.key = base.key, base.key # spk.key, frame.counter \in Nat,
         Opens(y, frame), NEW fresh, fresh # base.key
  PROVE  Answered(Decrypted(y, frame, fresh), base, spk, secret, fresh)
<1>1. IsRatchet(y) /\ y.root = <<secret>> /\ y.root[1] = secret /\ y.own = Bare(spk) /\ DOMAIN y.chains = {}
  BY DEF Responds
<1>2. StepNeeded(y, frame.id) /\ y.own.key # frame.id.key
  BY <1>1, BareId DEF StepNeeded, HasChain
<1>3. PICK o, ch : o = Decrypted(y, frame, fresh) /\ ch = ReceivingChain(y, frame.id)
  OBVIOUS
<1>4. IsReceiving(ch)
  BY <1>3 DEF Opens
<1>5. /\ IsRatchet(o) /\ o.root[1] = y.root[1]
      /\ o.own = Id(fresh, "wire") /\ o.root = SendingRoot(y, frame.id, fresh)
      /\ o.own \in DOMAIN o.chains /\ o.chains[o.own] = NewChain("sending", o.root)
  BY <1>1, <1>2, <1>3, <1>4, DecryptedRatchet
<1>6. SendingRoot(y, frame.id, fresh) = Derive(Derive(<<secret>>, DH(base, spk)), {base.key, fresh})
  <2>1. DH(y.own, frame.id) = DH(base, spk) /\ DH(Id(fresh, "wire"), frame.id) = {base.key, fresh}
    BY <1>1, BareId DEF DH, Id
  <2> QED
    BY <1>1, <2>1 DEF SendingRoot, ReceivingRoot
<1> QED
  BY <1>1, <1>3, <1>5, <1>6 DEF Answered

\* It can send, and what it sends first opens where the session was started.
LEMMA ReplyOpened ==
  ASSUME NEW x, NEW base, NEW spk, NEW secret, Initiates(x, base, spk, secret), base.key # spk.key,
         NEW fresh, fresh # base.key, fresh # spk.key, NEW o, Answered(o, base, spk, secret, fresh)
  PROVE  /\ CanEncrypt(o) /\ Opens(x, Frame(o)) /\ Frame(o).key.seed[1] = secret
         /\ IsId(Frame(o).id) /\ Frame(o).counter \in Nat
<1> DEFINE own == Id(fresh, "wire")
           ch == NewChain("sending", o.root)
           root == Derive(x.root, {base.key, fresh})
           it == NewChain("receiving", root)
<1>1. /\ IsRatchet(x) /\ x.root = Derive(<<secret>>, DH(base, spk)) /\ x.own = Bare(base)
      /\ x.lastRemote = Bare(spk) /\ DOMAIN x.chains = {Bare(base)}
  BY DEF Initiates
<1>2. /\ IsRatchet(o) /\ o.own = own /\ o.root[1] = secret /\ o.root = root
      /\ own \in DOMAIN o.chains /\ o.chains[own] = ch
  BY <1>1 DEF Answered
<1>3. /\ InStep(ch) /\ IsSending(ch) /\ ch.counter = -1 /\ ch.key.seed = o.root
      /\ InStep(it) /\ IsReceiving(it) /\ it.counter = -1 /\ it.key.seed = root
  BY NewChainInStep DEF IsSending, IsReceiving
<1>4. IsId(own) /\ own.key = fresh
  BY DEF IsId, Id
<1> HIDE DEF own, ch
<1>5. NamedSending(o) = {own}
  BY <1>2, <1>3 DEF NamedSending, ChainId
<1>6. SendingChains(o) = {own} /\ SendingId(o) = own
  BY <1>5 DEF SendingChains, SendingId
<1>7. NextCounter(o) = 0
  BY <1>2, <1>3, <1>6 DEF NextCounter
<1>8. IsRoot(root) /\ IsRoot(o.root)
  BY <1>2 DEF IsRatchet
<1> HIDE DEF root
<1>9. ~Refuses(ch, 0)
  <2>1. ~IsClosed(ch)
    BY <1>3, <1>8 DEF IsClosed, NoSeed, IsRoot
  <2> QED
    BY <1>3, <2>1, ChainAssumption DEF Refuses
<1>10. CanEncrypt(o)
  <2>1. Cardinality({own}) = 1
    BY FS_Singleton
  <2>2. 0 <= MaxCounter
    BY RatchetAssumption
  <2> QED
    BY <1>2, <1>6, <1>7, <1>9, <2>1, <2>2 DEF CanEncrypt
<1>11. Frame(o).key = [seed |-> o.root, step |-> 0]
  <2>1. FillMessageKeys(ch, ch.counter + 1).kept[ch.counter + 1] = [seed |-> o.root, step |-> 0]
    BY <1>3, FilledKey
  <2>2. Frame(o).key = FillMessageKeys(o.chains[SendingId(o)], NextCounter(o)).kept[NextCounter(o)]
    BY DEF Frame
  <2> QED
    BY <1>2, <1>3, <1>6, <1>7, <2>1, <2>2
<1>12. Frame(o).id = own /\ Frame(o).counter = 0
  <2>1. Frame(o).id = Wire(o.own) /\ Frame(o).counter = NextCounter(o)
    BY DEF Frame
  <2>2. Wire(own) = own
    BY DEF Wire, own, Id
  <2> QED
    BY <1>2, <1>7, <2>1, <2>2
<1>13. StepNeeded(x, own) /\ \A n : ~StepRefused(x, n)
  <2>1. Bare(base).key = base.key /\ Bare(spk).key = spk.key /\ Bare(own).key = fresh /\ Bare(Bare(spk)).key = spk.key
    BY <1>4, BareId
  <2>2. ~HasChain(x.chains, own) /\ ~HasChain(x.chains, x.lastRemote)
    BY <1>1, <1>4, <2>1 DEF HasChain, KeyIds
  <2> QED
    BY <2>2 DEF StepNeeded, StepRefused
<1>14. ReceivingChain(x, own) = it
  <2>1. DH(x.own, own) = {base.key, fresh}
    BY <1>1, <1>4, BareId DEF DH
  <2> QED
    BY <1>13, <2>1 DEF ReceivingChain, ReceivingRoot, root
<1> HIDE DEF it
<1>15. HasKey(it, 0)
  <2>1. ~IsClosed(it)
    BY <1>3, <1>8 DEF IsClosed, NoSeed, IsRoot
  <2> QED
    BY <1>3, <2>1, ChainAssumption DEF HasKey, Refuses
<1>16. PeekMessageKey(it, 0) = [seed |-> root, step |-> 0]
  BY <1>3, <1>15, PeekInStep
<1>17. Opens(x, Frame(o))
  BY <1>2, <1>3, <1>11, <1>12, <1>13, <1>14, <1>15, <1>16 DEF Opens
<1> QED
  BY <1>2, <1>4, <1>10, <1>11, <1>12, <1>17
-----------------------------------------------------------------------------
(* The two ends of a session                                                *)

\* a is the one that stepped last: its root is the next one after b's, for the
\* key pairs of the two; b has not seen its key yet, and it receives on the
\* root that b sends on.
Leads(a, b) ==
  /\ a.root = Derive(b.root, DH(a.own, b.own)) /\ a.lastRemote.key = b.own.key
  /\ \A i \in DOMAIN b.chains : i.key # a.own.key
  /\ \A i \in DOMAIN a.chains : IsReceiving(a.chains[i]) => a.chains[i].key.seed = b.root
  /\ (\E i \in DOMAIN b.chains : IsSending(b.chains[i]))
       => \E i \in DOMAIN a.chains : IsReceiving(a.chains[i])

\* Chains walked in place: the same keys, and each chain in its direction.
SameKeys(e, o) ==
  /\ o.root = e.root /\ o.own = e.own /\ o.lastRemote = e.lastRemote
  /\ DOMAIN o.chains = DOMAIN e.chains
  /\ \A i \in DOMAIN o.chains :
       /\ IsReceiving(o.chains[i]) <=> IsReceiving(e.chains[i])
       /\ IsSending(o.chains[i]) <=> IsSending(e.chains[i])
       /\ o.chains[i].key.seed = e.chains[i].key.seed

LEMMA LeadsWalked ==
  ASSUME NEW a, NEW b, Leads(a, b), NEW o, SameKeys(a, o), NEW r, SameKeys(b, r)
  PROVE  Leads(o, r)
BY DEF Leads, SameKeys

LEMMA SameKeysSelf ==
  ASSUME NEW e
  PROVE  SameKeys(e, e)
BY DEF SameKeys

\* Encrypting walks the sending chain,
LEMMA EncryptedWalks ==
  ASSUME NEW e, IsRatchet(e), SendingChains(e) # {}, NextCounter(e) <= MaxCounter, NEW o, o = Encrypted(e)
  PROVE  /\ SameKeys(e, o)
         /\ \A i \in DOMAIN o.chains : IsReceiving(o.chains[i]) => o.chains[i] = e.chains[i]
<1>0. PICK i, n : i = SendingId(e) /\ n = NextCounter(e)
  OBVIOUS
<1>1. /\ o.root = e.root /\ o.own = e.own /\ o.lastRemote = e.lastRemote
      /\ o.chains = [e.chains EXCEPT ![i] = TakeMessageKey(e.chains[i], n)] /\ i \in DOMAIN e.chains
  <2>1. EncryptsOn(e, i, o)
    BY <1>0, EncryptedRatchet
  <2> QED
    BY <1>0, <2>1 DEF EncryptsOn
<1>2. InStep(e.chains[i]) /\ IsSending(e.chains[i]) /\ n \in Nat
  BY <1>0, SendingChain DEF SendsOn
<1>3. PICK ch : ch = TakeMessageKey(e.chains[i], n)
  OBVIOUS
<1>4. ch.type = e.chains[i].type /\ ch.key.seed = e.chains[i].key.seed
  BY <1>2, <1>3, TakeInStep
<1>5. /\ DOMAIN o.chains = DOMAIN e.chains /\ o.chains[i] = ch
      /\ \A j \in DOMAIN o.chains : j # i => o.chains[j] = e.chains[j]
  BY <1>1, <1>3
<1>6. IsSending(ch) /\ ~IsReceiving(ch) /\ ~IsReceiving(e.chains[i])
  BY <1>2, <1>4, OneDirection DEF IsSending
<1> QED
  BY <1>1, <1>2, <1>4, <1>5, <1>6 DEF SameKeys

\* opening without a step the receiving one,
LEMMA OpenedWalks ==
  ASSUME NEW e, IsRatchet(e), NEW frame, IsId(frame.id), frame.counter \in Nat, ~StepNeeded(e, frame.id),
         NEW ch, ch = ReceivingChain(e, frame.id), IsReceiving(ch),
         NEW fresh, NEW o, o = Decrypted(e, frame, fresh)
  PROVE  /\ SameKeys(e, o) /\ InStep(ch) /\ frame.id.key = e.lastRemote.key
         /\ \E i \in DOMAIN e.chains : ch = e.chains[i] /\ o.chains[i] = TakeMessageKey(ch, frame.counter)
         /\ \A i \in DOMAIN o.chains : IsReceiving(o.chains[i]) => o.chains[i] = TakeMessageKey(ch, frame.counter)
<1> DEFINE id == frame.id
           n == frame.counter
           s == Stepped(e, frame, fresh)
           i == ChainId(s.chains, id)
<1>1. TakesOn(s, i, n, o)
  BY DEF Decrypted, TakesOn
<1>2. s = e
  BY DEF Stepped
<1>3. HasChain(e.chains, id) /\ FindChain(e.chains, id) = ch
  BY DEF StepNeeded, ReceivingChain
<1> HIDE DEF s
<1>4. i = ChainId(e.chains, id) /\ i \in KeyIds(id) \cap DOMAIN e.chains /\ ch = e.chains[i]
  BY <1>2, <1>3, Found DEF FindChain
<1> HIDE DEF i
<1>5. /\ IsRatchet(o) /\ o.root = e.root /\ o.own = e.own /\ o.lastRemote = e.lastRemote
      /\ o.chains = [e.chains EXCEPT ![i] = TakeMessageKey(ch, n)]
      /\ ReceivesOn(e, i, ch) /\ InStep(ch)
  <2>1. TakesOn(e, i, n, o) /\ n \in Nat /\ IsId(id)
    BY <1>1, <1>2
  <2>2. HasChain(e.chains, id) /\ ch = FindChain(e.chains, id) /\ i = ChainId(e.chains, id)
    BY <1>3, <1>4
  <2> HIDE DEF id, n
  <2>3. OpensOn(e, i, ch, n, o)
    BY <2>1, <2>2, DecryptedOn
  <2> QED
    BY <2>3 DEF OpensOn
<1>6. i.key = id.key /\ i.key = e.lastRemote.key
  <2>1. IsId(id) /\ i \in KeyIds(id)
    BY <1>2, <1>4
  <2>2. i \in KeyIds(e.lastRemote)
    BY <1>5 DEF ReceivesOn
  <2>3. IsId(e.lastRemote)
    BY DEF IsRatchet
  <2> QED
    BY <2>1, <2>2, <2>3, IdKey
<1>7. PICK x : x = TakeMessageKey(ch, n)
  OBVIOUS
<1>8. x.type = ch.type /\ x.key.seed = ch.key.seed
  BY <1>5, <1>7, TakeInStep
<1>9. /\ DOMAIN o.chains = DOMAIN e.chains /\ o.chains[i] = x
      /\ \A j \in DOMAIN o.chains : j # i => o.chains[j] = e.chains[j]
  BY <1>4, <1>5, <1>7
<1>10. IsReceiving(x) /\ ~IsSending(x) /\ ~IsSending(ch)
  <2>1. IsReceiving(ch)
    BY <1>5 DEF ReceivesOn
  <2>2. IsReceiving(x)
    BY <1>8, <2>1 DEF IsReceiving
  <2> QED
    BY <2>1, <2>2, OneDirection
<1>11. SameKeys(e, o)
  <2>1. IsReceiving(ch) /\ e.chains[i] = ch
    BY <1>4, <1>5 DEF ReceivesOn
  <2>2. ASSUME NEW j \in DOMAIN o.chains
        PROVE  /\ IsReceiving(o.chains[j]) <=> IsReceiving(e.chains[j])
               /\ IsSending(o.chains[j]) <=> IsSending(e.chains[j])
               /\ o.chains[j].key.seed = e.chains[j].key.seed
    <3>1. CASE j = i
      BY <1>8, <1>9, <1>10, <2>1, <3>1
    <3>2. CASE j # i
      BY <1>9, <3>2
    <3> QED
      BY <3>1, <3>2
  <2> QED
    BY <1>5, <1>9, <2>2 DEF SameKeys
<1>12. ASSUME NEW j \in DOMAIN o.chains, IsReceiving(o.chains[j]) PROVE j = i
  <2>1. IsReceiving(e.chains[j]) /\ j \in DOMAIN e.chains
    BY <1>9, <1>11, <1>12 DEF SameKeys
  <2>2. j \in KeyIds(e.lastRemote)
    BY <2>1, OneDirection DEF IsRatchet, SendsOn, ReceivesOn
  <2>3. j.key = i.key
    BY <1>6, <2>2, IdKey DEF IsRatchet
  <2> QED
    BY <1>4, <2>1, <2>3 DEF IsRatchet
<1> QED
  BY <1>4, <1>5, <1>6, <1>7, <1>9, <1>11, <1>12

\* and opening with a step passes the lead on.
LEMMA LeadPasses ==
  ASSUME NEW a, IsRatchet(a), NEW b, IsRatchet(b), Leads(a, b), a.own.key # b.own.key,
         NEW frame, IsId(frame.id), frame.id.key = a.own.key, frame.counter \in Nat,
         NEW fresh, fresh # a.own.key, fresh # b.own.key, NEW o, o = Decrypted(b, frame, fresh)
  PROVE  /\ StepNeeded(b, frame.id) /\ ReceivingChain(b, frame.id) = NewChain("receiving", a.root)
         /\ IsRatchet(o) /\ Leads(o, a) /\ o.own = Id(fresh, "wire") /\ o.lastRemote = frame.id
         /\ Len(o.root) = Len(b.root) + 2
         /\ frame.id \in DOMAIN o.chains
         /\ \A i \in DOMAIN o.chains : IsReceiving(o.chains[i])
              => o.chains[i] = TakeMessageKey(NewChain("receiving", a.root), frame.counter)
         /\ IsReceiving(o.chains[frame.id])
<1> DEFINE id == frame.id
           ch == NewChain("receiving", a.root)
<1>1. StepNeeded(b, id)
  <2>1. \A i \in KeyIds(id) : i.key = a.own.key
    BY IdKey
  <2> QED
    BY <2>1 DEF Leads, StepNeeded, HasChain
<1>2. ReceivingRoot(b, id) = a.root
  <2>1. DH(b.own, id) = DH(a.own, b.own)
    BY DEF DH
  <2> QED
    BY <2>1 DEF Leads, ReceivingRoot
<1>3. ReceivingChain(b, id) = ch
  BY <1>1, <1>2 DEF ReceivingChain
<1>4. InStep(ch) /\ IsReceiving(ch) /\ ch.key.seed = a.root
  BY NewChainInStep DEF IsReceiving
<1>0. PICK c : c = ReceivingChain(b, id)
  OBVIOUS
<1>5. c = ch /\ IsReceiving(c)
  BY <1>0, <1>3, <1>4
<1> HIDE DEF ch
<1>6. /\ IsRatchet(o)
      /\ \A i \in DOMAIN o.chains : IsReceiving(o.chains[i]) => o.chains[i] = TakeMessageKey(c, frame.counter)
      /\ Len(o.root) = Len(b.root) + 2 /\ o.own = Id(fresh, "wire") /\ o.lastRemote = id
      /\ id \in DOMAIN o.chains /\ IsReceiving(o.chains[id])
      /\ o.root = SendingRoot(b, id, fresh)
  <2>1. frame.id.key # b.own.key /\ fresh # frame.id.key /\ IsId(frame.id) /\ frame.counter \in Nat
    OBVIOUS
  <2>2. c = ReceivingChain(b, frame.id) /\ IsReceiving(c) /\ o = Decrypted(b, frame, fresh) /\ IsRatchet(b)
    BY <1>0, <1>5
  <2>3. /\ IsRatchet(o)
        /\ \A i \in DOMAIN o.chains : IsReceiving(o.chains[i]) => o.chains[i] = TakeMessageKey(c, frame.counter)
        /\ IF StepNeeded(b, frame.id)
           THEN /\ Len(o.root) = Len(b.root) + 2 /\ o.own = Id(fresh, "wire") /\ o.lastRemote = frame.id
                /\ frame.id \in DOMAIN o.chains /\ IsReceiving(o.chains[frame.id])
                /\ o.root = SendingRoot(b, frame.id, fresh)
           ELSE TRUE
    BY <2>1, <2>2, DecryptedRatchet
  <2> QED
    BY <1>1, <2>3
<1>7. TakeMessageKey(ch, frame.counter).key.seed = a.root
  <2>1. PICK x : x = TakeMessageKey(ch, frame.counter)
    OBVIOUS
  <2> QED
    BY <1>4, <2>1, TakeInStep
<1>8. o.root = Derive(a.root, DH(o.own, a.own))
  <2>1. DH(Id(fresh, "wire"), id) = DH(o.own, a.own)
    BY <1>6 DEF DH
  <2> QED
    BY <1>2, <1>6, <2>1 DEF SendingRoot
<1>9. \A i \in DOMAIN a.chains : i.key # o.own.key
  <2>1. \A i \in DOMAIN a.chains : i.key \in {a.own.key, a.lastRemote.key}
    BY IdKey DEF IsRatchet, SendsOn, ReceivesOn
  <2>2. o.own.key = fresh
    BY <1>6 DEF Id
  <2> QED
    BY <2>1, <2>2 DEF Leads
<1>10. Leads(o, a)
  BY <1>5, <1>6, <1>7, <1>8, <1>9 DEF Leads
<1> QED
  BY <1>1, <1>3, <1>5, <1>6, <1>10 DEF ch

\* The initiator leads at first.
LEMMA InitiatorLeads ==
  ASSUME NEW base, NEW spk, base.key # spk.key, NEW secret,
         NEW x, Initiates(x, base, spk, secret), NEW y, Responds(y, base, spk, secret)
  PROVE  Leads(x, y)
<1>1. /\ x.root = Derive(<<secret>>, DH(base, spk)) /\ x.own = Bare(base) /\ x.lastRemote = Bare(spk)
      /\ DOMAIN x.chains = {Bare(base)} /\ x.chains[Bare(base)] = NewChain("sending", x.root)
      /\ y.root = <<secret>> /\ y.own = Bare(spk) /\ DOMAIN y.chains = {}
  BY DEF Initiates, Responds
<1>2. DH(x.own, y.own) = DH(base, spk)
  BY <1>1, BareId DEF DH
<1>3. IsSending(NewChain("sending", x.root))
  BY NewChainInStep DEF IsSending
<1>4. \A i \in DOMAIN x.chains : ~IsReceiving(x.chains[i])
  BY <1>1, <1>3, OneDirection
<1> QED
  BY <1>1, <1>2, <1>4 DEF Leads

\* What an end that can encrypt sends next.
LEMMA NextFrame ==
  ASSUME NEW e, IsRatchet(e), CanEncrypt(e)
  PROVE  /\ SendingChains(e) # {} /\ NextCounter(e) <= MaxCounter
         /\ Frame(e).id = Wire(e.own) /\ Frame(e).counter = NextCounter(e) /\ NextCounter(e) \in Nat
         /\ Frame(e).key = [seed |-> e.root, step |-> NextCounter(e)]
         /\ \E i \in DOMAIN e.chains : IsSending(e.chains[i]) /\ NextCounter(e) = e.chains[i].counter + 1
<1>1. SendingChains(e) # {} /\ NextCounter(e) <= MaxCounter
  <2>1. Cardinality(SendingChains(e)) = 1 /\ NextCounter(e) <= MaxCounter
    BY DEF CanEncrypt
  <2> QED
    BY <2>1, FS_EmptySet
<1>2. PICK i, o : i = SendingId(e) /\ o = Encrypted(e)
  OBVIOUS
<1>3. Frame(e).key = [seed |-> e.root, step |-> NextCounter(e)]
  <2>1. EncryptsOn(e, i, o)
    BY <1>1, <1>2, EncryptedRatchet
  <2> QED
    BY <2>1 DEF EncryptsOn
<1>4. /\ i \in DOMAIN e.chains /\ IsSending(e.chains[i]) /\ NextCounter(e) = e.chains[i].counter + 1
      /\ NextCounter(e) \in Nat
  BY <1>1, <1>2, SendingChain DEF SendsOn
<1>5. Frame(e).id = Wire(e.own) /\ Frame(e).counter = NextCounter(e)
  BY DEF Frame
<1> QED
  BY <1>1, <1>3, <1>4, <1>5

\* It opens at the other: the leader's, when neither walk refuses,
LEMMA LeaderHeard ==
  ASSUME NEW a, IsRatchet(a), NEW b, IsRatchet(b), Leads(a, b), CanEncrypt(a),
         Frame(a).counter < MaxSkip,
         \A i \in DOMAIN b.chains : IsReceiving(b.chains[i]) => ~Refuses(b.chains[i], Frame(a).previousCounter)
  PROVE  Opens(b, Frame(a))
<1> DEFINE ch == NewChain("receiving", a.root)
<1>1. PICK id, n, f : id = Wire(a.own) /\ n = NextCounter(a) /\ f = Frame(a)
  OBVIOUS
<1>2. f.id = id /\ f.counter = n /\ n \in Nat /\ n < MaxSkip /\ f.key = [seed |-> a.root, step |-> n]
  BY <1>1, NextFrame
<1>3. IsId(id) /\ id.key = a.own.key
  BY <1>1 DEF IsId, Wire, Id
<1>4. StepNeeded(b, id)
  <2>1. \A i \in KeyIds(id) : i.key = a.own.key
    BY <1>3, IdKey
  <2> QED
    BY <2>1 DEF Leads, StepNeeded, HasChain
<1>5. ReceivingRoot(b, id) = a.root
  <2>1. DH(b.own, id) = DH(a.own, b.own)
    BY <1>3 DEF DH
  <2> QED
    BY <2>1 DEF Leads, ReceivingRoot
<1>6. ReceivingChain(b, id) = ch
  BY <1>4, <1>5 DEF ReceivingChain
<1>7. /\ InStep(ch) /\ IsReceiving(ch) /\ ch.key.seed = a.root /\ ch.counter = -1
  BY NewChainInStep DEF IsReceiving
<1> HIDE DEF ch
<1>8. HasKey(ch, n)
  <2>1. ~IsClosed(ch)
    <3>1. IsRoot(a.root)
      BY DEF IsRatchet
    <3> QED
      BY <1>7, <3>1 DEF IsClosed, NoSeed, IsRoot
  <2> QED
    BY <1>2, <1>7, <2>1, ChainAssumption DEF HasKey, Refuses
<1>9. PeekMessageKey(ch, n) = [seed |-> a.root, step |-> n]
  BY <1>2, <1>7, <1>8, PeekInStep
<1>10. ~StepRefused(b, f.previousCounter)
  BY <1>1, Found DEF StepRefused, FindChain
<1> QED
  BY <1>1, <1>2, <1>6, <1>7, <1>8, <1>9, <1>10 DEF Opens

\* A wire key finds a chain under either encoding.
LEMMA NamedByWire ==
  ASSUME NEW e, IsRatchet(e), NEW i \in DOMAIN e.chains, NEW id, IsId(id), id.form = "wire", i.key = id.key
  PROVE  ~StepNeeded(e, id) /\ ReceivingChain(e, id) = e.chains[i]
<1>1. IsId(i)
  BY IdKey DEF IsRatchet, SendsOn, ReceivesOn
<1>2. i \in KeyIds(id)
  BY <1>1 DEF KeyIds, Bare, Id, IsId
<1>3. HasChain(e.chains, id)
  BY <1>2 DEF HasChain
<1>4. ChainId(e.chains, id) = i
  <2>1. ChainId(e.chains, id) \in KeyIds(id) \cap DOMAIN e.chains
    BY <1>3, Found
  <2>2. ChainId(e.chains, id).key = i.key
    BY <2>1, IdKey
  <2> QED
    BY <2>1, <2>2 DEF IsRatchet
<1> QED
  BY <1>3, <1>4 DEF ReceivingChain, StepNeeded, FindChain

\* and the other's, when the walk does not refuse and it is ahead.
LEMMA LeaderHears ==
  ASSUME NEW a, IsRatchet(a), NEW b, IsRatchet(b), Leads(a, b), CanEncrypt(b),
         \A i \in DOMAIN a.chains : IsReceiving(a.chains[i])
            => Frame(b).counter > a.chains[i].counter /\ Frame(b).counter - a.chains[i].counter <= MaxSkip
  PROVE  Opens(a, Frame(b))
<1>1. PICK id, n, f : id = Wire(b.own) /\ n = NextCounter(b) /\ f = Frame(b)
  OBVIOUS
<1>2. f.id = id /\ f.counter = n /\ n \in Nat /\ f.key = [seed |-> b.root, step |-> n]
  BY <1>1, NextFrame
<1>3. PICK i \in DOMAIN a.chains : IsReceiving(a.chains[i])
  BY NextFrame DEF Leads
<1>4. PICK ch : ch = a.chains[i]
  OBVIOUS
<1>5. /\ InStep(ch) /\ IsReceiving(ch) /\ IsRoot(ch.key.seed) /\ ch.key.seed = b.root
      /\ i \in KeyIds(a.lastRemote)
  BY <1>3, <1>4, OneDirection DEF IsRatchet, SendsOn, ReceivesOn, Leads
<1>6. i.key = b.own.key
  BY <1>5, IdKey DEF IsRatchet, Leads
<1>7. IsId(id) /\ id.form = "wire" /\ id.key = b.own.key
  BY <1>1 DEF IsId, Wire, Id
<1>8. ReceivingChain(a, id) = ch /\ ~StepNeeded(a, id)
  BY <1>4, <1>6, <1>7, NamedByWire
<1>9. ch.counter \in Int /\ n > ch.counter /\ n - ch.counter <= MaxSkip
  BY <1>1, <1>2, <1>3, <1>4, <1>5 DEF InStep, ChainOK
<1>10. HasKey(ch, n)
  <2>1. ~IsClosed(ch)
    BY <1>5 DEF IsClosed, NoSeed, IsRoot
  <2> QED
    BY <1>2, <1>9, <2>1, ChainAssumption DEF HasKey, Refuses
<1>11. PeekMessageKey(ch, n) = [seed |-> b.root, step |-> n]
  BY <1>2, <1>5, <1>10, PeekInStep
<1> QED
  BY <1>1, <1>2, <1>5, <1>8, <1>10, <1>11 DEF Opens

\* Within the cap, taking a key drops no other.
LEMMA TakeRetains ==
  ASSUME NEW ch, InStep(ch), NEW n \in Nat, NEW o, o = TakeMessageKey(ch, n),
         NEW c \in Nat, c # n, c <= o.counter, o.counter - c < MaxRetained,
         c <= ch.counter => c \in DOMAIN ch.kept
  PROVE  c \in DOMAIN o.kept
<1>1. IsChain(ch) /\ ChainOK(ch) /\ ch.counter \in Int /\ ch.counter >= -1
  BY DEF InStep, ChainOK
<1>2. CASE n <= ch.counter
  <2>1. o = [type |-> ch.type, counter |-> ch.counter, key |-> ch.key,
             kept |-> [d \in DOMAIN ch.kept \ {n} |-> ch.kept[d]]]
    BY <1>1, <1>2, TakenBehind
  <2>2. o.counter = ch.counter /\ DOMAIN o.kept = DOMAIN ch.kept \ {n}
    BY <2>1
  <2> QED
    BY <2>2
<1>3. CASE n > ch.counter
  <2> DEFINE S == Held(ch, n)
  <2>1. o = [type |-> ch.type, counter |-> n, key |-> Advance(ch.key, n - ch.counter),
             kept |-> [d \in Newest(S) \ {n} |-> IF d > ch.counter THEN KeyAhead(ch, d) ELSE ch.kept[d]]]
    BY <1>1, <1>3, TakenAhead
  <2>2. S \subseteq 0..n
    BY <1>1, <1>3, HeldInRange
  <2>3. c \in S <=> c \in DOMAIN ch.kept \/ c \in (ch.counter + 1)..n
    BY DEF Held
  <2> HIDE DEF S
  <2>4. o.counter = n /\ DOMAIN o.kept = Newest(S) \ {n}
    BY <2>1
  <2>5. c <= n /\ n - c < MaxRetained
    BY <2>4
  <2>6. c \in S
    BY <1>1, <2>3, <2>5
  <2>7. Cardinality({d \in S : d > c}) <= Cardinality((c + 1)..n)
    <3>1. {d \in S : d > c} \subseteq (c + 1)..n
      <4> SUFFICES ASSUME NEW d \in S, d > c PROVE d \in (c + 1)..n
        OBVIOUS
      <4>1. d \in 0..n
        BY <2>2
      <4> QED
        BY <4>1
    <3>2. IsFiniteSet((c + 1)..n)
      <4>1. c + 1 \in Int /\ n \in Int
        OBVIOUS
      <4> QED
        BY <4>1, FS_Interval
    <3> QED
      BY <3>1, <3>2, FS_Subset
  <2>8. Cardinality((c + 1)..n) = n - c
    <3>1. c + 1 \in Int /\ n \in Int /\ c + 1 <= n + 1
      BY <2>5
    <3>2. Cardinality((c + 1)..n) = IF c + 1 > n THEN 0 ELSE n - (c + 1) + 1
      BY <3>1, FS_Interval
    <3> QED
      BY <2>5, <3>2
  <2>9. Cardinality({d \in S : d > c}) \in Nat
    BY <2>2, AboveFinite
  <2>10. c \in Newest(S)
    BY <2>5, <2>6, <2>7, <2>8, <2>9, ChainAssumption DEF Newest
  <2> QED
    BY <2>4, <2>10
<1> QED
  BY <1>1, <1>2, <1>3

\* The chain has yielded the keys of the counters S, is at the last of them, and
\* keeps the others that are near.
ChainHeard(ch, S) ==
  /\ ch.counter \in S \cup {-1} /\ \A c \in S : c \in Nat /\ c <= ch.counter
  /\ \A c \in 0..ch.counter : ch.counter - c < MaxRetained => c \in DOMAIN ch.kept \cup S

LEMMA TakeHeard ==
  ASSUME NEW ch, InStep(ch), NEW S, ChainHeard(ch, S), NEW n \in Nat, NEW o, o = TakeMessageKey(ch, n)
  PROVE  ChainHeard(o, S \cup {n})
<1>1. o.counter = IF n > ch.counter THEN n ELSE ch.counter
  BY TakeInStep
<1>2. ch.counter \in Int /\ ch.counter >= -1
  BY DEF InStep, ChainOK
<1>3. o.counter \in S \cup {n} \cup {-1} /\ \A c \in S \cup {n} : c \in Nat /\ c <= o.counter
  BY <1>1, <1>2 DEF ChainHeard
<1>4. ASSUME NEW c \in 0..o.counter, o.counter - c < MaxRetained, c \notin S \cup {n}
      PROVE  c \in DOMAIN o.kept
  <2>0. c \in Nat /\ c <= o.counter /\ c # n
    BY <1>1, <1>2, <1>4
  <2>1. c <= ch.counter => c \in DOMAIN ch.kept
    <3>1. c <= ch.counter => c \in 0..ch.counter /\ ch.counter - c < MaxRetained
      BY <1>1, <1>2, <1>4, <2>0, ChainAssumption
    <3> QED
      BY <1>4, <3>1 DEF ChainHeard
  <2> QED
    BY <1>4, <2>0, <2>1, TakeRetains
<1> QED
  BY <1>3, <1>4 DEF ChainHeard

LEMMA NewChainHeard ==
  ASSUME NEW type \in {"sending", "receiving"}, NEW seed
  PROVE  ChainHeard(NewChain(type, seed), {})
<1>1. NewChain(type, seed).counter = -1
  BY NewChainInStep
<1>2. 0..(-1) = {}
  OBVIOUS
<1> QED
  BY <1>1, <1>2 DEF ChainHeard

\* An entry that has opened the counters S since its last step.
Heard(e, S) ==
  /\ \A i \in DOMAIN e.chains : IsReceiving(e.chains[i]) => ChainHeard(e.chains[i], S)
  /\ S # {} => \E i \in DOMAIN e.chains : IsReceiving(e.chains[i])
-----------------------------------------------------------------------------
(* Two ends, what they sent, and how far they are                           *)

\* A frame that e sent, on the root it is on or on an earlier one.
Sent(frame, e) ==
  /\ Len(frame.key.seed) <= Len(e.root)
  /\ Len(frame.key.seed) = Len(e.root) => frame.id.key = e.own.key
  /\ frame.key.seed = e.root =>
       \A i \in DOMAIN e.chains : IsSending(e.chains[i]) => frame.counter <= e.chains[i].counter

\* a leads, and has heard no more than b sent.
Ahead(a, b) ==
  /\ Leads(a, b)
  /\ \A i \in DOMAIN a.chains, j \in DOMAIN b.chains :
       IsReceiving(a.chains[i]) /\ IsSending(b.chains[j]) => a.chains[i].counter <= b.chains[j].counter

\* e sent less than n frames on each of its chains.
Under(e, n) ==
  /\ e.previousCounter <= n
  /\ \A i \in DOMAIN e.chains : IsSending(e.chains[i]) => e.chains[i].counter < n

\* What changes when e sends.
Sends(e, o, n) ==
  /\ SameKeys(e, o) /\ IsRatchet(o) /\ o.previousCounter = e.previousCounter /\ o.pending = e.pending
  /\ \A i \in DOMAIN o.chains : IsReceiving(o.chains[i]) => o.chains[i] = e.chains[i]
  /\ \A i \in DOMAIN o.chains :
       IsSending(o.chains[i]) => o.chains[i].counter = n /\ e.chains[i].counter = n - 1

LEMMA EncryptedCounts ==
  ASSUME NEW e, IsRatchet(e), SendingChains(e) # {}, NextCounter(e) <= MaxCounter, NEW o, o = Encrypted(e)
  PROVE  /\ IsRatchet(o) /\ o.root = e.root /\ o.own = e.own /\ o.pending = e.pending
         /\ \E i \in DOMAIN e.chains :
              /\ IsSending(o.chains[i]) /\ o.chains[i].counter = NextCounter(e)
              /\ NextCounter(e) = e.chains[i].counter + 1
<1>1. PICK i : i = SendingId(e)
  OBVIOUS
<1>2. EncryptsOn(e, i, o)
  BY <1>1, EncryptedRatchet
<1> QED
  BY <1>2 DEF EncryptsOn

LEMMA SendingSends ==
  ASSUME NEW e, IsRatchet(e), CanEncrypt(e), NEW o, o = Encrypted(e), NEW f, f = Frame(e)
  PROVE  /\ Sends(e, o, f.counter) /\ f.counter \in Nat /\ f.pre = e.pending
         /\ f.id = Wire(e.own) /\ f.key.seed = e.root /\ Sent(f, o)
<1>1. /\ SendingChains(e) # {} /\ NextCounter(e) <= MaxCounter
      /\ f.id = Wire(e.own) /\ f.counter = NextCounter(e) /\ f.counter \in Nat
      /\ f.key = [seed |-> e.root, step |-> NextCounter(e)]
  BY NextFrame
<1>2. PICK i \in DOMAIN e.chains :
        IsSending(o.chains[i]) /\ o.chains[i].counter = f.counter /\ f.counter = e.chains[i].counter + 1
  BY <1>1, EncryptedCounts
<1>3. /\ SameKeys(e, o)
      /\ \A j \in DOMAIN o.chains : IsReceiving(o.chains[j]) => o.chains[j] = e.chains[j]
  BY <1>1, EncryptedWalks
<1>4. IsRatchet(o) /\ o.pending = e.pending /\ o.root = e.root /\ o.own = e.own
  BY <1>1, EncryptedCounts
<1>5. o.previousCounter = e.previousCounter
  <2>1. e = [root |-> e.root, own |-> e.own, lastRemote |-> e.lastRemote,
             previousCounter |-> e.previousCounter, chains |-> e.chains, pending |-> e.pending]
    BY DEF IsRatchet
  <2> QED
    BY <2>1 DEF Encrypted
<1>6. e.chains[i].counter \in Int /\ i \in DOMAIN o.chains
  BY <1>2, <1>3 DEF IsRatchet, InStep, ChainOK, SameKeys
<1>7. \A j \in DOMAIN o.chains :
        IsSending(o.chains[j]) => o.chains[j].counter = f.counter /\ e.chains[j].counter = f.counter - 1
  <2>1. ASSUME NEW j \in DOMAIN o.chains, IsSending(o.chains[j]) PROVE j = i
    BY <1>2, <1>4, <1>6, <2>1, OneSending
  <2> QED
    BY <1>2, <1>4, <1>6, <2>1
<1>8. Sends(e, o, f.counter)
  BY <1>3, <1>4, <1>5, <1>7 DEF Sends
<1>9. f.key.seed = o.root /\ f.id.key = o.own.key
  BY <1>1, <1>4 DEF Wire, Id
<1>10. Sent(f, o)
  <2>1. Len(o.root) \in Nat
    BY <1>4, SteppedRoots
  <2> QED
    BY <1>1, <1>7, <1>9, <2>1 DEF Sent
<1>11. f.pre = e.pending
  BY DEF Frame
<1> QED
  BY <1>1, <1>8, <1>10, <1>11

\* Nothing that was sent before is what is sent now,
LEMMA SentBefore ==
  ASSUME NEW e, IsRatchet(e), NEW o, NEW n \in Nat, Sends(e, o, n),
         NEW x, x.counter \in Nat, Sent(x, e)
  PROVE  Sent(x, o)
<1>1. o.root = e.root /\ o.own = e.own /\ DOMAIN o.chains = DOMAIN e.chains
  BY DEF Sends, SameKeys
<1>2. ASSUME x.key.seed = o.root, NEW i \in DOMAIN o.chains, IsSending(o.chains[i])
      PROVE  x.counter <= o.chains[i].counter
  <2>1. IsSending(e.chains[i]) /\ o.chains[i].counter = n /\ e.chains[i].counter = n - 1
    BY <1>2 DEF Sends, SameKeys
  <2>2. x.counter <= e.chains[i].counter
    BY <1>1, <1>2, <2>1 DEF Sent
  <2> QED
    BY <2>1, <2>2
<1> QED
  BY <1>1, <1>2 DEF Sent

LEMMA SentIsNew ==
  ASSUME NEW e, IsRatchet(e), CanEncrypt(e)
  PROVE  ~Sent(Frame(e), e)
<1>1. PICK f : f = Frame(e)
  OBVIOUS
<1>2. /\ f.key = [seed |-> e.root, step |-> NextCounter(e)] /\ f.counter = NextCounter(e)
      /\ \E i \in DOMAIN e.chains : IsSending(e.chains[i]) /\ NextCounter(e) = e.chains[i].counter + 1
  BY <1>1, NextFrame
<1>3. PICK i \in DOMAIN e.chains : IsSending(e.chains[i]) /\ f.counter = e.chains[i].counter + 1
  BY <1>2
<1>4. e.chains[i].counter \in Int
  BY <1>3 DEF IsRatchet, InStep, ChainOK
<1>5. f.key.seed = e.root
  BY <1>2
<1> QED
  BY <1>1, <1>3, <1>4, <1>5 DEF Sent

\* and the two go on as before.
LEMMA AheadSends ==
  ASSUME NEW e, IsRatchet(e), NEW o, NEW n \in Nat, Sends(e, o, n), NEW r
  PROVE  /\ Ahead(e, r) => Ahead(o, r)
         /\ Ahead(r, e) /\ IsRatchet(r) => Ahead(r, o)
<1>1. SameKeys(e, o) /\ SameKeys(r, r)
  BY SameKeysSelf DEF Sends
<1>2. ASSUME Ahead(e, r) PROVE Ahead(o, r)
  <2>1. Leads(o, r)
    BY <1>1, <1>2, LeadsWalked DEF Ahead
  <2> QED
    BY <1>1, <1>2, <2>1 DEF Ahead, Sends, SameKeys
<1>3. ASSUME Ahead(r, e), IsRatchet(r) PROVE Ahead(r, o)
  <2>1. Leads(r, o)
    BY <1>1, <1>3, LeadsWalked DEF Ahead
  <2>2. ASSUME NEW i \in DOMAIN r.chains, NEW j \in DOMAIN o.chains,
               IsReceiving(r.chains[i]), IsSending(o.chains[j])
        PROVE  r.chains[i].counter <= o.chains[j].counter
    <3>1. j \in DOMAIN e.chains /\ IsSending(e.chains[j]) /\ o.chains[j].counter = n /\ e.chains[j].counter = n - 1
      BY <2>2 DEF Sends, SameKeys
    <3>2. r.chains[i].counter <= e.chains[j].counter /\ r.chains[i].counter \in Int
      BY <1>3, <2>2, <3>1 DEF Ahead, IsRatchet, InStep, ChainOK
    <3> QED
      BY <3>1, <3>2
  <2> QED
    BY <2>1, <2>2 DEF Ahead
<1> QED
  BY <1>2, <1>3

LEMMA UnderSends ==
  ASSUME NEW e, NEW o, NEW c \in Nat, Sends(e, o, c), IsRatchet(e), NEW n \in Nat, Under(e, n)
  PROVE  Under(o, n + 1)
<1>1. o.previousCounter = e.previousCounter /\ e.previousCounter \in Int
  BY RatchetAssumption DEF Sends, IsRatchet
<1>2. ASSUME NEW i \in DOMAIN o.chains, IsSending(o.chains[i]) PROVE o.chains[i].counter < n + 1
  <2>1. /\ i \in DOMAIN e.chains /\ IsSending(e.chains[i])
        /\ o.chains[i].counter = c /\ e.chains[i].counter = c - 1
    BY <1>2 DEF Sends, SameKeys
  <2>2. e.chains[i].counter < n
    BY <2>1 DEF Under
  <2> QED
    BY <2>1, <2>2
<1> QED
  BY <1>1, <1>2 DEF Under

LEMMA UnderMore ==
  ASSUME NEW e, IsRatchet(e), NEW n \in Nat, Under(e, n), NEW k \in Nat, n <= k
  PROVE  Under(e, k)
<1>1. e.previousCounter \in Int
  BY RatchetAssumption DEF IsRatchet
<1>2. \A i \in DOMAIN e.chains : e.chains[i].counter \in Int
  BY DEF IsRatchet, InStep, ChainOK
<1> QED
  BY <1>1, <1>2 DEF Under

LEMMA PreviousUnder ==
  ASSUME NEW e, IsRatchet(e), NEW n \in Nat, Under(e, n), NEW frame, NEW fresh, NEW o, o = Decrypted(e, frame, fresh)
  PROVE  o.previousCounter <= n
<1>1. e = [root |-> e.root, own |-> e.own, lastRemote |-> e.lastRemote,
           previousCounter |-> e.previousCounter, chains |-> e.chains, pending |-> e.pending]
  BY DEF IsRatchet
<1>2. o.previousCounter \in {e.previousCounter, PlannedPreviousCounter(e)}
  <2>1. PICK s : s = Stepped(e, frame, fresh)
    OBVIOUS
  <2>2. o.previousCounter = s.previousCounter
    <3>1. s = [root |-> s.root, own |-> s.own, lastRemote |-> s.lastRemote,
               previousCounter |-> s.previousCounter, chains |-> s.chains, pending |-> s.pending]
      BY <1>1, <2>1 DEF Stepped, ApplyRatchet
    <3> QED
      BY <2>1, <3>1 DEF Decrypted
  <2>3. s.previousCounter \in {e.previousCounter, PlannedPreviousCounter(e)}
    BY <1>1, <2>1 DEF Stepped, ApplyRatchet, AppliedPreviousCounter
  <2> QED
    BY <2>2, <2>3
<1>3. CASE HasChain(e.chains, e.own) /\ IsSending(FindChain(e.chains, e.own))
  <2>1. PICK i \in DOMAIN e.chains : i = ChainId(e.chains, e.own)
    BY <1>3, Found
  <2>2. e.chains[i].counter < n /\ e.chains[i].counter \in Int
    BY <1>3, <2>1 DEF Under, FindChain, IsRatchet, InStep, ChainOK
  <2>3. PlannedPreviousCounter(e) = NonNegative(e.chains[i].counter)
    BY <1>3, <2>1 DEF PlannedPreviousCounter, FindChain
  <2> QED
    BY <1>2, <2>2, <2>3 DEF Under, NonNegative
<1>4. CASE ~(HasChain(e.chains, e.own) /\ IsSending(FindChain(e.chains, e.own)))
  BY <1>2, <1>4 DEF PlannedPreviousCounter, Under
<1> QED
  BY <1>3, <1>4

\* Opening walks the chain on which the other sent, or passes the lead on.
StaysInTouch(e, o, r) ==
  /\ Ahead(o, r) \/ Ahead(r, o)
  /\ \A n \in Nat : Under(e, n) => Under(o, n)
  /\ \A x : Len(x.key.seed) \in Nat /\ Sent(x, e) => Sent(x, o)

Hears(e, r, frame, fresh, o) ==
  /\ IsRatchet(e) /\ IsRatchet(r) /\ e.own.key # r.own.key /\ (Ahead(e, r) \/ Ahead(r, e))
  /\ IsId(frame.id) /\ frame.counter \in Nat /\ frame.id.key # e.own.key
  /\ Opens(e, frame) /\ Sent(frame, r)
  /\ fresh # frame.id.key /\ fresh # e.own.key /\ fresh # r.own.key
  /\ o = Decrypted(e, frame, fresh)

LEMMA WalkStaysInTouch ==
  ASSUME NEW e, NEW r, NEW frame, NEW fresh, NEW o, Hears(e, r, frame, fresh, o), ~StepNeeded(e, frame.id)
  PROVE  StaysInTouch(e, o, r)
<1>0. /\ IsRatchet(e) /\ IsRatchet(r) /\ (Ahead(e, r) \/ Ahead(r, e))
      /\ IsId(frame.id) /\ frame.counter \in Nat /\ frame.id.key # e.own.key
      /\ Opens(e, frame) /\ Sent(frame, r) /\ fresh # frame.id.key /\ o = Decrypted(e, frame, fresh)
  BY DEF Hears
<1> USE <1>0
<1>1. PICK ch, n, taken : ch = ReceivingChain(e, frame.id) /\ n = frame.counter /\ taken = TakeMessageKey(ch, frame.counter)
  OBVIOUS
<1>2. IsReceiving(ch) /\ InStep(ch) /\ frame.key = [seed |-> ch.key.seed, step |-> frame.counter]
  BY <1>1, OpenedKey
<1>3. /\ SameKeys(e, o)
      /\ \E i \in DOMAIN e.chains : ch = e.chains[i]
      /\ \A i \in DOMAIN o.chains : IsReceiving(o.chains[i]) => o.chains[i] = taken
  BY <1>1, <1>2, OpenedWalks
<1>4. \A i \in DOMAIN o.chains : IsSending(o.chains[i]) => i \in DOMAIN e.chains /\ o.chains[i] = e.chains[i]
  BY <1>1, <1>2, DecryptedRatchet
<1>5. taken.counter = IF n > ch.counter THEN n ELSE ch.counter
  BY <1>1, <1>2, TakeInStep
<1>6. PICK k \in DOMAIN e.chains : ch = e.chains[k]
  BY <1>3
<1>7. ASSUME Ahead(e, r) PROVE Ahead(o, r)
  <2>1. Leads(o, r)
    BY <1>3, <1>7, LeadsWalked, SameKeysSelf DEF Ahead
  <2>2. ASSUME NEW j \in DOMAIN r.chains, IsSending(r.chains[j])
        PROVE  taken.counter <= r.chains[j].counter
    <3>1. ch.counter <= r.chains[j].counter /\ ch.key.seed = r.root
      BY <1>2, <1>6, <1>7, <2>2 DEF Ahead, Leads
    <3>2. n <= r.chains[j].counter
      BY <1>1, <1>2, <2>2, <3>1 DEF Sent
    <3> QED
      BY <1>5, <3>1, <3>2
  <2> QED
    BY <1>3, <2>1, <2>2 DEF Ahead
<1>8. ASSUME Ahead(r, e) PROVE Ahead(r, o)
  <2>1. Leads(r, o)
    BY <1>3, <1>8, LeadsWalked, SameKeysSelf DEF Ahead
  <2> QED
    BY <1>4, <1>8, <2>1 DEF Ahead
<1>9. ASSUME NEW m \in Nat, Under(e, m) PROVE Under(o, m)
  BY <1>4, <1>9, PreviousUnder DEF Under
<1>10. ASSUME NEW x, Sent(x, e) PROVE Sent(x, o)
  BY <1>3, <1>4, <1>10 DEF Sent, SameKeys
<1> QED
  BY <1>7, <1>8, <1>9, <1>10 DEF StaysInTouch

LEMMA StepStaysInTouch ==
  ASSUME NEW e, NEW r, NEW frame, NEW fresh, NEW o, Hears(e, r, frame, fresh, o), StepNeeded(e, frame.id)
  PROVE  StaysInTouch(e, o, r) /\ Ahead(o, r)
<1>0. /\ IsRatchet(e) /\ IsRatchet(r) /\ e.own.key # r.own.key /\ (Ahead(e, r) \/ Ahead(r, e))
      /\ IsId(frame.id) /\ frame.counter \in Nat /\ frame.id.key # e.own.key
      /\ Opens(e, frame) /\ Sent(frame, r)
      /\ fresh # frame.id.key /\ fresh # e.own.key /\ fresh # r.own.key
      /\ o = Decrypted(e, frame, fresh)
  BY DEF Hears
<1> USE <1>0
<1>1. PICK ch, n : ch = ReceivingChain(e, frame.id) /\ n = frame.counter
  OBVIOUS
<1>2. IsReceiving(ch) /\ InStep(ch) /\ frame.key = [seed |-> ch.key.seed, step |-> frame.counter]
  BY <1>1, OpenedKey
<1>3. /\ Len(e.root) \in Nat /\ Len(r.root) \in Nat /\ frame.key.seed = ch.key.seed
      /\ Len(frame.key.seed) = Len(e.root) + 1
  <2>1. ch = NewChain("receiving", ReceivingRoot(e, frame.id))
    BY <1>1 DEF ReceivingChain
  <2>2. ch.key.seed = ReceivingRoot(e, frame.id)
    BY <2>1, NewChainInStep
  <2> QED
    BY <1>2, <2>2, SteppedRoots
\* Who is ahead has nothing to step for.
<1>4. Ahead(r, e) /\ Leads(r, e) /\ Len(r.root) = Len(e.root) + 1
  <2>1. ~Leads(e, r)
    <3> SUFFICES ASSUME Leads(e, r) PROVE FALSE
      OBVIOUS
    <3>1. Len(e.root) = Len(r.root) + 1
      BY Derived DEF Leads, IsRatchet
    <3> QED
      BY <1>3, <3>1 DEF Sent
  <2>2. Ahead(r, e) /\ Leads(r, e)
    BY <2>1 DEF Ahead
  <2>3. Len(r.root) = Len(e.root) + 1
    BY <2>2, Derived DEF Leads, IsRatchet
  <2> QED
    BY <2>2, <2>3
<1>5. frame.id.key = r.own.key
  BY <1>3, <1>4 DEF Sent
<1>6. PICK new, taken : new = NewChain("receiving", r.root) /\ taken = TakeMessageKey(NewChain("receiving", r.root), n)
  OBVIOUS
<1>7. /\ ch = new /\ Leads(o, r)
      /\ Len(o.root) = Len(e.root) + 2
      /\ \A i \in DOMAIN o.chains : IsReceiving(o.chains[i]) => o.chains[i] = taken
  BY <1>1, <1>4, <1>5, <1>6, LeadPasses
<1>8. taken.counter = n /\ frame.key.seed = r.root
  <2>1. InStep(new) /\ new.counter = -1 /\ new.key.seed = r.root /\ taken = TakeMessageKey(new, n)
    BY <1>6, NewChainInStep
  <2>2. taken.counter = IF n > new.counter THEN n ELSE new.counter
    BY <1>1, <2>1, TakeInStep
  <2> QED
    BY <1>1, <1>3, <1>7, <2>1, <2>2
<1>9. Ahead(o, r)
  BY <1>1, <1>7, <1>8 DEF Ahead, Sent
<1>10. ASSUME NEW m \in Nat, Under(e, m) PROVE Under(o, m)
  <2>1. PICK own : own = Id(fresh, "wire")
    OBVIOUS
  <2>2. /\ IsRatchet(o) /\ own \in DOMAIN o.chains /\ o.chains[own] = NewChain("sending", o.root)
    BY <1>1, <1>2, <2>1, DecryptedRatchet
  <2>3. IsSending(o.chains[own]) /\ o.chains[own].counter = -1
    BY <2>2, NewChainInStep DEF IsSending
  <2>4. \A i \in DOMAIN o.chains : IsSending(o.chains[i]) => i = own
    BY <2>2, <2>3, OneSending
  <2>5. o.previousCounter <= m
    BY <1>10, PreviousUnder
  <2> QED
    BY <2>3, <2>4, <2>5 DEF Under
<1>11. ASSUME NEW x, Len(x.key.seed) \in Nat, Sent(x, e) PROVE Sent(x, o)
  <2>1. Len(x.key.seed) <= Len(e.root) /\ Len(x.key.seed) < Len(o.root)
    BY <1>3, <1>7, <1>11 DEF Sent
  <2> QED
    BY <1>3, <1>7, <1>11, <2>1 DEF Sent
<1> QED
  BY <1>9, <1>10, <1>11 DEF StaysInTouch

\* Two ends in touch open each other's next frame, while it is not too far ahead.
LEMMA NextOpens ==
  ASSUME NEW e, IsRatchet(e), NEW r, IsRatchet(r), Ahead(e, r) \/ Ahead(r, e), CanEncrypt(e),
         NEW n \in Nat, Under(e, n), n < MaxSkip
  PROVE  Opens(r, Frame(e))
<1>1. PICK f : f = Frame(e)
  OBVIOUS
<1>2. /\ f.counter \in Nat
      /\ \E i \in DOMAIN e.chains : IsSending(e.chains[i]) /\ f.counter = e.chains[i].counter + 1
  BY <1>1, NextFrame
<1>3. PICK i \in DOMAIN e.chains : IsSending(e.chains[i]) /\ f.counter = e.chains[i].counter + 1
  BY <1>2
<1>4. e.chains[i].counter \in Int /\ e.chains[i].counter < n /\ f.counter <= n
  BY <1>2, <1>3 DEF IsRatchet, InStep, ChainOK, Under
<1>5. f.previousCounter \in Int /\ f.previousCounter <= n
  BY <1>1, RatchetAssumption DEF Frame, IsRatchet, Under
<1>6. ASSUME NEW j \in DOMAIN r.chains, IsReceiving(r.chains[j])
      PROVE  r.chains[j].counter \in Int /\ r.chains[j].counter >= -1 /\ ~IsClosed(r.chains[j])
  <2>1. InStep(r.chains[j]) /\ IsRoot(r.chains[j].key.seed)
    BY <1>6, OneDirection DEF IsRatchet, SendsOn, ReceivesOn
  <2> QED
    BY <2>1 DEF IsClosed, NoSeed, IsRoot, InStep, ChainOK
<1>7. CASE Ahead(e, r)
  <2>1. f.counter < MaxSkip
    BY <1>2, <1>4, <1>7, ChainAssumption
  <2>2. ASSUME NEW j \in DOMAIN r.chains, IsReceiving(r.chains[j]) PROVE ~Refuses(r.chains[j], f.previousCounter)
    BY <1>5, <1>6, <2>2, ChainAssumption DEF Refuses
  <2> QED
    BY <1>1, <1>7, <2>1, <2>2, LeaderHeard DEF Ahead
<1>8. CASE Ahead(r, e)
  <2>1. ASSUME NEW j \in DOMAIN r.chains, IsReceiving(r.chains[j])
        PROVE  f.counter > r.chains[j].counter /\ f.counter - r.chains[j].counter <= MaxSkip
    <3>1. r.chains[j].counter <= e.chains[i].counter
      BY <1>3, <1>8, <2>1 DEF Ahead
    <3> QED
      BY <1>3, <1>4, <1>6, <2>1, <3>1, ChainAssumption
  <2> QED
    BY <1>1, <1>8, <2>1, LeaderHears DEF Ahead
<1> QED
  BY <1>7, <1>8
=============================================================================
