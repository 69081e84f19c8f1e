--------------------------- MODULE QueueJobProofs ---------------------------
(***************************************************************************)
(* Theorems about QueueJob, for every set of calls and queues, every        *)
(* sharing of keys, and every pattern of nested and detached calls.         *)
(***************************************************************************)
EXTENDS QueueJob, SequenceTheorems, TLAPS

\* Every chained call stands in the line of its queue,
Placed == \A c \in Call : c \in Chained =>
            /\ queueOf[c] \in Queue
            /\ \E i \in 1..Len(line[queueOf[c]]) : line[queueOf[c]][i] = c

\* and only chained calls of that queue stand there,
OnQueue == \A q \in Queue : \A i \in 1..Len(line[q]) :
             line[q][i] \in Chained /\ queueOf[line[q][i]] = q

\* once each.
Once == \A q \in Queue : \A i, j \in 1..Len(line[q]) :
          line[q][i] = line[q][j] => i = j

\* A call waits for its predecessor in the line, unless it found none left.
Linked == \A q \in Queue : \A i \in 1..Len(line[q]) :
            \/ i > 1 /\ after[line[q][i]] = line[q][i - 1]
            \/ \A j \in 1..(i - 1) : line[q][j] \in Gone

\* Whoever has started has nobody unfinished before it.
InTurn == \A q \in Queue : \A i, j \in 1..Len(line[q]) :
            j < i /\ state[line[q][i]] # "queued" => line[q][j] \in Gone

\* The map names the end of the line, and forgets it when the line is through.
TailLast == \A q \in Queue :
              \/ tail[q] = NoCall /\ \A i \in 1..Len(line[q]) : line[q][i] \in Gone
              \/ /\ Len(line[q]) > 0
                 /\ tail[q] = line[q][Len(line[q])]
                 /\ tail[q] \in cleanup

ToClean == \A c \in cleanup : c \in Chained

IInv == TypeOK /\ Placed /\ OnQueue /\ Once /\ Linked /\ InTurn /\ TailLast /\ ToClean
-----------------------------------------------------------------------------
LEMMA InitIInv == Init => IInv
<1> SUFFICES ASSUME Init PROVE IInv
  OBVIOUS
<1>1. TypeOK
  <2>1. \A q \in Queue : line[q] = <<>> /\ line[q] \in Seq(Call)
    BY DEF Init
  <2> QED
    BY <2>1 DEF Init, TypeOK, State
<1>2. Placed /\ ToClean
  BY DEF Init, Placed, ToClean, Chained
<1>3. OnQueue /\ Once /\ Linked /\ InTurn /\ TailLast
  <2>1. \A q \in Queue : Len(line[q]) = 0 /\ tail[q] = NoCall
    BY DEF Init
  <2> QED
    BY <2>1 DEF OnQueue, Once, Linked, InTurn, TailLast
<1> QED
  BY <1>1, <1>2, <1>3 DEF IInv

\* A step that chains nothing and only moves calls forward keeps every part
\* that is not about the order of starting.
LEMMA ForwardStep ==
  ASSUME IInv, TypeOK', InTurn',
         UNCHANGED <<queueOf, tail, after, cleanup, line>>,
         \A d \in Call : d \in Gone => d \in Gone',
         \A d \in Call : d \in Chained' <=> d \in Chained
  PROVE  IInv'
<1> USE DEF IInv
<1>0. \A q \in Queue : \A i \in 1..Len(line[q]) : line[q][i] \in Call
  BY DEF TypeOK
<1>1. Placed'
  BY DEF Placed
<1>2. OnQueue'
  BY <1>0 DEF OnQueue
<1>3. Once'
  BY DEF Once
<1>4. Linked'
  <2>1. \A i \in Nat : \A j \in 1..(i - 1) : i > 1
    OBVIOUS
  <2>2. SUFFICES ASSUME NEW q \in Queue, NEW i \in 1..Len(line[q])
                 PROVE \/ i > 1 /\ after[line[q][i]] = line[q][i - 1]
                       \/ \A j \in 1..(i - 1) : line[q][j] \in Gone'
    BY DEF Linked
  <2>3. \A j \in 1..(i - 1) : line[q][j] \in Call
    BY DEF TypeOK
  <2> QED
    BY <2>2, <2>3 DEF Linked
<1>5. TailLast'
  <2> SUFFICES ASSUME NEW q \in Queue
               PROVE \/ tail[q] = NoCall /\ \A i \in 1..Len(line[q]) : line[q][i] \in Gone'
                     \/ /\ Len(line[q]) > 0
                        /\ tail[q] = line[q][Len(line[q])]
                        /\ tail[q] \in cleanup
    BY DEF TailLast
  <2> QED
    BY <1>0 DEF TailLast
<1>6. ToClean'
  BY DEF ToClean, TypeOK
<1> QED
  BY <1>1, <1>2, <1>3, <1>4, <1>5, <1>6

LEMMA DropIInv ==
  ASSUME IInv, NEW c \in Call, NEW q \in Queue, NEW ctx, NEW jobs \in SUBSET Call,
         Drop(c, q, ctx, jobs), waits' = waits
  PROVE  IInv'
<1> USE DEF IInv
<1>1. TypeOK'
  BY DEF Drop, TypeOK, State
<1>2. c \notin Chained /\ c \notin Chained' /\ \A d \in Call \ {c} : state'[d] = state[d] /\ queueOf'[d] = queueOf[d]
  BY DEF Drop, Chained, TypeOK
<1>3. \A d \in Call : (d \in Chained' <=> d \in Chained) /\ (d \in Gone => d \in Gone') /\ (d \in Chained => queueOf'[d] = queueOf[d] /\ state'[d] = state[d])
  BY <1>2 DEF Drop, Chained, Gone, Settled
<1>4. \A p \in Queue : \A i \in 1..Len(line[p]) :
        /\ line[p][i] \in Call
        /\ state'[line[p][i]] = state[line[p][i]]
        /\ queueOf'[line[p][i]] = queueOf[line[p][i]]
        /\ line[p][i] \in Gone => line[p][i] \in Gone'
  <2> SUFFICES ASSUME NEW p \in Queue, NEW i \in 1..Len(line[p])
               PROVE  /\ line[p][i] \in Call
                      /\ state'[line[p][i]] = state[line[p][i]]
                      /\ queueOf'[line[p][i]] = queueOf[line[p][i]]
                      /\ line[p][i] \in Gone => line[p][i] \in Gone'
    OBVIOUS
  <2>1. line[p][i] \in Call /\ line[p][i] \in Chained
    BY DEF TypeOK, OnQueue
  <2> QED
    BY <2>1, <1>3
<1>5. Placed'
  BY <1>3 DEF Placed, Drop
<1>6. OnQueue'
  BY <1>3, <1>4 DEF OnQueue, Drop
<1>7. Once'
  BY DEF Once, Drop
<1>8. Linked'
  <2> SUFFICES ASSUME NEW p \in Queue, NEW i \in 1..Len(line[p])
               PROVE \/ i > 1 /\ after[line[p][i]] = line[p][i - 1]
                     \/ \A j \in 1..(i - 1) : line[p][j] \in Gone'
    BY DEF Linked, Drop
  <2>1. \A j \in 1..(i - 1) : j \in 1..Len(line[p])
    BY DEF TypeOK
  <2> QED
    BY <2>1, <1>4 DEF Linked
<1>9. InTurn'
  <2> SUFFICES ASSUME NEW p \in Queue, NEW i \in 1..Len(line[p]), NEW j \in 1..Len(line[p]),
                      j < i, state'[line[p][i]] # "queued"
               PROVE line[p][j] \in Gone'
    BY DEF InTurn, Drop
  <2> QED
    BY <1>4 DEF InTurn
<1>10. TailLast'
  <2> SUFFICES ASSUME NEW p \in Queue
               PROVE \/ tail[p] = NoCall /\ \A i \in 1..Len(line[p]) : line[p][i] \in Gone'
                     \/ /\ Len(line[p]) > 0
                        /\ tail[p] = line[p][Len(line[p])]
                        /\ tail[p] \in cleanup
    BY DEF TailLast, Drop
  <2> QED
    BY <1>4 DEF TailLast
<1>11. ToClean'
  BY <1>3 DEF ToClean, Drop, TypeOK
<1> QED
  BY <1>1, <1>5, <1>6, <1>7, <1>8, <1>9, <1>10, <1>11

LEMMA EnqueueIInv ==
  ASSUME IInv, NEW c \in Call, NEW q \in Queue, NEW ctx \in SUBSET Key,
         NEW jobs \in SUBSET Call, Enqueue(c, q, ctx, jobs),
         waits' \in [Call -> Call \cup {NoCall}]
  PROVE  IInv'
<1> DEFINE n == Len(line[q])
<1> USE DEF IInv
<1>1. TypeOK'
  <2>1. line' \in [Queue -> Seq(Call)]
    BY AppendProperties DEF Enqueue, TypeOK
  <2>2. KeyOf[q] \in Key
    BY QueueAssumption
  <2> QED
    BY <2>1, <2>2 DEF Enqueue, TypeOK, State, Stored, ChainFor
<1>2. /\ \A p \in Queue \ {q} : line'[p] = line[p] /\ tail'[p] = tail[p]
      /\ n \in Nat
      /\ Len(line'[q]) = n + 1
      /\ line'[q][n + 1] = c
      /\ \A i \in 1..n : line'[q][i] = line[q][i]
      /\ \A p \in Queue : Len(line[p]) \in Nat
      /\ \A p \in Queue : \A i \in 1..Len(line[p]) : i \in 1..Len(line'[p]) /\ line'[p][i] = line[p][i]
  BY DEF Enqueue, TypeOK
<1>3. /\ c \notin Chained /\ c \in Chained' /\ c \notin Gone'
      /\ queueOf'[c] = q /\ state'[c] = "queued" /\ c \in cleanup'
  BY DEF Enqueue, TypeOK, Chained, Gone, Settled
<1>4. \A d \in Call \ {c} : /\ state'[d] = state[d] /\ queueOf'[d] = queueOf[d]
                             /\ after'[d] = after[d] /\ (d \in cleanup' <=> d \in cleanup)
                             /\ (d \in Gone' <=> d \in Gone) /\ (d \in Chained' <=> d \in Chained)
  BY DEF Enqueue, TypeOK, Gone, Chained, Settled
<1>5. \A p \in Queue : \A i \in 1..Len(line[p]) : line[p][i] \in Call \ {c}
  BY <1>3 DEF OnQueue, TypeOK
<1>6. \A p \in Queue, i \in Nat :
        i \in 1..Len(line'[p]) => i \in 1..Len(line[p]) \/ (p = q /\ i = n + 1)
  BY <1>2
<1>7. Placed'
  <2> SUFFICES ASSUME NEW d \in Call, d \in Chained'
               PROVE /\ queueOf'[d] \in Queue
                     /\ \E i \in 1..Len(line'[queueOf'[d]]) : line'[queueOf'[d]][i] = d
    BY DEF Placed
  <2>1. CASE d = c
    <3>1. n + 1 \in 1..Len(line'[q])
      BY <1>2
    <3> QED
      BY <2>1, <3>1, <1>2, <1>3
  <2>2. CASE d # c
    <3>1. /\ queueOf[d] \in Queue /\ queueOf'[d] = queueOf[d]
      BY <2>2, <1>4 DEF Placed
    <3>2. PICK i \in 1..Len(line[queueOf[d]]) : line[queueOf[d]][i] = d
      BY <2>2, <1>4 DEF Placed
    <3> QED
      BY <3>1, <3>2, <1>2
  <2> QED
    BY <2>1, <2>2
<1>8. OnQueue'
  <2> SUFFICES ASSUME NEW p \in Queue, NEW i \in 1..Len(line'[p])
               PROVE line'[p][i] \in Chained' /\ queueOf'[line'[p][i]] = p
    BY DEF OnQueue
  <2>1. CASE i \in 1..Len(line[p])
    BY <2>1, <1>2, <1>4, <1>5 DEF OnQueue
  <2>2. CASE p = q /\ i = n + 1
    BY <2>2, <1>2, <1>3
  <2> QED
    BY <2>1, <2>2, <1>6
<1>9. Once'
  <2> SUFFICES ASSUME NEW p \in Queue, NEW i \in 1..Len(line'[p]), NEW j \in 1..Len(line'[p]),
                      line'[p][i] = line'[p][j]
               PROVE i = j
    BY DEF Once
  <2>1. CASE i \in 1..Len(line[p]) /\ j \in 1..Len(line[p])
    BY <2>1, <1>2 DEF Once
  <2>2. i \in Nat /\ j \in Nat /\ line'[q][n + 1] = c
    <3>1. i \in Nat /\ j \in Nat
      OBVIOUS
    <3>2. line'[q][n + 1] = c
      BY <1>2
    <3> QED
      BY <3>1, <3>2
  <2>3. \A k \in 1..Len(line[p]) : line'[p][k] # c
    <3> SUFFICES ASSUME NEW k \in 1..Len(line[p]) PROVE line'[p][k] # c
      OBVIOUS
    <3>1. line'[p][k] = line[p][k]
      BY <1>2
    <3>2. line[p][k] \in Call \ {c}
      BY <1>5
    <3> QED
      BY <3>1, <3>2
  <2>4. CASE p = q /\ i = n + 1
    BY <2>2, <2>3, <2>4, <1>6
  <2>5. CASE p = q /\ j = n + 1
    BY <2>2, <2>3, <2>5, <1>6
  <2> QED
    BY <2>1, <2>2, <2>4, <2>5, <1>6
<1>10. Linked'
  <2> SUFFICES ASSUME NEW p \in Queue, NEW i \in 1..Len(line'[p])
               PROVE \/ i > 1 /\ after'[line'[p][i]] = line'[p][i - 1]
                     \/ \A j \in 1..(i - 1) : line'[p][j] \in Gone'
    BY DEF Linked
  <2>1. CASE i \in 1..Len(line[p])
    <3>1. \A j \in 1..(i - 1) : j \in 1..Len(line[p]) /\ line'[p][j] = line[p][j] /\ line[p][j] \in Call \ {c}
      BY <2>1, <1>2, <1>5
    <3>2. line'[p][i] = line[p][i] /\ line[p][i] \in Call \ {c}
      BY <2>1, <1>2, <1>5
    <3>3. CASE i > 1 /\ after[line[p][i]] = line[p][i - 1]
      <4>1. i - 1 \in 1..(i - 1)
        BY <3>3
      <4> QED
        BY <3>1, <3>2, <3>3, <4>1, <1>4
    <3>4. CASE \A j \in 1..(i - 1) : line[p][j] \in Gone
      BY <3>1, <3>4, <1>4
    <3> QED
      BY <2>1, <3>3, <3>4 DEF Linked
  <2>2. CASE p = q /\ i = n + 1
    <3>1. after'[c] = tail[q]
      BY DEF Enqueue, TypeOK, Stored
    <3>2. CASE tail[q] = NoCall /\ \A j \in 1..n : line[q][j] \in Gone
      BY <2>2, <3>2, <1>2, <1>4, <1>5
    <3>3. CASE n > 0 /\ tail[q] = line[q][n]
      <4>1. n \in 1..n /\ i > 1 /\ i - 1 = n
        BY <2>2, <3>3, <1>2
      <4> QED
        BY <2>2, <3>1, <3>3, <4>1, <1>2
    <3> QED
      BY <3>2, <3>3 DEF TailLast
  <2> QED
    BY <2>1, <2>2, <1>6
<1>11. InTurn'
  <2> SUFFICES ASSUME NEW p \in Queue, NEW i \in 1..Len(line'[p]), NEW j \in 1..Len(line'[p]),
                      j < i, state'[line'[p][i]] # "queued"
               PROVE line'[p][j] \in Gone'
    BY DEF InTurn
  <2>1. i \in 1..Len(line[p])
    BY <1>2, <1>3, <1>6
  <2>2. j \in 1..Len(line[p])
    BY <2>1, <1>2
  <2> QED
    BY <2>1, <2>2, <1>2, <1>4, <1>5 DEF InTurn
<1>12. TailLast'
  <2> SUFFICES ASSUME NEW p \in Queue
               PROVE \/ tail'[p] = NoCall /\ \A i \in 1..Len(line'[p]) : line'[p][i] \in Gone'
                     \/ /\ Len(line'[p]) > 0
                        /\ tail'[p] = line'[p][Len(line'[p])]
                        /\ tail'[p] \in cleanup'
    BY DEF TailLast
  <2>1. CASE p = q
    <3>1. tail'[q] = c
      BY DEF Enqueue, TypeOK
    <3> QED
      BY <2>1, <3>1, <1>2, <1>3
  <2>2. CASE p # q
    <3>1. cleanup \subseteq cleanup'
      BY DEF Enqueue
    <3> QED
      BY <2>2, <3>1, <1>2, <1>4, <1>5 DEF TailLast
  <2> QED
    BY <2>1, <2>2
<1>13. ToClean'
  BY <1>3, <1>4 DEF ToClean, Enqueue, TypeOK
<1> QED
  BY <1>1, <1>7, <1>8, <1>9, <1>10, <1>11, <1>12, <1>13

LEMMA StartIInv == ASSUME IInv, NEW c \in Call, Start(c) PROVE IInv'
<1> USE DEF IInv
<1>1. TypeOK'
  BY DEF Start, TypeOK, State
<1>2. Gone' = Gone /\ Chained' = Chained
  BY DEF Start, TypeOK, Gone, Settled, Chained
<1>3. InTurn'
  <2> SUFFICES ASSUME NEW q \in Queue, NEW i \in 1..Len(line[q]), NEW j \in 1..Len(line[q]),
                      j < i, state'[line[q][i]] # "queued"
               PROVE line[q][j] \in Gone
    BY <1>2 DEF InTurn, Start
  <2>1. CASE line[q][i] = c
    <3>1. CASE \A k \in 1..(i - 1) : line[q][k] \in Gone
      BY <3>1 DEF TypeOK
    <3>2. CASE i > 1 /\ after[c] = line[q][i - 1]
      \* The predecessor is gone, hence whoever stood before it.
      <4>1. i - 1 \in 1..Len(line[q]) /\ (j = i - 1 \/ j < i - 1)
        BY <3>2 DEF TypeOK
      <4>2. line[q][i - 1] \in Call /\ line[q][i - 1] # NoCall
        BY <4>1, QueueAssumption DEF TypeOK
      <4>3. line[q][i - 1] \in Gone
        BY <3>2, <4>2 DEF Start, Ready
      <4>4. state[line[q][i - 1]] # "queued"
        BY <4>3 DEF Gone, Settled
      <4> QED
        BY <4>1, <4>3, <4>4 DEF InTurn
    <3> QED
      BY <2>1, <3>1, <3>2 DEF Linked
  <2>2. CASE line[q][i] # c
    <3>1. line[q][i] \in Call
      BY DEF TypeOK
    <3>2. state[line[q][i]] # "queued"
      BY <2>2, <3>1 DEF Start, TypeOK
    <3> QED
      BY <3>2 DEF InTurn
  <2> QED
    BY <2>1, <2>2
<1> QED
  BY <1>1, <1>2, <1>3, ForwardStep DEF Start

LEMMA ResumeIInv == ASSUME IInv, NEW c \in Call, Resume(c) PROVE IInv'
<1> USE DEF IInv
<1>1. TypeOK'
  BY DEF Resume, TypeOK
<1>2. Gone' = Gone /\ Chained' = Chained
  BY DEF Resume, Gone, Settled, Chained
<1>3. InTurn'
  BY <1>2 DEF InTurn, Resume
<1> QED
  BY <1>1, <1>2, <1>3, ForwardStep DEF Resume

LEMMA FinishIInv == ASSUME IInv, NEW c \in Call, Finish(c) PROVE IInv'
<1> USE DEF IInv
<1>1. TypeOK'
  BY DEF Finish, TypeOK, State
<1>2. Gone \subseteq Gone' /\ Chained' = Chained
  BY DEF Finish, TypeOK, Gone, Settled, Chained
<1>3. \A d \in Call : state'[d] # "queued" => state[d] # "queued"
  BY DEF Finish, TypeOK
<1>4. InTurn'
  <2> SUFFICES ASSUME NEW q \in Queue, NEW i \in 1..Len(line[q]), NEW j \in 1..Len(line[q]),
                      j < i, state'[line[q][i]] # "queued"
               PROVE line[q][j] \in Gone
    BY <1>2 DEF InTurn, Finish
  <2>1. line[q][i] \in Call
    BY DEF TypeOK
  <2> QED
    BY <1>3, <2>1 DEF InTurn
<1> QED
  BY <1>1, <1>2, <1>4, ForwardStep DEF Finish

LEMMA CleanupIInv == ASSUME IInv, NEW c \in Call, Cleanup(c) PROVE IInv'
<1> USE DEF IInv
<1>1. TypeOK'
  BY DEF Cleanup, Cleaned, TypeOK
<1>2. /\ Chained' = Chained /\ Gone' = Gone \cup {c} /\ c \in Settled
      /\ line' = line /\ state' = state /\ after' = after /\ queueOf' = queueOf
      /\ cleanup' = cleanup \ {c}
  BY DEF Cleanup, Gone, Settled, Chained
<1>3. Placed' /\ OnQueue' /\ Once' /\ ToClean'
  BY <1>2 DEF Placed, OnQueue, Once, ToClean
<1>4. Linked'
  BY <1>2 DEF Linked
<1>5. InTurn'
  BY <1>2 DEF InTurn
<1>6. TailLast'
  <2> SUFFICES ASSUME NEW q \in Queue
               PROVE \/ tail'[q] = NoCall /\ \A i \in 1..Len(line[q]) : line[q][i] \in Gone'
                     \/ /\ Len(line[q]) > 0
                        /\ tail'[q] = line[q][Len(line[q])]
                        /\ tail'[q] \in cleanup'
    BY <1>2 DEF TailLast
  <2>1. CASE tail[q] = c
    <3>1. tail'[q] = NoCall
      BY <2>1 DEF Cleanup, Cleaned
    <3>2. Len(line[q]) > 0 /\ c = line[q][Len(line[q])]
      BY <2>1, QueueAssumption DEF TailLast
    <3>3. state[c] # "queued"
      BY <1>2 DEF Settled
    <3>4. \A i \in 1..Len(line[q]) : i < Len(line[q]) => line[q][i] \in Gone
      <4>1. Len(line[q]) \in 1..Len(line[q])
        BY <3>2 DEF TypeOK
      <4> QED
        BY <3>2, <3>3, <4>1 DEF InTurn
    <3>5. \A i \in 1..Len(line[q]) : i < Len(line[q]) \/ i = Len(line[q])
      BY DEF TypeOK
    <3> QED
      BY <1>2, <3>1, <3>2, <3>4, <3>5
  <2>2. CASE tail[q] # c
    <3>1. tail'[q] = tail[q]
      BY <2>2 DEF Cleanup, Cleaned
    <3> QED
      BY <1>2, <2>2, <3>1 DEF TailLast
  <2> QED
    BY <2>1, <2>2
<1> QED
  BY <1>1, <1>3, <1>4, <1>5, <1>6

LEMMA NextIInv == IInv /\ [Next]_vars => IInv'
<1> SUFFICES ASSUME IInv, [Next]_vars PROVE IInv'
  OBVIOUS
<1>0. TypeOK
  BY DEF IInv
<1>1. ASSUME NEW c \in Call, NEW q \in Queue, AddOutside(c, q) PROVE IInv'
  <2>1. waits' \in [Call -> Call \cup {NoCall}]
    BY <1>0, <1>1 DEF AddOutside, TypeOK
  <2> QED
    BY <1>1, <2>1, EnqueueIInv DEF AddOutside
<1>2. ASSUME NEW c \in Call, NEW q \in Queue, NEW p \in Call, AddFromJob(c, q, p) PROVE IInv'
  <2>1. chain[p] \in SUBSET Key /\ lineage[p] \cup {p} \in SUBSET Call
    BY <1>0 DEF TypeOK
  <2>2. CASE Drop(c, q, chain[p], lineage[p] \cup {p}) /\ UNCHANGED waits
    BY <2>1, <2>2, DropIInv
  <2>3. CASE Enqueue(c, q, chain[p], lineage[p] \cup {p}) /\ waits' = [waits EXCEPT ![p] = c]
    <3>1. waits' \in [Call -> Call \cup {NoCall}]
      BY <1>0, <2>3 DEF TypeOK
    <3> QED
      BY <2>1, <2>3, <3>1, EnqueueIInv
  <2> QED
    BY <1>2, <2>2, <2>3 DEF AddFromJob
<1>3. ASSUME NEW c \in Call, NEW q \in Queue, NEW p \in Call, AddDetached(c, q, p) PROVE IInv'
  <2>1. chain[p] \in SUBSET Key /\ lineage[p] \cup {p} \in SUBSET Call
    BY <1>0 DEF TypeOK
  <2>2. waits' = waits /\ waits' \in [Call -> Call \cup {NoCall}]
    BY <1>0, <1>3 DEF AddDetached, TypeOK
  <2> QED
    BY <1>3, <2>1, <2>2, DropIInv, EnqueueIInv DEF AddDetached
<1>4. ASSUME NEW c \in Call, Start(c) \/ Resume(c) \/ Finish(c) \/ Cleanup(c) PROVE IInv'
  BY <1>4, StartIInv, ResumeIInv, FinishIInv, CleanupIInv
<1>5. CASE UNCHANGED vars
  BY <1>5 DEF vars, IInv, TypeOK, Placed, OnQueue, Once, Linked, InTurn, TailLast, ToClean,
              Gone, Settled, Chained
<1> QED
  BY <1>1, <1>2, <1>3, <1>4, <1>5 DEF Next

LEMMA QueueInvariant == Spec => []IInv
<1> QED
  BY InitIInv, NextIInv, PTL DEF Spec

\* The variables keep their types, for all constants.
THEOREM TypeCorrect == Spec => []TypeOK
<1>1. IInv => TypeOK
  BY DEF IInv
<1> QED
  BY <1>1, QueueInvariant, PTL

\* Two jobs of one queue are never in progress together (queue-job.js:15-39):
\* whichever started later has everyone before it in the line gone.
THEOREM OneJobPerQueue == Spec => []MutualExclusion
<1>1. IInv => MutualExclusion
  <2> SUFFICES ASSUME IInv, NEW c \in Call, NEW d \in Call,
                      state[c] = "running", state[d] = "running", queueOf[c] = queueOf[d]
               PROVE c = d
    BY DEF MutualExclusion
  <2>1. c \in Chained /\ d \in Chained /\ c \notin Gone /\ d \notin Gone
    BY DEF Chained, Gone, Settled
  <2>2. queueOf[c] \in Queue
    BY <2>1 DEF IInv, Placed
  <2>3. PICK i \in 1..Len(line[queueOf[c]]) : line[queueOf[c]][i] = c
    BY <2>1 DEF IInv, Placed
  <2>4. PICK j \in 1..Len(line[queueOf[c]]) : line[queueOf[c]][j] = d
    BY <2>1 DEF IInv, Placed
  <2>5. i < j \/ j < i \/ i = j
    OBVIOUS
  <2> QED
    BY <2>1, <2>2, <2>3, <2>4, <2>5 DEF IInv, InTurn
<1> QED
  BY <1>1, QueueInvariant, PTL

\* A queue has a map entry exactly while it has work (queue-job.js:32-37).
THEOREM EntryTracksWork == Spec => []EntryIffPending
<1>1. IInv => EntryIffPending
  <2> SUFFICES ASSUME IInv, NEW q \in Queue
               PROVE (tail[q] = NoCall) <=> \A c \in Chained : queueOf[c] = q => c \in Gone
    BY DEF EntryIffPending
  <2>1. CASE tail[q] = NoCall
    <3>1. \A i \in 1..Len(line[q]) : line[q][i] \in Gone
      <4>1. Len(line[q]) > 0 => line[q][Len(line[q])] \in Call
        BY DEF IInv, TypeOK
      <4> QED
        BY <2>1, <4>1, QueueAssumption DEF IInv, TailLast
    <3>2. ASSUME NEW c \in Chained, queueOf[c] = q PROVE c \in Gone
      BY <3>1, <3>2 DEF IInv, Placed, Chained
    <3> QED
      BY <2>1, <3>2
  <2>2. CASE tail[q] # NoCall
    <3>1. Len(line[q]) \in 1..Len(line[q]) /\ tail[q] = line[q][Len(line[q])] /\ tail[q] \in cleanup
      BY <2>2 DEF IInv, TypeOK, TailLast
    <3>2. tail[q] \in Chained /\ queueOf[tail[q]] = q
      BY <3>1 DEF IInv, OnQueue
    <3>3. tail[q] \notin Gone
      BY <3>1 DEF Gone
    <3> QED
      BY <2>2, <3>2, <3>3
  <2> QED
    BY <2>1, <2>2
<1> QED
  BY <1>1, QueueInvariant, PTL
-----------------------------------------------------------------------------
(* The refinement: each step of the promise chain is a step of SerialQueue  *)
(* or leaves it unchanged.                                                  *)

LEMMA PhaseStep ==
  ASSUME TypeOK, NEW c \in Call, NEW s \in State, state' = [state EXCEPT ![c] = s]
  PROVE  Phase' = [Phase EXCEPT ![c] = CASE s = "idle" -> "outside"
                                         [] s = "dropped" -> "refused"
                                         [] s = "queued" -> "waiting"
                                         [] s = "running" -> "active"
                                         [] OTHER -> "done"]
BY DEF TypeOK, Phase

LEMMA InitRefines == Init => Serial!Init
BY DEF Init, Serial!Init, Phase

LEMMA EnqueueRefines ==
  ASSUME IInv, NEW c \in Call, NEW q \in Queue, NEW ctx, NEW jobs, Enqueue(c, q, ctx, jobs)
  PROVE  Serial!Next
<1>1. Phase[c] = "outside" /\ Phase' = [Phase EXCEPT ![c] = "waiting"]
  BY PhaseStep DEF Enqueue, IInv, Phase, State
<1>2. Serial!Submit(c, q)
  BY <1>1 DEF Enqueue, Serial!Submit
<1> QED
  BY <1>2 DEF Serial!Next

LEMMA DropRefines ==
  ASSUME IInv, NEW c \in Call, NEW q \in Queue, NEW ctx, NEW jobs, Drop(c, q, ctx, jobs)
  PROVE  Serial!Next
<1>1. Phase[c] = "outside" /\ Phase' = [Phase EXCEPT ![c] = "refused"]
  BY PhaseStep DEF Drop, IInv, Phase, State
<1>2. Serial!Refuse(c)
  BY <1>1 DEF Drop, Serial!Refuse
<1> QED
  BY <1>2 DEF Serial!Next

LEMMA StartRefines == ASSUME IInv, IInv', NEW c \in Call, Start(c) PROVE Serial!Next
<1>1. c \in Chained /\ state'[c] = "running"
  BY DEF Start, Chained, IInv, TypeOK
<1>2. PICK i \in 1..Len(line[queueOf[c]]) : line[queueOf[c]][i] = c
  BY <1>1 DEF IInv, Placed
<1>3. queueOf[c] \in Queue
  BY <1>1 DEF IInv, Placed
<1>4. \A j \in 1..(i - 1) : j \in 1..Len(line[queueOf[c]]) /\ j < i
  BY <1>3 DEF IInv, TypeOK
<1>5. \A j \in 1..(i - 1) : line[queueOf[c]][j] \in Gone
  <2>1. \A j \in 1..Len(line'[queueOf[c]]) : j < i => line'[queueOf[c]][j] \in Gone'
    BY <1>1, <1>2, <1>3 DEF IInv, InTurn, Start
  <2>2. Gone' = Gone /\ line' = line
    BY DEF Start, IInv, TypeOK, Gone, Settled
  <2> QED
    BY <1>4, <2>1, <2>2
<1>6. \A j \in 1..(i - 1) : Phase[line[queueOf[c]][j]] = "done"
  BY <1>5 DEF Gone, Settled, Phase
<1>7. Phase[c] = "waiting" /\ Phase' = [Phase EXCEPT ![c] = "active"]
  BY PhaseStep DEF Start, IInv, Phase, State
<1>8. Serial!Begin(queueOf[c], i)
  BY <1>2, <1>6, <1>7 DEF Start, Serial!Begin
<1> QED
  BY <1>3, <1>8 DEF Serial!Next

LEMMA FinishRefines == ASSUME IInv, NEW c \in Call, Finish(c) PROVE Serial!Next
<1>1. PICK s \in {"fulfilled", "rejected"} : state' = [state EXCEPT ![c] = s]
  BY DEF Finish
<1>2. Phase[c] = "active" /\ Phase' = [Phase EXCEPT ![c] = "done"]
  BY <1>1, PhaseStep DEF Finish, IInv, Phase, State
<1>3. Serial!End(c)
  BY <1>2 DEF Finish, Serial!End
<1> QED
  BY <1>3 DEF Serial!Next

LEMMA StepRefines == IInv /\ IInv' /\ [Next]_vars => [Serial!Next]_(Serial!vars)
<1> SUFFICES ASSUME IInv, IInv', [Next]_vars PROVE [Serial!Next]_(Serial!vars)
  OBVIOUS
<1>1. ASSUME NEW c \in Call, NEW q \in Queue, AddOutside(c, q) PROVE Serial!Next
  BY <1>1, EnqueueRefines DEF AddOutside
<1>2. ASSUME NEW c \in Call, NEW q \in Queue, NEW p \in Call,
             AddFromJob(c, q, p) \/ AddDetached(c, q, p) PROVE Serial!Next
  BY <1>2, EnqueueRefines, DropRefines DEF AddFromJob, AddDetached
<1>3. ASSUME NEW c \in Call, Start(c) \/ Finish(c) PROVE Serial!Next
  BY <1>3, StartRefines, FinishRefines
<1>4. ASSUME NEW c \in Call, Resume(c) \/ Cleanup(c) PROVE UNCHANGED Serial!vars
  BY <1>4 DEF Resume, Cleanup, Serial!vars, Phase
<1>5. CASE UNCHANGED vars
  BY <1>5 DEF vars, Serial!vars, Phase
<1> QED
  BY <1>1, <1>2, <1>3, <1>4, <1>5 DEF Next

\* The promise chain is a serial executor: calls are served in the order of
\* add, each after all the ones before it (queue-job.js:15-39).
THEOREM ImplementsSerial == Spec => ImplementsSerialQueue
<1> QED
  BY QueueInvariant, InitRefines, StepRefines, PTL DEF Spec, ImplementsSerialQueue, Serial!Spec
-----------------------------------------------------------------------------
(* Re-entry *)

Active == {c \in Call : state[c] \in {"queued", "running"}}

\* Without detached work, whoever led to a call that has not settled is still
\* running, and awaits it or another call on the way to it.
Awaited == \A c \in Active : \A p \in lineage[c] :
             p \in Call /\ state[p] = "running" /\ waits[p] \in lineage[c] \cup {c}

\* Each key in the store of a job is the key of one that led to it, or its own.
Keyed == \A c \in Active : \A k \in chain[c] :
           \E p \in lineage[c] \cup {c} : KeyOf[queueOf[p]] = k

LInv == Awaited /\ Keyed

\* A job that awaits nothing led to no call that has not settled,
LEMMA AwaitsNothing ==
  ASSUME LInv, NEW p \in Call, waits[p] = NoCall
  PROVE  \A c \in Active : p \notin lineage[c]
<1> SUFFICES ASSUME NEW c \in Active, p \in lineage[c] PROVE FALSE
  OBVIOUS
<1>1. NoCall \in lineage[c] \cup {c}
  BY DEF LInv, Awaited
<1>2. \A r \in lineage[c] \cup {c} : r \in Call
  BY DEF LInv, Awaited, Active
<1> QED
  BY <1>1, <1>2, QueueAssumption

\* nor did one that awaits a call that has settled.
LEMMA AwaitsSettled ==
  ASSUME LInv, NEW p \in Call, waits[p] \in Settled
  PROVE  \A c \in Active : p \notin lineage[c]
<1> SUFFICES ASSUME NEW c \in Active, p \in lineage[c] PROVE FALSE
  OBVIOUS
<1>1. \A r \in lineage[c] \cup {c} : state[r] \in {"queued", "running"}
  BY DEF LInv, Awaited, Active
<1>2. waits[p] \in lineage[c] \cup {c}
  BY DEF LInv, Awaited
<1> QED
  BY <1>1, <1>2 DEF Settled

\* A step that adds no call, and changes nothing of the jobs that led to one.
LEMMA NothingAdded ==
  ASSUME LInv, Active' \subseteq Active,
         \A d \in Active' : lineage'[d] = lineage[d] /\ chain'[d] = chain[d],
         \A d \in Active' : \A p \in lineage[d] \cup {d} : queueOf'[p] = queueOf[p],
         \A d \in Active' : \A p \in lineage[d] : state'[p] = state[p] /\ waits'[p] = waits[p]
  PROVE  LInv'
<1>1. Awaited'
  BY DEF LInv, Awaited
<1>2. Keyed'
  BY DEF LInv, Keyed
<1> QED
  BY <1>1, <1>2 DEF LInv

LEMMA EnqueueLInv ==
  ASSUME TypeOK, LInv, NEW c \in Call, NEW q \in Queue, NEW ctx, NEW jobs, Enqueue(c, q, ctx, jobs),
         \A p \in jobs : p \in Call /\ state[p] = "running" /\ waits'[p] \in jobs \cup {c},
         \A k \in ctx : \E p \in jobs : KeyOf[queueOf[p]] = k,
         \A d \in Active : \A p \in lineage[d] : waits'[p] = waits[p]
  PROVE  LInv'
<1> USE DEF Active
<1>1. state[c] = "idle" /\ state' = [state EXCEPT ![c] = "queued"]
      /\ queueOf' = [queueOf EXCEPT ![c] = q] /\ lineage' = [lineage EXCEPT ![c] = jobs]
      /\ chain' = [chain EXCEPT ![c] = ctx \cup {KeyOf[q]}]
  BY DEF Enqueue, ChainFor
<1>2. \A d \in Call : d # c =>
        state'[d] = state[d] /\ queueOf'[d] = queueOf[d] /\ lineage'[d] = lineage[d] /\ chain'[d] = chain[d]
  BY <1>1 DEF TypeOK
<1>3. queueOf'[c] = q /\ lineage'[c] = jobs /\ chain'[c] = ctx \cup {KeyOf[q]}
  BY <1>1 DEF TypeOK
<1>4. ASSUME NEW d \in Active', d # c
      PROVE  /\ d \in Active
             /\ \A p \in lineage[d] : p \in Call /\ p # c /\ state[p] = "running"
                                      /\ waits[p] \in lineage[d] \cup {d}
  BY <1>1, <1>2, <1>4 DEF LInv, Awaited
<1>5. ASSUME NEW d \in Active', NEW p \in lineage'[d]
      PROVE  p \in Call /\ state'[p] = "running" /\ waits'[p] \in lineage'[d] \cup {d}
  <2>1. CASE d = c
    BY <1>1, <1>2, <1>3, <1>5, <2>1
  <2>2. CASE d # c
    BY <1>2, <1>4, <1>5, <2>2
  <2> QED
    BY <2>1, <2>2
<1>6. ASSUME NEW d \in Active', NEW k \in chain'[d]
      PROVE  \E p \in lineage'[d] \cup {d} : KeyOf[queueOf'[p]] = k
  <2>1. CASE d = c
    <3>1. CASE k = KeyOf[q]
      BY <1>3, <2>1, <3>1
    <3>2. CASE k \in ctx
      <4>1. PICK p \in jobs : KeyOf[queueOf[p]] = k
        BY <3>2
      <4>2. queueOf'[p] = queueOf[p]
        BY <1>1, <1>2, <4>1
      <4> QED
        BY <1>3, <2>1, <4>1, <4>2
    <3> QED
      BY <1>3, <1>6, <2>1, <3>1, <3>2
  <2>2. CASE d # c
    <3>1. d \in Active /\ k \in chain[d] /\ lineage'[d] = lineage[d]
      BY <1>2, <1>4, <1>6, <2>2
    <3>2. PICK p \in lineage[d] \cup {d} : KeyOf[queueOf[p]] = k
      BY <3>1 DEF LInv, Keyed
    <3>3. p \in Call /\ p # c
      BY <1>4, <2>2, <3>1
    <3> QED
      BY <1>2, <3>1, <3>2, <3>3
  <2> QED
    BY <2>1, <2>2
<1> QED
  BY <1>5, <1>6 DEF LInv, Awaited, Keyed

LEMMA AddFromJobLInv ==
  ASSUME TypeOK, LInv, NEW c \in Call, NEW q \in Queue, NEW p \in Call, AddFromJob(c, q, p)
  PROVE  LInv'
<1>1. state[p] = "running" /\ waits[p] = NoCall /\ p \in Active
  BY DEF AddFromJob, Active
<1>2. \A d \in Active : p \notin lineage[d]
  BY <1>1, AwaitsNothing
<1>3. CASE Drop(c, q, chain[p], lineage[p] \cup {p}) /\ UNCHANGED waits
  <2> USE DEF Active
  <2>1. /\ state[c] = "idle" /\ state' = [state EXCEPT ![c] = "dropped"] /\ UNCHANGED <<chain, waits>>
        /\ queueOf' = [queueOf EXCEPT ![c] = q] /\ lineage' = [lineage EXCEPT ![c] = lineage[p] \cup {p}]
    BY <1>3 DEF Drop
  <2>2. \A d \in Call : d # c =>
          state'[d] = state[d] /\ queueOf'[d] = queueOf[d] /\ lineage'[d] = lineage[d]
    BY <2>1 DEF TypeOK
  <2>3. \A d \in Active' : d # c /\ d \in Active
    BY <2>1, <2>2 DEF TypeOK
  <2>4. \A d \in Active : \A r \in lineage[d] : r \in Call /\ r # c
    BY <2>1 DEF LInv, Awaited
  <2> QED
    BY <2>1, <2>2, <2>3, <2>4, NothingAdded
<1>4. CASE Enqueue(c, q, chain[p], lineage[p] \cup {p}) /\ waits' = [waits EXCEPT ![p] = c]
  <2>1. waits'[p] = c /\ \A r \in Call : r # p => waits'[r] = waits[r]
    BY <1>4 DEF TypeOK
  <2>2. \A r \in lineage[p] : r \in Call /\ r # p /\ state[r] = "running" /\ waits[r] \in lineage[p] \cup {p}
    BY <1>1, <1>2 DEF LInv, Awaited
  <2>3. \A k \in chain[p] : \E r \in lineage[p] \cup {p} : KeyOf[queueOf[r]] = k
    BY <1>1 DEF LInv, Keyed
  <2>4. \A d \in Active : \A r \in lineage[d] : waits'[r] = waits[r]
    BY <1>2, <2>1 DEF LInv, Awaited
  <2>5. PICK jobs : jobs = lineage[p] \cup {p}
    OBVIOUS
  <2>6. \A r \in jobs : r \in Call /\ state[r] = "running" /\ waits'[r] \in jobs \cup {c}
    BY <1>1, <2>1, <2>2, <2>5
  <2> QED
    BY <1>4, <2>3, <2>4, <2>5, <2>6, EnqueueLInv
<1> QED
  BY <1>3, <1>4 DEF AddFromJob

LEMMA NextLInv ==
  ASSUME ~DetachedCalls, TypeOK, LInv, [Next]_vars
  PROVE  LInv'
<1>1. ASSUME NEW c \in Call, NEW q \in Queue, AddOutside(c, q) PROVE LInv'
  <2>1. Enqueue(c, q, {}, {}) /\ waits' = waits
    BY <1>1 DEF AddOutside
  <2> QED
    BY <2>1, EnqueueLInv
<1>2. ASSUME NEW c \in Call, Start(c) PROVE LInv'
  <2>1. Active' \subseteq Active /\ UNCHANGED <<queueOf, chain, lineage, waits>>
    BY <1>2 DEF Start, Active, TypeOK
  <2>2. \A d \in Active : \A p \in lineage[d] : state'[p] = state[p]
    BY <1>2 DEF Start, LInv, Awaited, TypeOK
  <2> QED
    BY <2>1, <2>2, NothingAdded
<1>3. ASSUME NEW c \in Call, Resume(c) PROVE LInv'
  <2>1. \A d \in Active : c \notin lineage[d]
    BY <1>3, AwaitsSettled DEF Resume
  <2>2. UNCHANGED <<state, queueOf, chain, lineage>> /\ waits' = [waits EXCEPT ![c] = NoCall]
    BY <1>3 DEF Resume
  <2>3. \A d \in Active : \A p \in lineage[d] : waits'[p] = waits[p]
    BY <2>1, <2>2 DEF TypeOK, LInv, Awaited
  <2>4. Active' = Active
    BY <2>2 DEF Active
  <2> QED
    BY <2>2, <2>3, <2>4, NothingAdded
<1>4. ASSUME NEW c \in Call, Finish(c) PROVE LInv'
  <2>1. \A d \in Active : c \notin lineage[d]
    BY <1>4, AwaitsNothing DEF Finish
  <2>2. PICK s \in {"fulfilled", "rejected"} : state' = [state EXCEPT ![c] = s]
    BY <1>4 DEF Finish
  <2>3. Active' \subseteq Active
    BY <2>2 DEF Active, TypeOK
  <2>4. \A d \in Active : \A p \in lineage[d] : state'[p] = state[p]
    BY <2>1, <2>2 DEF TypeOK, LInv, Awaited
  <2>5. UNCHANGED <<queueOf, chain, lineage, waits>>
    BY <1>4 DEF Finish
  <2> QED
    BY <2>3, <2>4, <2>5, NothingAdded
<1>5. ASSUME UNCHANGED <<state, queueOf, chain, waits, lineage>> PROVE LInv'
  BY <1>5 DEF LInv, Awaited, Keyed, Active
<1>6. ASSUME NEW c \in Call, Cleanup(c) PROVE LInv'
  BY <1>5, <1>6 DEF Cleanup
<1>7. CASE UNCHANGED vars
  BY <1>5, <1>7 DEF vars
<1> QED
  BY <1>1, <1>2, <1>3, <1>4, <1>6, <1>7, AddFromJobLInv DEF Next, AddDetached

\* Where jobs leave no work running behind them and no two queues share a key,
\* a call is dropped only inside a job of its own queue that is still in
\* progress and would wait for it: no other message is lost
\* (queue-job.js:3-8, 16-24).
THEOREM OnlyReentryIsDropped ==
  ASSUME ~DetachedCalls, \A q, r \in Queue : KeyOf[q] = KeyOf[r] => q = r
  PROVE  Spec => OnlyReentryDropped
<1>1. Init => LInv
  BY DEF Init, LInv, Awaited, Keyed, Active
<1>2. TypeOK /\ LInv /\ [Next]_vars => LInv'
  BY NextLInv
<1>3. IInv /\ LInv /\ [Next]_vars =>
        [\A c \in Call : state[c] = "idle" /\ state'[c] = "dropped"
           => \E p \in lineage'[c] : state[p] = "running" /\ queueOf[p] = queueOf'[c]]_vars
  <2> SUFFICES ASSUME IInv, LInv, Next, NEW c \in Call, state[c] = "idle", state'[c] = "dropped"
               PROVE  \E p \in lineage'[c] : state[p] = "running" /\ queueOf[p] = queueOf'[c]
    OBVIOUS
  <2> USE DEF IInv
  <2>1. PICK d \in Call, q \in Queue, p \in Call : AddFromJob(d, q, p) /\ state' = [state EXCEPT ![d] = "dropped"]
    <3>1. ASSUME NEW d \in Call, NEW q \in Queue, AddOutside(d, q) PROVE FALSE
      BY <3>1 DEF AddOutside, Enqueue, TypeOK
    <3>2. ASSUME NEW d \in Call, Start(d) \/ Resume(d) \/ Finish(d) \/ Cleanup(d) PROVE FALSE
      BY <3>2 DEF Start, Resume, Finish, Cleanup, TypeOK
    <3>3. PICK d \in Call, q \in Queue, p \in Call : AddFromJob(d, q, p)
      BY <3>1, <3>2 DEF Next, AddDetached
    <3>4. ~Enqueue(d, q, chain[p], lineage[p] \cup {p})
      BY DEF Enqueue, TypeOK
    <3> QED
      BY <3>3, <3>4 DEF AddFromJob, Drop
  <2>2. d = c
    BY <2>1 DEF TypeOK
  <2>3. Drop(c, q, chain[p], lineage[p] \cup {p})
    BY <2>1, <2>2 DEF AddFromJob, Enqueue, TypeOK
  <2>4. p \in Active /\ state[p] = "running"
    BY <2>1 DEF AddFromJob, Active
  <2>5. KeyOf[q] \in chain[p] /\ queueOf'[c] = q /\ lineage'[c] = lineage[p] \cup {p}
    BY <2>3 DEF Drop, Reentrant, TypeOK
  <2>6. PICK r \in lineage[p] \cup {p} : KeyOf[queueOf[r]] = KeyOf[q]
    BY <2>4, <2>5 DEF LInv, Keyed
  <2>7. r \in Call /\ state[r] = "running"
    BY <2>4 DEF LInv, Awaited
  <2>8. queueOf[r] \in Queue
    BY <2>7 DEF Placed, Chained
  <2>9. queueOf[r] = q
    BY <2>6, <2>8
  <2> QED
    BY <2>5, <2>6, <2>7, <2>9
<1>4. IInv => TypeOK
  BY DEF IInv
<1> QED
  BY <1>1, <1>2, <1>3, <1>4, QueueInvariant, PTL DEF Spec, OnlyReentryDropped
=============================================================================
