------------------------- MODULE DoubleRatchetProofs -------------------------
(***************************************************************************)
(* Theorems about DoubleRatchet, for every cap, every MAX_SKIP, every       *)
(* counter bound and any number of frames and key pairs.                    *)
(***************************************************************************)
EXTENDS DoubleRatchet, RatchetLemmas

\* The length of a root key tells whose it is: an endpoint leaves a step with
\* two more agreements than it came with, and the recipient starts one behind.
Parity(p) == IF p = Initiator THEN 0 ELSE 1

EntriesInOrder ==
  /\ entry = [p \in Peer |-> entry[p]]
  /\ \A p \in Peer :
       /\ IsRatchet(entry[p])
       /\ entry[p].own.key \in Int /\ entry[p].own.key < fresh
       /\ Len(entry[p].root) % 2 = Parity(p)
  /\ entry[Initiator].own.key # entry[Recipient].own.key

\* A frame was encrypted under a root that its sender has or had, at a counter
\* that its sender is past; and it names no key of its receiver.
FrameInOrder(m) ==
  /\ m.from \in Peer
  /\ IsId(m.frame.id) /\ m.frame.counter \in Nat /\ IsMessageKey(m.frame.key)
  /\ m.frame.id.key \in Int /\ m.frame.id.key < fresh
  /\ m.frame.id.key # entry[Other(m.from)].own.key
  /\ Len(m.frame.key.seed) % 2 = Parity(m.from)
  /\ Len(m.frame.key.seed) <= Len(entry[m.from].root)
  /\ \A i \in DOMAIN entry[m.from].chains :
       /\ IsSending(entry[m.from].chains[i])
       /\ m.frame.key.seed = entry[m.from].root
       => m.frame.key.step <= entry[m.from].chains[i].counter

IInv ==
  /\ EntriesInOrder
  /\ \A m \in net : FrameInOrder(m)
  /\ opened = [p \in Peer |-> opened[p]]
  /\ \A p \in Peer : \A m \in opened[p] : m \in FramesOf(Other(p)) /\ UsedUp(entry[p], m.frame.key)
  /\ NoKeyReuse
  /\ fresh \in 3..(3 + MaxKeys)
-----------------------------------------------------------------------------
LEMMA Peers ==
  /\ Initiator \in Peer /\ Recipient \in Peer /\ Other(Initiator) = Recipient /\ Other(Recipient) = Initiator
  /\ \A p \in Peer : Other(p) \in Peer /\ Other(p) # p /\ Other(Other(p)) = p /\ Parity(p) \in {0, 1}
  /\ \A p \in Peer : \A q \in Peer : q # p => q = Other(p)
  /\ \A p \in Peer : Parity(p) # Parity(Other(p))
BY PeersAssumption DEF Peer, Other, Parity

\* What is sent takes the next key of its sender's root.
LEMMA SentInOrder ==
  ASSUME IInv, NEW p \in Peer, Send(p)
  PROVE  IInv'
<1> DEFINE e == entry[p]
           n == NextCounter(e)
           i == SendingId(e)
           o == Encrypted(e)
           msg == Message(p)
<1>0. /\ net' = net \cup {msg} /\ entry' = [entry EXCEPT ![p] = o]
      /\ opened' = opened /\ fresh' = fresh /\ CanEncrypt(e)
  BY DEF Send
<1>1. /\ IsRatchet(e) /\ e.own.key < fresh /\ Len(e.root) % 2 = Parity(p)
      /\ fresh \in Int
  <2>1. /\ EntriesInOrder /\ fresh \in 3..(3 + MaxKeys)
    BY DEF IInv
  <2>2. fresh \in Int
    BY <2>1, PeersAssumption
  <2> QED
    BY <2>1, <2>2 DEF EntriesInOrder
<1>2. SendingChains(e) # {} /\ n <= MaxCounter
  <2>1. Cardinality(SendingChains(e)) = 1 /\ n <= MaxCounter
    BY <1>0 DEF CanEncrypt
  <2> QED
    BY <2>1, FS_EmptySet
<1>3. /\ Frame(e).key = [seed |-> e.root, step |-> n]
      /\ IsRatchet(o)
      /\ o.root = e.root /\ o.own = e.own /\ o.lastRemote = e.lastRemote
      /\ o.chains = [e.chains EXCEPT ![i] = TakeMessageKey(e.chains[i], n)]
      /\ i \in DOMAIN e.chains /\ IsSending(o.chains[i])
      /\ o.chains[i].counter = n
      /\ n = e.chains[i].counter + 1
  <2> HIDE DEF e, i, o
  <2>1. i = SendingId(e) /\ o = Encrypted(e)
    BY DEF i, o
  <2>2. EncryptsOn(e, i, o)
    BY <1>1, <1>2, <2>1, EncryptedRatchet
  <2> QED
    BY <2>2 DEF EncryptsOn
<1>4. n \in Nat /\ SendsOn(e, i, e.chains[i]) /\ InStep(e.chains[i])
  <2> HIDE DEF e
  <2> QED
    BY <1>1, <1>2, SendingChain
<1>5. msg.from = p /\ msg.frame = Frame(e) /\ Frame(e).id = Id(e.own.key, "wire") /\ Frame(e).counter = n
  BY DEF Message, Frame, Wire
<1> HIDE DEF e, n, i, o, msg
<1>6. /\ DOMAIN o.chains = DOMAIN e.chains
      /\ \A j \in DOMAIN o.chains : j # i => o.chains[j] = e.chains[j]
  BY <1>3
<1>7. /\ entry'[p] = o /\ entry'[Other(p)] = entry[Other(p)]
      /\ \A q \in Peer : q # p => entry'[q] = entry[q]
      /\ entry' = [q \in Peer |-> entry'[q]]
      /\ \A q \in Peer : entry'[q].own = entry[q].own /\ entry'[q].root = entry[q].root
  <2>1. entry = [q \in Peer |-> entry[q]] /\ Other(p) \in Peer /\ Other(p) # p
    BY Peers DEF IInv, EntriesInOrder
  <2> QED
    BY <1>0, <1>3, <2>1 DEF e
\* The only sending chain of the entry is the one that moved.
<1>8. ASSUME NEW j \in DOMAIN o.chains, IsSending(o.chains[j]) PROVE j = i
  BY <1>3, <1>6, <1>8, OneSending
<1>9. EntriesInOrder'
  <2>1. \A q \in Peer : IsRatchet(entry'[q]) /\ entry'[q].own.key \in Int /\ entry'[q].own.key < fresh' /\ Len(entry'[q].root) % 2 = Parity(q)
    BY <1>0, <1>3, <1>7 DEF IInv, EntriesInOrder
  <2>2. entry'[Initiator].own.key # entry'[Recipient].own.key
    BY <1>7, Peers DEF IInv, EntriesInOrder
  <2> QED
    BY <1>7, <2>1, <2>2 DEF EntriesInOrder
<1>10. ASSUME NEW m \in net PROVE FrameInOrder(m)'
  <2>1. FrameInOrder(m) /\ m.from \in Peer /\ Other(m.from) \in Peer /\ IsMessageKey(m.frame.key)
    BY Peers DEF IInv, FrameInOrder
  <2>2. ASSUME NEW j \in DOMAIN entry'[m.from].chains, IsSending(entry'[m.from].chains[j]),
               m.frame.key.seed = entry'[m.from].root
        PROVE  m.frame.key.step <= entry'[m.from].chains[j].counter
    <3>1. CASE m.from # p
      BY <1>7, <2>1, <2>2, <3>1 DEF FrameInOrder
    <3>2. CASE m.from = p
      <4>1. j = i
        BY <1>7, <1>8, <2>2, <3>2
      <4>2. m.frame.key.step <= e.chains[i].counter
        BY <1>3, <1>4, <1>7, <2>1, <2>2, <3>2 DEF FrameInOrder, SendsOn, e
      <4>3. e.chains[i].counter \in Int /\ m.frame.key.step \in Int
        BY <1>4, <2>1 DEF InStep, ChainOK, IsKey, IsMessageKey
      <4>4. m.frame.key.step <= n
        BY <1>3, <4>2, <4>3
      <4> QED
        BY <1>3, <1>7, <3>2, <4>1, <4>4
    <3> QED
      BY <3>1, <3>2
  <2>3. /\ m.frame.id.key < fresh' /\ m.frame.id.key # entry'[Other(m.from)].own.key
        /\ Len(m.frame.key.seed) <= Len(entry'[m.from].root)
    BY <1>0, <1>7, <2>1 DEF FrameInOrder
  <2> QED
    BY <2>1, <2>2, <2>3 DEF FrameInOrder
<1>11. ASSUME NEW m, m = msg PROVE FrameInOrder(m)'
  <2>1. IsId(Frame(e).id) /\ Frame(e).id.key = e.own.key
    BY <1>1, <1>5 DEF IsId, Id, IsRatchet
  <2>2. IsMessageKey(Frame(e).key) /\ Frame(e).key.seed = e.root /\ Frame(e).key.step = n
    BY <1>1, <1>3, <1>4 DEF IsKey, IsMessageKey, IsRatchet
  <2>3. entry'[Other(p)].own.key # e.own.key
    BY <1>7, Peers DEF IInv, EntriesInOrder, e
  <2>4. Len(e.root) <= Len(e.root)
    BY <1>1, SteppedRoots
  <2>5. \A j \in DOMAIN o.chains : IsSending(o.chains[j]) => n <= o.chains[j].counter
    BY <1>3, <1>4, <1>8
  <2>6. e.own.key \in Int /\ e.own.key < fresh'
    BY <1>0, <1>1 DEF IInv, EntriesInOrder, e
  <2>7. /\ IsId(m.frame.id) /\ m.frame.counter \in Nat /\ IsMessageKey(m.frame.key)
        /\ m.frame.id.key \in Int /\ m.frame.id.key < fresh' /\ m.frame.id.key # entry'[Other(m.from)].own.key
    BY <1>4, <1>5, <1>11, <2>1, <2>2, <2>3, <2>6
  <2>8. /\ Len(m.frame.key.seed) % 2 = Parity(m.from)
        /\ Len(m.frame.key.seed) <= Len(entry'[m.from].root)
    BY <1>1, <1>3, <1>5, <1>11, <1>7, <2>2, <2>4
  <2>9. \A j \in DOMAIN entry'[m.from].chains :
          IsSending(entry'[m.from].chains[j]) => m.frame.key.step <= entry'[m.from].chains[j].counter
    BY <1>5, <1>7, <1>11, <2>2, <2>5
  <2> QED
    BY <1>5, <1>11, <2>7, <2>8, <2>9 DEF FrameInOrder
\* Its key is new: the other frames under its root are behind it.
<1>12. ASSUME NEW m \in net PROVE m.frame.key # msg.frame.key
  <2>1. FrameInOrder(m) /\ IsMessageKey(m.frame.key)
    BY DEF IInv, FrameInOrder
  <2> SUFFICES ASSUME m.frame.key.seed = e.root, m.frame.key.step = n PROVE FALSE
    BY <1>3, <1>5
  <2>2. m.from = p
    BY <1>1, <2>1, Peers DEF FrameInOrder
  <2>3. m.frame.key.step <= e.chains[i].counter
    BY <1>3, <1>4, <2>1, <2>2 DEF FrameInOrder, SendsOn, e
  <2>4. e.chains[i].counter \in Int
    BY <1>4 DEF InStep, ChainOK
  <2> QED
    BY <1>3, <2>3, <2>4
<1>13. NoKeyReuse'
  BY <1>0, <1>12 DEF IInv, NoKeyReuse
<1>14. ASSUME NEW q \in Peer, NEW m \in opened[q]
       PROVE  (m \in FramesOf(Other(q)) /\ UsedUp(entry[q], m.frame.key))'
  <2>1. m \in net /\ m.from = Other(q) /\ UsedUp(entry[q], m.frame.key)
    BY DEF IInv, FramesOf
  <2>2. CASE q # p
    BY <1>0, <1>7, <2>1, <2>2 DEF FramesOf, UsedUp
  <2>3. CASE q = p
    <3>1. UsedUp(o, m.frame.key)
      BY <1>1, <1>2, <2>1, <2>3, UsedAfterSending DEF e, n, o
    <3> QED
      BY <1>0, <1>7, <2>1, <2>3, <3>1 DEF FramesOf, UsedUp
  <2> QED
    BY <2>2, <2>3
<1>15. \A m \in net' : FrameInOrder(m)'
  BY <1>0, <1>10, <1>11
<1>16. \A q \in Peer : \A m \in opened'[q] : (m \in FramesOf(Other(q)) /\ UsedUp(entry[q], m.frame.key))'
  BY <1>0, <1>14
<1>17. opened' = [q \in Peer |-> opened'[q]] /\ fresh' \in 3..(3 + MaxKeys)
  BY <1>0 DEF IInv
<1> QED
  BY <1>9, <1>13, <1>15, <1>16, <1>17 DEF IInv

\* An endpoint that steps draws a key pair that no frame names, and derives two
\* roots that are longer than any it has had.
LEMMA ReceivedInOrder ==
  ASSUME IInv, NEW p \in Peer, NEW m \in net, Receive(p, m)
  PROVE  IInv'
<1> DEFINE e == entry[p]
           id == m.frame.id
           n == m.frame.counter
           ch == ReceivingChain(e, id)
           o == Decrypted(e, m.frame, fresh)
<1>0. /\ net' = net /\ entry' = [entry EXCEPT ![p] = o] /\ opened' = [opened EXCEPT ![p] = @ \cup {m}]
      /\ m.from = Other(p)
      /\ StepNeeded(e, id) => fresh < 3 + MaxKeys /\ fresh' = fresh + 1
      /\ ~StepNeeded(e, id) => fresh' = fresh
      /\ IsReceiving(ch) /\ HasKey(ch, n) /\ PeekMessageKey(ch, n) = m.frame.key
  BY DEF Receive, Opens
<1>1. /\ IsRatchet(e) /\ e.own.key < fresh /\ Len(e.root) % 2 = Parity(p) /\ Len(e.root) \in Nat
      /\ fresh \in 3..(3 + MaxKeys) /\ fresh \in Int
  <2>1. EntriesInOrder /\ fresh \in 3..(3 + MaxKeys)
    BY DEF IInv
  <2>2. fresh \in Int
    BY <2>1, PeersAssumption
  <2> QED
    BY <2>1, <2>2, SteppedRoots DEF EntriesInOrder
<1>2. /\ FrameInOrder(m) /\ IsId(id) /\ id.key \in Int /\ n \in Nat /\ id.key < fresh /\ id.key # e.own.key
  <2>1. FrameInOrder(m)
    BY DEF IInv
  <2> QED
    BY <1>0, <2>1, Peers DEF FrameInOrder
<1>3. /\ IsRatchet(o)
      /\ StepNeeded(e, id) => Len(o.root) = Len(e.root) + 2 /\ o.own = Id(fresh, "wire")
      /\ ~StepNeeded(e, id) => /\ o.root = e.root /\ o.own = e.own
                               /\ \A i \in DOMAIN o.chains :
                                    IsSending(o.chains[i]) => i \in DOMAIN e.chains /\ o.chains[i] = e.chains[i]
  <2>1. fresh # id.key
    BY <1>1, <1>2
  <2> HIDE DEF e
  <2> QED
    BY <1>0, <1>1, <1>2, <2>1, DecryptedRatchet
<1>4. /\ UsedUp(o, m.frame.key)
      /\ \A key : IsMessageKey(key) /\ UsedUp(e, key) => UsedUp(o, key)
  <2>1. fresh # id.key /\ Opens(e, m.frame)
    BY <1>1, <1>2 DEF Receive
  <2> HIDE DEF e
  <2> QED
    BY <1>1, <1>2, <2>1, UsedAfterOpening
<1>5. Len(e.root) \in Nat /\ Len(o.root) \in Nat /\ Len(o.root) >= Len(e.root)
  <2>1. Len(e.root) \in Nat /\ Len(o.root) \in Nat
    BY <1>1, <1>3, SteppedRoots
  <2> QED
    BY <1>3, <2>1
<1> HIDE DEF e, id, n, ch, o
<1>6. /\ entry'[p] = o
      /\ \A q \in Peer : q # p => entry'[q] = entry[q]
      /\ entry' = [q \in Peer |-> entry'[q]]
  <2>1. entry = [q \in Peer |-> entry[q]]
    BY DEF IInv, EntriesInOrder
  <2> QED
    BY <1>0, <2>1
<1>7. fresh' \in 3..(3 + MaxKeys) /\ fresh' \in Int /\ fresh' >= fresh
  BY <1>0, <1>1, PeersAssumption
<1>8. \A q \in Peer : entry[q].own.key \in Int
  BY DEF IInv, EntriesInOrder
<1>9. o.own.key \in Int /\ o.own.key < fresh' /\ (o.own.key = e.own.key \/ o.own.key = fresh)
  BY <1>0, <1>1, <1>3, <1>8 DEF Id, e
<1>10. EntriesInOrder'
  <2>1. ASSUME NEW q \in Peer
        PROVE  IsRatchet(entry'[q]) /\ entry'[q].own.key \in Int /\ entry'[q].own.key < fresh' /\ Len(entry'[q].root) % 2 = Parity(q)
    <3>1. /\ IsRatchet(entry[q]) /\ entry[q].own.key \in Int /\ entry[q].own.key < fresh
          /\ Len(entry[q].root) % 2 = Parity(q)
      BY DEF IInv, EntriesInOrder
    <3>2. CASE q # p
      <4>1. entry[q].own.key < fresh'
        BY <1>1, <1>7, <1>8, <3>1
      <4> QED
        BY <1>6, <3>1, <3>2, <4>1
    <3>3. CASE q = p
      <4>1. Len(o.root) % 2 = Parity(p)
        <5>1. Len(o.root) = Len(e.root) + 2 \/ Len(o.root) = Len(e.root)
          BY <1>3
        <5>2. (Len(e.root) + 2) % 2 = Len(e.root) % 2
          <6>1. \A a \in Nat : (a + 2) % 2 = a % 2
            OBVIOUS
          <6> QED
            BY <1>5, <6>1
        <5> QED
          BY <1>1, <5>1, <5>2
      <4> QED
        BY <1>3, <1>6, <1>9, <3>3, <4>1
    <3> QED
      BY <3>2, <3>3
  <2>2. entry'[p].own.key # entry'[Other(p)].own.key
    <3>1. /\ Other(p) \in Peer /\ Other(p) # p /\ entry[Other(p)].own.key # e.own.key
          /\ entry[Other(p)].own.key < fresh
      BY Peers DEF IInv, EntriesInOrder, e
    <3>2. entry[Other(p)].own.key # fresh
      BY <1>1, <1>8, <3>1
    <3> QED
      BY <1>6, <1>9, <3>1, <3>2
  <2>3. entry'[Initiator].own.key # entry'[Recipient].own.key
    BY <2>2, Peers
  <2> QED
    BY <1>6, <2>1, <2>3 DEF EntriesInOrder
<1>11. ASSUME NEW x \in net PROVE FrameInOrder(x)'
  <2>1. /\ FrameInOrder(x) /\ x.from \in Peer /\ Other(x.from) \in Peer /\ IsId(x.frame.id)
        /\ x.frame.id.key \in Int /\ x.frame.id.key < fresh /\ Len(x.frame.key.seed) \in Nat
    <3>1. FrameInOrder(x) /\ x.from \in Peer
      BY DEF IInv, FrameInOrder
    <3>2. IsId(x.frame.id) /\ x.frame.id.key \in Int /\ x.frame.id.key < fresh /\ IsRoot(x.frame.key.seed)
      BY <3>1 DEF FrameInOrder, IsMessageKey
    <3> QED
      BY <3>1, <3>2, Peers DEF IsRoot
  <2>2. x.frame.id.key < fresh'
    BY <1>1, <1>7, <2>1
  <2>3. x.frame.id.key # entry'[Other(x.from)].own.key
    <3>1. CASE Other(x.from) # p
      BY <1>6, <2>1, <3>1 DEF FrameInOrder
    <3>2. CASE Other(x.from) = p
      <4>1. x.frame.id.key # e.own.key /\ x.frame.id.key # fresh
        BY <1>1, <2>1, <3>2 DEF FrameInOrder, e
      <4> QED
        BY <1>6, <1>9, <3>2, <4>1
    <3> QED
      BY <3>1, <3>2
  <2>4. CASE x.from # p
    BY <1>6, <2>1, <2>2, <2>3, <2>4 DEF FrameInOrder
  <2>5. CASE x.from = p
    <3>1. Len(x.frame.key.seed) <= Len(e.root)
      BY <2>1, <2>5 DEF FrameInOrder, e
    <3>2. Len(x.frame.key.seed) <= Len(o.root)
      BY <1>5, <2>1, <3>1
    <3>3. ASSUME NEW i \in DOMAIN o.chains, IsSending(o.chains[i]), x.frame.key.seed = o.root
          PROVE  x.frame.key.step <= o.chains[i].counter
      <4>1. ~StepNeeded(e, id)
        BY <1>3, <1>5, <3>1, <3>3
      <4> QED
        BY <1>3, <2>1, <2>5, <3>3, <4>1 DEF FrameInOrder, e
    <3> QED
      BY <1>6, <2>1, <2>2, <2>3, <2>5, <3>2, <3>3 DEF FrameInOrder
  <2> QED
    BY <2>4, <2>5
<1>12. ASSUME NEW x \in opened[p] \cup {m} PROVE UsedUp(o, x.frame.key)
  <2>1. CASE x = m
    BY <1>4, <2>1
  <2>2. CASE x \in opened[p]
    <3>1. x \in net /\ UsedUp(e, x.frame.key)
      BY <2>2 DEF IInv, FramesOf, e
    <3>2. IsMessageKey(x.frame.key)
      BY <3>1 DEF IInv, FrameInOrder
    <3> QED
      BY <1>4, <3>1, <3>2
  <2> QED
    BY <2>1, <2>2
<1>13. opened' = [q \in Peer |-> opened'[q]] /\ opened'[p] = opened[p] \cup {m}
       /\ \A q \in Peer : q # p => opened'[q] = opened[q]
  <2>1. opened = [q \in Peer |-> opened[q]]
    BY DEF IInv
  <2> QED
    BY <1>0, <2>1
<1>14. ASSUME NEW q \in Peer, NEW x \in opened'[q]
       PROVE  (x \in FramesOf(Other(q)) /\ UsedUp(entry[q], x.frame.key))'
  <2>1. CASE q # p
    <3>1. x \in opened[q]
      BY <1>13, <2>1
    <3>2. x \in FramesOf(Other(q)) /\ UsedUp(entry[q], x.frame.key)
      BY <3>1 DEF IInv
    <3> QED
      BY <1>0, <1>6, <2>1, <3>2 DEF FramesOf, UsedUp
  <2>2. CASE q = p
    <3>1. x \in opened[p] \cup {m}
      BY <1>13, <2>2
    <3>2. x \in net /\ x.from = Other(p)
      BY <1>0, <3>1 DEF IInv, FramesOf
    <3>3. UsedUp(o, x.frame.key)
      BY <1>12, <3>1
    <3> QED
      BY <1>0, <1>6, <2>2, <3>2, <3>3 DEF FramesOf, UsedUp
  <2> QED
    BY <2>1, <2>2
<1>15. NoKeyReuse'
  BY <1>0 DEF IInv, NoKeyReuse
<1>16. \A x \in net' : FrameInOrder(x)'
  BY <1>0, <1>11
<1>17. \A q \in Peer : \A x \in opened'[q] : (x \in FramesOf(Other(q)) /\ UsedUp(entry[q], x.frame.key))'
  BY <1>14
<1> QED
  BY <1>7, <1>10, <1>13, <1>15, <1>16, <1>17 DEF IInv
-----------------------------------------------------------------------------
(* The sessions that the endpoints start from, or resume *)

LEMMA KeysInUse ==
  /\ IsId(BaseKey) /\ IsId(SignedPreKey)
  /\ BaseKey = Id(1, "bare") /\ SignedPreKey = Id(2, "bare")
  /\ Bare(BaseKey) = BaseKey /\ Bare(SignedPreKey) = SignedPreKey
  /\ BaseKey.key = 1 /\ SignedPreKey.key = 2 /\ Wire(BaseKey) = Id(1, "wire")
BY DEF IsId, Id, BaseKey, SignedPreKey, Bare, Wire

LEMMA InitiatorStarts ==
  ASSUME NEW e, e = AtStart[Initiator]
  PROVE  /\ IsRatchet(e) /\ Len(e.root) = 2
         /\ e.own = BaseKey /\ e.lastRemote = SignedPreKey
         /\ DOMAIN e.chains = {BaseKey} /\ e.chains[BaseKey] = NewChain("sending", e.root)
<1>1. e = InitialSession(IdentityOf(Initiator), BaseKey, IdentityOf(Recipient), SignedPreKey, NoKey)
  BY Peers DEF AtStart
<1>2. BaseKey.key # SignedPreKey.key /\ Bare(BaseKey) = BaseKey /\ Bare(SignedPreKey) = SignedPreKey
  BY KeysInUse
<1> DEFINE base == BaseKey
           spk == SignedPreKey
<1>3. base.key # spk.key
  BY <1>2
<1> HIDE DEF base, spk
<1>4. PICK secret : Initiates(e, base, spk, secret)
  BY <1>1, <1>3, InitialInOrder DEF base, spk
<1> QED
  BY <1>2, <1>4 DEF Initiates, base, spk

LEMMA RecipientStarts ==
  ASSUME NEW e, e = AtStart[Recipient]
  PROVE  /\ IsRatchet(e) /\ Len(e.root) = 1
         /\ e.own = SignedPreKey /\ e.lastRemote = BaseKey /\ DOMAIN e.chains = {}
<1>1. e = RecipientSession(IdentityOf(Recipient), SignedPreKey, NoKey, IdentityOf(Initiator), BaseKey)
  BY Peers DEF AtStart
<1>2. BaseKey.key # SignedPreKey.key /\ Bare(BaseKey) = BaseKey /\ Bare(SignedPreKey) = SignedPreKey
  BY KeysInUse
<1>3. PICK secret : Responds(e, BaseKey, SignedPreKey, secret)
  BY <1>1, <1>2, RecipientInOrder
<1> QED
  BY <1>2, <1>3 DEF Responds

\* The first frame of all, and the initiator's entry once it is sent.
LEMMA FirstFrame ==
  ASSUME NEW e, e = AtStart[Initiator], NEW o, o = Encrypted(e)
  PROVE  /\ First.from = Initiator /\ First.frame.id = Id(1, "wire") /\ First.frame.counter = 0
         /\ First.frame.key = [seed |-> e.root, step |-> 0]
         /\ IsRatchet(o) /\ o.root = e.root /\ o.own = BaseKey
         /\ \A i \in DOMAIN o.chains : IsSending(o.chains[i]) => o.chains[i].counter = 0
         /\ SameKeys(e, o) /\ \A i \in DOMAIN o.chains : ~IsReceiving(o.chains[i])
<1> DEFINE i == SendingId(e)
<1>1. /\ IsRatchet(e) /\ e.own = BaseKey
      /\ DOMAIN e.chains = {BaseKey} /\ e.chains[BaseKey] = NewChain("sending", e.root)
  BY InitiatorStarts
<1>2. IsSending(e.chains[BaseKey]) /\ e.chains[BaseKey].counter = -1
  BY <1>1, NewChainInStep DEF IsSending
<1>3. SendingChains(e) # {}
  BY <1>1, <1>2 DEF SendingChains, NamedSending
<1>4. i = BaseKey /\ NextCounter(e) = 0
  BY <1>1, <1>2, <1>3, SendingChain
<1>5. /\ Frame(e).key = [seed |-> e.root, step |-> NextCounter(e)]
      /\ IsRatchet(o) /\ o.root = e.root /\ o.own = e.own
      /\ o.chains = [e.chains EXCEPT ![i] = TakeMessageKey(e.chains[i], NextCounter(e))]
      /\ i \in DOMAIN e.chains /\ o.chains[i].counter = NextCounter(e)
  <2>1. NextCounter(e) <= MaxCounter
    BY <1>4, RatchetAssumption
  <2> HIDE DEF i
  <2>2. EncryptsOn(e, i, o)
    BY <1>1, <1>3, <2>1, EncryptedRatchet DEF i
  <2> QED
    BY <2>2 DEF EncryptsOn
<1>6. First.from = Initiator /\ First.frame = Frame(e)
  BY DEF First
<1>7. Frame(e).id = Id(1, "wire") /\ Frame(e).counter = 0
  BY <1>1, <1>4, KeysInUse DEF Frame
<1>8. \A j \in DOMAIN o.chains : o.chains[j].counter = 0
  <2>1. DOMAIN o.chains = {i}
    BY <1>1, <1>4, <1>5
  <2> QED
    BY <1>4, <1>5, <2>1
<1>9. SameKeys(e, o) /\ \A j \in DOMAIN o.chains : ~IsReceiving(o.chains[j])
  <2>1. NextCounter(e) <= MaxCounter
    BY <1>4, RatchetAssumption
  <2>2. SameKeys(e, o)
    BY <1>1, <1>3, <2>1, EncryptedWalks
  <2> QED
    BY <1>1, <1>2, <2>2, OneDirection DEF SameKeys
<1> QED
  BY <1>1, <1>4, <1>5, <1>6, <1>7, <1>8, <1>9

\* Of the two that start, the initiator is ahead.
LEMMA StartsLed == Leads(AtStart[Initiator], AtStart[Recipient])
<1>1. /\ AtStart[Initiator] = InitialSession(IdentityOf(Initiator), BaseKey, IdentityOf(Recipient), SignedPreKey, NoKey)
      /\ AtStart[Recipient] = RecipientSession(IdentityOf(Recipient), SignedPreKey, NoKey, IdentityOf(Initiator), BaseKey)
  BY Peers DEF AtStart
<1>2. PICK base, spk, one, other : base = BaseKey /\ spk = SignedPreKey /\ one = IdentityOf(Initiator) /\ other = IdentityOf(Recipient)
  OBVIOUS
<1>3. base.key # spk.key
  BY <1>2, KeysInUse
<1>4. PICK secret : secret = InitialSecret(one, base, other, spk, NoKey)
  OBVIOUS
<1>5. secret = RecipientSecret(other, spk, NoKey, one, base)
  BY <1>4, SecretsAgree
<1>6. Initiates(AtStart[Initiator], base, spk, secret)
  BY <1>1, <1>2, <1>3, <1>4, InitialInOrder
<1>7. Responds(AtStart[Recipient], base, spk, secret)
  BY <1>1, <1>2, <1>3, <1>5, RecipientInOrder
<1> QED
  BY <1>3, <1>6, <1>7, InitiatorLeads

\* The recipient's entry after it.
LEMMA RecipientAnswers ==
  ASSUME NEW o, o = Answering
  PROVE  /\ IsRatchet(o) /\ Len(o.root) = 3 /\ o.own = Id(3, "wire") /\ o.lastRemote = Id(1, "wire")
         /\ o.lastRemote \in DOMAIN o.chains /\ IsReceiving(o.chains[o.lastRemote])
         /\ Leads(o, AtStart[Initiator])
         /\ \A i \in DOMAIN o.chains :
              IsReceiving(o.chains[i]) => Spent(o.chains[i], 0) /\ ChainHeard(o.chains[i], {0})
<1>1. PICK a, b, frame, drawn : a = AtStart[Initiator] /\ b = AtStart[Recipient] /\ frame = First.frame /\ drawn = 3
  OBVIOUS
<1>2. IsRatchet(a) /\ a.own.key = 1 /\ IsRatchet(b) /\ Len(b.root) = 1 /\ b.own.key = 2 /\ Leads(a, b)
  BY <1>1, InitiatorStarts, RecipientStarts, KeysInUse, StartsLed
<1>3. frame.id = Id(1, "wire") /\ frame.counter = 0
  BY <1>1, FirstFrame
<1>4. IsId(frame.id) /\ frame.id.key = a.own.key /\ frame.counter \in Nat
  BY <1>2, <1>3 DEF IsId, Id
<1>5. o = Decrypted(b, frame, drawn) /\ drawn # a.own.key /\ drawn # b.own.key /\ a.own.key # b.own.key
  BY <1>1, <1>2 DEF Answering
<1>0. /\ IsRatchet(a) /\ IsRatchet(b) /\ Leads(a, b) /\ a.own.key # b.own.key
      /\ IsId(frame.id) /\ frame.id.key = a.own.key /\ frame.counter \in Nat
      /\ drawn # a.own.key /\ drawn # b.own.key /\ o = Decrypted(b, frame, drawn)
  BY <1>2, <1>4, <1>5
<1>6. /\ IsRatchet(o) /\ Leads(o, a) /\ o.own = Id(drawn, "wire") /\ o.lastRemote = frame.id
      /\ Len(o.root) = Len(b.root) + 2
      /\ frame.id \in DOMAIN o.chains
      /\ \A i \in DOMAIN o.chains : IsReceiving(o.chains[i])
           => o.chains[i] = TakeMessageKey(NewChain("receiving", a.root), frame.counter)
      /\ IsReceiving(o.chains[frame.id])
  BY <1>0, LeadPasses
<1>7. PICK new, taken : new = NewChain("receiving", a.root) /\ taken = TakeMessageKey(NewChain("receiving", a.root), 0)
  OBVIOUS
<1>8. InStep(new) /\ ChainHeard(new, {}) /\ taken = TakeMessageKey(new, 0) /\ 0 \in Nat
  BY <1>7, NewChainInStep, NewChainHeard
<1>9. Spent(taken, 0) /\ ChainHeard(taken, {0})
  <2>1. Spent(taken, 0)
    BY <1>8, TakeInStep
  <2>2. ChainHeard(taken, {} \cup {0})
    BY <1>8, TakeHeard
  <2>3. {} \cup {0} = {0}
    OBVIOUS
  <2> QED
    BY <2>1, <2>2, <2>3
<1> QED
  BY <1>1, <1>2, <1>3, <1>6, <1>7, <1>9

\* Storing a chain under the bare key leaves the entry as good.
LEMMA StoredBareInOrder ==
  ASSUME NEW e, IsRatchet(e), e.lastRemote \in DOMAIN e.chains, IsReceiving(e.chains[e.lastRemote]),
         NEW o, o = StoredBare(e)
  PROVE  /\ IsRatchet(o) /\ o.root = e.root /\ o.own = e.own /\ o.lastRemote = e.lastRemote
         /\ \A i \in DOMAIN o.chains :
              IsReceiving(o.chains[i]) => \E j \in DOMAIN e.chains : o.chains[i] = e.chains[j]
         /\ \E i \in DOMAIN o.chains : IsReceiving(o.chains[i])
<1> DEFINE id == e.lastRemote
           ch == e.chains[id]
           chains == With(Without(e.chains, {id}), Bare(id), ch)
<1>1. o = [root |-> e.root, own |-> e.own, lastRemote |-> id,
           previousCounter |-> e.previousCounter, chains |-> chains, pending |-> e.pending]
  <2>1. e = [root |-> e.root, own |-> e.own, lastRemote |-> e.lastRemote,
             previousCounter |-> e.previousCounter, chains |-> e.chains, pending |-> e.pending]
    BY DEF IsRatchet
  <2>2. o = [e EXCEPT !.chains = chains]
    BY DEF StoredBare
  <2> HIDE DEF chains
  <2> QED
    BY <2>1, <2>2
<1>2. /\ DOMAIN chains = (DOMAIN e.chains \ {id}) \cup {Bare(id)}
      /\ chains[Bare(id)] = ch
      /\ \A i \in DOMAIN e.chains \ {id} : i # Bare(id) => chains[i] = e.chains[i]
      /\ chains = [i \in DOMAIN chains |-> chains[i]]
  BY DEF With, Without, Restrict
<1>3. Bare(id) \in KeyIds(id) /\ Bare(id).key = id.key
  BY DEF KeyIds, Bare, Id
<1>4. InStep(ch) /\ ReceivesOn(e, Bare(id), ch)
  BY <1>3, OneDirection DEF IsRatchet, SendsOn, ReceivesOn
<1>5. ASSUME NEW i \in DOMAIN e.chains, i # id PROVE i.key # id.key
  BY <1>5 DEF IsRatchet
<1> HIDE DEF chains
<1>6. /\ o.root = e.root /\ o.own = e.own /\ o.lastRemote = id
      /\ o.previousCounter = e.previousCounter /\ o.chains = chains /\ o.pending = e.pending
      /\ o = [root |-> o.root, own |-> o.own, lastRemote |-> o.lastRemote,
              previousCounter |-> o.previousCounter, chains |-> o.chains, pending |-> o.pending]
  BY <1>1
<1> HIDE DEF ch, id
<1>7. ASSUME NEW i \in DOMAIN chains
      PROVE  /\ InStep(chains[i])
             /\ SendsOn(e, i, chains[i]) \/ ReceivesOn(e, i, chains[i])
             /\ \E j \in DOMAIN e.chains : chains[i] = e.chains[j]
  <2>1. CASE i = Bare(id)
    BY <1>2, <1>4, <2>1 DEF ch, id
  <2>2. CASE i # Bare(id)
    <3>1. i \in DOMAIN e.chains /\ chains[i] = e.chains[i]
      BY <1>2, <2>2
    <3> QED
      BY <3>1 DEF IsRatchet
  <2> QED
    BY <2>1, <2>2
<1>8. ASSUME NEW i \in DOMAIN chains, NEW j \in DOMAIN chains, i.key = j.key PROVE i = j
  <2>1. \A k \in DOMAIN chains : k # Bare(id) => k \in DOMAIN e.chains /\ k.key # id.key
    BY <1>2, <1>5
  <2>2. CASE i = Bare(id) \/ j = Bare(id)
    BY <1>3, <1>8, <2>1, <2>2
  <2>3. CASE i # Bare(id) /\ j # Bare(id)
    BY <1>8, <2>1, <2>3 DEF IsRatchet
  <2> QED
    BY <2>2, <2>3
<1>9. IsRatchet(o)
  <2>1. /\ IsRoot(o.root) /\ IsId(o.own) /\ IsId(o.lastRemote) /\ o.own.key # o.lastRemote.key
        /\ o.previousCounter \in 0..MaxCounter /\ o.pending \in BOOLEAN
    BY <1>6 DEF IsRatchet, id
  <2>2. \A i \in DOMAIN o.chains :
          InStep(o.chains[i]) /\ (SendsOn(o, i, o.chains[i]) \/ ReceivesOn(o, i, o.chains[i]))
    BY <1>6, <1>7 DEF SendsOn, ReceivesOn, id
  <2> QED
    BY <1>2, <1>6, <1>8, <2>1, <2>2 DEF IsRatchet
<1>10. Bare(id) \in DOMAIN o.chains /\ IsReceiving(o.chains[Bare(id)])
  BY <1>2, <1>6 DEF ch, id
<1> QED
  BY <1>6, <1>7, <1>9, <1>10 DEF id

LEMMA InitIInv == Init => IInv
<1> DEFINE a == AtStart[Initiator]
           b == AtStart[Recipient]
<1>0. MaxKeys \in Nat \ {0}
  BY PeersAssumption
<1>1. /\ IsRatchet(a) /\ Len(a.root) = 2 /\ a.own.key = 1
      /\ IsRatchet(b) /\ Len(b.root) = 1 /\ b.own.key = 2
  BY InitiatorStarts, RecipientStarts, KeysInUse
<1>2. CASE entry = AtStart /\ net = {} /\ opened = [p \in Peer |-> {}] /\ fresh = 3
  <2>1. AtStart = [p \in Peer |-> AtStart[p]]
    BY DEF AtStart
  <2>2. Len(a.root) % 2 = Parity(Initiator) /\ Len(b.root) % 2 = Parity(Recipient)
    BY <1>1, Peers DEF Parity
  <2>3. EntriesInOrder
    <3> HIDE DEF a, b
    <3>1. /\ entry[Initiator] = a /\ entry[Recipient] = b /\ a.own.key < fresh /\ b.own.key < fresh
          /\ a.own.key \in Int /\ b.own.key \in Int
      BY <1>1, <1>2 DEF a, b
    <3>2. ASSUME NEW p \in Peer
          PROVE  IsRatchet(entry[p]) /\ entry[p].own.key \in Int /\ entry[p].own.key < fresh /\ Len(entry[p].root) % 2 = Parity(p)
      <4>1. CASE p = Initiator
        BY <1>1, <2>2, <3>1, <4>1
      <4>2. CASE p = Recipient
        BY <1>1, <2>2, <3>1, <4>2
      <4> QED
        BY <4>1, <4>2 DEF Peer
    <3>3. entry[Initiator].own.key # entry[Recipient].own.key
      BY <1>1, <3>1
    <3> QED
      BY <1>2, <2>1, <3>2, <3>3 DEF EntriesInOrder
  <2> QED
    BY <1>0, <1>2, <2>3 DEF IInv, NoKeyReuse
<1>3. CASE /\ entry = [p \in Peer |-> IF p = Initiator THEN Encrypted(AtStart[p]) ELSE StoredBare(Answering)]
           /\ net = {First}
           /\ opened = [p \in Peer |-> IF p = Initiator THEN {} ELSE {First}]
           /\ fresh = 4
  <2> DEFINE x == Encrypted(a)
             y == StoredBare(Answering)
  <2>1. /\ First.from = Initiator /\ First.frame.id = Id(1, "wire") /\ First.frame.counter = 0
        /\ First.frame.key = [seed |-> a.root, step |-> 0]
        /\ IsRatchet(x) /\ x.root = a.root /\ x.own = BaseKey
        /\ \A i \in DOMAIN x.chains : IsSending(x.chains[i]) => x.chains[i].counter = 0
    BY FirstFrame
  <2>2. /\ IsRatchet(y) /\ Len(y.root) = 3 /\ y.own = Id(3, "wire")
        /\ \A i \in DOMAIN y.chains : IsReceiving(y.chains[i]) => Spent(y.chains[i], 0)
    <3> DEFINE o == Answering
    <3>1. /\ IsRatchet(o) /\ Len(o.root) = 3 /\ o.own = Id(3, "wire")
          /\ o.lastRemote \in DOMAIN o.chains /\ IsReceiving(o.chains[o.lastRemote])
          /\ \A i \in DOMAIN o.chains : IsReceiving(o.chains[i]) => Spent(o.chains[i], 0)
      BY RecipientAnswers
    <3> HIDE DEF o
    <3>2. /\ IsRatchet(StoredBare(o)) /\ StoredBare(o).root = o.root /\ StoredBare(o).own = o.own
          /\ \A i \in DOMAIN StoredBare(o).chains : IsReceiving(StoredBare(o).chains[i])
               => \E j \in DOMAIN o.chains : StoredBare(o).chains[i] = o.chains[j]
      BY <3>1, StoredBareInOrder
    <3> QED
      BY <3>1, <3>2 DEF o
  <2>3. IsRoot(a.root) /\ Len(a.root) = 2
    BY <1>1 DEF IsRatchet
  <2>0. x.root = a.root
    BY <2>1
  <2> HIDE DEF a, b, x, y
  <2>4. entry[Initiator] = x /\ entry[Recipient] = y /\ entry = [p \in Peer |-> entry[p]]
    BY <1>3, Peers DEF x, y, a
  <2>5. x.own.key = 1 /\ y.own.key = 3
    BY <2>1, <2>2, KeysInUse DEF Id
  <2>6. EntriesInOrder
    <3>0. Len(x.root) % 2 = Parity(Initiator)
      BY <2>0, <2>3 DEF Parity
    <3>1. IsRatchet(x) /\ x.own.key \in Int /\ x.own.key < fresh /\ Len(x.root) % 2 = Parity(Initiator)
      <4>1. x.own.key \in Int /\ x.own.key < fresh
        BY <1>3, <2>5
      <4> QED
        BY <2>1, <3>0, <4>1
    <3>2. IsRatchet(y) /\ y.own.key \in Int /\ y.own.key < fresh /\ Len(y.root) % 2 = Parity(Recipient)
      BY <1>3, <2>2, <2>5, Peers DEF Parity
    <3>3. ASSUME NEW p \in Peer
          PROVE  IsRatchet(entry[p]) /\ entry[p].own.key \in Int /\ entry[p].own.key < fresh /\ Len(entry[p].root) % 2 = Parity(p)
      <4>1. CASE p = Initiator
        BY <2>4, <3>1, <4>1
      <4>2. CASE p = Recipient
        BY <2>4, <3>2, <4>2
      <4> QED
        BY <4>1, <4>2 DEF Peer
    <3>4. entry[Initiator].own.key # entry[Recipient].own.key
      BY <2>4, <2>5
    <3>5. entry = [p \in Peer |-> entry[p]]
      BY <2>4
    <3> QED
      BY <3>3, <3>4, <3>5 DEF EntriesInOrder
  <2>7. FrameInOrder(First)
    <3>1. IsId(First.frame.id) /\ First.frame.id.key = 1
      BY <2>1 DEF IsId, Id
    <3>2. IsMessageKey(First.frame.key) /\ First.frame.key.seed = a.root /\ First.frame.key.step = 0
      BY <2>1, <2>3 DEF IsMessageKey, IsKey
    <3>3. entry[First.from] = x /\ entry[Other(First.from)] = y /\ First.from \in Peer
      BY <2>1, <2>4, Peers
    <3>4. Len(a.root) % 2 = Parity(Initiator) /\ Len(a.root) <= Len(x.root)
      BY <2>0, <2>3 DEF Parity
    <3>5. \A i \in DOMAIN x.chains : IsSending(x.chains[i]) => 0 <= x.chains[i].counter
      BY <2>1
    <3>6. First.frame.id.key \in Int /\ First.frame.id.key < fresh /\ First.frame.id.key # y.own.key
      BY <1>3, <2>5, <3>1
    <3>7. First.frame.counter \in Nat
      BY <2>1
    <3>8. First.from = Initiator
      BY <2>1
    <3> QED
      BY <2>3, <3>1, <3>2, <3>3, <3>4, <3>5, <3>6, <3>7, <3>8 DEF FrameInOrder
  <2>8. UsedUp(y, First.frame.key)
    <3>1. Len(First.frame.key.seed) <= Len(y.root) /\ First.frame.key.step = 0
      <4>1. First.frame.key.seed = a.root /\ First.frame.key.step = 0
        BY <2>1
      <4>2. Len(a.root) <= Len(y.root)
        BY <2>2, <2>3
      <4> QED
        BY <4>1, <4>2
    <3> QED
      BY <2>2, <3>1 DEF UsedUp
  <2>9. \A p \in Peer : \A m \in opened[p] : m \in FramesOf(Other(p)) /\ UsedUp(entry[p], m.frame.key)
    <3> SUFFICES ASSUME NEW p \in Peer, NEW m \in opened[p]
                 PROVE  m \in FramesOf(Other(p)) /\ UsedUp(entry[p], m.frame.key)
      OBVIOUS
    <3>1. p = Recipient /\ m = First
      BY <1>3 DEF Peer
    <3> QED
      BY <1>3, <2>1, <2>4, <2>8, <3>1, Peers DEF FramesOf
  <2>10. opened = [p \in Peer |-> opened[p]] /\ fresh \in 3..(3 + MaxKeys)
    BY <1>0, <1>3
  <2>11. NoKeyReuse
    BY <1>3 DEF NoKeyReuse
  <2> QED
    BY <1>3, <2>6, <2>7, <2>9, <2>10, <2>11 DEF IInv
<1> QED
  BY <1>2, <1>3 DEF Init

\* What the endpoints do keeps all of it.
LEMMA NextIInv == IInv /\ [Next]_vars => IInv'
<1> SUFFICES ASSUME IInv, [Next]_vars PROVE IInv'
  OBVIOUS
<1>1. ASSUME NEW p \in Peer, Send(p) PROVE IInv'
  BY <1>1, SentInOrder
<1>2. ASSUME NEW p \in Peer, NEW m \in net, Receive(p, m) PROVE IInv'
  BY <1>2, ReceivedInOrder
<1>3. CASE UNCHANGED vars
  BY <1>3 DEF vars, IInv, EntriesInOrder, FrameInOrder, UsedUp, FramesOf, NoKeyReuse
<1> QED
  BY <1>1, <1>2, <1>3 DEF Next

LEMMA Invariant == Spec => []IInv
BY InitIInv, NextIInv, PTL DEF Spec
-----------------------------------------------------------------------------
(* The two ends never drift apart *)

\* A frame of e to r: it names the key that e had when it was encrypted, and
\* that key is of one root only, for e and for r.
Agrees(frame, e, r) ==
  /\ frame.id.form = "wire" /\ frame.key.step = frame.counter
  /\ Len(frame.key.seed) = Len(e.root) => frame.id.key = e.own.key
  /\ frame.id.key = e.own.key => frame.key.seed = e.root
  /\ \A i \in DOMAIN r.chains :
       IsReceiving(r.chains[i]) /\ frame.id.key = r.lastRemote.key => frame.key.seed = r.chains[i].key.seed

\* One endpoint has stepped last, and each has followed the frames it opened.
Agreed ==
  /\ \E p \in Peer : Leads(entry[p], entry[Other(p)])
  /\ \A m \in net : Agrees(m.frame, entry[m.from], entry[Other(m.from)])
  /\ \A p \in Peer : Heard(entry[p], OpenedCounters(p, entry[p].lastRemote.key))

LEMMA AgreesWalked ==
  ASSUME NEW frame, NEW e, NEW r, Agrees(frame, e, r), NEW o, SameKeys(e, o), NEW s, SameKeys(r, s)
  PROVE  Agrees(frame, o, s)
BY DEF Agrees, SameKeys

LEMMA HeardKept ==
  ASSUME NEW e, NEW S, Heard(e, S), NEW o, SameKeys(e, o),
         \A i \in DOMAIN o.chains : IsReceiving(o.chains[i]) => o.chains[i] = e.chains[i]
  PROVE  Heard(o, S)
BY DEF Heard, SameKeys

\* A frame that is sent now opens on the root that its receiver is on, or leads to.
LEMMA AgreesNext ==
  ASSUME NEW e, IsRatchet(e), CanEncrypt(e), NEW r, IsRatchet(r), Leads(e, r) \/ Leads(r, e)
  PROVE  Agrees(Frame(e), e, r)
<1>1. PICK f : f = Frame(e)
  OBVIOUS
<1>2. f.id = Wire(e.own) /\ f.key = [seed |-> e.root, step |-> f.counter]
  BY <1>1, NextFrame
<1>3. f.id.form = "wire" /\ f.id.key = e.own.key /\ f.key.seed = e.root /\ f.key.step = f.counter
  BY <1>2 DEF Wire, Id
<1>4. ASSUME NEW i \in DOMAIN r.chains, IsReceiving(r.chains[i]), e.own.key = r.lastRemote.key
      PROVE  e.root = r.chains[i].key.seed
  <2>1. CASE Leads(e, r)
    <3>1. i.key = r.lastRemote.key
      BY <1>4, OneDirection, IdKey DEF IsRatchet, SendsOn, ReceivesOn
    <3> QED
      BY <1>4, <2>1, <3>1 DEF Leads
  <2>2. CASE Leads(r, e)
    BY <1>4, <2>2 DEF Leads
  <2> QED
    BY <2>1, <2>2
<1> QED
  BY <1>1, <1>3, <1>4 DEF Agrees

LEMMA SentAgrees ==
  ASSUME IInv, Agreed, NEW p \in Peer, Send(p)
  PROVE  Agreed'
<1>1. PICK e, o, r, msg : e = entry[p] /\ o = Encrypted(e) /\ r = entry[Other(p)] /\ msg = Message(p)
  OBVIOUS
<1>2. /\ net' = net \cup {msg} /\ entry' = [entry EXCEPT ![p] = o] /\ opened' = opened
      /\ CanEncrypt(e) /\ msg.from = p /\ msg.frame = Frame(e)
  BY <1>1 DEF Send, Message
<1>3. IsRatchet(e) /\ IsRatchet(r) /\ Other(p) \in Peer /\ Other(p) # p /\ entry = [q \in Peer |-> entry[q]]
  BY <1>1, Peers DEF IInv, EntriesInOrder
<1>4. /\ entry'[p] = o /\ entry'[Other(p)] = r
      /\ \A q \in Peer : q # p => entry'[q] = entry[q]
  BY <1>1, <1>2, <1>3
<1>5. /\ SameKeys(e, o)
      /\ \A i \in DOMAIN o.chains : IsReceiving(o.chains[i]) => o.chains[i] = e.chains[i]
  <2>1. SendingChains(e) # {} /\ NextCounter(e) <= MaxCounter
    BY <1>2, <1>3, NextFrame
  <2> QED
    BY <1>1, <1>3, <2>1, EncryptedWalks
<1>6. \A q \in Peer : SameKeys(entry[q], entry'[q])
  BY <1>1, <1>4, <1>5, SameKeysSelf
<1>7. PICK q \in Peer : Leads(entry[q], entry[Other(q)])
  BY DEF Agreed
<1>8. Other(q) \in Peer /\ Leads(entry'[q], entry'[Other(q)])
  BY <1>6, <1>7, Peers, LeadsWalked
<1>9. ASSUME NEW m \in net PROVE Agrees(m.frame, entry'[m.from], entry'[Other(m.from)])
  <2>1. m.from \in Peer /\ Other(m.from) \in Peer
    BY Peers DEF IInv, FrameInOrder
  <2> QED
    BY <1>6, <2>1, AgreesWalked DEF Agreed
<1>10. Agrees(msg.frame, o, r)
  <2>1. Leads(e, r) \/ Leads(r, e)
    <3>1. q = p \/ q = Other(p)
      BY Peers
    <3> QED
      BY <1>1, <1>7, <3>1, Peers
  <2>2. Agrees(Frame(e), e, r)
    BY <1>2, <1>3, <2>1, AgreesNext
  <2> QED
    BY <1>2, <1>5, <2>2, SameKeysSelf, AgreesWalked
<1>11. \A m \in net' : Agrees(m.frame, entry'[m.from], entry'[Other(m.from)])
  BY <1>2, <1>4, <1>9, <1>10
<1>12. ASSUME NEW x \in Peer PROVE Heard(entry'[x], OpenedCounters(x, entry[x].lastRemote.key)')
  <2>1. /\ Heard(entry[x], OpenedCounters(x, entry[x].lastRemote.key))
        /\ entry'[x].lastRemote = entry[x].lastRemote
    BY <1>6 DEF Agreed, SameKeys
  <2>2. OpenedCounters(x, entry[x].lastRemote.key)' = OpenedCounters(x, entry[x].lastRemote.key)
    BY <1>2, <2>1 DEF OpenedCounters
  <2>3. \A i \in DOMAIN entry'[x].chains :
          IsReceiving(entry'[x].chains[i]) => entry'[x].chains[i] = entry[x].chains[i]
    BY <1>1, <1>4, <1>5
  <2>4. PICK S : S = OpenedCounters(x, entry[x].lastRemote.key)
    OBVIOUS
  <2>5. Heard(entry[x], S) /\ SameKeys(entry[x], entry'[x])
    BY <1>6, <2>1, <2>4
  <2> QED
    BY <2>2, <2>3, <2>4, <2>5, HeardKept
<1> QED
  BY <1>8, <1>11, <1>12 DEF Agreed

\* Only the end that is behind steps, and it is then the one ahead.
LEMMA ReceivedAgrees ==
  ASSUME IInv, Agreed, NEW p \in Peer, NEW m \in net, Receive(p, m)
  PROVE  Agreed'
<1>1. PICK e, r, frame, o : e = entry[p] /\ r = entry[Other(p)] /\ frame = m.frame /\ o = Decrypted(entry[p], m.frame, fresh)
  OBVIOUS
<1>2. PICK ch, n : ch = ReceivingChain(e, frame.id) /\ n = frame.counter
  OBVIOUS
<1>3. /\ net' = net /\ entry' = [entry EXCEPT ![p] = o] /\ opened' = [opened EXCEPT ![p] = @ \cup {m}]
      /\ m.from = Other(p) /\ Opens(e, frame) /\ o = Decrypted(e, frame, fresh)
  BY <1>1 DEF Receive
<1>4. /\ IsRatchet(e) /\ IsRatchet(r) /\ Other(p) \in Peer /\ Other(p) # p /\ Other(Other(p)) = p
      /\ entry = [q \in Peer |-> entry[q]] /\ opened = [q \in Peer |-> opened[q]]
      /\ r.own.key # e.own.key /\ e.own.key # fresh /\ r.own.key # fresh /\ fresh \in Int
      /\ Len(e.root) \in Nat /\ Len(r.root) \in Nat
  <2>1. /\ IsRatchet(e) /\ IsRatchet(r) /\ Other(p) \in Peer /\ Other(p) # p /\ Other(Other(p)) = p
        /\ entry = [q \in Peer |-> entry[q]] /\ opened = [q \in Peer |-> opened[q]]
        /\ r.own.key # e.own.key
    BY <1>1, Peers DEF IInv, EntriesInOrder
  <2>2. e.own.key \in Int /\ e.own.key < fresh /\ r.own.key \in Int /\ r.own.key < fresh
    BY <1>1, <2>1 DEF IInv, EntriesInOrder
  <2>3. fresh \in Int
    BY PeersAssumption DEF IInv
  <2>4. Len(e.root) \in Nat /\ Len(r.root) \in Nat
    BY <2>1, SteppedRoots
  <2> QED
    BY <2>1, <2>2, <2>3, <2>4
<1>5. IsId(frame.id) /\ n \in Nat /\ frame.counter \in Nat /\ Len(frame.key.seed) <= Len(r.root)
  BY <1>1, <1>2, <1>3 DEF IInv, FrameInOrder
<1>6. IsReceiving(ch) /\ InStep(ch) /\ frame.key.seed = ch.key.seed
  <2>1. IsReceiving(ch) /\ InStep(ch) /\ frame.key = [seed |-> ch.key.seed, step |-> frame.counter]
    BY <1>2, <1>3, <1>4, <1>5, OpenedKey
  <2> QED
    BY <2>1
<1>7. /\ entry'[p] = o /\ entry'[Other(p)] = r
      /\ \A q \in Peer : q # p => entry'[q] = entry[q] /\ opened'[q] = opened[q]
      /\ opened'[p] = opened[p] \cup {m}
  BY <1>1, <1>3, <1>4
\* Nothing changes in what the other end has heard.
<1>8. ASSUME NEW x \in Peer, x # p PROVE Heard(entry'[x], OpenedCounters(x, entry[x].lastRemote.key)')
  <2>1. Heard(entry[x], OpenedCounters(x, entry[x].lastRemote.key))
    BY DEF Agreed
  <2>2. OpenedCounters(x, entry[x].lastRemote.key)' = OpenedCounters(x, entry[x].lastRemote.key)
    BY <1>7, <1>8 DEF OpenedCounters
  <2> QED
    BY <1>7, <1>8, <2>1, <2>2
<1>9. CASE ~StepNeeded(e, frame.id)
  <2>1. /\ SameKeys(e, o) /\ frame.id.key = e.lastRemote.key
        /\ \E i \in DOMAIN e.chains : ch = e.chains[i] /\ o.chains[i] = TakeMessageKey(ch, frame.counter)
        /\ \A i \in DOMAIN o.chains : IsReceiving(o.chains[i]) => o.chains[i] = TakeMessageKey(ch, frame.counter)
    BY <1>2, <1>3, <1>4, <1>5, <1>6, <1>9, OpenedWalks
  <2>2. \A q \in Peer : SameKeys(entry[q], entry'[q])
    BY <1>1, <1>7, <2>1, SameKeysSelf
  <2>3. PICK q \in Peer : Leads(entry[q], entry[Other(q)])
    BY DEF Agreed
  <2>4. Other(q) \in Peer /\ Leads(entry'[q], entry'[Other(q)])
    BY <2>2, <2>3, Peers, LeadsWalked
  <2>5. ASSUME NEW x \in net PROVE Agrees(x.frame, entry'[x.from], entry'[Other(x.from)])
    <3>1. x.from \in Peer /\ Other(x.from) \in Peer
      BY Peers DEF IInv, FrameInOrder
    <3> QED
      BY <2>2, <3>1, AgreesWalked DEF Agreed
  <2>6. Heard(o, OpenedCounters(p, entry[p].lastRemote.key)')
    <3>1. PICK S : S = OpenedCounters(p, e.lastRemote.key)
      OBVIOUS
    <3>2. Heard(e, S)
      BY <1>1, <3>1 DEF Agreed
    <3>3. o.lastRemote = e.lastRemote
      BY <2>1 DEF SameKeys
    <3>4. OpenedCounters(p, entry[p].lastRemote.key)' = S \cup {n}
      <4>1. {x \in opened[p] \cup {m} : x.frame.id.key = e.lastRemote.key}
              = {x \in opened[p] : x.frame.id.key = e.lastRemote.key} \cup {m}
        BY <1>1, <2>1
      <4> QED
        BY <1>1, <1>2, <1>7, <3>1, <3>3, <4>1 DEF OpenedCounters
    <3>5. PICK i \in DOMAIN e.chains : ch = e.chains[i]
      BY <2>1
    <3>6. ChainHeard(ch, S) /\ i \in DOMAIN o.chains /\ IsReceiving(o.chains[i])
      BY <1>6, <2>1, <3>2, <3>5 DEF Heard, SameKeys
    <3>7. PICK taken : taken = TakeMessageKey(ch, n)
      OBVIOUS
    <3>8. ChainHeard(taken, S \cup {n})
      BY <1>5, <1>6, <3>6, <3>7, TakeHeard
    <3>9. \A j \in DOMAIN o.chains : IsReceiving(o.chains[j]) => ChainHeard(o.chains[j], S \cup {n})
      BY <1>2, <2>1, <3>7, <3>8
    <3> QED
      BY <3>4, <3>6, <3>9 DEF Heard
  <2> QED
    BY <1>3, <1>7, <1>8, <2>4, <2>5, <2>6 DEF Agreed
<1>10. CASE StepNeeded(e, frame.id)
  <2>1. Len(frame.key.seed) = Len(e.root) + 1
    <3>1. ch = NewChain("receiving", ReceivingRoot(e, frame.id))
      BY <1>2, <1>10 DEF ReceivingChain
    <3>2. ch.key.seed = ReceivingRoot(e, frame.id)
      BY <3>1, NewChainInStep
    <3> QED
      BY <1>4, <1>6, <3>2, SteppedRoots
  <2>2. ASSUME NEW a, IsRatchet(a), NEW b, IsRatchet(b), Leads(a, b) PROVE Len(a.root) = Len(b.root) + 1
    BY <2>2, Derived DEF Leads, IsRatchet
  <2>3. Leads(r, e)
    <3>1. PICK q \in Peer : Leads(entry[q], entry[Other(q)])
      BY DEF Agreed
    <3>2. q # p
      <4> SUFFICES ASSUME q = p PROVE FALSE
        OBVIOUS
      <4>1. Len(e.root) = Len(r.root) + 1
        BY <1>1, <1>4, <2>2, <3>1
      <4> QED
        BY <1>4, <1>5, <2>1, <4>1
    <3> QED
      BY <1>1, <1>4, <3>1, <3>2, Peers
  <2>4. Len(r.root) = Len(e.root) + 1
    BY <1>4, <2>2, <2>3
  <2>5. Agrees(frame, r, e)
    BY <1>1, <1>3, <1>4 DEF Agreed
  <2>6. frame.id.key = r.own.key
    BY <2>1, <2>4, <2>5 DEF Agrees
  <2>7. /\ IsRatchet(o) /\ Leads(o, r) /\ o.own = Id(fresh, "wire") /\ o.lastRemote = frame.id
        /\ Len(o.root) = Len(e.root) + 2 /\ frame.id \in DOMAIN o.chains /\ IsReceiving(o.chains[frame.id])
        /\ \A i \in DOMAIN o.chains : IsReceiving(o.chains[i])
             => o.chains[i] = TakeMessageKey(NewChain("receiving", r.root), frame.counter)
    BY <1>3, <1>4, <1>5, <2>3, <2>6, LeadPasses
  <2>8. PICK new, taken : new = NewChain("receiving", r.root) /\ taken = TakeMessageKey(NewChain("receiving", r.root), n)
    OBVIOUS
  <2>9. InStep(new) /\ new.key.seed = r.root /\ ChainHeard(new, {}) /\ taken = TakeMessageKey(new, n)
    BY <2>8, NewChainInStep, NewChainHeard
  <2>10. taken.key.seed = r.root /\ ChainHeard(taken, {n})
    <3>1. taken.key.seed = r.root
      <4>1. n \in Nat /\ InStep(new) /\ taken = TakeMessageKey(new, n)
        BY <1>5, <2>9
      <4>2. taken.key.seed = new.key.seed
        BY <4>1, TakeInStep
      <4> QED
        BY <4>2, <2>9
    <3>2. ChainHeard(taken, {} \cup {n})
      BY <1>5, <2>9, TakeHeard
    <3>3. {} \cup {n} = {n}
      OBVIOUS
    <3> QED
      BY <3>1, <3>2, <3>3
  <2>11. \A i \in DOMAIN o.chains : IsReceiving(o.chains[i]) => o.chains[i] = taken
    BY <1>2, <2>7, <2>8
  <2>12. ASSUME NEW x \in net, x.from = p PROVE Agrees(x.frame, o, r)
    <3>1. Agrees(x.frame, e, r)
      BY <1>1, <2>12 DEF Agreed
    <3>2. /\ FrameInOrder(x) /\ x.frame.id.key < fresh /\ x.frame.id.key \in Int
          /\ Len(x.frame.key.seed) <= Len(e.root) /\ Len(x.frame.key.seed) \in Nat
      BY <1>1, <2>12 DEF IInv, FrameInOrder, IsMessageKey, IsRoot
    <3>3. x.frame.id.key # o.own.key
      BY <1>4, <2>7, <3>2 DEF Id
    <3>4. Len(x.frame.key.seed) # Len(o.root)
      BY <1>4, <2>7, <3>2
    <3> QED
      BY <3>1, <3>3, <3>4 DEF Agrees
  <2>13. ASSUME NEW x \in net, x.from = Other(p) PROVE Agrees(x.frame, r, o)
    <3>1. Agrees(x.frame, r, e)
      BY <1>1, <1>4, <2>13 DEF Agreed
    <3>2. x.frame.id.key = o.lastRemote.key => x.frame.key.seed = r.root
      BY <2>6, <2>7, <3>1 DEF Agrees
    <3> QED
      BY <2>10, <2>11, <3>1, <3>2 DEF Agrees
  <2>14. ASSUME NEW x \in net PROVE Agrees(x.frame, entry'[x.from], entry'[Other(x.from)])
    <3>1. x.from = p \/ x.from = Other(p)
      BY Peers DEF IInv, FrameInOrder
    <3> QED
      BY <1>4, <1>7, <2>12, <2>13, <3>1
\* What was opened before the step is older than the root of the new chain.
  <2>15. OpenedCounters(p, entry[p].lastRemote.key)' = {n}
    <3>1. ASSUME NEW x \in opened[p] PROVE x.frame.id.key # frame.id.key
      <4>1. x \in net /\ x.from = Other(p) /\ UsedUp(e, x.frame.key)
        BY <1>1 DEF IInv, FramesOf
      <4>2. Agrees(x.frame, r, e)
        BY <1>1, <1>4, <4>1 DEF Agreed
      <4>3. Len(x.frame.key.seed) <= Len(e.root)
        BY <4>1 DEF UsedUp
      <4>4. x.frame.id.key = r.own.key => x.frame.key.seed = r.root
        BY <4>2 DEF Agrees
      <4> QED
        BY <1>4, <2>4, <2>6, <4>3, <4>4
    <3>2. {x \in opened[p] \cup {m} : x.frame.id.key = frame.id.key} = {m}
      BY <1>1, <3>1
    <3> QED
      BY <1>1, <1>2, <1>7, <2>7, <3>2 DEF OpenedCounters
  <2>16. Heard(o, {n})
    BY <2>7, <2>10, <2>11 DEF Heard
  <2>17. Heard(entry'[p], OpenedCounters(p, entry[p].lastRemote.key)')
    BY <1>7, <2>15, <2>16
  <2>18. Leads(entry'[p], entry'[Other(p)])
    BY <1>7, <2>7
  <2> QED
    BY <1>3, <1>8, <2>14, <2>17, <2>18 DEF Agreed
<1> QED
  BY <1>9, <1>10

LEMMA NoneHeard ==
  ASSUME NEW e, \A i \in DOMAIN e.chains : ~IsReceiving(e.chains[i])
  PROVE  Heard(e, {})
BY DEF Heard

LEMMA InitAgreed == Init => Agreed
<1>1. PICK a, b : a = AtStart[Initiator] /\ b = AtStart[Recipient]
  OBVIOUS
<1>2. /\ IsRatchet(a) /\ DOMAIN a.chains = {BaseKey} /\ a.chains[BaseKey] = NewChain("sending", a.root)
      /\ DOMAIN b.chains = {} /\ Leads(a, b)
  BY <1>1, InitiatorStarts, RecipientStarts, StartsLed
<1>3. CASE entry = AtStart /\ net = {} /\ opened = [p \in Peer |-> {}] /\ fresh = 3
  <2>1. Leads(entry[Initiator], entry[Other(Initiator)])
    BY <1>1, <1>2, <1>3, Peers
  <2>2. \A i \in DOMAIN a.chains : ~IsReceiving(a.chains[i])
    <3>1. IsSending(NewChain("sending", a.root))
      BY NewChainInStep DEF IsSending
    <3> QED
      BY <1>2, <3>1, OneDirection
  <2>3. ASSUME NEW p \in Peer PROVE Heard(entry[p], OpenedCounters(p, entry[p].lastRemote.key))
    <3>1. OpenedCounters(p, entry[p].lastRemote.key) = {}
      BY <1>3 DEF OpenedCounters
    <3>2. entry[p] = a \/ entry[p] = b
      BY <1>1, <1>3 DEF Peer
    <3>3. Heard(entry[p], {})
      BY <1>2, <2>2, <3>2, NoneHeard
    <3> QED
      BY <3>1, <3>3
  <2> QED
    BY <1>3, <2>1, <2>3, Peers DEF Agreed
<1>4. CASE /\ entry = [p \in Peer |-> IF p = Initiator THEN Encrypted(AtStart[p]) ELSE StoredBare(Answering)]
           /\ net = {First}
           /\ opened = [p \in Peer |-> IF p = Initiator THEN {} ELSE {First}]
           /\ fresh = 4
  <2>1. PICK x, o, y : x = Encrypted(a) /\ o = Answering /\ y = StoredBare(Answering)
    OBVIOUS
  <2>2. /\ First.from = Initiator /\ First.frame.id = Id(1, "wire") /\ First.frame.counter = 0
        /\ First.frame.key = [seed |-> a.root, step |-> 0]
        /\ x.root = a.root /\ x.own = BaseKey
        /\ SameKeys(a, x) /\ \A i \in DOMAIN x.chains : ~IsReceiving(x.chains[i])
    BY <1>1, <2>1, FirstFrame
  <2>3. /\ IsRatchet(o) /\ o.lastRemote = Id(1, "wire")
        /\ o.lastRemote \in DOMAIN o.chains /\ IsReceiving(o.chains[o.lastRemote]) /\ Leads(o, a)
        /\ \A i \in DOMAIN o.chains :
             IsReceiving(o.chains[i]) => Spent(o.chains[i], 0) /\ ChainHeard(o.chains[i], {0})
    BY <1>1, <2>1, RecipientAnswers
  <2>4. /\ y.root = o.root /\ y.own = o.own /\ y.lastRemote = o.lastRemote
        /\ \A i \in DOMAIN y.chains :
             IsReceiving(y.chains[i]) => \E j \in DOMAIN o.chains : y.chains[i] = o.chains[j]
        /\ \E i \in DOMAIN y.chains : IsReceiving(y.chains[i])
    <3>1. y = StoredBare(o)
      BY <2>1
    <3> QED
      BY <2>3, <3>1, StoredBareInOrder
  <2>5. /\ \A i \in DOMAIN y.chains :
             IsReceiving(y.chains[i]) => y.chains[i].key.seed = a.root /\ ChainHeard(y.chains[i], {0})
    BY <2>3, <2>4 DEF Leads
  <2>6. Leads(y, x)
    <3>1. Leads(y, a)
      BY <2>3, <2>4, <2>5 DEF Leads
    <3> QED
      BY <2>2, <3>1, LeadsWalked, SameKeysSelf
  <2>7. entry[Initiator] = x /\ entry[Recipient] = y
    BY <1>1, <1>4, <2>1, Peers
  <2>8. Agrees(First.frame, x, y)
    <3>1. First.frame.id.form = "wire" /\ First.frame.id.key = 1
      BY <2>2 DEF Id
    <3>2. First.frame.key.step = First.frame.counter /\ First.frame.key.seed = a.root
      BY <2>2
    <3> QED
      BY <2>2, <2>5, <3>1, <3>2, KeysInUse DEF Agrees
  <2>9. \A m \in net : Agrees(m.frame, entry[m.from], entry[Other(m.from)])
    BY <1>4, <2>2, <2>7, <2>8, Peers
  <2>10. Heard(entry[Initiator], OpenedCounters(Initiator, entry[Initiator].lastRemote.key))
    <3>1. OpenedCounters(Initiator, entry[Initiator].lastRemote.key) = {}
      BY <1>4, Peers DEF OpenedCounters
    <3> QED
      BY <2>2, <2>7, <3>1, NoneHeard
  <2>11. Heard(entry[Recipient], OpenedCounters(Recipient, entry[Recipient].lastRemote.key))
    <3>1. First.frame.id.key = y.lastRemote.key
      BY <2>2, <2>3, <2>4
    <3>2. {m \in opened[Recipient] : m.frame.id.key = entry[Recipient].lastRemote.key} = {First}
      BY <1>4, <2>7, <3>1, Peers
    <3>3. OpenedCounters(Recipient, entry[Recipient].lastRemote.key) = {0}
      BY <2>2, <3>2 DEF OpenedCounters
    <3>4. Heard(y, {0})
      BY <2>4, <2>5 DEF Heard
    <3> QED
      BY <2>7, <3>3, <3>4
  <2>12. \E p \in Peer : Leads(entry[p], entry[Other(p)])
    BY <2>6, <2>7, Peers
  <2> QED
    BY <2>9, <2>10, <2>11, <2>12 DEF Agreed, Peer
<1> QED
  BY <1>3, <1>4 DEF Init

LEMMA NextAgreed == IInv /\ Agreed /\ [Next]_vars => Agreed'
<1> SUFFICES ASSUME IInv, Agreed, [Next]_vars PROVE Agreed'
  OBVIOUS
<1>1. ASSUME NEW p \in Peer, Send(p) PROVE Agreed'
  BY <1>1, SentAgrees
<1>2. ASSUME NEW p \in Peer, NEW m \in net, Receive(p, m) PROVE Agreed'
  BY <1>2, ReceivedAgrees
<1>3. CASE UNCHANGED vars
  BY <1>3 DEF vars, Agreed, OpenedCounters
<1> QED
  BY <1>1, <1>2, <1>3 DEF Next

\* The furthest counter opened of a chain is where the chain is.
LEMMA TopHeard ==
  ASSUME NEW p, NEW k, NEW ch, InStep(ch), ChainHeard(ch, OpenedCounters(p, k))
  PROVE  Top(p, k) = ch.counter /\ ch.counter \in Int
<1>1. PICK S : S = OpenedCounters(p, k) \cup {-1}
  OBVIOUS
<1>2. ch.counter \in Int /\ ch.counter >= -1 /\ ch.counter \in S /\ S \subseteq Int /\ \A d \in S : d <= ch.counter
  BY <1>1 DEF InStep, ChainOK, ChainHeard
<1>3. Top(p, k) = CHOOSE c \in S : \A d \in S : d <= c
  BY <1>1 DEF Top
<1>4. PICK top : top = Top(p, k)
  OBVIOUS
<1>5. top \in S /\ \A d \in S : d <= top
  BY <1>2, <1>3, <1>4
<1>6. top \in Int /\ ch.counter <= top /\ top <= ch.counter
  BY <1>2, <1>5
<1> QED
  BY <1>2, <1>4, <1>6

LEMMA TopNone ==
  ASSUME NEW p, NEW k, OpenedCounters(p, k) = {}
  PROVE  Top(p, k) = -1
<1>1. Top(p, k) = CHOOSE c \in {-1} : \A d \in {-1} : d <= c
  BY DEF Top
<1>2. -1 \in {-1} /\ \A d \in {-1} : d <= -1
  OBVIOUS
<1> QED
  BY <1>1, <1>2

LEMMA Agreement == Spec => []Agreed
BY InitAgreed, NextAgreed, Invariant, PTL DEF Spec
-----------------------------------------------------------------------------
\* The entries, the opened frames and the random source stay what they are.
THEOREM TypeCorrect == Spec => []TypeOK
<1>1. IInv => TypeOK
  <2> SUFFICES ASSUME IInv PROVE TypeOK
    OBVIOUS
  <2>1. ASSUME NEW p \in Peer PROVE EntryOK(entry[p])
    <3>1. IsRatchet(entry[p])
      BY DEF IInv, EntriesInOrder
    <3> QED
      BY <3>1 DEF EntryOK, IsRatchet, InStep
  <2> QED
    BY <2>1 DEF IInv, TypeOK
<1> QED
  BY <1>1, Invariant, PTL

\* A ratchet step leaves no chain behind, and no chain a full store.
THEOREM LiveChainsOnly == Spec => []OnlyLiveChains
<1>1. IInv => OnlyLiveChains
  <2> SUFFICES ASSUME IInv, NEW p \in Peer, NEW e, e = entry[p]
               PROVE  /\ \A i \in DOMAIN e.chains :
                           /\ i.key = IF IsSending(e.chains[i]) THEN e.own.key ELSE e.lastRemote.key
                           /\ Cardinality(DOMAIN e.chains[i].kept) < MaxRetained
                      /\ \A i, j \in DOMAIN e.chains : i.key = j.key => i = j
    BY DEF OnlyLiveChains
  <2>1. IsRatchet(e)
    BY DEF IInv, EntriesInOrder
  <2>2. ASSUME NEW i \in DOMAIN e.chains
        PROVE  /\ i.key = IF IsSending(e.chains[i]) THEN e.own.key ELSE e.lastRemote.key
               /\ Cardinality(DOMAIN e.chains[i].kept) < MaxRetained
    <3>1. IsId(e.own) /\ IsId(e.lastRemote) /\ InStep(e.chains[i])
      BY <2>1, <2>2 DEF IsRatchet
    <3>2. Cardinality(DOMAIN e.chains[i].kept) < MaxRetained
      BY <3>1 DEF InStep
    <3>3. CASE SendsOn(e, i, e.chains[i])
      <4>1. IsSending(e.chains[i]) /\ i \in KeyIds(e.own)
        BY <3>3 DEF SendsOn
      <4>2. i.key = e.own.key
        BY <3>1, <4>1, IdKey
      <4> QED
        BY <3>2, <4>1, <4>2
    <3>4. CASE ReceivesOn(e, i, e.chains[i])
      <4>1. ~IsSending(e.chains[i]) /\ i \in KeyIds(e.lastRemote)
        BY <3>4, OneDirection DEF ReceivesOn
      <4>2. i.key = e.lastRemote.key
        BY <3>1, <4>1, IdKey
      <4> QED
        BY <3>2, <4>1, <4>2
    <3> QED
      BY <2>1, <2>2, <3>3, <3>4 DEF IsRatchet
  <2> QED
    BY <2>1, <2>2 DEF IsRatchet
<1> QED
  BY <1>1, Invariant, PTL

\* No message key encrypts twice, whatever was lost, reordered or delivered
\* again in between (ratchet.rs:536-545).
THEOREM KeysUsedOnce == Spec => []NoKeyReuse
<1>1. IInv => NoKeyReuse
  BY DEF IInv
<1> QED
  BY <1>1, Invariant, PTL

\* A frame that was opened never opens again, not even after its chain was
\* retired (ratchet.rs:331-338, 686-693).
THEOREM NothingReplays == Spec => []NoReplay
<1>1. IInv => NoReplay
  <2> SUFFICES ASSUME IInv, NEW p \in Peer, NEW m \in opened[p], Opens(entry[p], m.frame)
               PROVE  FALSE
    BY DEF NoReplay
  <2>1. m \in net /\ IsRatchet(entry[p]) /\ UsedUp(entry[p], m.frame.key)
    BY DEF IInv, EntriesInOrder, FramesOf
  <2>2. IsId(m.frame.id) /\ m.frame.counter \in Nat
    BY <2>1 DEF IInv, FrameInOrder
  <2> QED
    BY <2>1, <2>2, UsedNeverOpens
<1> QED
  BY <1>1, Invariant, PTL

\* However the earlier frames were lost or reordered, the next frame of an
\* endpoint opens at the other while it is in reach (ratchet.rs:331-453): the
\* two ends never drift apart.
THEOREM NextFramesOpen == Spec => []NextFrameOpens
<1>1. IInv /\ Agreed => NextFrameOpens
  <2> SUFFICES ASSUME IInv, Agreed, NEW p \in Peer, CanEncrypt(entry[p]), InReach(Other(p), Message(p))
               PROVE  Opens(entry[Other(p)], Message(p).frame)
    BY DEF NextFrameOpens
  <2>1. PICK e, q, r, f : e = entry[p] /\ q = Other(p) /\ r = entry[Other(p)] /\ f = Frame(entry[p])
    OBVIOUS
  <2>2. Message(p).frame = f
    BY <2>1 DEF Message
  <2>3. q \in Peer /\ Other(q) = p /\ q # p /\ IsRatchet(e) /\ IsRatchet(r) /\ CanEncrypt(e)
    BY <2>1, Peers DEF IInv, EntriesInOrder
  <2>4. /\ f = Frame(e) /\ f.id = Wire(e.own) /\ f.counter = NextCounter(e) /\ f.counter \in Nat
        /\ \E i \in DOMAIN e.chains : IsSending(e.chains[i]) /\ f.counter = e.chains[i].counter + 1
    BY <2>1, <2>3, NextFrame
  <2>5. f.id.key = e.own.key
    BY <2>4 DEF Wire, Id
  <2>6. /\ f.counter - Top(q, e.own.key) <= MaxSkip
        /\ OpenedCounters(q, e.own.key) = {} => f.previousCounter - Top(q, r.lastRemote.key) <= MaxSkip
    BY <2>1, <2>2, <2>5 DEF InReach
  <2>7. Heard(r, OpenedCounters(q, r.lastRemote.key))
    BY <2>1, <2>3 DEF Agreed
  <2>8. ASSUME NEW i \in DOMAIN r.chains, IsReceiving(r.chains[i])
        PROVE  /\ Top(q, r.lastRemote.key) = r.chains[i].counter /\ r.chains[i].counter \in Int
               /\ ~IsClosed(r.chains[i])
               /\ r.chains[i].counter \in OpenedCounters(q, r.lastRemote.key) \cup {-1}
    <3>1. PICK ch : ch = r.chains[i]
      OBVIOUS
    <3>2. InStep(ch) /\ IsRoot(ch.key.seed) /\ ChainHeard(ch, OpenedCounters(q, r.lastRemote.key))
      BY <2>3, <2>7, <2>8, <3>1, OneDirection DEF Heard, IsRatchet, SendsOn, ReceivesOn
    <3>3. Top(q, r.lastRemote.key) = ch.counter /\ ch.counter \in Int
      BY <3>2, TopHeard
    <3> QED
      BY <3>1, <3>2, <3>3 DEF IsClosed, NoSeed, IsRoot, ChainHeard
\* What the other has opened of this one's frames.
  <2>9. ASSUME NEW x \in opened[q]
        PROVE  /\ Agrees(x.frame, e, r) /\ UsedUp(r, x.frame.key) /\ x.frame.counter \in Nat
               /\ \A i \in DOMAIN e.chains : IsSending(e.chains[i]) /\ x.frame.key.seed = e.root
                    => x.frame.counter <= e.chains[i].counter
    <3>1. x \in net /\ x.from = p /\ UsedUp(r, x.frame.key)
      BY <2>1, <2>3 DEF IInv, FramesOf
    <3>2. FrameInOrder(x) /\ Agrees(x.frame, e, r)
      BY <2>1, <3>1 DEF IInv, Agreed
    <3> QED
      BY <2>1, <3>1, <3>2 DEF FrameInOrder, Agrees
  <2>10. CASE Leads(e, r)
    <3>1. Len(e.root) = Len(r.root) + 1 /\ Len(r.root) \in Nat
      BY <2>3, <2>10, Derived, SteppedRoots DEF Leads, IsRatchet
    <3>2. ASSUME NEW x \in opened[q] PROVE x.frame.id.key # e.own.key
      <4>1. x.frame.id.key = e.own.key => x.frame.key.seed = e.root
        BY <2>9 DEF Agrees
      <4>2. Len(x.frame.key.seed) <= Len(r.root)
        BY <2>9 DEF UsedUp
      <4> QED
        BY <3>1, <4>1, <4>2
    <3>3. OpenedCounters(q, e.own.key) = {}
      BY <3>2 DEF OpenedCounters
    <3>4. f.counter < MaxSkip
      <4>1. Top(q, e.own.key) = -1
        BY <3>3, TopNone
      <4> QED
        BY <2>4, <2>6, <4>1, ChainAssumption
    <3>5. ASSUME NEW i \in DOMAIN r.chains, IsReceiving(r.chains[i]) PROVE ~Refuses(r.chains[i], f.previousCounter)
      <4>1. f.previousCounter = e.previousCounter /\ e.previousCounter \in Int
        BY <2>3, <2>4, RatchetAssumption DEF Frame, IsRatchet
      <4> QED
        BY <2>6, <2>8, <3>3, <3>5, <4>1, ChainAssumption DEF Refuses
    <3>6. Opens(r, f)
      BY <2>3, <2>4, <2>10, <3>4, <3>5, LeaderHeard
    <3> QED
      BY <2>1, <2>2, <3>6
  <2>11. CASE Leads(r, e)
    <3>1. r.lastRemote.key = e.own.key
      BY <2>11 DEF Leads
    <3>2. ASSUME NEW i \in DOMAIN r.chains, IsReceiving(r.chains[i])
          PROVE  f.counter > r.chains[i].counter /\ f.counter - r.chains[i].counter <= MaxSkip
      <4>1. f.counter - r.chains[i].counter <= MaxSkip
        BY <2>6, <2>8, <3>1, <3>2
      <4>2. CASE r.chains[i].counter = -1
        BY <2>4, <4>1, <4>2
      <4>3. CASE r.chains[i].counter \in OpenedCounters(q, e.own.key)
        <5>1. PICK x \in opened[q] : x.frame.id.key = e.own.key /\ x.frame.counter = r.chains[i].counter
          BY <4>3 DEF OpenedCounters
        <5>2. x.frame.key.seed = e.root
          BY <2>9, <5>1 DEF Agrees
        <5>3. PICK j \in DOMAIN e.chains : IsSending(e.chains[j]) /\ f.counter = e.chains[j].counter + 1
          BY <2>4
        <5>4. x.frame.counter <= e.chains[j].counter /\ e.chains[j].counter \in Int
          BY <2>3, <2>9, <5>2, <5>3 DEF IsRatchet, InStep, ChainOK
        <5> QED
          BY <2>8, <3>2, <4>1, <5>1, <5>3, <5>4
      <4> QED
        BY <2>8, <3>1, <3>2, <4>2, <4>3
    <3>3. Opens(r, f)
      BY <2>3, <2>4, <2>11, <3>2, LeaderHears
    <3> QED
      BY <2>1, <2>2, <3>3
  <2>12. Leads(e, r) \/ Leads(r, e)
    <3>1. PICK l \in Peer : Leads(entry[l], entry[Other(l)])
      BY DEF Agreed
    <3>2. l = p \/ l = q
      BY <2>1, Peers
    <3> QED
      BY <2>1, <2>3, <3>1, <3>2
  <2> QED
    BY <2>10, <2>11, <2>12
<1> QED
  BY <1>1, Invariant, Agreement, PTL

\* A frame that was overtaken opens when it arrives, unless its epoch is over
\* or MaxRetained or more overtook it (ratchet.rs:204-210, 252-276).
THEOREM OvertakenFramesOpen == Spec => []OvertakenFrameOpens
<1>1. IInv /\ Agreed => OvertakenFrameOpens
  <2> SUFFICES ASSUME IInv, Agreed, NEW p \in Peer, NEW m \in FramesOf(Other(p)) \ opened[p],
                      NEW e, e = entry[p], NEW n, n = m.frame.counter,
                      m.frame.id.key = e.lastRemote.key,
                      n < Top(p, e.lastRemote.key), Top(p, e.lastRemote.key) - n < MaxRetained
               PROVE  Opens(e, m.frame)
    BY DEF OvertakenFrameOpens
  <2>1. PICK S : S = OpenedCounters(p, e.lastRemote.key)
    OBVIOUS
  <2>2. m \in net /\ m.from = Other(p) /\ Other(p) \in Peer /\ Other(Other(p)) = p /\ IsRatchet(e) /\ Heard(e, S)
    BY <2>1, Peers DEF FramesOf, IInv, EntriesInOrder, Agreed
  <2>3. ASSUME NEW x \in net, x.from = Other(p)
        PROVE  FrameInOrder(x) /\ Agrees(x.frame, entry[Other(p)], e)
    BY <2>2, <2>3 DEF IInv, Agreed
  <2>4. IsId(m.frame.id) /\ n \in Nat /\ m.frame.id.form = "wire" /\ IsMessageKey(m.frame.key) /\ m.frame.key.step = n
    BY <2>2, <2>3 DEF FrameInOrder, Agrees
  <2>5. S # {}
    <3> SUFFICES ASSUME S = {} PROVE FALSE
      OBVIOUS
    <3>1. Top(p, e.lastRemote.key) = -1
      BY <2>1, TopNone
    <3> QED
      BY <2>4, <3>1
  <2>6. PICK i \in DOMAIN e.chains : IsReceiving(e.chains[i])
    BY <2>2, <2>5 DEF Heard
  <2>7. PICK ch : ch = e.chains[i]
    OBVIOUS
  <2>8. /\ IsReceiving(ch) /\ ChainHeard(ch, S) /\ InStep(ch) /\ i.key = e.lastRemote.key
        /\ \A x \in net : x.from = Other(p) /\ x.frame.id.key = e.lastRemote.key => x.frame.key.seed = ch.key.seed
    <3>1. InStep(ch) /\ i \in KeyIds(e.lastRemote)
      BY <2>2, <2>6, <2>7, OneDirection DEF IsRatchet, SendsOn, ReceivesOn
    <3>2. i.key = e.lastRemote.key
      BY <2>2, <3>1, IdKey DEF IsRatchet
    <3> QED
      BY <2>2, <2>3, <2>6, <2>7, <3>1, <3>2 DEF Heard, Agrees
  <2>9. Top(p, e.lastRemote.key) = ch.counter /\ ch.counter \in Int
    BY <2>1, <2>8, TopHeard
  <2>10. n <= ch.counter /\ n \in 0..ch.counter /\ ch.counter - n < MaxRetained
    BY <2>4, <2>9
\* Another frame of that counter would be under the same key.
  <2>11. n \notin S
    <3> SUFFICES ASSUME n \in S PROVE FALSE
      OBVIOUS
    <3>1. PICK x \in opened[p] : x.frame.id.key = e.lastRemote.key /\ x.frame.counter = n
      BY <2>1 DEF OpenedCounters
    <3>2. x \in net /\ x.from = Other(p)
      BY DEF IInv, FramesOf
    <3>3. x.frame.key.step = n /\ IsKey(x.frame.key) /\ x.frame.key.seed = ch.key.seed
      BY <2>3, <2>8, <3>1, <3>2 DEF Agrees, FrameInOrder, IsMessageKey
    <3>4. IsKey(m.frame.key) /\ m.frame.key.seed = ch.key.seed /\ m.frame.key.step = n
      BY <2>2, <2>4, <2>8 DEF IsMessageKey
    <3>5. x.frame.key = m.frame.key
      BY <3>3, <3>4 DEF IsKey
    <3> QED
      BY <2>2, <3>2, <3>5 DEF IInv, NoKeyReuse
  <2>12. n \in DOMAIN ch.kept
    BY <2>8, <2>10, <2>11 DEF ChainHeard
  <2>13. HasKey(ch, n)
    BY <2>4, <2>9, <2>10, <2>12 DEF HasKey, Refuses
  <2>14. PeekMessageKey(ch, n) = m.frame.key
    <3>1. PeekMessageKey(ch, n) = [seed |-> ch.key.seed, step |-> n]
      BY <2>4, <2>8, <2>13, PeekInStep
    <3> QED
      BY <2>2, <2>4, <2>8, <3>1 DEF IsMessageKey, IsKey
  <2>15. ~StepNeeded(e, m.frame.id) /\ ReceivingChain(e, m.frame.id) = ch
    BY <2>2, <2>4, <2>6, <2>7, <2>8, NamedByWire
  <2> QED
    BY <2>8, <2>13, <2>14, <2>15 DEF Opens
<1> QED
  BY <1>1, Invariant, Agreement, PTL
================================================================================
