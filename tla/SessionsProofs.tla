--------------------------- MODULE SessionsProofs ---------------------------
(***************************************************************************)
(* Theorems about Sessions and Archive, for any clock, any number of        *)
(* sessions and messages, and any size of the archive.                      *)
(***************************************************************************)
EXTENDS Sessions, RatchetLemmas

IsEntry(e) ==
  /\ e = [ratchet |-> e.ratchet, closed |-> e.closed, used |-> e.used]
  /\ e.closed \in Nat \cup {-1}
  /\ e.used \in Nat

IsRecord(r) ==
  /\ r = [b \in DOMAIN r |-> r[b]]
  /\ IsFiniteSet(DOMAIN r)
  /\ \A b \in DOMAIN r : IsEntry(r[b])

InOrder(r) ==
  /\ Cardinality(OpenKeys(r)) = 1
  /\ Cardinality(ArchivedKeys(r)) <= MaxArchived

Typed == record = [p \in Party |-> record[p]] /\ \A p \in Party : IsRecord(record[p])

IInv == Typed /\ OneOpenEntry

\* An entry that was just built is open.
LEMMA EntryIsOpen ==
  ASSUME NEW ratchet, NEW now \in Nat
  PROVE  IsEntry(Entry(ratchet, now)) /\ IsOpen(Entry(ratchet, now))
BY DEF IsEntry, Entry, IsOpen

\* A record of one open entry is in order.
LEMMA OnlyInOrder ==
  ASSUME NEW base, NEW e, IsEntry(e), IsOpen(e)
  PROVE  IsRecord(Only(base, e)) /\ InOrder(Only(base, e))
<1>1. DOMAIN Only(base, e) = {base} /\ Only(base, e)[base] = e
  BY DEF Only
<1>2. OpenKeys(Only(base, e)) = {base} /\ ArchivedKeys(Only(base, e)) = {}
  BY <1>1 DEF OpenKeys, ArchivedKeys
<1>3. IsRecord(Only(base, e))
  BY <1>1, FS_Singleton DEF IsRecord, Only
<1>4. Cardinality({base}) = 1 /\ Cardinality({}) = 0
  BY FS_Singleton, FS_EmptySet
<1>5. InOrder(Only(base, e))
  BY <1>2, <1>4, ArchiveAssumption DEF InOrder
<1> QED
  BY <1>3, <1>5

\* A new ratchet leaves an entry open or archived as it was.
LEMMA NewRatchetInOrder ==
  ASSUME NEW r, IsRecord(r), InOrder(r), NEW b \in DOMAIN r, NEW ratchet
  PROVE  /\ IsRecord([r EXCEPT ![b].ratchet = ratchet])
         /\ InOrder([r EXCEPT ![b].ratchet = ratchet])
<1> DEFINE s == [r EXCEPT ![b].ratchet = ratchet]
<1>1. DOMAIN s = DOMAIN r /\ s = [c \in DOMAIN s |-> s[c]]
  BY DEF IsRecord
<1>2. \A c \in DOMAIN r : IsEntry(s[c]) /\ s[c].closed = r[c].closed
  <2> TAKE c \in DOMAIN r
  <2>1. s[c] = IF c = b THEN [r[b] EXCEPT !.ratchet = ratchet] ELSE r[c]
    BY DEF IsRecord
  <2>2. IsEntry(r[c])
    BY DEF IsRecord
  <2> QED
    BY <2>1, <2>2 DEF IsEntry
<1>3. OpenKeys(s) = OpenKeys(r)
  BY <1>1, <1>2 DEF OpenKeys, IsOpen
<1>4. ArchivedKeys(s) = ArchivedKeys(r)
  BY <1>1, <1>3 DEF ArchivedKeys
<1>5. IsRecord(s)
  BY <1>1, <1>2 DEF IsRecord
<1> QED
  BY <1>3, <1>4, <1>5 DEF InOrder

\* Closing leaves nothing open, whatever the clock says.
LEMMA ArchivedIsClosed ==
  ASSUME NEW r, IsRecord(r), NEW now \in Nat
  PROVE  IsRecord(Archived(r, now)) /\ OpenKeys(Archived(r, now)) = {}
<1>1. DOMAIN Archived(r, now) = DOMAIN r
  BY DEF Archived
<1>2. \A b \in DOMAIN r : IsEntry(Archived(r, now)[b]) /\ ~IsOpen(Archived(r, now)[b])
  BY DEF Archived, IsRecord, IsEntry, IsOpen
<1>3. IsRecord(Archived(r, now))
  BY <1>1, <1>2 DEF IsRecord, Archived
<1> QED
  BY <1>1, <1>2, <1>3 DEF OpenKeys

\* What archiveAndMerge leaves is in order, and the new entry is the open one.
LEMMA MergedInOrder ==
  ASSUME NEW r, IsRecord(r), NEW base, NEW e, IsEntry(e), IsOpen(e), NEW now \in Nat,
         NEW s \in ArchiveAndMerge(r, base, e, now)
  PROVE  IsRecord(s) /\ InOrder(s) /\ OpenKeys(s) = {base}
<1> DEFINE old == Archived(r, now)
           merged == Merged(old, base, e)
<1>1. IsRecord(old) /\ OpenKeys(old) = {}
  BY ArchivedIsClosed
<1>2. DOMAIN merged = DOMAIN old \cup {base}
  BY DEF Merged
<1>3. IsRecord(merged)
  <2>1. IsFiniteSet(DOMAIN merged)
    BY <1>1, <1>2, FS_AddElement DEF IsRecord
  <2>2. \A b \in DOMAIN merged : IsEntry(merged[b])
    BY <1>1 DEF Merged, IsRecord
  <2> QED
    BY <2>1, <2>2 DEF IsRecord, Merged
<1>4. OpenKeys(merged) = {base}
  BY <1>1 DEF Merged, OpenKeys
<1>5. PICK S \in MayStay(merged) : s = Restrict(merged, OpenKeys(merged) \cup S)
  BY DEF ArchiveAndMerge
<1>6. S \subseteq ArchivedKeys(merged) /\ Cardinality(S) <= MaxArchived
  <2>1. IsFiniteSet(ArchivedKeys(merged))
    BY <1>3, FS_Subset DEF ArchivedKeys, IsRecord
  <2>2. Cardinality(ArchivedKeys(merged)) \in Nat
    BY <2>1, FS_CardinalityType
  <2> QED
    BY <2>2, ArchiveAssumption DEF MayStay
<1>7. DOMAIN s = {base} \cup S /\ \A b \in {base} \cup S : s[b] = merged[b]
  BY <1>4, <1>5 DEF Restrict
<1>8. {base} \cup S \subseteq DOMAIN merged
  BY <1>2, <1>6 DEF ArchivedKeys
<1>9. OpenKeys(s) = {base} /\ ArchivedKeys(s) = S
  BY <1>4, <1>6, <1>7, <1>8 DEF OpenKeys, ArchivedKeys
<1>10. IsRecord(s)
  <2>1. IsFiniteSet(DOMAIN s)
    BY <1>3, <1>7, <1>8, FS_Subset DEF IsRecord
  <2>2. s = [b \in DOMAIN s |-> s[b]]
    BY <1>5 DEF Restrict
  <2> QED
    BY <1>3, <1>7, <1>8, <2>1, <2>2 DEF IsRecord
<1> QED
  BY <1>6, <1>9, <1>10, FS_Singleton DEF InOrder

LEMMA InitRecords == Init => IInv
<1> SUFFICES ASSUME Init
             PROVE  IInv
  OBVIOUS
<1>1. CASE ~Migrated
  <2>1. record = [p \in Party |-> <<>>]
    BY <1>1 DEF Init
  <2>2. DOMAIN <<>> = {}
    OBVIOUS
  <2>3. IsRecord(<<>>)
    BY <2>2, FS_EmptySet DEF IsRecord
  <2> QED
    BY <2>1, <2>3 DEF IInv, Typed, OneOpenEntry
<1>2. CASE Migrated
  <2>1. PICK a \in Party, now \in Time :
          \E base, x, y : record = [p \in Party |-> IF p = a THEN Only(base, Entry(x, now))
                                                    ELSE Only(Wire(base), Entry(y, now))]
    BY <1>2 DEF Init
  <2>2. PICK base, x, y : record = [p \in Party |-> IF p = a THEN Only(base, Entry(x, now))
                                                    ELSE Only(Wire(base), Entry(y, now))]
    BY <2>1
  <2>3. now \in Nat
    BY SessionsAssumption
  <2>4. \A b, z : IsRecord(Only(b, Entry(z, now))) /\ InOrder(Only(b, Entry(z, now)))
    BY <2>3, EntryIsOpen, OnlyInOrder
  <2>5. \A p \in Party : IsRecord(record[p]) /\ InOrder(record[p])
    BY <2>2, <2>4
  <2> QED
    BY <2>2, <2>5 DEF IInv, Typed, OneOpenEntry, InOrder
<1> QED
  BY <1>1, <1>2

\* The record of one party is replaced by one that is in order.
LEMMA OneRecordChanges ==
  ASSUME IInv, NEW p \in Party, NEW r, IsRecord(r), InOrder(r),
         record' = [record EXCEPT ![p] = r]
  PROVE  IInv'
<1>1. record' = [q \in Party |-> IF q = p THEN r ELSE record[q]]
  BY DEF IInv, Typed
<1>2. \A q \in Party : record'[q] = IF q = p THEN r ELSE record[q]
  BY <1>1
<1>3. Typed'
  BY <1>1, <1>2 DEF IInv, Typed
<1>4. OneOpenEntry'
  BY <1>2 DEF IInv, OneOpenEntry, InOrder
<1> QED
  BY <1>3, <1>4 DEF IInv

LEMMA InitOutgoingKeeps == ASSUME IInv, NEW p \in Party, InitOutgoing(p) PROVE IInv'
<1>1. PICK now \in Time : record' = [record EXCEPT ![p] = Only(BaseKey(inits + 1), InitialEntry(p, BaseKey(inits + 1), now))]
  BY DEF InitOutgoing
<1>2. now \in Nat
  BY SessionsAssumption
<1>3. IsEntry(InitialEntry(p, BaseKey(inits + 1), now)) /\ IsOpen(InitialEntry(p, BaseKey(inits + 1), now))
  BY <1>2, EntryIsOpen DEF InitialEntry
<1> QED
  BY <1>1, <1>3, OnlyInOrder, OneRecordChanges

LEMMA SendKeeps == ASSUME IInv, NEW p \in Party, Send(p) PROVE IInv'
<1>1. PICK b \in Foremost(record[p]) : record' = [record EXCEPT ![p][b].ratchet = Encrypted(@)]
  BY DEF Send
<1>2. b \in DOMAIN record[p] /\ IsRecord(record[p]) /\ InOrder(record[p])
  <2>1. b \in DOMAIN record[p]
    BY DEF Foremost
  <2>2. record[p] # <<>>
    BY <2>1
  <2> QED
    BY <2>1, <2>2 DEF IInv, Typed, OneOpenEntry, InOrder
<1>3. PICK x : record' = [record EXCEPT ![p] = [record[p] EXCEPT ![b].ratchet = x]]
  BY <1>1, <1>2 DEF IInv, Typed
<1>4. PICK r : r = [record[p] EXCEPT ![b].ratchet = x]
  OBVIOUS
<1>5. IsRecord(r) /\ InOrder(r)
  BY <1>2, <1>4, NewRatchetInOrder
<1>6. record' = [record EXCEPT ![p] = r]
  BY <1>3, <1>4
<1> QED
  BY <1>5, <1>6, OneRecordChanges

\* What a receive does, on the candidate it settles on.
ReceivesUnder(p, m, r, b) ==
  /\ m.from # p /\ Opens(r[b].ratchet, m.frame)
  /\ record' = [record EXCEPT ![p] = [r EXCEPT ![b].ratchet = Decrypted(@, m.frame, RatchetKey(steps + 1))]]
  /\ steps' = IF StepNeeded(r[b].ratchet, m.frame.id) THEN steps + 1 ELSE steps
  /\ opened' = [opened EXCEPT ![p] = {x \in @ \cup {m} : \E c \in DOMAIN r : Bare(c) = x.session}]
  /\ net' = net /\ inits' = inits

LEMMA ReceiveKeeps == ASSUME IInv, NEW p \in Party, NEW m \in net, Receive(p, m) PROVE IInv'
<1>0. PICK now \in Time : \E r \in Candidates(p, record[p], m, now) : \E b \in DOMAIN r : ReceivesUnder(p, m, r, b)
  BY DEF Receive, Accepted, ReceivesUnder
<1>1. PICK r \in Candidates(p, record[p], m, now) : \E b \in DOMAIN r :
        record' = [record EXCEPT ![p] = [r EXCEPT ![b].ratchet = Decrypted(@, m.frame, RatchetKey(steps + 1))]]
  <2>1. PICK r \in Candidates(p, record[p], m, now) : \E b \in DOMAIN r : ReceivesUnder(p, m, r, b)
    BY <1>0
  <2> QED
    BY <2>1 DEF ReceivesUnder
<1>2. now \in Nat /\ IsRecord(record[p])
  BY SessionsAssumption DEF IInv, Typed
<1>3. IsRecord(r) /\ InOrder(r)
  <2> DEFINE e == RecipientEntry(p, Bare(m.base), now)
  <2>1. IsEntry(e) /\ IsOpen(e)
    BY <1>2, EntryIsOpen DEF RecipientEntry
  <2>2. CASE ~Builds(record[p], m)
    <3>1. r = record[p]
      BY <2>2 DEF Candidates
    <3>2. DOMAIN r # {}
      BY <1>1
    <3>3. record[p] # <<>>
      BY <3>1, <3>2
    <3> QED
      BY <1>2, <3>1, <3>3 DEF IInv, OneOpenEntry, InOrder
  <2>3. CASE Builds(record[p], m) /\ record[p] = <<>>
    <3>1. r = Only(Bare(m.base), e)
      BY <2>3 DEF Candidates
    <3> QED
      BY <2>1, <3>1, OnlyInOrder
  <2>4. CASE Builds(record[p], m) /\ record[p] # <<>>
    <3>1. r \in ArchiveAndMerge(record[p], Bare(m.base), e, now)
      BY <2>4 DEF Candidates
    <3> HIDE DEF e
    <3> QED
      BY <1>2, <2>1, <3>1, MergedInOrder
  <2> QED
    BY <2>2, <2>3, <2>4
<1>4. PICK b \in DOMAIN r :
        record' = [record EXCEPT ![p] = [r EXCEPT ![b].ratchet = Decrypted(@, m.frame, RatchetKey(steps + 1))]]
  BY <1>1
<1>5. PICK x : record' = [record EXCEPT ![p] = [r EXCEPT ![b].ratchet = x]]
  BY <1>4
<1>6. IsRecord([r EXCEPT ![b].ratchet = x]) /\ InOrder([r EXCEPT ![b].ratchet = x])
  BY <1>3, NewRatchetInOrder
<1> QED
  BY <1>5, <1>6, OneRecordChanges

\* A stored record has exactly one open entry and no more archived ones than it
\* may keep, whatever the clock returns at each build and however often the
\* parties start over (session-cipher.js:149-178).
THEOREM OneIsOpen == Spec => []OneOpenEntry
<1>1. Init => IInv
  BY InitRecords
<1>2. IInv /\ [Next]_vars => IInv'
  <2> SUFFICES ASSUME IInv, [Next]_vars
               PROVE  IInv'
    OBVIOUS
  <2>1. CASE \E p \in Party : InitOutgoing(p)
    BY <2>1, InitOutgoingKeeps
  <2>2. CASE \E p \in Party : Send(p)
    BY <2>2, SendKeeps
  <2>3. CASE \E p \in Party : \E m \in net : Receive(p, m)
    BY <2>3, ReceiveKeeps
  <2>4. CASE UNCHANGED vars
    BY <2>4 DEF vars, IInv, Typed, OneOpenEntry
  <2> QED
    BY <2>1, <2>2, <2>3, <2>4 DEF Next
<1>3. IInv => OneOpenEntry
  BY DEF IInv
<1> QED
  BY <1>1, <1>2, <1>3, PTL DEF Spec
-----------------------------------------------------------------------------
(* Which session an entry or a message is of *)

\* The keys drawn so far; a signed prekey is never one that a message names.
InUse(key) ==
  \/ \E n \in 1..inits : key = BaseKey(n).key
  \/ \E n \in 1..steps : key = RatchetKey(n)

Named(b) == \E n \in 1..inits : b = BaseKey(n)

\* A root key is of the session whose base key is in its third agreement.
IsOf(root, b) == \E x \in Party : root[1][3] = {b.key, SignedKey(x).key}

EntryFits(b, e) ==
  Named(b) /\ IsRatchet(e.ratchet) /\ InUse(e.ratchet.own.key) /\ IsOf(e.ratchet.root, b)

MessageFits(m) ==
  /\ m.from \in Party /\ Named(m.session) /\ m.base = Wire(m.session)
  /\ IsId(m.frame.id) /\ InUse(m.frame.id.key) /\ m.frame.counter \in Nat
  /\ IsMessageKey(m.frame.key) /\ IsOf(m.frame.key.seed, m.session)

\* No party holds a key that the other one names or holds.
Apart ==
  \A p \in Party, q \in Party : p # q =>
    \A b \in DOMAIN record[p] :
      /\ \A c \in DOMAIN record[q] : record[q][c].ratchet.own.key # record[p][b].ratchet.own.key
      /\ \A m \in net : m.from = q => m.frame.id.key # record[p][b].ratchet.own.key

OpenedFits(p, m) ==
  m \in net /\ m.session \in DOMAIN record[p] /\ UsedUp(record[p][m.session].ratchet, m.frame.key)

HInv ==
  /\ IInv /\ inits \in Nat /\ steps \in Nat
  /\ \A p \in Party : \A b \in DOMAIN record[p] : EntryFits(b, record[p][b])
  /\ \A m \in net : MessageFits(m)
  /\ Apart
  /\ opened = [p \in Party |-> opened[p]]
  /\ \A p \in Party : \A m \in opened[p] : OpenedFits(p, m)

LEMMA KeysDiffer ==
  /\ \A n, k : BaseKey(n) = BaseKey(k) => n = k
  /\ \A n, k : BaseKey(n).key = BaseKey(k).key => n = k
  /\ \A n, k : RatchetKey(n) = RatchetKey(k) => n = k
  /\ \A n, k : BaseKey(n).key # RatchetKey(k)
  /\ \A n, p : BaseKey(n).key # SignedKey(p).key
  /\ \A n, p : RatchetKey(n) # SignedKey(p).key
  /\ \A n : Bare(BaseKey(n)) = BaseKey(n) /\ Bare(Wire(BaseKey(n))) = BaseKey(n) /\ IsId(BaseKey(n))
  /\ \A p : Bare(SignedKey(p)) = SignedKey(p)
BY DEF BaseKey, RatchetKey, SignedKey, Id, Bare, Wire, IsId

\* A root is of one session only.
LEMMA OneSession ==
  ASSUME NEW root, NEW b, Named(b), IsOf(root, b), NEW c, Named(c), IsOf(root, c)
  PROVE  b = c
<1>1. PICK n \in 1..inits : b = BaseKey(n)
  BY DEF Named
<1>2. PICK k \in 1..inits : c = BaseKey(k)
  BY DEF Named
<1>3. PICK x \in Party, y \in Party : {b.key, SignedKey(x).key} = {c.key, SignedKey(y).key}
  BY DEF IsOf
<1>4. b.key # SignedKey(y).key
  BY <1>1, KeysDiffer
<1>5. b.key = c.key
  BY <1>3, <1>4
<1> QED
  BY <1>1, <1>2, <1>5, KeysDiffer

LEMMA TheOther ==
  ASSUME NEW p \in Party
  PROVE  /\ Other(p) \in Party /\ Other(p) # p
         /\ \A q \in Party : q # p => q = Other(p)
<1>1. IsFiniteSet(Party \ {p}) /\ Cardinality(Party \ {p}) = 1
  BY FS_RemoveElement, SessionsAssumption
<1>2. \E q \in Party : q # p
  <2>1. Party \ {p} # {}
    BY <1>1, FS_EmptySet
  <2> QED
    BY <2>1
<1>3. Other(p) \in Party /\ Other(p) # p
  BY <1>2 DEF Other
<1>4. Cardinality((Party \ {p}) \ {Other(p)}) = 0 /\ IsFiniteSet((Party \ {p}) \ {Other(p)})
  BY <1>1, <1>3, FS_RemoveElement
<1>5. (Party \ {p}) \ {Other(p)} = {}
  BY <1>4, FS_EmptySet
<1> QED
  BY <1>3, <1>5

\* What either party derives of a base key is of its session.
LEMMA BuiltFits ==
  ASSUME NEW p \in Party, NEW n, NEW now
  PROVE  /\ Initiates(InitialEntry(p, BaseKey(n), now).ratchet, BaseKey(n), SignedKey(Other(p)),
                      InitialSecret(IdentityKey(p), BaseKey(n), IdentityKey(Other(p)), SignedKey(Other(p)), NoKey))
         /\ Responds(RecipientEntry(p, BaseKey(n), now).ratchet, BaseKey(n), SignedKey(p),
                    RecipientSecret(IdentityKey(p), SignedKey(p), NoKey, IdentityKey(Other(p)), BaseKey(n)))
         /\ IsOf(InitialEntry(p, BaseKey(n), now).ratchet.root, BaseKey(n))
         /\ IsOf(RecipientEntry(p, BaseKey(n), now).ratchet.root, BaseKey(n))
<1> DEFINE q == Other(p)
           b == BaseKey(n)
           sent == InitialSecret(IdentityKey(p), b, IdentityKey(q), SignedKey(q), NoKey)
           made == RecipientSecret(IdentityKey(p), SignedKey(p), NoKey, IdentityKey(q), b)
           x == InitialEntry(p, b, now).ratchet
           y == RecipientEntry(p, b, now).ratchet
<1>1. q \in Party /\ p \in Party
  BY TheOther
<1>2. sent[3] = {b.key, SignedKey(q).key} /\ made[3] = {b.key, SignedKey(p).key}
  <2>1. sent[3] = DH(b, SignedKey(q)) /\ made[3] = DH(SignedKey(p), b)
    BY DEF InitialSecret, RecipientSecret, WithPreKey
  <2> QED
    BY <2>1 DEF DH
<1>3. b.key # SignedKey(q).key /\ b.key # SignedKey(p).key
  BY KeysDiffer
<1>4. /\ x = InitialSession(IdentityKey(p), b, IdentityKey(q), SignedKey(q), NoKey)
      /\ y = RecipientSession(IdentityKey(p), SignedKey(p), NoKey, IdentityKey(q), b)
  BY DEF InitialEntry, RecipientEntry, Entry
<1> HIDE DEF q, b, x, y
<1>5. Initiates(x, b, SignedKey(q), sent)
  BY <1>3, <1>4, InitialInOrder
<1>6. Responds(y, b, SignedKey(p), made)
  BY <1>3, <1>4, RecipientInOrder
<1> HIDE DEF sent, made
<1>7. IsOf(x.root, b) /\ IsOf(y.root, b)
  BY <1>1, <1>2, <1>5, <1>6 DEF IsOf, Initiates, Responds
<1> QED
  BY <1>5, <1>6, <1>7 DEF q, b, x, y, sent, made

\* A key stays in use, and what fits goes on fitting.
LEMMA Grows ==
  ASSUME HInv, inits' \in Nat, steps' \in Nat, inits <= inits', steps <= steps'
  PROVE  /\ \A key : InUse(key) => InUse(key)'
         /\ \A b, e : EntryFits(b, e) => EntryFits(b, e)'
         /\ \A m : MessageFits(m) => MessageFits(m)'
<1>1. 1..inits \subseteq 1..inits' /\ 1..steps \subseteq 1..steps'
  BY DEF HInv
<1>2. ASSUME NEW key, InUse(key) PROVE InUse(key)'
  BY <1>1, <1>2 DEF InUse
<1>3. ASSUME NEW b, Named(b) PROVE Named(b)'
  BY <1>1, <1>3 DEF Named
<1>4. ASSUME NEW b, NEW e, EntryFits(b, e) PROVE EntryFits(b, e)'
  BY <1>2, <1>3, <1>4 DEF EntryFits, IsOf
<1>5. ASSUME NEW m, MessageFits(m) PROVE MessageFits(m)'
  BY <1>2, <1>3, <1>5 DEF MessageFits, IsOf
<1> QED
  BY <1>2, <1>4, <1>5

\* What was not drawn yet.
LEMMA Fresh ==
  ASSUME HInv
  PROVE  ~InUse(BaseKey(inits + 1).key) /\ ~InUse(RatchetKey(steps + 1))
<1>1. inits + 1 \notin 1..inits /\ steps + 1 \notin 1..steps
  BY DEF HInv
<1> QED
  BY <1>1, KeysDiffer DEF InUse

\* The keys stay apart when a party holds its own or new ones, and names its own.
LEMMA ApartStays ==
  ASSUME HInv, NEW p \in Party, NEW r, record' = [record EXCEPT ![p] = r],
         \A b \in DOMAIN r :
           \/ \E c \in DOMAIN record[p] : r[b].ratchet.own.key = record[p][c].ratchet.own.key
           \/ ~InUse(r[b].ratchet.own.key),
         \A m \in net' :
           \/ m \in net
           \/ m.from = p /\ \E c \in DOMAIN record[p] : m.frame.id.key = record[p][c].ratchet.own.key
  PROVE  Apart'
<1>1. record'[p] = r /\ \A q \in Party : q # p => record'[q] = record[q]
  BY DEF HInv, IInv, Typed
<1>2. /\ \A q \in Party : \A b \in DOMAIN record[q] : InUse(record[q][b].ratchet.own.key)
      /\ \A m \in net : InUse(m.frame.id.key)
  BY DEF HInv, EntryFits, MessageFits
<1>3. Apart
  BY DEF HInv
<1> SUFFICES ASSUME NEW p1 \in Party, NEW q1 \in Party, p1 # q1, NEW b \in DOMAIN record'[p1]
             PROVE  /\ \A c \in DOMAIN record'[q1] : record'[q1][c].ratchet.own.key # record'[p1][b].ratchet.own.key
                    /\ \A m \in net' : m.from = q1 => m.frame.id.key # record'[p1][b].ratchet.own.key
  BY DEF Apart
<1>4. CASE p1 = p
  <2>1. record'[p1] = r /\ record'[q1] = record[q1] /\ \A m \in net' : m.from = q1 => m \in net
    BY <1>1, <1>4
  <2> QED
    BY <1>2, <1>3, <1>4, <2>1 DEF Apart
<1>5. CASE q1 = p
  <2>1. record'[p1] = record[p1] /\ record'[q1] = r
    BY <1>1, <1>5
  <2>2. ASSUME NEW c \in DOMAIN r PROVE r[c].ratchet.own.key # record[p1][b].ratchet.own.key
    BY <1>2, <1>3, <1>5, <2>1 DEF Apart
  <2>3. ASSUME NEW m \in net', m.from = q1 PROVE m.frame.id.key # record[p1][b].ratchet.own.key
    BY <1>3, <1>5, <2>1, <2>3 DEF Apart
  <2> QED
    BY <2>1, <2>2, <2>3
<1>6. CASE p1 # p /\ q1 # p
  <2>1. record'[p1] = record[p1] /\ record'[q1] = record[q1] /\ \A m \in net' : m.from = q1 => m \in net
    BY <1>1, <1>6
  <2> QED
    BY <1>3, <2>1 DEF Apart
<1> QED
  BY <1>4, <1>5, <1>6

LEMMA InitOutgoingFits == ASSUME HInv, NEW p \in Party, InitOutgoing(p) PROVE HInv'
<1>0. PICK n : n = inits + 1
  OBVIOUS
<1>1. PICK now \in Time : record' = [record EXCEPT ![p] = Only(BaseKey(n), InitialEntry(p, BaseKey(n), now))]
  BY <1>0 DEF InitOutgoing
<1> DEFINE b == BaseKey(n)
           e == InitialEntry(p, b, now)
           r == Only(b, e)
<1>2. /\ inits' = inits + 1 /\ steps' = steps /\ net' = net /\ opened' = [opened EXCEPT ![p] = {}]
      /\ inits' \in Nat /\ steps' \in Nat /\ inits <= inits' /\ steps <= steps'
  BY DEF InitOutgoing, HInv
<1>3. IInv'
  BY InitOutgoingKeeps DEF HInv
<1>4. IsRatchet(e.ratchet) /\ e.ratchet.own = b /\ IsOf(e.ratchet.root, b)
  <2>1. /\ IsOf(e.ratchet.root, b) /\ Bare(b) = b
        /\ \E spk, secret : Initiates(e.ratchet, b, spk, secret)
    BY BuiltFits, KeysDiffer
  <2> HIDE DEF b, e
  <2> QED
    BY <2>1 DEF Initiates
<1>5. ~InUse(b.key) /\ InUse(b.key)' /\ Named(b)'
  <2>1. inits + 1 \in 1..inits'
    BY <1>2 DEF HInv
  <2>2. ~InUse(b.key)
    BY <1>0, Fresh
  <2> QED
    BY <1>0, <2>1, <2>2 DEF InUse, Named
<1>6. DOMAIN r = {b} /\ r[b] = e
  BY DEF Only
<1>7. record'[p] = r /\ \A q \in Party : q # p => record'[q] = record[q]
  BY <1>1 DEF HInv, IInv, Typed
<1> HIDE DEF b, e
<1>8. EntryFits(b, e)'
  BY <1>4, <1>5 DEF EntryFits, IsOf
<1>9. ASSUME NEW q \in Party, NEW c \in DOMAIN record'[q] PROVE EntryFits(c, record[q][c])'
  <2>1. CASE q = p
    BY <1>6, <1>7, <1>8, <2>1
  <2>2. CASE q # p
    <3>1. c \in DOMAIN record[q] /\ record'[q][c] = record[q][c]
      BY <1>7, <2>2
    <3>2. PICK x : x = record[q][c]
      OBVIOUS
    <3>3. EntryFits(c, x)
      BY <3>1, <3>2 DEF HInv
    <3>4. EntryFits(c, x)'
      BY <1>2, <3>3, Grows
    <3> QED
      BY <3>1, <3>2, <3>4
  <2> QED
    BY <2>1, <2>2
<1>10. \A m \in net' : MessageFits(m)'
  BY <1>2, Grows DEF HInv
<1>11. Apart'
  <2>1. \A c \in DOMAIN r : ~InUse(r[c].ratchet.own.key)
    BY <1>4, <1>5, <1>6
  <2>2. record' = [record EXCEPT ![p] = r] /\ \A m \in net' : m \in net
    BY <1>1, <1>2 DEF b, e
  <2> HIDE DEF r
  <2> QED
    BY <2>1, <2>2, ApartStays
<1>12. opened' = [q \in Party |-> opened'[q]] /\ \A q \in Party : opened'[q] = IF q = p THEN {} ELSE opened[q]
  BY <1>2 DEF HInv
<1>13. \A q \in Party : \A m \in opened'[q] : OpenedFits(q, m)'
  BY <1>2, <1>7, <1>12 DEF HInv, OpenedFits
<1> QED
  BY <1>2, <1>3, <1>9, <1>10, <1>11, <1>12, <1>13 DEF HInv

SendsOnEntry(p, b) ==
  /\ CanEncrypt(record[p][b].ratchet)
  /\ record' = [record EXCEPT ![p][b].ratchet = Encrypted(@)]

\* What a send does to the entry it is on, and what it sends.
SendChanges(p, b, e, o, i, m) ==
  /\ b \in DOMAIN record[p] /\ EntryFits(b, record[p][b]) /\ IsRatchet(e)
  /\ SendingChains(e) # {} /\ NextCounter(e) <= MaxCounter
  /\ IsRatchet(o) /\ o.root = e.root /\ o.own = e.own /\ o.pending = e.pending
  /\ o.chains = [e.chains EXCEPT ![i] = TakeMessageKey(e.chains[i], NextCounter(e))]
  /\ i \in DOMAIN e.chains /\ IsSending(e.chains[i]) /\ IsSending(o.chains[i])
  /\ o.chains[i].counter = NextCounter(e)
  /\ NextCounter(e) = e.chains[i].counter + 1 /\ NextCounter(e) \in Nat
  /\ record' = [record EXCEPT ![p] = record'[p]] /\ DOMAIN record'[p] = DOMAIN record[p]
  /\ \A c \in DOMAIN record[p] :
       record'[p][c].ratchet = IF c = b THEN o ELSE record[p][c].ratchet
  /\ \A q \in Party : q # p => record'[q] = record[q]
  /\ m.from = p /\ m.session = b /\ m.base = Wire(b)
  /\ m.frame.id = Id(e.own.key, "wire") /\ m.frame.counter = NextCounter(e)
  /\ m.frame.key = [seed |-> e.root, step |-> NextCounter(e)]

LEMMA SendEffect ==
  ASSUME HInv, NEW p \in Party, NEW b \in Foremost(record[p]), SendsOnEntry(p, b),
         NEW e, e = record[p][b].ratchet, NEW o, o = Encrypted(e), NEW i, i = SendingId(e),
         NEW m, m = Message(p, b)
  PROVE  SendChanges(p, b, e, o, i, m)
<1>1. b \in DOMAIN record[p]
  BY DEF Foremost
<1>2. EntryFits(b, record[p][b]) /\ IsRatchet(e)
  BY <1>1 DEF HInv, EntryFits
<1>3. SendingChains(e) # {} /\ NextCounter(e) <= MaxCounter
  <2>1. Cardinality(SendingChains(e)) = 1 /\ NextCounter(e) <= MaxCounter
    BY DEF CanEncrypt, SendsOnEntry
  <2> QED
    BY <2>1, FS_EmptySet
<1>4. /\ Frame(e).key = [seed |-> e.root, step |-> NextCounter(e)]
      /\ IsRatchet(o) /\ o.root = e.root /\ o.own = e.own /\ o.pending = e.pending
      /\ o.chains = [e.chains EXCEPT ![i] = TakeMessageKey(e.chains[i], NextCounter(e))]
      /\ i \in DOMAIN e.chains /\ IsSending(o.chains[i])
      /\ o.chains[i].counter = NextCounter(e)
      /\ NextCounter(e) = e.chains[i].counter + 1
  <2>1. EncryptsOn(e, i, o)
    BY <1>2, <1>3, EncryptedRatchet
  <2> QED
    BY <2>1 DEF EncryptsOn
<1>5. NextCounter(e) \in Nat /\ IsSending(e.chains[i])
  BY <1>2, <1>3, SendingChain DEF SendsOn
<1>6. /\ record' = [record EXCEPT ![p] = record'[p]] /\ DOMAIN record'[p] = DOMAIN record[p]
      /\ \A c \in DOMAIN record[p] :
           record'[p][c].ratchet = IF c = b THEN o ELSE record[p][c].ratchet
      /\ \A q \in Party : q # p => record'[q] = record[q]
  <2>1. /\ record = [q \in Party |-> record[q]] /\ record[p] = [c \in DOMAIN record[p] |-> record[p][c]]
        /\ record[p][b] = [ratchet |-> record[p][b].ratchet, closed |-> record[p][b].closed,
                           used |-> record[p][b].used]
    BY <1>1 DEF HInv, IInv, Typed, IsRecord, IsEntry
  <2>2. record'[p] = [record[p] EXCEPT ![b].ratchet = o]
    BY <2>1 DEF SendsOnEntry
  <2>3. record' = [record EXCEPT ![p] = record'[p]]
    BY <2>1 DEF SendsOnEntry
  <2>4. \A c \in DOMAIN record[p] :
           record'[p][c].ratchet = IF c = b THEN o ELSE record[p][c].ratchet
    BY <1>1, <2>1, <2>2
  <2>5. DOMAIN record'[p] = DOMAIN record[p] /\ \A q \in Party : q # p => record'[q] = record[q]
    BY <2>1, <2>2 DEF SendsOnEntry
  <2> QED
    BY <2>3, <2>4, <2>5
<1>7. /\ m.from = p /\ m.session = b /\ m.base = Wire(b) /\ m.frame = Frame(e)
      /\ m.frame.id = Id(e.own.key, "wire") /\ m.frame.counter = NextCounter(e)
  <2>1. m = [from |-> p, session |-> Bare(b), base |-> Wire(b), frame |-> Frame(e)] /\ Bare(b) = b
    BY <1>2, KeysDiffer DEF Message, EntryFits, Named
  <2>2. Frame(e).id = Id(e.own.key, "wire") /\ Frame(e).counter = NextCounter(e)
    BY DEF Frame, Wire
  <2> QED
    BY <2>1, <2>2
<1> QED
  BY <1>1, <1>2, <1>3, <1>4, <1>5, <1>6, <1>7 DEF SendChanges

LEMMA SendFits == ASSUME HInv, NEW p \in Party, Send(p) PROVE HInv'
<1>1. PICK b \in Foremost(record[p]) :
        SendsOnEntry(p, b) /\ net' = net \cup {Message(p, b)}
  BY DEF Send, SendsOnEntry
<1>2. opened' = opened /\ inits' = inits /\ steps' = steps
  BY DEF Send
<1>3. PICK e : e = record[p][b].ratchet
  OBVIOUS
<1>4. PICK o : o = Encrypted(e)
  OBVIOUS
<1>5. PICK x, i : x = Message(p, b) /\ i = SendingId(e)
  OBVIOUS
<1>0. SendChanges(p, b, e, o, i, x)
  BY <1>1, <1>3, <1>4, <1>5, SendEffect
<1>6. /\ b \in DOMAIN record[p] /\ EntryFits(b, record[p][b]) /\ IsRatchet(e)
      /\ SendingChains(e) # {} /\ NextCounter(e) <= MaxCounter
      /\ IsRatchet(o) /\ o.root = e.root /\ o.own = e.own
      /\ NextCounter(e) \in Nat
      /\ record' = [record EXCEPT ![p] = record'[p]] /\ DOMAIN record'[p] = DOMAIN record[p]
      /\ \A c \in DOMAIN record[p] :
           record'[p][c].ratchet = IF c = b THEN o ELSE record[p][c].ratchet
      /\ \A q \in Party : q # p => record'[q] = record[q]
      /\ x.from = p /\ x.session = b /\ x.base = Wire(b)
      /\ x.frame.id = Id(e.own.key, "wire") /\ x.frame.counter = NextCounter(e)
      /\ x.frame.key = [seed |-> e.root, step |-> NextCounter(e)]
  BY <1>0 DEF SendChanges
<1>7. IInv'
  BY SendKeeps DEF HInv
<1>8. inits \in Nat /\ steps \in Nat /\ inits <= inits' /\ steps <= steps'
  BY <1>2 DEF HInv
<1>9. ASSUME NEW q \in Party, NEW c \in DOMAIN record'[q] PROVE EntryFits(c, record[q][c])'
  <2>1. c \in DOMAIN record[q] /\ (record'[q][c] = record[q][c] \/ (q = p /\ record'[q][c].ratchet =
            IF c = b THEN o ELSE record[q][c].ratchet))
    BY <1>6
  <2>2. EntryFits(c, record[q][c])
    BY <2>1 DEF HInv
  <2>3. PICK y : y = record'[q][c]
    OBVIOUS
  <2>4. EntryFits(c, y)
    BY <1>3, <1>6, <2>1, <2>2, <2>3 DEF EntryFits
  <2>5. EntryFits(c, y)'
    BY <1>2, <1>8, <2>4, Grows
  <2> QED
    BY <2>3, <2>5
<1>10. ASSUME NEW m \in net' PROVE MessageFits(m)'
  <2>1. MessageFits(x)
    <3>1. Named(b) /\ InUse(e.own.key) /\ IsOf(e.root, b)
      BY <1>3, <1>6 DEF EntryFits
    <3>2. IsId(x.frame.id) /\ x.frame.id.key = e.own.key
      BY <1>6 DEF IsId, Id
    <3>3. IsMessageKey(x.frame.key) /\ x.frame.key.seed = e.root
      BY <1>6 DEF IsMessageKey, IsKey, IsRatchet
    <3> QED
      BY <1>6, <3>1, <3>2, <3>3 DEF MessageFits
  <2>2. MessageFits(m)
    BY <1>1, <1>5, <2>1 DEF HInv
  <2> QED
    BY <1>2, <1>8, <2>2, Grows
<1>11. Apart'
  <2>1. PICK r : r = record'[p]
    OBVIOUS
  <2>2. \A c \in DOMAIN r :
          \/ \E d \in DOMAIN record[p] : r[c].ratchet.own.key = record[p][d].ratchet.own.key
          \/ ~InUse(r[c].ratchet.own.key)
    BY <1>3, <1>6, <2>1
  <2>3. \A m \in net' :
          \/ m \in net
          \/ m.from = p /\ \E c \in DOMAIN record[p] : m.frame.id.key = record[p][c].ratchet.own.key
    BY <1>1, <1>3, <1>5, <1>6 DEF Id
  <2>4. record' = [record EXCEPT ![p] = r]
    BY <1>6, <2>1
  <2> QED
    BY <2>2, <2>3, <2>4, ApartStays
<1>12. ASSUME NEW q \in Party, NEW m \in opened'[q] PROVE OpenedFits(q, m)'
  <2>1. m \in net' /\ m.session \in DOMAIN record'[q] /\ m \in opened[q]
    BY <1>1, <1>2, <1>6, <1>12 DEF HInv, OpenedFits
  <2>2. UsedUp(record[q][m.session].ratchet, m.frame.key)
    BY <2>1 DEF HInv, OpenedFits
  <2>3. UsedUp(o, m.frame.key) \/ record'[q][m.session].ratchet = record[q][m.session].ratchet
    <3>1. CASE q = p /\ m.session = b
      BY <1>3, <1>4, <1>6, <2>2, <3>1, UsedAfterSending
    <3>2. CASE ~(q = p /\ m.session = b)
      BY <1>6, <2>1, <3>2
    <3> QED
      BY <3>1, <3>2
  <2>4. UsedUp(record'[q][m.session].ratchet, m.frame.key)
    BY <1>6, <2>1, <2>2, <2>3
  <2> QED
    BY <2>1, <2>4 DEF OpenedFits, UsedUp
<1> QED
  BY <1>2, <1>7, <1>9, <1>10, <1>11, <1>12 DEF HInv

\* What is offered a message holds the entries there were, and at most one that
\* was just built for the session of the message.
LEMMA BaseOfSession == ASSUME HInv, NEW m \in net PROVE Bare(m.base) = m.session
<1>1. MessageFits(m)
  BY DEF HInv
<1> QED
  BY <1>1, KeysDiffer DEF MessageFits, Named

IsBuiltFor(p, r, b, m, now) ==
  /\ Builds(record[p], m) /\ b = m.session /\ b \notin DOMAIN record[p]
  /\ r[b] = RecipientEntry(p, b, now)

LEMMA CandidateEntries ==
  ASSUME HInv, NEW p \in Party, NEW m, Bare(m.base) = m.session, NEW now, NEW r \in Candidates(p, record[p], m, now),
         NEW b \in DOMAIN r
  PROVE  \/ b \in DOMAIN record[p] /\ r[b].ratchet = record[p][b].ratchet
         \/ IsBuiltFor(p, r, b, m, now)
<1>1. Bare(m.base) = m.session
  OBVIOUS
<1>2. CASE ~Builds(record[p], m)
  BY <1>2 DEF Candidates
<1>3. CASE Builds(record[p], m)
  <2> DEFINE e == RecipientEntry(p, m.session, now)
  <2>1. m.session \notin DOMAIN record[p]
    BY <1>1, <1>3 DEF Builds, HasBaseKey
  <2>2. CASE record[p] = <<>>
    <3>1. r = Only(m.session, e)
      BY <1>1, <1>3, <2>2 DEF Candidates
    <3> HIDE DEF e
    <3>2. b = m.session /\ r[b] = e
      BY <3>1 DEF Only
    <3> QED
      BY <1>3, <2>1, <3>2 DEF IsBuiltFor, e
  <2>3. CASE record[p] # <<>>
    <3>1. r \in ArchiveAndMerge(record[p], m.session, e, now)
      BY <1>1, <1>3, <2>3 DEF Candidates
    <3> HIDE DEF e
    <3> DEFINE old == Archived(record[p], now)
               merged == Merged(old, m.session, e)
    <3>2. PICK S \in MayStay(merged) : r = Restrict(merged, OpenKeys(merged) \cup S)
      BY <3>1 DEF ArchiveAndMerge
    <3>3. S \subseteq DOMAIN merged /\ OpenKeys(merged) \subseteq DOMAIN merged
      BY DEF MayStay, ArchivedKeys, OpenKeys
    <3>4. b \in DOMAIN merged /\ r[b] = merged[b]
      BY <3>2, <3>3 DEF Restrict
    <3>5. DOMAIN merged = DOMAIN record[p] \cup {m.session}
      BY DEF Merged, Archived
    <3>6. CASE b = m.session
      <4>1. r[b] = e
        BY <3>4, <3>6 DEF Merged
      <4> QED
        BY <1>3, <2>1, <3>6, <4>1 DEF IsBuiltFor, e
    <3>7. CASE b # m.session
      <4>1. b \in DOMAIN record[p] /\ r[b] = old[b]
        BY <3>4, <3>5, <3>7 DEF Merged
      <4>2. IsEntry(record[p][b])
        BY <4>1 DEF HInv, IInv, Typed, IsRecord
      <4>3. old[b].ratchet = record[p][b].ratchet
        BY <4>1, <4>2 DEF Archived, IsEntry
      <4> QED
        BY <4>1, <4>3
    <3> QED
      BY <3>6, <3>7
  <2> QED
    BY <2>2, <2>3
<1> QED
  BY <1>2, <1>3

\* What opening a message does to the entry it is of.
OpenChanges(p, r, b, m, e, o) ==
  /\ m.session = b /\ Named(b) /\ IsOf(e.root, b) /\ IsRatchet(e)
  /\ IsRatchet(o) /\ o.root[1] = e.root[1] /\ o.pending = FALSE
  /\ \/ o.own.key = RatchetKey(steps + 1) /\ StepNeeded(e, m.frame.id)
     \/ o.own.key = e.own.key /\ b \in DOMAIN record[p] /\ e = record[p][b].ratchet
  /\ UsedUp(o, m.frame.key)
  /\ \A key : IsMessageKey(key) /\ UsedUp(e, key) => UsedUp(o, key)
  /\ \A c \in DOMAIN r : c # b => c \in DOMAIN record[p] /\ r[c].ratchet = record[p][c].ratchet
  /\ b \in DOMAIN record[p] => e = record[p][b].ratchet

LEMMA OpenEffect ==
  ASSUME HInv, NEW p \in Party, NEW m \in net, m.from # p, NEW now,
         NEW r \in Candidates(p, record[p], m, now), NEW b \in DOMAIN r,
         NEW e, e = r[b].ratchet, Opens(e, m.frame), NEW k, k = RatchetKey(steps + 1),
         NEW o, o = Decrypted(e, m.frame, k)
  PROVE  OpenChanges(p, r, b, m, e, o)
<1>1. /\ m.from \in Party /\ Named(m.session) /\ IsId(m.frame.id) /\ InUse(m.frame.id.key)
      /\ m.frame.counter \in Nat /\ IsOf(m.frame.key.seed, m.session)
  BY DEF HInv, MessageFits
<1>2. \/ b \in DOMAIN record[p] /\ e = record[p][b].ratchet
      \/ IsBuiltFor(p, r, b, m, now) /\ e = RecipientEntry(p, b, now).ratchet
  BY BaseOfSession, CandidateEntries DEF IsBuiltFor
<1>5. Named(b) /\ IsRatchet(e) /\ IsOf(e.root, b) /\ m.frame.id.key # e.own.key
  <2>1. CASE b \in DOMAIN record[p] /\ e = record[p][b].ratchet
    <3>1. EntryFits(b, record[p][b])
      BY <2>1 DEF HInv
    <3>2. m.frame.id.key # e.own.key
      BY <1>1, <2>1 DEF HInv, Apart
    <3> QED
      BY <2>1, <3>1, <3>2 DEF EntryFits
  <2>2. CASE IsBuiltFor(p, r, b, m, now) /\ e = RecipientEntry(p, b, now).ratchet
    <3>1. PICK n \in 1..inits : b = BaseKey(n)
      BY <1>1, <2>2 DEF IsBuiltFor, Named
    <3>2. \E secret : Responds(e, b, SignedKey(p), secret)
      BY <2>2, <3>1, BuiltFits
    <3>3. IsOf(e.root, b)
      BY <2>2, <3>1, BuiltFits
    <3>4. IsRatchet(e) /\ e.own = SignedKey(p) /\ DOMAIN e.chains = {}
      BY <3>2, KeysDiffer DEF Responds
    <3>5. m.frame.id.key # e.own.key
      BY <1>1, <3>4, KeysDiffer DEF InUse
    <3> QED
      BY <3>1, <3>3, <3>4, <3>5 DEF Named
  <2> QED
    BY <1>2, <2>1, <2>2
<1>6. k # m.frame.id.key
  BY <1>1, Fresh
<1>7. PICK ch : ch = ReceivingChain(e, m.frame.id)
  OBVIOUS
<1>8. IsReceiving(ch) /\ m.frame.key.seed[1] = e.root[1]
  BY <1>1, <1>5, <1>7, OpenedKey
<1>9. m.session = b
  <2>1. IsOf(m.frame.key.seed, b)
    BY <1>5, <1>8 DEF IsOf
  <2> QED
    BY <1>1, <1>5, <2>1, OneSession
<1>10. /\ IsRatchet(o) /\ ~o.pending /\ o.root[1] = e.root[1]
       /\ IF StepNeeded(e, m.frame.id) THEN o.own = Id(k, "wire") ELSE o.own = e.own
  BY <1>1, <1>5, <1>6, <1>7, <1>8, DecryptedRatchet
<1>11. UsedUp(o, m.frame.key) /\ \A key : IsMessageKey(key) /\ UsedUp(e, key) => UsedUp(o, key)
  BY <1>1, <1>5, <1>6, UsedAfterOpening
<1>12. \/ o.own.key = k /\ StepNeeded(e, m.frame.id)
       \/ o.own.key = e.own.key /\ b \in DOMAIN record[p] /\ e = record[p][b].ratchet
  <2>1. CASE StepNeeded(e, m.frame.id)
    BY <1>10, <2>1 DEF Id
  <2>2. CASE ~StepNeeded(e, m.frame.id)
    <3>1. DOMAIN e.chains # {}
      BY <2>2 DEF StepNeeded, HasChain
    <3>2. ~IsBuiltFor(p, r, b, m, now) \/ e # RecipientEntry(p, b, now).ratchet
      <4> SUFFICES ASSUME IsBuiltFor(p, r, b, m, now), e = RecipientEntry(p, b, now).ratchet PROVE FALSE
        OBVIOUS
      <4>1. PICK n \in 1..inits : b = BaseKey(n)
        BY <1>5 DEF Named
      <4>2. \E secret : Responds(e, b, SignedKey(p), secret)
        BY <4>1, BuiltFits
      <4> QED
        BY <3>1, <4>2 DEF Responds
    <3> QED
      BY <1>2, <1>10, <2>2, <3>2
  <2> QED
    BY <2>1, <2>2
<1>13. \A c \in DOMAIN r : c # b => c \in DOMAIN record[p] /\ r[c].ratchet = record[p][c].ratchet
  BY <1>9, BaseOfSession, CandidateEntries DEF IsBuiltFor
<1>14. b \in DOMAIN record[p] => e = record[p][b].ratchet
  BY <1>2 DEF IsBuiltFor
<1>15. o.pending = FALSE
  BY <1>10 DEF IsRatchet
<1> QED
  BY <1>5, <1>9, <1>10, <1>11, <1>12, <1>13, <1>14, <1>15 DEF OpenChanges

\* A candidate record after its entry b opened the message.
Opened(r, b, o) == [r EXCEPT ![b].ratchet = o]

LEMMA OpenedRecord ==
  ASSUME NEW r, IsRecord(r), NEW b \in DOMAIN r, NEW o
  PROVE  /\ DOMAIN Opened(r, b, o) = DOMAIN r
         /\ \A c \in DOMAIN r : Opened(r, b, o)[c].ratchet = IF c = b THEN o ELSE r[c].ratchet
<1>1. \A c \in DOMAIN r : IsEntry(r[c]) /\ r = [d \in DOMAIN r |-> r[d]]
  BY DEF IsRecord
<1> QED
  BY <1>1 DEF Opened, IsEntry

LEMMA CandidateIsRecord ==
  ASSUME HInv, NEW p \in Party, NEW m \in net, NEW now \in Time, NEW r \in Candidates(p, record[p], m, now)
  PROVE  IsRecord(r)
<1> DEFINE e == RecipientEntry(p, Bare(m.base), now)
<1>1. now \in Nat /\ IsRecord(record[p])
  BY SessionsAssumption DEF HInv, IInv, Typed
<1>2. IsEntry(e) /\ IsOpen(e)
  BY <1>1, EntryIsOpen DEF RecipientEntry
<1>3. CASE ~Builds(record[p], m)
  BY <1>1, <1>3 DEF Candidates
<1>4. CASE Builds(record[p], m) /\ record[p] = <<>>
  <2>1. r = Only(Bare(m.base), e)
    BY <1>4 DEF Candidates
  <2> HIDE DEF e
  <2> QED
    BY <1>2, <2>1, OnlyInOrder
<1>5. CASE Builds(record[p], m) /\ record[p] # <<>>
  <2>1. r \in ArchiveAndMerge(record[p], Bare(m.base), e, now)
    BY <1>5 DEF Candidates
  <2> HIDE DEF e
  <2> QED
    BY <1>1, <1>2, <2>1, MergedInOrder
<1> QED
  BY <1>3, <1>4, <1>5

LEMMA ReceiveFits == ASSUME HInv, NEW p \in Party, NEW m \in net, Receive(p, m) PROVE HInv'
<1>a. PICK now \in Time : \E r \in Candidates(p, record[p], m, now) : \E b \in DOMAIN r : ReceivesUnder(p, m, r, b)
  BY DEF Receive, Accepted, ReceivesUnder
<1>b. PICK r \in Candidates(p, record[p], m, now) : \E b \in DOMAIN r : ReceivesUnder(p, m, r, b)
  BY <1>a
<1>c. PICK b \in DOMAIN r : ReceivesUnder(p, m, r, b)
  BY <1>b
<1>1. /\ m.from # p /\ Opens(r[b].ratchet, m.frame)
      /\ record' = [record EXCEPT ![p] = [r EXCEPT ![b].ratchet = Decrypted(@, m.frame, RatchetKey(steps + 1))]]
      /\ steps' = IF StepNeeded(r[b].ratchet, m.frame.id) THEN steps + 1 ELSE steps
      /\ opened' = [opened EXCEPT ![p] = {x \in @ \cup {m} : \E c \in DOMAIN r : Bare(c) = x.session}]
      /\ net' = net /\ inits' = inits
  BY <1>c DEF ReceivesUnder
<1>2. PICK k : k = RatchetKey(steps + 1)
  OBVIOUS
<1>3. PICK e, o : e = r[b].ratchet /\ o = Decrypted(e, m.frame, k)
  OBVIOUS
<1>4. OpenChanges(p, r, b, m, e, o)
  BY <1>1, <1>2, <1>3, OpenEffect
<1>5. IsRecord(r)
  BY CandidateIsRecord
<1> DEFINE s == Opened(r, b, o)
<1>6. /\ record' = [record EXCEPT ![p] = s]
      /\ record'[p] = s /\ \A q \in Party : q # p => record'[q] = record[q]
  <2>1. s = [r EXCEPT ![b].ratchet = Decrypted(@, m.frame, RatchetKey(steps + 1))]
    BY <1>2, <1>3, <1>5 DEF Opened, IsRecord
  <2> HIDE DEF s
  <2> QED
    BY <1>1, <2>1 DEF HInv, IInv, Typed
<1>7. DOMAIN s = DOMAIN r /\ \A c \in DOMAIN r : s[c].ratchet = IF c = b THEN o ELSE r[c].ratchet
  BY <1>5, OpenedRecord
<1> HIDE DEF s
<1>8. IInv'
  BY ReceiveKeeps DEF HInv
<1>9. /\ inits' \in Nat /\ steps' \in Nat /\ inits <= inits' /\ steps <= steps'
      /\ StepNeeded(e, m.frame.id) => steps' = steps + 1
  BY <1>1, <1>3 DEF HInv
<1>10. InUse(o.own.key)'
  <2>1. CASE o.own.key = k /\ StepNeeded(e, m.frame.id)
    <3>1. steps + 1 \in 1..steps'
      BY <1>9, <2>1 DEF HInv
    <3> QED
      BY <1>2, <2>1, <3>1 DEF InUse
  <2>2. CASE o.own.key = e.own.key /\ b \in DOMAIN record[p] /\ e = record[p][b].ratchet
    <3>1. InUse(e.own.key)
      BY <2>2 DEF HInv, EntryFits
    <3> QED
      BY <1>9, <2>2, <3>1, Grows
  <2> QED
    BY <1>2, <1>4, <2>1, <2>2 DEF OpenChanges
<1>11. ASSUME NEW q \in Party, NEW c \in DOMAIN record'[q] PROVE EntryFits(c, record[q][c])'
  <2>1. CASE q = p /\ c = b
    <3>1. record'[q][c].ratchet = o
      BY <1>6, <1>7, <2>1
    <3>2. Named(b)' /\ IsRatchet(o) /\ IsOf(o.root, b)
      BY <1>1, <1>4 DEF OpenChanges, Named, IsOf
    <3> QED
      BY <1>10, <2>1, <3>1, <3>2 DEF EntryFits, IsOf
  <2>2. CASE q # p \/ c # b
    <3>1. c \in DOMAIN record[q] /\ record'[q][c].ratchet = record[q][c].ratchet
      BY <1>4, <1>6, <1>7, <2>2 DEF OpenChanges
    <3>2. PICK y : y = record'[q][c]
      OBVIOUS
    <3>3. EntryFits(c, y)
      BY <3>1, <3>2 DEF HInv, EntryFits
    <3>4. EntryFits(c, y)'
      BY <1>9, <3>3, Grows
    <3> QED
      BY <3>2, <3>4
  <2> QED
    BY <2>1, <2>2
<1>12. \A x \in net' : MessageFits(x)'
  BY <1>1, <1>9, Grows DEF HInv
<1>13. Apart'
  <2>1. \A c \in DOMAIN s :
          \/ \E d \in DOMAIN record[p] : s[c].ratchet.own.key = record[p][d].ratchet.own.key
          \/ ~InUse(s[c].ratchet.own.key)
    <3> TAKE c \in DOMAIN s
    <3>1. CASE c = b
      BY <1>4, <1>7, <3>1, Fresh DEF OpenChanges
    <3>2. CASE c # b
      BY <1>4, <1>7, <3>2 DEF OpenChanges
    <3> QED
      BY <3>1, <3>2
  <2>2. \A x \in net' : x \in net
    BY <1>1
  <2> QED
    BY <1>6, <2>1, <2>2, ApartStays
<1>14. /\ opened' = [q \in Party |-> opened'[q]]
       /\ \A q \in Party : q # p => opened'[q] = opened[q]
       /\ \A x \in opened'[p] : (x \in opened[p] \/ x = m) /\ \E c \in DOMAIN r : Bare(c) = x.session
  BY <1>1 DEF HInv
<1>15. ASSUME NEW q \in Party, NEW x \in opened'[q] PROVE OpenedFits(q, x)'
  <2>1. CASE q # p
    BY <1>1, <1>6, <1>14, <2>1 DEF HInv, OpenedFits
  <2>2. CASE q = p /\ x = m
    <3>1. m.session = b /\ s[b].ratchet = o /\ UsedUp(o, m.frame.key)
      BY <1>4, <1>7 DEF OpenChanges
    <3> QED
      BY <1>1, <1>6, <1>7, <2>2, <3>1 DEF OpenedFits, UsedUp
  <2>3. CASE q = p /\ x \in opened[p]
    <3>1. x \in net /\ x.session \in DOMAIN record[p] /\ UsedUp(record[p][x.session].ratchet, x.frame.key)
      BY <2>3 DEF HInv, OpenedFits
    <3>2. IsMessageKey(x.frame.key)
      BY <3>1 DEF HInv, MessageFits
    <3>3. x.session \in DOMAIN r
      <4>1. PICK c \in DOMAIN r : Bare(c) = x.session
        BY <1>14, <2>3
      <4>2. Named(c)
        BY <1>4 DEF HInv, EntryFits, OpenChanges
      <4>3. Bare(c) = c
        BY <4>2, KeysDiffer DEF Named
      <4> QED
        BY <4>1, <4>3
    <3>4. UsedUp(s[x.session].ratchet, x.frame.key)
      <4>1. CASE x.session = b
        BY <1>4, <1>7, <3>1, <3>2, <3>3, <4>1 DEF OpenChanges
      <4>2. CASE x.session # b
        BY <1>4, <1>7, <3>1, <3>3, <4>2 DEF OpenChanges
      <4> QED
        BY <4>1, <4>2
    <3> QED
      BY <1>1, <1>6, <1>7, <2>3, <3>1, <3>3, <3>4 DEF OpenedFits, UsedUp
  <2> QED
    BY <1>14, <2>1, <2>2, <2>3
<1> QED
  BY <1>8, <1>9, <1>11, <1>12, <1>13, <1>14, <1>15 DEF HInv

LEMMA InitFits == ~Migrated /\ Init => HInv
<1> SUFFICES ASSUME ~Migrated, Init PROVE HInv
  OBVIOUS
<1>1. /\ record = [p \in Party |-> <<>>] /\ net = {} /\ opened = [p \in Party |-> {}]
      /\ inits = 0 /\ steps = 0
  BY DEF Init
<1>2. \A p \in Party : DOMAIN record[p] = {} /\ opened[p] = {}
  BY <1>1, NoChains
<1> QED
  BY <1>1, <1>2, InitRecords DEF HInv, Apart

\* Between parties whose records this library wrote.
LEMMA NextFits == HInv /\ [Next]_vars => HInv'
<1> SUFFICES ASSUME HInv, [Next]_vars PROVE HInv'
  OBVIOUS
<1>1. CASE \E p \in Party : InitOutgoing(p)
  BY <1>1, InitOutgoingFits
<1>2. CASE \E p \in Party : Send(p)
  BY <1>2, SendFits
<1>3. CASE \E p \in Party : \E m \in net : Receive(p, m)
  BY <1>3, ReceiveFits
<1>4. CASE UNCHANGED vars
  <2>1. record' = record /\ net' = net /\ opened' = opened /\ inits' = inits /\ steps' = steps
    BY <1>4 DEF vars
  <2>2. IInv'
    BY <2>1 DEF HInv, IInv, Typed, OneOpenEntry
  <2>3. \A p \in Party : \A b \in DOMAIN record'[p] : EntryFits(b, record[p][b])'
    BY <2>1 DEF HInv, EntryFits, Named, InUse, IsOf
  <2>4. \A m \in net' : MessageFits(m)'
    BY <2>1 DEF HInv, MessageFits, Named, InUse, IsOf
  <2>5. Apart'
    BY <2>1 DEF HInv, Apart
  <2>6. ASSUME NEW p \in Party, NEW m \in opened'[p] PROVE OpenedFits(p, m)'
    BY <2>1, <2>6 DEF HInv, OpenedFits
  <2> QED
    BY <2>1, <2>2, <2>3, <2>4, <2>5, <2>6 DEF HInv
<1> QED
  BY <1>1, <1>2, <1>3, <1>4 DEF Next

\* Nothing that was decrypted under an entry is decrypted again while the record
\* holds the entry, open or archived, however many sessions come and go and
\* whatever is retransmitted (session-cipher.js:86-98), when no record was keyed
\* by libsignal's form of the base key.
THEOREM NothingReplays == ASSUME ~Migrated PROVE Spec => []NoReplay
<1>1. HInv => NoReplay
  <2> SUFFICES ASSUME HInv, NEW p \in Party, NEW m \in opened[p], MayAccept(p, m) PROVE FALSE
    BY DEF NoReplay
  <2>1. /\ m \in net /\ m.session \in DOMAIN record[p]
        /\ UsedUp(record[p][m.session].ratchet, m.frame.key)
    BY DEF HInv, OpenedFits
  <2>a. PICK now \in Time : \E r \in Candidates(p, record[p], m, now) : \E b \in DOMAIN r : Accepted(r, b, m)
    BY DEF MayAccept
  <2>b. PICK r \in Candidates(p, record[p], m, now) : \E b \in DOMAIN r : Accepted(r, b, m)
    BY <2>a
  <2>2. PICK b \in DOMAIN r : Accepted(r, b, m)
    BY <2>b
  <2>3. MessageFits(m) /\ Opens(r[b].ratchet, m.frame)
    BY <2>1, <2>2 DEF HInv, Accepted
  <2>4. ~Builds(record[p], m)
    BY <2>1, <2>3, KeysDiffer DEF Builds, HasBaseKey, MessageFits, Named
  <2>5. b \in DOMAIN record[p] /\ r[b].ratchet = record[p][b].ratchet
    BY <2>1, <2>4, BaseOfSession, CandidateEntries DEF IsBuiltFor
  <2>6. EntryFits(b, record[p][b])
    BY <2>5 DEF HInv
  <2>7. PICK e, ch : e = record[p][b].ratchet /\ ch = ReceivingChain(e, m.frame.id)
    OBVIOUS
  <2>8. IsId(m.frame.id) /\ m.frame.counter \in Nat /\ IsRatchet(e) /\ Opens(e, m.frame)
    BY <2>3, <2>5, <2>6, <2>7 DEF MessageFits, EntryFits
  <2>9. m.frame.key.seed[1] = e.root[1]
    BY <2>7, <2>8, OpenedKey
  <2>10. b = m.session
    <3>1. IsOf(m.frame.key.seed, b)
      BY <2>6, <2>7, <2>9 DEF EntryFits, IsOf
    <3> QED
      BY <2>3, <2>6, <3>1, OneSession DEF MessageFits, EntryFits
  <2> QED
    BY <2>1, <2>7, <2>8, <2>10, UsedNeverOpens
<1> QED
  BY <1>1, InitFits, NextFits, PTL DEF Spec
-----------------------------------------------------------------------------
(* Starting over *)

FirstRoot(p, b) ==
  Derive(<<InitialSecret(IdentityKey(p), b, IdentityKey(Other(p)), SignedKey(Other(p)), NoKey)>>,
         DH(b, SignedKey(Other(p))))

\* Who was not answered yet still sends on the chain it started with, and each
\* message it sent is behind it.
Pending(p, b, e) ==
  e.pending = TRUE =>
    /\ e.own = b /\ e.root = FirstRoot(p, b)
    /\ b \in DOMAIN e.chains /\ IsSending(e.chains[b])
    /\ e.chains[b].counter < Cardinality(net)
    /\ \A m \in net : m.from = p /\ m.session = b => m.frame.counter <= e.chains[b].counter

PInv ==
  /\ HInv
  /\ IsFiniteSet(net) /\ Cardinality(net) <= MaxSent
  /\ \A p \in Party : \A b \in DOMAIN record[p] : Pending(p, b, record[p][b].ratchet)

LEMMA InitOutgoingPending == ASSUME PInv, NEW p \in Party, InitOutgoing(p) PROVE PInv'
<1>0. PICK n : n = inits + 1
  OBVIOUS
<1>1. PICK now \in Time : record' = [record EXCEPT ![p] = Only(BaseKey(n), InitialEntry(p, BaseKey(n), now))]
  BY <1>0 DEF InitOutgoing
<1> DEFINE b == BaseKey(n)
           spk == SignedKey(Other(p))
           secret == InitialSecret(IdentityKey(p), b, IdentityKey(Other(p)), spk, NoKey)
<1>2. PICK e : e = InitialEntry(p, b, now)
  OBVIOUS
<1>3. HInv' /\ net' = net
  BY InitOutgoingFits DEF PInv, InitOutgoing
<1>4. Initiates(e.ratchet, b, spk, secret) /\ Bare(b) = b
  BY <1>2, BuiltFits, KeysDiffer
<1>5. FirstRoot(p, b) = Derive(<<secret>>, DH(b, spk))
  BY DEF FirstRoot
<1>6. /\ record'[p] = Only(b, e) /\ \A q \in Party : q # p => record'[q] = record[q]
  BY <1>1, <1>2 DEF PInv, HInv, IInv, Typed
<1>7. \A m \in net : m.session # b
  <2>1. n \notin 1..inits
    BY <1>0 DEF PInv, HInv
  <2> QED
    BY <2>1, KeysDiffer DEF PInv, HInv, MessageFits, Named
<1> HIDE DEF b, spk, secret
<1>8. DOMAIN Only(b, e) = {b} /\ Only(b, e)[b] = e
  BY DEF Only
<1>9. Pending(p, b, e.ratchet)
  <2>1. /\ e.ratchet.own = b /\ e.ratchet.root = FirstRoot(p, b)
        /\ b \in DOMAIN e.ratchet.chains
        /\ e.ratchet.chains[b] = NewChain("sending", e.ratchet.root)
    BY <1>4, <1>5 DEF Initiates
  <2>2. \A seed : IsSending(NewChain("sending", seed)) /\ NewChain("sending", seed).counter = -1
    BY NewChainInStep DEF IsSending
  <2>3. Cardinality(net) \in Nat
    BY FS_CardinalityType DEF PInv
  <2>4. -1 < Cardinality(net)
    BY <2>3
  <2> QED
    BY <1>7, <2>1, <2>2, <2>4 DEF Pending
<1>10. ASSUME NEW q \in Party, NEW c \in DOMAIN record'[q] PROVE Pending(q, c, record[q][c].ratchet)'
  <2>1. CASE q = p
    BY <1>3, <1>6, <1>8, <1>9, <2>1 DEF Pending, FirstRoot
  <2>2. CASE q # p
    <3>1. c \in DOMAIN record[q] /\ record'[q][c] = record[q][c]
      BY <1>6, <2>2
    <3>2. Pending(q, c, record[q][c].ratchet)
      BY <3>1 DEF PInv
    <3> QED
      BY <1>3, <3>1, <3>2 DEF Pending
  <2> QED
    BY <2>1, <2>2
<1> QED
  BY <1>3, <1>10 DEF PInv

LEMMA SendPending == ASSUME PInv, NEW p \in Party, Send(p) PROVE PInv'
<1>1. PICK b \in Foremost(record[p]) :
        SendsOnEntry(p, b) /\ net' = net \cup {Message(p, b)}
  BY DEF Send, SendsOnEntry
<1>2. PICK e, o, x, i : e = record[p][b].ratchet /\ o = Encrypted(e) /\ x = Message(p, b) /\ i = SendingId(e)
  OBVIOUS
<1>3. SendChanges(p, b, e, o, i, x)
  BY <1>1, <1>2, SendEffect DEF PInv
<1>4. HInv' /\ net' = net \cup {x}
  BY <1>1, <1>2, SendFits DEF PInv
<1>5. Cardinality(net) < MaxSent
  BY DEF Send
<1>6. /\ IsFiniteSet(net') /\ Cardinality(net) \in Nat /\ Cardinality(net') \in Nat
      /\ Cardinality(net') = IF x \in net THEN Cardinality(net) ELSE Cardinality(net) + 1
  BY <1>4, FS_AddElement, FS_CardinalityType DEF PInv
<1>7. Cardinality(net') <= MaxSent /\ Cardinality(net) <= Cardinality(net')
  BY <1>5, <1>6, SessionsAssumption
<1>8. /\ b \in DOMAIN record[p] /\ IsRatchet(e)
      /\ o.root = e.root /\ o.own = e.own /\ o.pending = e.pending
      /\ o.chains = [e.chains EXCEPT ![i] = TakeMessageKey(e.chains[i], NextCounter(e))]
      /\ i \in DOMAIN e.chains /\ IsSending(e.chains[i]) /\ IsSending(o.chains[i])
      /\ o.chains[i].counter = NextCounter(e)
      /\ NextCounter(e) = e.chains[i].counter + 1 /\ NextCounter(e) \in Nat
      /\ DOMAIN record'[p] = DOMAIN record[p]
      /\ \A c \in DOMAIN record[p] :
           record'[p][c].ratchet = IF c = b THEN o ELSE record[p][c].ratchet
      /\ \A q \in Party : q # p => record'[q] = record[q]
      /\ x.from = p /\ x.session = b /\ x.frame.counter = NextCounter(e)
  BY <1>3 DEF SendChanges
\* Every message sent before on the chain is behind it, so this one is new.
<1>9. ASSUME o.pending = TRUE
      PROVE  /\ o.own = b /\ o.root = FirstRoot(p, b)
             /\ b \in DOMAIN o.chains /\ IsSending(o.chains[b])
             /\ o.chains[b].counter < Cardinality(net')
             /\ \A m \in net' : m.from = p /\ m.session = b => m.frame.counter <= o.chains[b].counter
  <2>1. Pending(p, b, e) /\ e.pending = TRUE
    BY <1>2, <1>8, <1>9 DEF PInv
  <2>2. /\ e.own = b /\ e.root = FirstRoot(p, b)
        /\ b \in DOMAIN e.chains /\ IsSending(e.chains[b])
        /\ e.chains[b].counter < Cardinality(net)
        /\ \A m \in net : m.from = p /\ m.session = b => m.frame.counter <= e.chains[b].counter
    BY <2>1 DEF Pending
  <2>3. i = b
    BY <1>8, <2>2, OneSending
  <2>4. e.chains[b].counter \in Int /\ NextCounter(e) = e.chains[b].counter + 1 /\ o.chains[b].counter = NextCounter(e)
    BY <1>8, <2>2, <2>3 DEF IsRatchet, InStep, ChainOK
  <2>5. ASSUME NEW m \in net, m.from = p, m.session = b
        PROVE  m.frame.counter \in Nat /\ m.frame.counter < NextCounter(e)
    <3>1. m.frame.counter \in Nat /\ m.frame.counter <= e.chains[b].counter
      BY <2>2, <2>5 DEF PInv, HInv, MessageFits
    <3> QED
      BY <2>4, <3>1
  <2>6. x \notin net
    BY <1>8, <2>5
  <2>7. o.chains[b].counter < Cardinality(net')
    BY <1>6, <2>2, <2>4, <2>6
  <2>8. \A m \in net' : m.from = p /\ m.session = b => m.frame.counter <= o.chains[b].counter
    BY <1>4, <1>8, <2>4, <2>5
  <2>9. o.own = b /\ o.root = FirstRoot(p, b) /\ b \in DOMAIN o.chains /\ IsSending(o.chains[b])
    BY <1>8, <2>2, <2>3
  <2> QED
    BY <2>7, <2>8, <2>9
<1>10. ASSUME NEW q \in Party, NEW c \in DOMAIN record'[q] PROVE Pending(q, c, record[q][c].ratchet)'
  <2>1. CASE q = p /\ c = b
    <3>1. record'[q][c].ratchet = o
      BY <1>8, <2>1
    <3> QED
      BY <1>9, <2>1, <3>1 DEF Pending, FirstRoot
  <2>2. CASE q # p \/ c # b
    <3>1. c \in DOMAIN record[q] /\ record'[q][c].ratchet = record[q][c].ratchet
      BY <1>8, <2>2
    <3>2. Pending(q, c, record[q][c].ratchet) /\ IsRatchet(record[q][c].ratchet)
      BY <3>1 DEF PInv, HInv, EntryFits
    <3>3. PICK z : z = record[q][c].ratchet
      OBVIOUS
    <3>4. ASSUME z.pending = TRUE
          PROVE  /\ z.own = c /\ z.root = FirstRoot(q, c)
                 /\ c \in DOMAIN z.chains /\ IsSending(z.chains[c])
                 /\ z.chains[c].counter < Cardinality(net')
                 /\ \A m \in net' : m.from = q /\ m.session = c => m.frame.counter <= z.chains[c].counter
      <4>1. /\ z.own = c /\ z.root = FirstRoot(q, c)
            /\ c \in DOMAIN z.chains /\ IsSending(z.chains[c])
            /\ z.chains[c].counter < Cardinality(net)
            /\ \A m \in net : m.from = q /\ m.session = c => m.frame.counter <= z.chains[c].counter
        BY <3>2, <3>3, <3>4 DEF Pending
      <4>2. z.chains[c].counter \in Int
        BY <3>2, <3>3, <4>1 DEF IsRatchet, InStep, ChainOK
      <4>3. z.chains[c].counter < Cardinality(net')
        BY <1>6, <1>7, <4>1, <4>2
      <4>4. \A m \in net' : m.from = q /\ m.session = c => m \in net
        BY <1>4, <1>8, <2>2
      <4> QED
        BY <4>1, <4>3, <4>4
    <3> QED
      BY <3>1, <3>3, <3>4 DEF Pending, FirstRoot
  <2> QED
    BY <2>1, <2>2
<1> QED
  BY <1>4, <1>6, <1>7, <1>10 DEF PInv

LEMMA ReceivePending == ASSUME PInv, NEW p \in Party, NEW m \in net, Receive(p, m) PROVE PInv'
<1>0. PICK now \in Time : \E r \in Candidates(p, record[p], m, now) : \E b \in DOMAIN r : ReceivesUnder(p, m, r, b)
  BY DEF Receive, Accepted, ReceivesUnder
<1>1. PICK r \in Candidates(p, record[p], m, now) : \E b \in DOMAIN r : ReceivesUnder(p, m, r, b)
  BY <1>0
<1>2. PICK b \in DOMAIN r : ReceivesUnder(p, m, r, b)
  BY <1>1
<1>3. PICK k, e : k = RatchetKey(steps + 1) /\ e = r[b].ratchet
  OBVIOUS
<1>4. PICK o : o = Decrypted(e, m.frame, k)
  OBVIOUS
<1>5. OpenChanges(p, r, b, m, e, o)
  BY <1>2, <1>3, <1>4, OpenEffect DEF PInv, ReceivesUnder
<1>6. HInv' /\ net' = net
  BY ReceiveFits DEF PInv, Receive
<1> DEFINE s == Opened(r, b, o)
<1>7. IsRecord(r)
  BY CandidateIsRecord DEF PInv
<1>8. record'[p] = s /\ \A q \in Party : q # p => record'[q] = record[q]
  <2>1. s = [r EXCEPT ![b].ratchet = Decrypted(@, m.frame, RatchetKey(steps + 1))]
    BY <1>3, <1>4, <1>7 DEF Opened, IsRecord
  <2> HIDE DEF s
  <2> QED
    BY <1>2, <2>1 DEF PInv, HInv, IInv, Typed, ReceivesUnder
<1>9. DOMAIN s = DOMAIN r /\ \A c \in DOMAIN r : s[c].ratchet = IF c = b THEN o ELSE r[c].ratchet
  BY <1>7, OpenedRecord
<1> HIDE DEF s
<1>10. ASSUME NEW q \in Party, NEW c \in DOMAIN record'[q] PROVE Pending(q, c, record[q][c].ratchet)'
  <2>1. CASE q = p /\ c = b
    <3>1. record'[q][c].ratchet = o /\ o.pending # TRUE
      BY <1>5, <1>8, <1>9, <2>1 DEF OpenChanges
    <3> QED
      BY <3>1 DEF Pending
  <2>2. CASE q # p \/ c # b
    <3>1. c \in DOMAIN record[q] /\ record'[q][c].ratchet = record[q][c].ratchet
      BY <1>5, <1>8, <1>9, <2>2 DEF OpenChanges
    <3>2. Pending(q, c, record[q][c].ratchet)
      BY <3>1 DEF PInv
    <3> QED
      BY <1>6, <3>1, <3>2 DEF Pending
  <2> QED
    BY <2>1, <2>2
<1> QED
  BY <1>6, <1>10 DEF PInv

LEMMA InitPending == ~Migrated /\ Init => PInv
<1> SUFFICES ASSUME ~Migrated, Init PROVE PInv
  OBVIOUS
<1>1. record = [p \in Party |-> <<>>] /\ net = {}
  BY DEF Init
<1>2. \A p \in Party : DOMAIN record[p] = {}
  BY <1>1, NoChains
<1>3. IsFiniteSet(net) /\ Cardinality(net) <= MaxSent
  BY <1>1, FS_EmptySet, SessionsAssumption
<1> QED
  BY <1>2, <1>3, InitFits DEF PInv

LEMMA NextPending == PInv /\ [Next]_vars => PInv'
<1> SUFFICES ASSUME PInv, [Next]_vars PROVE PInv'
  OBVIOUS
<1>1. CASE \E p \in Party : InitOutgoing(p)
  BY <1>1, InitOutgoingPending
<1>2. CASE \E p \in Party : Send(p)
  BY <1>2, SendPending
<1>3. CASE \E p \in Party : \E m \in net : Receive(p, m)
  BY <1>3, ReceivePending
<1>4. CASE UNCHANGED vars
  <2>1. record' = record /\ net' = net
    BY <1>4 DEF vars
  <2>2. HInv'
    BY <1>4, NextFits DEF PInv
  <2> QED
    BY <2>1, <2>2 DEF PInv, Pending
<1> QED
  BY <1>1, <1>2, <1>3, <1>4 DEF Next

\* The entry that is built for a new session is the one that is used.
LEMMA NewEntryIsForemost ==
  ASSUME HInv, NEW p \in Party, NEW m, Bare(m.base) = m.session, Builds(record[p], m),
         NEW now \in Time, NEW r \in Candidates(p, record[p], m, now)
  PROVE  /\ m.session \in Foremost(r) /\ OpenKeys(r) = {m.session}
         /\ r[m.session].ratchet = RecipientEntry(p, m.session, now).ratchet
<1> DEFINE b == m.session
           e == RecipientEntry(p, b, now)
<1>1. now \in Nat /\ IsRecord(record[p])
  BY SessionsAssumption DEF HInv, IInv, Typed
<1>2. IsEntry(e) /\ IsOpen(e)
  BY <1>1, EntryIsOpen DEF RecipientEntry
<1>3. IsRecord(r) /\ OpenKeys(r) = {b}
  <2>1. CASE record[p] = <<>>
    <3>1. r = Only(b, e)
      BY <2>1 DEF Candidates
    <3> HIDE DEF e, b
    <3>2. DOMAIN r = {b} /\ r[b] = e
      BY <3>1 DEF Only
    <3> QED
      BY <1>2, <3>1, <3>2, OnlyInOrder DEF OpenKeys
  <2>2. CASE record[p] # <<>>
    <3>1. r \in ArchiveAndMerge(record[p], b, e, now)
      BY <2>2 DEF Candidates
    <3> HIDE DEF e, b
    <3> QED
      BY <1>1, <1>2, <3>1, MergedInOrder
  <2> QED
    BY <2>1, <2>2
<1>4. b \in DOMAIN r /\ IsOpen(r[b]) /\ \A c \in DOMAIN r : c # b => ~IsOpen(r[c])
  BY <1>3 DEF OpenKeys
<1>5. b \notin DOMAIN record[p]
  BY DEF Builds, HasBaseKey
<1>6. r[b].ratchet = RecipientEntry(p, b, now).ratchet
  BY <1>4, <1>5, CandidateEntries DEF IsBuiltFor
<1> HIDE DEF b
<1>7. ASSUME NEW c \in DOMAIN r PROVE NotBehind(r[b], r[c])
  <2>1. CASE c = b
    <3>1. r[b].used \in Nat
      BY <1>3, <1>4 DEF IsRecord, IsEntry
    <3> QED
      BY <2>1, <3>1 DEF NotBehind
  <2>2. CASE c # b
    BY <1>4, <2>2 DEF NotBehind
  <2> QED
    BY <2>1, <2>2
<1>8. b \in Foremost(r)
  BY <1>4, <1>7 DEF Foremost
<1> QED
  BY <1>3, <1>6, <1>8 DEF b

\* Starting over always works: the other party builds the same session from the
\* first message that reaches it, whatever it holds by then and whatever its
\* clock says (session-builder.js:40, session-cipher.js:98-111).
THEOREM NewSessionsOpen == ASSUME ~Migrated PROVE Spec => []NewSessionOpens
<1>1. PInv => NewSessionOpens
  <2> SUFFICES ASSUME PInv, NEW p \in Party, NEW b \in Foremost(record[p]), record[p][b].ratchet.pending,
                      ~HasBaseKey(record[Other(p)], b)
               PROVE  Accepts(Other(p), Message(p, b))
    BY DEF NewSessionOpens
  <2>1. PICK q, e, m : q = Other(p) /\ e = record[p][b].ratchet /\ m = Message(p, b)
    OBVIOUS
  <2>2. q \in Party /\ Other(q) = p
    BY <2>1, TheOther
  <2>3. b \in DOMAIN record[p] /\ EntryFits(b, record[p][b]) /\ Pending(p, b, e)
    BY <2>1 DEF PInv, HInv, Foremost
  <2>4. PICK n \in 1..inits : b = BaseKey(n)
    BY <2>3 DEF EntryFits, Named
  <2>5. IsRatchet(e) /\ e.pending = TRUE
    BY <2>1, <2>3 DEF EntryFits, IsRatchet
  <2>6. /\ e.own = b /\ e.root = FirstRoot(p, b)
        /\ b \in DOMAIN e.chains /\ IsSending(e.chains[b]) /\ e.chains[b].counter < Cardinality(net)
    BY <2>3, <2>5 DEF Pending
  <2>7. /\ m.frame = Frame(e) /\ Bare(m.base) = m.session /\ m.session = b
    <3>1. m = [from |-> p, session |-> Bare(b), base |-> Wire(b), frame |-> Frame(e)]
      BY <2>1 DEF Message
    <3>2. Bare(b) = b /\ Bare(Wire(b)) = b
      BY <2>4, KeysDiffer
    <3> QED
      BY <3>1, <3>2
  <2>8. SendingId(e) = b /\ SendingChains(e) # {}
    <3>1. SendingChains(e) # {}
      BY <2>6 DEF SendingChains
    <3>2. SendingId(e) \in DOMAIN e.chains /\ IsSending(e.chains[SendingId(e)])
      BY <2>5, <3>1, SendingChain DEF SendsOn
    <3> QED
      BY <2>5, <2>6, <3>1, <3>2, OneSending
  <2>9. InStep(e.chains[b]) /\ e.chains[b].key.seed = e.root /\ NextCounter(e) = e.chains[b].counter + 1
        /\ NextCounter(e) \in Nat
    BY <2>5, <2>8, SendingChain DEF SendsOn
  <2>10. NextCounter(e) < MaxSkip
    <3>1. Cardinality(net) \in Nat /\ Cardinality(net) <= MaxSent /\ MaxSent < MaxSkip
      BY FS_CardinalityType, SessionsAssumption DEF PInv
    <3>2. e.chains[b].counter \in Int
      BY <2>9 DEF InStep, ChainOK
    <3> QED
      BY <2>6, <2>9, <3>1, <3>2, SessionsAssumption, ChainAssumption
  <2>11. /\ m.frame.pre = TRUE /\ m.frame.counter = NextCounter(e) /\ m.frame.id.key = b.key
         /\ m.frame.key = [seed |-> e.root, step |-> NextCounter(e)]
    <3>1. FillMessageKeys(e.chains[b], NextCounter(e)).kept[NextCounter(e)]
            = [seed |-> e.root, step |-> NextCounter(e)]
      BY <2>9, FilledKey
    <3>2. /\ Frame(e).pre = e.pending /\ Frame(e).counter = NextCounter(e) /\ Frame(e).id = Wire(e.own)
          /\ Frame(e).key = FillMessageKeys(e.chains[SendingId(e)], NextCounter(e)).kept[NextCounter(e)]
      BY DEF Frame
    <3>3. Wire(b).key = b.key
      BY DEF Wire, Id
    <3> QED
      BY <2>5, <2>6, <2>7, <2>8, <3>1, <3>2, <3>3
  <2>12. Builds(record[q], m)
    <3>1. Bare(b) = b
      BY <2>4, KeysDiffer
    <3> QED
      BY <2>1, <2>7, <2>11, <3>1 DEF Builds, HasBaseKey
  <2>13. ASSUME NEW now \in Time, NEW r \in Candidates(q, record[q], m, now) PROVE Accepted(r, b, m) /\ b \in DOMAIN r
    <3>1. /\ b \in Foremost(r) /\ OpenKeys(r) = {b}
          /\ r[b].ratchet = RecipientEntry(q, b, now).ratchet
      BY <2>2, <2>7, <2>12, NewEntryIsForemost DEF PInv
    <3> DEFINE secret == RecipientSecret(IdentityKey(q), SignedKey(q), NoKey, IdentityKey(p), b)
    <3>2. Responds(r[b].ratchet, b, SignedKey(q), secret)
      BY <2>2, <2>4, <3>1, BuiltFits
    <3>3. e.root = Derive(<<secret>>, DH(b, SignedKey(q)))
      BY <2>1, <2>6, SecretsAgree DEF FirstRoot
    <3> HIDE DEF secret
    <3>4. Opens(r[b].ratchet, m.frame)
      BY <2>9, <2>10, <2>11, <3>2, <3>3, FirstOpens
    <3>5. b \in DOMAIN r
      BY <3>1 DEF Foremost
    <3> QED
      BY <3>1, <3>4, <3>5 DEF Accepted
  <2> QED
    BY <2>1, <2>13 DEF Accepts
<1> QED
  BY <1>1, InitPending, NextPending, PTL DEF Spec
-----------------------------------------------------------------------------
(* The session that both hold *)

Bases == {BaseKey(n) : n \in Nat}

Initial(p, b) == InitialSession(IdentityKey(p), b, IdentityKey(Other(p)), SignedKey(Other(p)), NoKey)

\* An entry that p made by initOutgoing and that nothing was opened on.
Untouched(p, b, e) == SameKeys(Initial(p, b), e) /\ e.previousCounter = 0

\* p started b, and nobody has answered.
Unanswered(p, b) ==
  /\ b \notin DOMAIN record[Other(p)]
  /\ b \in DOMAIN record[p] => record[p][b].ratchet.pending = TRUE
  /\ \A m \in net : m.session = b => m.from = p /\ m.frame.id = Wire(b) /\ m.frame.key.seed = FirstRoot(p, b)

\* Both hold b, as they made it first.
Together(b) == \A p \in Party : b \in DOMAIN record[p] /\ b \notin rebuilt[p]

InTouch(b) ==
  /\ \E p \in Party : Ahead(record[p][b].ratchet, record[Other(p)][b].ratchet)
  /\ \A p \in Party : Under(record[p][b].ratchet, Cardinality(net))
  /\ \A m \in net : m.session = b => Sent(m.frame, record[m.from][b].ratchet)

\* Who started a session sends the pkmsgs of it, and never builds it again.
Started(starter) ==
  /\ starter \in [Bases -> Party]
  /\ built = [p \in Party |-> built[p]] /\ rebuilt = [p \in Party |-> rebuilt[p]]
  /\ \A p \in Party : \A b \in DOMAIN record[p] :
       record[p][b].ratchet.pending = TRUE => p = starter[b] /\ Untouched(p, b, record[p][b].ratchet)
  /\ \A m \in net : m.frame.pre => m.from = starter[m.session]
  /\ \A b : Named(b) => /\ b \in built[Other(starter[b])] \/ Unanswered(starter[b], b)
                        /\ Together(b) => InTouch(b)

SInv == PInv /\ \E starter : Started(starter)

LEMMA NamedIsBase == \A b : Named(b) => b \in Bases
BY DEF Named, Bases

LEMMA InitOutgoingStarts == ASSUME PInv, NEW starter, Started(starter), NEW p \in Party, InitOutgoing(p) PROVE SInv'
<1>0. PICK n : n = inits + 1
  OBVIOUS
<1>1. PICK now \in Time : record' = [record EXCEPT ![p] = Only(BaseKey(n), InitialEntry(p, BaseKey(n), now))]
  BY <1>0 DEF InitOutgoing
<1>2. PICK b, e, st : b = BaseKey(n) /\ e = InitialEntry(p, BaseKey(n), now) /\ st = [starter EXCEPT ![BaseKey(n)] = p]
  OBVIOUS
<1>3. /\ PInv' /\ net' = net /\ built' = built /\ rebuilt' = rebuilt /\ inits' = inits + 1 /\ inits \in Nat
  BY InitOutgoingPending DEF InitOutgoing, PInv, HInv
<1>4. /\ record'[p] = Only(b, e) /\ \A q \in Party : q # p => record'[q] = record[q]
  BY <1>1, <1>2 DEF PInv, HInv, IInv, Typed
<1>5. DOMAIN record'[p] = {b} /\ record'[p][b] = e
  BY <1>4 DEF Only
<1>6. b \in Bases /\ ~Named(b)
  <2>1. n \in Nat /\ n \notin 1..inits
    BY <1>0, <1>3
  <2> QED
    BY <1>2, <2>1, KeysDiffer DEF Bases, Named
<1>7. \A c : Named(c)' => c = b \/ Named(c)
  <2> SUFFICES ASSUME NEW c, Named(c)' PROVE c = b \/ Named(c)
    OBVIOUS
  <2>1. PICK k \in 1..inits' : c = BaseKey(k)
    BY DEF Named
  <2>2. k = n \/ k \in 1..inits
    BY <1>0, <1>3
  <2> QED
    BY <1>2, <2>1, <2>2 DEF Named
<1>8. st \in [Bases -> Party] /\ st[b] = p /\ \A c \in Bases : c # b => st[c] = starter[c]
  BY <1>2, <1>6 DEF Started
<1>9. \A q \in Party : \A c \in DOMAIN record[q] : Named(c) /\ c # b
  BY <1>6 DEF PInv, HInv, EntryFits
<1>10. \A m \in net : Named(m.session) /\ m.session # b /\ m.session \in Bases
  BY <1>6, NamedIsBase DEF PInv, HInv, MessageFits
<1>11. e.ratchet = Initial(p, b) /\ e.ratchet.pending = TRUE /\ e.ratchet.previousCounter = 0
  <2>1. e.ratchet = Initial(p, b)
    BY <1>2 DEF InitialEntry, Entry, Initial
  <2>2. Initial(p, b).pending = TRUE /\ Initial(p, b).previousCounter = 0
    BY DEF Initial, InitialSession
  <2> QED
    BY <2>1, <2>2
<1>12. ASSUME NEW q \in Party, NEW c \in DOMAIN record'[q], record'[q][c].ratchet.pending = TRUE
       PROVE  q = st[c] /\ Untouched(q, c, record'[q][c].ratchet)
  <2>1. CASE q = p
    BY <1>5, <1>8, <1>11, <2>1, SameKeysSelf DEF Untouched
  <2>2. CASE q # p
    <3>1. c \in DOMAIN record[q] /\ record'[q][c] = record[q][c] /\ c \in Bases /\ c # b
      BY <1>4, <1>9, <2>2, NamedIsBase
    <3> QED
      BY <1>8, <1>12, <3>1 DEF Started
  <2> QED
    BY <2>1, <2>2
<1>13. \A m \in net' : m.frame.pre => m.from = st[m.session]
  BY <1>3, <1>8, <1>10 DEF Started
<1>14. ASSUME NEW c, Named(c)' PROVE (c \in built[Other(st[c])] \/ Unanswered(st[c], c))'
  <2>1. CASE c = b
    <3>1. Other(p) \in Party /\ Other(p) # p
      BY TheOther
    <3>2. b \notin DOMAIN record'[Other(p)]
      BY <1>4, <1>9, <3>1
    <3>3. \A m \in net' : m.session # b
      BY <1>3, <1>10
    <3>4. Unanswered(p, b)'
      BY <1>5, <1>11, <3>2, <3>3 DEF Unanswered
    <3> QED
      BY <1>8, <2>1, <3>4
  <2>2. CASE c # b
    <3>1. Named(c) /\ c \in Bases /\ st[c] = starter[c] /\ starter[c] \in Party
      BY <1>7, <1>8, <1>14, <2>2, NamedIsBase DEF Started
    <3>2. CASE c \in built[Other(starter[c])]
      BY <1>3, <3>1, <3>2
    <3>3. CASE Unanswered(starter[c], c)
      <4>1. PICK s : s = starter[c]
        OBVIOUS
      <4>2. s \in Party /\ Other(s) \in Party /\ Unanswered(s, c)
        BY <3>1, <3>3, <4>1, TheOther
      <4>3. \A q \in Party : c \in DOMAIN record'[q] => c \in DOMAIN record[q] /\ record'[q][c] = record[q][c]
        BY <1>4, <1>5, <2>2
      <4>4. Unanswered(s, c)'
        BY <1>3, <4>2, <4>3 DEF Unanswered, FirstRoot
      <4> QED
        BY <3>1, <4>1, <4>4
    <3> QED
      BY <3>1, <3>2, <3>3 DEF Started
  <2> QED
    BY <2>1, <2>2
<1>15. ASSUME NEW c, Named(c)', Together(c)' PROVE FALSE
  <2>1. Other(p) \in Party /\ Other(p) # p /\ c \in DOMAIN record'[p] /\ c \in DOMAIN record'[Other(p)]
    BY <1>15, TheOther DEF Together
  <2> QED
    BY <1>4, <1>5, <1>9, <2>1
<1>16. Started(st)'
  BY <1>3, <1>8, <1>12, <1>13, <1>14, <1>15 DEF Started
<1> QED
  BY <1>3, <1>16 DEF SInv

LEMMA SendStarts == ASSUME PInv, NEW starter, Started(starter), NEW p \in Party, Send(p) PROVE SInv'
<1>1. PICK b \in Foremost(record[p]) :
        SendsOnEntry(p, b) /\ net' = net \cup {Message(p, b)}
  BY DEF Send, SendsOnEntry
<1>2. PICK e, o, x, f : e = record[p][b].ratchet /\ o = Encrypted(e) /\ x = Message(p, b) /\ f = Frame(e)
  OBVIOUS
<1>3. /\ PInv' /\ net' = net \cup {x} /\ built' = built /\ rebuilt' = rebuilt /\ inits' = inits
  BY <1>1, <1>2, SendPending DEF Send
<1>4. /\ b \in DOMAIN record[p] /\ EntryFits(b, record[p][b])
      /\ DOMAIN record'[p] = DOMAIN record[p]
      /\ \A c \in DOMAIN record[p] :
           record'[p][c].ratchet = IF c = b THEN o ELSE record[p][c].ratchet
      /\ \A q \in Party : q # p => record'[q] = record[q]
      /\ x.from = p /\ x.session = b
  <2>1. PICK i : i = SendingId(e)
    OBVIOUS
  <2>2. SendChanges(p, b, e, o, i, x)
    BY <1>1, <1>2, <2>1, SendEffect DEF PInv
  <2> QED
    BY <2>2 DEF SendChanges
<1>5. IsRatchet(e) /\ CanEncrypt(e) /\ x.frame = f /\ Named(b)
  BY <1>1, <1>2, <1>4 DEF EntryFits, SendsOnEntry, Message
<1>6. PICK n \in Nat : n = f.counter
  BY <1>2, <1>5, SendingSends
<1>7. /\ Sends(e, o, n) /\ f.pre = e.pending /\ f.id = Wire(e.own) /\ f.key.seed = e.root /\ Sent(f, o)
  BY <1>2, <1>5, <1>6, SendingSends
<1>8. /\ SameKeys(e, o) /\ IsRatchet(o) /\ o.previousCounter = e.previousCounter /\ o.pending = e.pending
  BY <1>7 DEF Sends
<1>9. \A q \in Party : DOMAIN record'[q] = DOMAIN record[q]
  BY <1>4
<1>10. \A q \in Party : \A c \in DOMAIN record[q] :
         record'[q][c].ratchet = IF q = p /\ c = b THEN o ELSE record[q][c].ratchet
  BY <1>4
<1>11. ASSUME NEW q \in Party, NEW c \in DOMAIN record'[q], record'[q][c].ratchet.pending = TRUE
       PROVE  q = starter[c] /\ Untouched(q, c, record'[q][c].ratchet)
  <2>1. CASE q = p /\ c = b
    <3>1. q = starter[c] /\ Untouched(q, c, e) /\ record'[q][c].ratchet = o
      BY <1>2, <1>4, <1>8, <1>10, <1>11, <2>1 DEF Started
    <3> QED
      BY <1>8, <3>1 DEF Untouched, SameKeys
  <2>2. CASE q # p \/ c # b
    BY <1>9, <1>10, <1>11, <2>2 DEF Started
  <2> QED
    BY <2>1, <2>2
<1>12. ASSUME NEW m \in net', m.frame.pre PROVE m.from = starter[m.session]
  <2>1. CASE m \in net
    BY <1>12, <2>1 DEF Started
  <2>2. CASE m = x
    <3>1. e.pending = TRUE
      BY <1>5, <1>7, <1>12, <2>2 DEF IsRatchet
    <3> QED
      BY <1>2, <1>4, <2>2, <3>1 DEF Started
  <2> QED
    BY <1>3, <2>1, <2>2
<1>13. ASSUME NEW c, Named(c) PROVE (c \in built[Other(starter[c])] \/ Unanswered(starter[c], c))'
  <2>1. PICK s : s = starter[c]
    OBVIOUS
  <2>2. s \in Party /\ Other(s) \in Party /\ Other(s) # s /\ \A q \in Party : q # s => q = Other(s)
    BY <1>13, <2>1, NamedIsBase, TheOther DEF Started
  <2>3. CASE c \in built[Other(s)]
    BY <1>3, <2>1, <2>3
  <2>4. CASE Unanswered(s, c)
    <3>1. /\ c \notin DOMAIN record'[Other(s)]
          /\ c \in DOMAIN record'[s] => record'[s][c].ratchet.pending = TRUE
      BY <1>2, <1>4, <1>8, <1>9, <1>10, <2>2, <2>4 DEF Unanswered
    <3>2. ASSUME c = b PROVE x.from = s /\ x.frame.id = Wire(c) /\ x.frame.key.seed = FirstRoot(s, c)
      <4>1. p = s
        BY <1>4, <2>2, <2>4, <3>2 DEF Unanswered
      <4>2. e.pending = TRUE
        BY <1>2, <1>4, <2>4, <3>2, <4>1 DEF Unanswered
      <4>3. Pending(p, b, e)
        BY <1>2, <1>4 DEF PInv
      <4>4. e.own = b /\ e.root = FirstRoot(s, c)
        BY <3>2, <4>1, <4>2, <4>3 DEF Pending
      <4> QED
        BY <1>4, <1>5, <1>7, <3>2, <4>1, <4>4
    <3>3. \A m \in net' : m.session = c => m.from = s /\ m.frame.id = Wire(c) /\ m.frame.key.seed = FirstRoot(s, c)
      BY <1>3, <1>4, <2>4, <3>2 DEF Unanswered
    <3>4. Unanswered(s, c)'
      BY <3>1, <3>3 DEF Unanswered, FirstRoot
    <3> QED
      BY <2>1, <3>4
  <2> QED
    BY <1>13, <2>1, <2>3, <2>4 DEF Started
<1>14. ASSUME NEW c, Named(c), Together(c)' PROVE InTouch(c)'
  <2>1. \A q \in Party : c \in DOMAIN record[q] /\ c \notin rebuilt[q]
    BY <1>3, <1>9, <1>14 DEF Together
  <2>2. InTouch(c)
    BY <1>14, <2>1 DEF Started, Together
  <2>3. Other(p) \in Party /\ Other(p) # p /\ \A q \in Party : q # p => q = Other(p)
    BY TheOther
  <2>4. /\ IsFiniteSet(net) /\ Cardinality(net) \in Nat
        /\ Cardinality(net') = IF x \in net THEN Cardinality(net) ELSE Cardinality(net) + 1
        /\ Cardinality(net') \in Nat /\ Cardinality(net) <= Cardinality(net')
    BY <1>3, FS_AddElement, FS_CardinalityType DEF PInv
  <2>5. \A q \in Party : IsRatchet(record[q][c].ratchet) /\ Under(record[q][c].ratchet, Cardinality(net))
    BY <2>1, <2>2 DEF InTouch, PInv, HInv, EntryFits
  <2>6. CASE c # b
    <3>1. \A q \in Party : record'[q][c].ratchet = record[q][c].ratchet
      BY <1>10, <2>1, <2>6
    <3>2. \E q \in Party : Ahead(record'[q][c].ratchet, record'[Other(q)][c].ratchet)
      BY <2>2, <3>1, TheOther DEF InTouch
    <3>3. \A q \in Party : Under(record'[q][c].ratchet, Cardinality(net'))
      BY <2>4, <2>5, <3>1, UnderMore
    <3>4. \A m \in net' : m.session = c => m \in net /\ m.from \in Party
      BY <1>3, <1>4, <2>6 DEF PInv, HInv, MessageFits
    <3>5. \A m \in net' : m.session = c => Sent(m.frame, record'[m.from][c].ratchet)
      BY <2>2, <3>1, <3>4 DEF InTouch
    <3> QED
      BY <3>2, <3>3, <3>5 DEF InTouch
  <2>7. CASE c = b
    <3>1. PICK r : r = record[Other(p)][b].ratchet
      OBVIOUS
    <3>2. /\ record'[p][b].ratchet = o /\ record'[Other(p)][b].ratchet = r /\ record[p][b].ratchet = e
          /\ IsRatchet(r)
      BY <1>2, <1>10, <2>1, <2>3, <2>5, <2>7, <3>1
    <3>3. \E q \in Party : Ahead(record'[q][b].ratchet, record'[Other(q)][b].ratchet)
      <4>1. PICK q \in Party : Ahead(record[q][b].ratchet, record[Other(q)][b].ratchet)
        BY <2>2, <2>7 DEF InTouch
      <4>2. CASE q = p
        <5>1. Ahead(o, r)
          BY <1>5, <1>7, <3>1, <3>2, <4>1, <4>2, AheadSends
        <5> QED
          BY <3>2, <5>1
      <4>3. CASE q = Other(p)
        <5>1. Other(q) = p
          BY <2>3, <4>3, TheOther
        <5>2. Ahead(r, o)
          BY <1>5, <1>7, <3>1, <3>2, <4>1, <4>3, <5>1, AheadSends
        <5> QED
          BY <2>3, <3>2, <4>3, <5>1, <5>2
      <4> QED
        BY <2>3, <4>2, <4>3
\* The message is a new one, since its sender is past all it sent before.
    <3>4. x \notin net
      <4>1. ~Sent(f, e)
        BY <1>2, <1>5, SentIsNew
      <4> QED
        BY <1>2, <1>4, <1>5, <2>2, <2>7, <4>1 DEF InTouch
    <3>5. Under(o, Cardinality(net'))
      BY <1>5, <1>7, <2>4, <2>5, <2>7, <3>2, <3>4, UnderSends
    <3>6. Under(r, Cardinality(net'))
      BY <2>3, <2>4, <2>5, <2>7, <3>1, <3>2, UnderMore
    <3>7. \A q \in Party : Under(record'[q][b].ratchet, Cardinality(net'))
      BY <2>3, <3>2, <3>5, <3>6
    <3>8. ASSUME NEW m \in net', m.session = b PROVE Sent(m.frame, record'[m.from][b].ratchet)
      <4>1. CASE m = x
        BY <1>4, <1>5, <1>7, <3>2, <4>1
      <4>2. CASE m \in net
        <5>1. m.from \in Party /\ m.frame.counter \in Nat /\ Sent(m.frame, record[m.from][b].ratchet)
          BY <2>2, <2>7, <3>8, <4>2 DEF InTouch, PInv, HInv, MessageFits
        <5>2. CASE m.from = p
          <6>1. Sent(m.frame, e)
            BY <3>2, <5>1, <5>2
          <6>2. Sent(m.frame, o)
            BY <1>5, <1>7, <5>1, <6>1, SentBefore
          <6> QED
            BY <3>2, <5>2, <6>2
        <5>3. CASE m.from = Other(p)
          BY <3>1, <3>2, <5>1, <5>3
        <5> QED
          BY <2>3, <5>1, <5>2, <5>3
      <4> QED
        BY <1>3, <4>1, <4>2
    <3> QED
      BY <2>7, <3>3, <3>7, <3>8 DEF InTouch
  <2> QED
    BY <2>6, <2>7
<1>15. \A c : Named(c)' => Named(c)
  BY <1>3 DEF Named
<1>16. Started(starter)'
  BY <1>3, <1>11, <1>12, <1>13, <1>14, <1>15 DEF Started
<1> QED
  BY <1>3, <1>16 DEF SInv

\* The first message of a session that reaches the other makes the two ends.
LEMMA FirstTouch ==
  ASSUME PInv, NEW starter, Started(starter), NEW b, Named(b), NEW s \in Party, s = starter[b], Unanswered(s, b),
         b \in DOMAIN record[s], NEW p \in Party, p = Other(s), NEW m \in net, m.session = b, NEW now,
         NEW e, e = RecipientEntry(p, b, now).ratchet, Opens(e, m.frame), NEW k, k = RatchetKey(steps + 1),
         NEW o, o = Decrypted(e, m.frame, k), NEW x, x = record[s][b].ratchet
  PROVE  /\ Ahead(o, x) /\ Under(o, Cardinality(net)) /\ Under(x, Cardinality(net))
         /\ \A y \in net : y.session = b => y.from = s /\ Sent(y.frame, x)
<1>1. x.pending = TRUE /\ Pending(s, b, x) /\ Untouched(s, b, x) /\ IsRatchet(x) /\ InUse(x.own.key)
  BY DEF Unanswered, PInv, HInv, EntryFits, Started
<1>2. /\ x.own = b /\ x.root = FirstRoot(s, b)
      /\ b \in DOMAIN x.chains /\ IsSending(x.chains[b])
      /\ x.chains[b].counter < Cardinality(net)
  BY <1>1 DEF Pending
<1>0. \A y \in net : y.from = s /\ y.session = b => y.frame.counter <= x.chains[b].counter
  BY <1>1 DEF Pending
<1>3. PICK n \in 1..inits : b = BaseKey(n)
  BY DEF Named
<1>4. PICK spk, secret : spk = SignedKey(p) /\ secret = InitialSecret(IdentityKey(s), b, IdentityKey(p), spk, NoKey)
  OBVIOUS
<1>5. Initiates(Initial(s, b), b, spk, secret)
  <2>1. InitialEntry(s, b, now).ratchet = Initial(s, b)
    BY DEF InitialEntry, Entry, Initial
  <2> QED
    BY <1>3, <1>4, <2>1, BuiltFits
<1>6. Responds(e, b, spk, secret)
  <2>1. Other(p) = s
    BY TheOther
  <2>2. secret = RecipientSecret(IdentityKey(p), spk, NoKey, IdentityKey(s), b)
    BY <1>4, SecretsAgree
  <2> QED
    BY <1>3, <1>4, <2>1, <2>2, BuiltFits
<1>7. IsRatchet(e) /\ DOMAIN e.chains = {} /\ e.own.key = spk.key
  BY <1>6, BareId DEF Responds
<1>8. Leads(x, e)
  <2>1. b.key # spk.key
    BY <1>3, <1>4, KeysDiffer
  <2>2. Leads(Initial(s, b), e)
    BY <1>5, <1>6, <2>1, InitiatorLeads
  <2> QED
    BY <1>1, <2>2, LeadsWalked, SameKeysSelf DEF Untouched
<1>9. Ahead(x, e)
  BY <1>7, <1>8 DEF Ahead
<1>10. ASSUME NEW i \in DOMAIN x.chains, IsSending(x.chains[i]) PROVE i = b
  <2>1. IsRatchet(x) /\ b \in DOMAIN x.chains /\ IsSending(x.chains[b])
    BY <1>1, <1>2
  <2> QED
    BY <1>10, <2>1, OneSending
<1>11. ASSUME NEW y \in net, y.session = b PROVE y.from = s /\ Sent(y.frame, x)
  <2>1. y.from = s /\ y.frame.id = Wire(b) /\ y.frame.key.seed = FirstRoot(s, b)
    BY <1>11 DEF Unanswered
  <2>2. y.frame.counter <= x.chains[b].counter
    BY <1>0, <1>11, <2>1
  <2>3. y.frame.id.key = x.own.key /\ y.frame.key.seed = x.root
    <3>1. Wire(b).key = b.key
      BY DEF Wire, Id
    <3>2. x.own = b /\ x.root = FirstRoot(s, b)
      BY <1>2
    <3>3. y.frame.id = Wire(b) /\ y.frame.key.seed = FirstRoot(s, b)
      BY <2>1
    <3> QED
      BY <3>1, <3>2, <3>3
  <2>4. Len(x.root) \in Nat
    BY <1>1, SteppedRoots
  <2>5. PICK f : f = y.frame
    OBVIOUS
  <2>6. Len(f.key.seed) <= Len(x.root)
    BY <2>3, <2>4, <2>5
  <2>7. \A i \in DOMAIN x.chains : IsSending(x.chains[i]) => f.counter <= x.chains[i].counter
    BY <1>10, <2>2, <2>5
  <2>8. Sent(f, x)
    BY <2>3, <2>5, <2>6, <2>7 DEF Sent
  <2> QED
    BY <2>1, <2>5, <2>8
<1>12. Cardinality(net) \in Nat
  BY FS_CardinalityType DEF PInv
<1>13. Under(x, Cardinality(net))
  <2>1. x.previousCounter = 0
    BY <1>1 DEF Untouched
  <2>2. ASSUME NEW i \in DOMAIN x.chains, IsSending(x.chains[i]) PROVE x.chains[i].counter < Cardinality(net)
    <3>1. i = b
      BY <1>10, <2>2
    <3>2. x.chains[b].counter < Cardinality(net)
      BY <1>2
    <3> QED
      BY <3>1, <3>2
  <2> QED
    BY <1>12, <2>1, <2>2 DEF Under
<1>14. Under(e, Cardinality(net))
  <2>1. e.previousCounter = 0
    BY DEF RecipientEntry, Entry, RecipientSession
  <2> QED
    BY <1>7, <1>12, <2>1 DEF Under
<1>15. StepNeeded(e, m.frame.id)
  BY <1>7 DEF StepNeeded, HasChain
<1>16. IsId(m.frame.id) /\ m.frame.counter \in Nat /\ m.frame.id.key = b.key /\ Sent(m.frame, x)
  <2>1. m.frame.id = Wire(b)
    BY DEF Unanswered
  <2> QED
    BY <1>11, <2>1 DEF PInv, HInv, MessageFits, Wire, Id
<1>17. b.key # spk.key /\ k # b.key /\ k # spk.key
  BY <1>3, <1>4, KeysDiffer
<1>18. StaysInTouch(e, o, x) /\ Ahead(o, x)
  <2>1. PICK f : f = m.frame
    OBVIOUS
  <2>2. /\ IsId(f.id) /\ f.counter \in Nat /\ Sent(f, x) /\ StepNeeded(e, f.id) /\ Opens(e, f)
        /\ o = Decrypted(e, f, k)
    BY <1>15, <1>16, <2>1
  <2>3. f.id.key # e.own.key /\ e.own.key # x.own.key /\ k # f.id.key /\ k # e.own.key /\ k # x.own.key
    BY <1>2, <1>7, <1>16, <1>17, <2>1
  <2>4. Hears(e, x, f, k, o)
    BY <1>1, <1>7, <1>9, <2>2, <2>3 DEF Hears
  <2> QED
    BY <2>2, <2>4, StepStaysInTouch
<1> QED
  BY <1>11, <1>12, <1>13, <1>14, <1>18 DEF StaysInTouch

LEMMA ReceiveStarts == ASSUME PInv, NEW starter, Started(starter), NEW p \in Party, NEW m \in net, Receive(p, m) PROVE SInv'
<1>0. PICK now \in Time : \E r \in Candidates(p, record[p], m, now) : \E b \in DOMAIN r : ReceivesUnder(p, m, r, b)
  BY DEF Receive, Accepted, ReceivesUnder
<1>1. PICK r \in Candidates(p, record[p], m, now) : \E b \in DOMAIN r : ReceivesUnder(p, m, r, b)
  BY <1>0
<1>2. PICK b \in DOMAIN r : ReceivesUnder(p, m, r, b)
  BY <1>1
<1>3. PICK k, e : k = RatchetKey(steps + 1) /\ e = r[b].ratchet
  OBVIOUS
<1>4. PICK o : o = Decrypted(e, m.frame, k)
  OBVIOUS
<1>5. m.from # p /\ Opens(e, m.frame)
  BY <1>2, <1>3 DEF ReceivesUnder
<1>6. OpenChanges(p, r, b, m, e, o)
  BY <1>3, <1>4, <1>5, OpenEffect DEF PInv
<1>7. /\ m.session = b /\ Named(b) /\ IsRatchet(e) /\ IsRatchet(o) /\ o.pending = FALSE
      /\ \A c \in DOMAIN r : c # b => c \in DOMAIN record[p] /\ r[c].ratchet = record[p][c].ratchet
      /\ b \in DOMAIN record[p] => e = record[p][b].ratchet
  BY <1>6 DEF OpenChanges
<1>8. /\ PInv' /\ net' = net /\ inits' = inits
      /\ built' = [built EXCEPT ![p] = IF Builds(record[p], m) THEN @ \cup {m.session} ELSE @]
      /\ rebuilt' = [rebuilt EXCEPT ![p] = IF Bare(m.base) \in built[p] \ DOMAIN record[p] /\ m.frame.pre
                                           THEN @ \cup {m.session} ELSE @]
  BY ReceivePending DEF Receive
<1>9. /\ \A q \in Party : built[q] \subseteq built'[q] /\ rebuilt[q] \subseteq rebuilt'[q]
      /\ built' = [q \in Party |-> built'[q]] /\ rebuilt' = [q \in Party |-> rebuilt'[q]]
  BY <1>8 DEF Started
<1> DEFINE z == Opened(r, b, o)
<1>10. IsRecord(r)
  BY CandidateIsRecord DEF PInv
<1>11. record'[p] = z /\ \A q \in Party : q # p => record'[q] = record[q]
  <2>1. z = [r EXCEPT ![b].ratchet = Decrypted(@, m.frame, RatchetKey(steps + 1))]
    BY <1>3, <1>4, <1>10 DEF Opened, IsRecord
  <2> HIDE DEF z
  <2> QED
    BY <1>2, <2>1 DEF PInv, HInv, IInv, Typed, ReceivesUnder
<1>12. DOMAIN z = DOMAIN r /\ \A c \in DOMAIN r : z[c].ratchet = IF c = b THEN o ELSE r[c].ratchet
  BY <1>10, OpenedRecord
<1> HIDE DEF z
<1>13. b \in DOMAIN record'[p] /\ record'[p][b].ratchet = o
  BY <1>11, <1>12
<1>14. ASSUME NEW q \in Party, NEW c \in DOMAIN record'[q], q # p \/ c # b
       PROVE  c \in DOMAIN record[q] /\ record'[q][c].ratchet = record[q][c].ratchet
  BY <1>7, <1>11, <1>12, <1>14
<1>15. PICK s : s = starter[b]
  OBVIOUS
<1>16. /\ s \in Party /\ Other(s) \in Party /\ Other(s) # s
       /\ m.from \in Party /\ m.from = Other(p) /\ Other(p) # p /\ Other(p) \in Party
       /\ \A q \in Party : q # p => q = Other(p)
  BY <1>5, <1>7, <1>15, NamedIsBase, TheOther DEF Started, PInv, HInv, MessageFits
<1>17. Bare(m.base) = b
  BY <1>7, BaseOfSession DEF PInv
<1>18. ASSUME NEW q \in Party, NEW c \in DOMAIN record'[q], record'[q][c].ratchet.pending = TRUE
       PROVE  q = starter[c] /\ Untouched(q, c, record'[q][c].ratchet)
  <2>1. q # p \/ c # b
    BY <1>7, <1>13, <1>18
  <2> QED
    BY <1>14, <1>18, <2>1 DEF Started
\* A session that was built just now: its starter is the sender.
<1>19. ASSUME b \notin DOMAIN record[p]
       PROVE  /\ p = Other(s) /\ m.from = s /\ b \in built'[p] /\ e = RecipientEntry(p, b, now).ratchet
              /\ b \notin rebuilt'[p] => b \notin built[p]
  <2>1. Builds(record[p], m) /\ r[b] = RecipientEntry(p, b, now)
    BY <1>17, <1>7, <1>19, CandidateEntries DEF IsBuiltFor, PInv
  <2>2. m.from = s /\ m.frame.pre
    BY <1>7, <1>15, <2>1 DEF Builds, Started
  <2>3. b \in built'[p]
    BY <1>7, <1>8, <2>1 DEF Started
  <2>4. b \in built[p] => b \in rebuilt'[p]
    BY <1>7, <1>8, <1>17, <1>19, <2>2 DEF Started
  <2> QED
    BY <1>3, <1>16, <2>1, <2>2, <2>3, <2>4, TheOther
<1>20. ASSUME b \in DOMAIN record[p] PROVE b \in built[Other(s)]
  <2> SUFFICES ASSUME Unanswered(s, b) PROVE FALSE
    BY <1>7, <1>15 DEF Started
  <2>1. m.from = s /\ b \notin DOMAIN record[Other(s)]
    BY <1>7 DEF Unanswered
  <2> QED
    BY <1>16, <1>20, <2>1, TheOther
<1>21. ASSUME NEW c, Named(c) PROVE (c \in built[Other(starter[c])] \/ Unanswered(starter[c], c))'
  <2>1. PICK t : t = starter[c]
    OBVIOUS
  <2>2. t \in Party /\ Other(t) \in Party
    BY <1>21, <2>1, NamedIsBase, TheOther DEF Started
  <2>3. CASE c \in built[Other(t)]
    BY <1>9, <2>1, <2>2, <2>3
  <2>4. CASE c = b
    BY <1>9, <1>15, <1>16, <1>19, <1>20, <2>1, <2>4
  <2>5. CASE Unanswered(t, c) /\ c # b
    <3>1. \A q \in Party : c \in DOMAIN record'[q] => c \in DOMAIN record[q] /\ record'[q][c].ratchet = record[q][c].ratchet
      BY <1>14, <2>5
    <3>2. Unanswered(t, c)'
      BY <1>8, <2>2, <2>5, <3>1 DEF Unanswered, FirstRoot
    <3> QED
      BY <2>1, <3>2
  <2> QED
    BY <1>21, <2>1, <2>3, <2>4, <2>5 DEF Started
<1>22. ASSUME NEW c, Named(c), Together(c)' PROVE InTouch(c)'
  <2>1. \A q \in Party : c \in DOMAIN record'[q] /\ c \notin rebuilt'[q] /\ c \notin rebuilt[q]
    BY <1>9, <1>22 DEF Together
  <2>2. CASE c # b
    <3>1. \A q \in Party : c \in DOMAIN record[q] /\ record'[q][c].ratchet = record[q][c].ratchet
      BY <1>14, <2>1, <2>2
    <3>2. InTouch(c)
      BY <1>22, <2>1, <3>1 DEF Started, Together
    <3>3. \E q \in Party : Ahead(record'[q][c].ratchet, record'[Other(q)][c].ratchet)
      BY <3>1, <3>2, TheOther DEF InTouch
    <3>4. \A y \in net : y.from \in Party
      BY DEF PInv, HInv, MessageFits
    <3>5. \A y \in net : y.session = c => Sent(y.frame, record'[y.from][c].ratchet)
      BY <3>1, <3>2, <3>4 DEF InTouch
    <3>6. \A q \in Party : Under(record'[q][c].ratchet, Cardinality(net'))
      BY <1>8, <3>1, <3>2 DEF InTouch
    <3> QED
      BY <1>8, <3>3, <3>5, <3>6 DEF InTouch
  <2>3. CASE c = b
    <3>1. PICK x : x = record[Other(p)][b].ratchet
      OBVIOUS
    <3>2. b \in DOMAIN record[Other(p)] /\ record'[Other(p)][b].ratchet = x
      BY <1>11, <1>16, <2>1, <2>3, <3>1
    <3>3. /\ Ahead(o, x) \/ Ahead(x, o)
          /\ Under(o, Cardinality(net)) /\ Under(x, Cardinality(net))
          /\ \A y \in net : y.session = b =>
               IF y.from = p THEN Sent(y.frame, o) ELSE Sent(y.frame, x)
      <4>1. CASE b \notin DOMAIN record[p]
        <5>1. /\ p = Other(s) /\ s = Other(p) /\ e = RecipientEntry(p, b, now).ratchet /\ b \notin built[p]
          BY <1>16, <1>19, <2>1, <2>3, <4>1
        <5>2. Unanswered(s, b)
          BY <1>7, <1>15, <5>1 DEF Started
        <5>3. /\ Ahead(o, x) /\ Under(o, Cardinality(net)) /\ Under(x, Cardinality(net))
              /\ \A y \in net : y.session = b => y.from = s /\ Sent(y.frame, x)
          <6>1. b \in DOMAIN record[s] /\ x = record[s][b].ratchet /\ p = Other(s) /\ s \in Party /\ s = starter[b]
            BY <1>15, <1>16, <3>1, <3>2, <5>1
          <6>2. /\ e = RecipientEntry(p, b, now).ratchet /\ Opens(e, m.frame)
                /\ k = RatchetKey(steps + 1) /\ o = Decrypted(e, m.frame, k)
            BY <1>3, <1>4, <1>5, <5>1
          <6>3. PInv /\ Started(starter) /\ Named(b) /\ m \in net /\ m.session = b
            BY <1>7
          <6> QED
            BY <5>2, <6>1, <6>2, <6>3, FirstTouch
        <5> QED
          BY <1>16, <5>1, <5>3
      <4>2. CASE b \in DOMAIN record[p]
        <5>1. \A q \in Party : b \in DOMAIN record[q]
          BY <1>16, <3>2, <4>2
        <5>2. InTouch(b)
          BY <1>7, <2>1, <2>3, <5>1 DEF Started, Together
        <5>3. e = record[p][b].ratchet /\ IsRatchet(x)
          BY <1>7, <1>16, <3>1, <3>2, <4>2 DEF PInv, HInv, EntryFits
        <5>4. Ahead(e, x) \/ Ahead(x, e)
          <6>1. PICK q \in Party : Ahead(record[q][b].ratchet, record[Other(q)][b].ratchet)
            BY <5>2 DEF InTouch
          <6>2. q = p \/ (q = Other(p) /\ Other(q) = p)
            BY <1>16, TheOther
          <6> QED
            BY <3>1, <5>3, <6>1, <6>2
        <5>5. Sent(m.frame, x)
          BY <1>7, <1>16, <3>1, <5>2 DEF InTouch
        <5>6. /\ IsId(m.frame.id) /\ m.frame.counter \in Nat /\ InUse(m.frame.id.key)
              /\ InUse(e.own.key) /\ InUse(x.own.key)
          BY <1>16, <3>1, <3>2, <4>2, <5>3 DEF PInv, HInv, MessageFits, EntryFits
        <5>7. m.frame.id.key # e.own.key /\ e.own.key # x.own.key
          BY <1>16, <3>1, <3>2, <4>2, <5>3 DEF PInv, HInv, Apart
        <5>8. k # m.frame.id.key /\ k # e.own.key /\ k # x.own.key
          BY <1>3, <5>6, Fresh DEF PInv
        <5>9. StaysInTouch(e, o, x)
          <6>1. PICK f : f = m.frame
            OBVIOUS
          <6>2. Hears(e, x, f, k, o)
            BY <1>4, <1>5, <1>7, <5>3, <5>4, <5>5, <5>6, <5>7, <5>8, <6>1 DEF Hears
          <6> QED
            BY <6>2, StepStaysInTouch, WalkStaysInTouch
        <5>10. Under(o, Cardinality(net)) /\ Under(x, Cardinality(net))
          <6>1. Under(e, Cardinality(net)) /\ Under(x, Cardinality(net))
            BY <1>16, <3>1, <5>2, <5>3 DEF InTouch
          <6>2. Cardinality(net) \in Nat
            BY FS_CardinalityType DEF PInv
          <6> QED
            BY <5>9, <6>1, <6>2 DEF StaysInTouch
        <5>11. ASSUME NEW y \in net, y.session = b
               PROVE  IF y.from = p THEN Sent(y.frame, o) ELSE Sent(y.frame, x)
          <6>1. /\ y.from \in Party /\ Sent(y.frame, record[y.from][b].ratchet)
                /\ Len(y.frame.key.seed) \in Nat
            BY <5>2, <5>11 DEF InTouch, PInv, HInv, MessageFits, IsMessageKey, IsRoot
          <6>2. CASE y.from = p
            BY <5>3, <5>9, <6>1, <6>2 DEF StaysInTouch
          <6>3. CASE y.from # p
            BY <1>16, <3>1, <6>1, <6>3
          <6> QED
            BY <6>2, <6>3
        <5> QED
          BY <5>9, <5>10, <5>11 DEF StaysInTouch
      <4> QED
        BY <4>1, <4>2
    <3>4. \E q \in Party : Ahead(record'[q][b].ratchet, record'[Other(q)][b].ratchet)
      <4>1. Other(Other(p)) = p
        BY <1>16, TheOther
      <4> QED
        BY <1>13, <1>16, <3>2, <3>3, <4>1
    <3>5. \A q \in Party : Under(record'[q][b].ratchet, Cardinality(net))
      BY <1>13, <1>16, <3>2, <3>3
    <3>6. ASSUME NEW y \in net, y.session = b PROVE Sent(y.frame, record'[y.from][b].ratchet)
      <4>1. y.from \in Party
        BY DEF PInv, HInv, MessageFits
      <4> QED
        BY <1>13, <1>16, <3>2, <3>3, <3>6, <4>1
    <3> QED
      BY <1>8, <2>3, <3>4, <3>5, <3>6 DEF InTouch
  <2> QED
    BY <2>2, <2>3
<1>23. \A c : Named(c)' => Named(c)
  BY <1>8 DEF Named
<1>24. \A y \in net' : y.frame.pre => y.from = starter[y.session]
  BY <1>8 DEF Started
<1>25. starter \in [Bases -> Party]
  BY DEF Started
<1>26. Started(starter)'
  BY <1>9, <1>18, <1>21, <1>22, <1>23, <1>24, <1>25 DEF Started
<1> QED
  BY <1>8, <1>26 DEF SInv

LEMMA InitStarts == ~Migrated /\ Init => SInv
<1> SUFFICES ASSUME ~Migrated, Init PROVE SInv
  OBVIOUS
<1>1. /\ record = [p \in Party |-> <<>>] /\ net = {} /\ inits = 0
      /\ built = [p \in Party |-> {}] /\ rebuilt = [p \in Party |-> {}]
  BY DEF Init
<1>2. \A p \in Party : DOMAIN record[p] = {}
  BY <1>1, NoChains
<1>3. PICK q : q \in Party
  BY FS_EmptySet, SessionsAssumption
<1>4. PICK starter : starter = [b \in Bases |-> q]
  OBVIOUS
<1>5. \A b : ~Named(b)
  BY <1>1 DEF Named
<1>6. /\ starter \in [Bases -> Party]
      /\ built = [p \in Party |-> built[p]] /\ rebuilt = [p \in Party |-> rebuilt[p]]
  BY <1>1, <1>3, <1>4
<1>7. Started(starter)
  BY <1>1, <1>2, <1>5, <1>6 DEF Started
<1> QED
  BY <1>7, InitPending DEF SInv

LEMMA NextStarts == SInv /\ [Next]_vars => SInv'
<1> SUFFICES ASSUME SInv, [Next]_vars PROVE SInv'
  OBVIOUS
<1>1. PICK starter : Started(starter)
  BY DEF SInv
<1>2. PInv
  BY DEF SInv
<1>3. CASE \E p \in Party : InitOutgoing(p)
  BY <1>1, <1>2, <1>3, InitOutgoingStarts
<1>4. CASE \E p \in Party : Send(p)
  BY <1>1, <1>2, <1>4, SendStarts
<1>5. CASE \E p \in Party : \E m \in net : Receive(p, m)
  BY <1>1, <1>2, <1>5, ReceiveStarts
<1>6. CASE UNCHANGED vars
  <2>1. /\ PInv' /\ record' = record /\ net' = net /\ inits' = inits
        /\ built' = built /\ rebuilt' = rebuilt
    BY <1>2, <1>6, NextPending DEF vars
  <2>2. \A b : Named(b)' <=> Named(b)
    BY <2>1 DEF Named
  <2>3. \A p, b : Unanswered(p, b)' <=> Unanswered(p, b)
    BY <2>1 DEF Unanswered, FirstRoot
  <2>4. \A b : (Together(b)' <=> Together(b)) /\ (InTouch(b)' <=> InTouch(b))
    BY <2>1 DEF Together, InTouch
  <2>5. Started(starter)'
    BY <1>1, <2>1, <2>2, <2>3, <2>4 DEF Started
  <2> QED
    BY <2>1, <2>5 DEF SInv
<1> QED
  BY <1>3, <1>4, <1>5, <1>6 DEF Next

\* While both parties are on one session, each opens what the other sends next,
\* whatever other sessions came and went and whatever was lost, delayed or
\* duplicated on this one, unless one of them had let the session go and built
\* it again (session.rs:237-254, ratchet.rs:474-706).
THEOREM SharedSessionsOpen == ASSUME ~Migrated PROVE Spec => []SharedSessionOpens
<1>1. SInv => SharedSessionOpens
  <2> SUFFICES ASSUME SInv, NEW p \in Party, NEW b \in Foremost(record[p]),
                      Foremost(record[Other(p)]) = {b}, b \notin rebuilt[p] \cup rebuilt[Other(p)],
                      CanEncrypt(record[p][b].ratchet)
               PROVE  Accepts(Other(p), Message(p, b))
    BY DEF SharedSessionOpens
  <2>1. PICK starter : Started(starter)
    BY DEF SInv
  <2>2. PICK q, e, r, m : /\ q = Other(p) /\ e = record[p][b].ratchet
                          /\ r = record[q][b].ratchet /\ m = Message(p, b)
    OBVIOUS
  <2>3. q \in Party /\ Other(q) = p /\ p # q /\ \A x \in Party : x = p \/ x = q
    BY <2>2, TheOther
  <2>4. PInv /\ HInv /\ IInv
    BY DEF SInv, PInv, HInv
  <2>5. b \in DOMAIN record[p] /\ b \in DOMAIN record[q] /\ b \in Foremost(record[q])
    BY <2>2 DEF Foremost
  <2>6. EntryFits(b, record[p][b]) /\ EntryFits(b, record[q][b])
    BY <2>3, <2>4, <2>5 DEF HInv
  <2>7. Named(b) /\ IsRatchet(e) /\ IsRatchet(r)
    BY <2>2, <2>6 DEF EntryFits
  <2>8. Together(b)
    BY <2>2, <2>3, <2>5 DEF Together
  <2>9. InTouch(b)
    BY <2>1, <2>7, <2>8 DEF Started
  <2>10. Ahead(e, r) \/ Ahead(r, e)
    <3>1. PICK x \in Party : Ahead(record[x][b].ratchet, record[Other(x)][b].ratchet)
      BY <2>9 DEF InTouch
    <3> QED
      BY <2>2, <2>3, <3>1
  <2>11. PICK n \in Nat : n = Cardinality(net) /\ n < MaxSkip
    <3>1. Cardinality(net) \in Nat /\ Cardinality(net) <= MaxSent /\ MaxSent < MaxSkip
      BY <2>4, FS_CardinalityType, SessionsAssumption DEF PInv
    <3> QED
      BY <3>1, SessionsAssumption, ChainAssumption
  <2>12. Under(e, n)
    BY <2>2, <2>9, <2>11 DEF InTouch
  <2>13. Opens(r, Frame(e))
    BY <2>2, <2>7, <2>10, <2>11, <2>12, NextOpens
  <2>14. m.frame = Frame(e) /\ Bare(m.base) = b
    <3>1. m = [from |-> p, session |-> Bare(b), base |-> Wire(b), frame |-> Frame(e)]
      BY <2>2 DEF Message
    <3>2. Bare(Wire(b)) = b
      BY <2>7, KeysDiffer DEF Named
    <3> QED
      BY <3>1, <3>2
\* So the message is offered to the record as it is stored.
  <2>15. \A now \in Time : Candidates(q, record[q], m, now) = {record[q]}
    BY <2>5, <2>14 DEF Candidates, Builds, HasBaseKey
  <2>16. OpenKeys(record[q]) # {}
    <3>1. record[q] # <<>>
      BY <2>5, NoChains
    <3>2. Cardinality(OpenKeys(record[q])) = 1
      BY <2>3, <2>4, <3>1 DEF IInv, OneOpenEntry
    <3> QED
      BY <3>2, FS_EmptySet
  <2>17. Accepted(record[q], b, m)
    BY <2>2, <2>5, <2>13, <2>14, <2>16 DEF Accepted
  <2> QED
    BY <2>2, <2>5, <2>15, <2>17 DEF Accepts
<1> QED
  BY <1>1, InitStarts, NextStarts, PTL DEF Spec
=============================================================================
