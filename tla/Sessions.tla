------------------------------ MODULE Sessions ------------------------------
(***************************************************************************)
(* Two parties that may both start sessions, at any time and at once: what  *)
(* each keeps of them in the record of the other, which one it answers on,  *)
(* and what a delayed, reordered, lost or duplicated message then does.     *)
(* initOutgoing replaces the record; a pkmsg of a new base key archives the *)
(* open entry and adds one; every message is sent on, and offered to, the   *)
(* current entry alone.  Jobs of an address are serial (SerialQueue), so a  *)
(* call is one step here; a call that throws stores nothing and is none.    *)
(* The bundles have no one-time prekey: Handshake has them.                 *)
(***************************************************************************)
EXTENDS X3dh, Archive

CONSTANTS Party,
          Time,      \* what Date.now() returns, in no order
          MaxInits,  \* bound: calls of initOutgoing
          MaxSent,   \* bound: messages sent
          MaxSteps,  \* bound: ratchet steps
          Migrated   \* start from a session that libsignal wrote?

ASSUME SessionsAssumption ==
  /\ IsFiniteSet(Party) /\ Cardinality(Party) = 2
  /\ Time \subseteq Nat
  /\ Migrated \in BOOLEAN
  /\ MaxSent \in Nat /\ MaxSent < MaxSkip /\ MaxSkip <= MaxRetained \* gaps are DoubleRatchet's

VARIABLES record,   \* record[p]: p's entries with the other party, by base key
          net,      \* the messages sent
          opened,   \* history: what p decrypted under the entries it still has
          built,    \* history: the base keys that p answered,
          rebuilt,  \* and those it answered again after it had let them go
          inits, steps

vars == <<record, net, opened, built, rebuilt, inits, steps>>

Other(p) == CHOOSE q \in Party : q # p

IdentityKey(p) == Id(<<"identity", p>>, "wire")
SignedKey(p) == Id(<<"signed", p>>, "bare")
BaseKey(n) == Id(<<"base", n>>, "bare")
RatchetKey(n) == <<"ratchet", n>>

Entry(ratchet, now) == [ratchet |-> ratchet, closed |-> -1, used |-> now]
Only(base, e) == [b \in {base} |-> e]

InitialEntry(p, base, now) ==
  Entry(InitialSession(IdentityKey(p), base, IdentityKey(Other(p)), SignedKey(Other(p)), NoKey), now)
RecipientEntry(p, base, now) ==
  Entry(RecipientSession(IdentityKey(p), SignedKey(p), NoKey, IdentityKey(Other(p)), base), now)

\* A message on an entry: while the answer is pending it names the base key, in
\* the wire form.  session tells the model which entry it was.
Message(p, b) ==
  [from |-> p, session |-> Bare(b), base |-> Wire(b), frame |-> Frame(record[p][b].ratchet)]

\* Nothing yet; or one party started a session, and the other answered it and
\* keeps the entry under the wire form of the base key, as libsignal does.
Init ==
  /\ built = [p \in Party |-> {}]
  /\ rebuilt = [p \in Party |-> {}]
  /\ IF Migrated
     THEN \E a \in Party, now \in Time :
            LET base == BaseKey(1)
                sent == InitialEntry(a, base, now)
                first == [from |-> a, session |-> base, base |-> Wire(base), frame |-> Frame(sent.ratchet)]
                answer == Decrypted(RecipientEntry(Other(a), base, now).ratchet, first.frame, RatchetKey(1))
            IN  /\ record = [p \in Party |-> IF p = a THEN Only(base, Entry(Encrypted(sent.ratchet), now))
                                             ELSE Only(Wire(base), Entry(answer, now))]
                /\ net = {first}
                /\ opened = [p \in Party |-> IF p = a THEN {} ELSE {first}]
                /\ inits = 1 /\ steps = 1
     ELSE /\ record = [p \in Party |-> <<>>]
          /\ net = {}
          /\ opened = [p \in Party |-> {}]
          /\ inits = 0 /\ steps = 0

InitOutgoing(p) == \E now \in Time :
  /\ inits < MaxInits
  /\ inits' = inits + 1
  /\ record' = [record EXCEPT ![p] = Only(BaseKey(inits + 1), InitialEntry(p, BaseKey(inits + 1), now))]
  /\ opened' = [opened EXCEPT ![p] = {}]
  /\ UNCHANGED <<net, built, rebuilt, steps>>

Send(p) == \E b \in Foremost(record[p]) :
  /\ Cardinality(net) < MaxSent
  /\ CanEncrypt(record[p][b].ratchet)
  /\ net' = net \cup {Message(p, b)}
  /\ record' = [record EXCEPT ![p][b].ratchet = Encrypted(@)]
  /\ UNCHANGED <<opened, built, rebuilt, inits, steps>>

\* Mutation: the base key is looked up as it came.
HasBaseKeyAsSent(r, base) == base \in DOMAIN r

\* sessionHasBaseKey, of the base key without its prefix.
HasBaseKey(r, base) == Bare(base) \in DOMAIN r

Builds(r, m) == m.frame.pre /\ ~HasBaseKey(r, m.base)

\* The records that decryption may be given: the one stored, or one with a
\* session built for the pkmsg.
Candidates(p, r, m, now) ==
  IF ~Builds(r, m) THEN {r}
  ELSE LET e == RecipientEntry(p, Bare(m.base), now)
       IN  IF r = <<>> THEN {Only(Bare(m.base), e)} ELSE ArchiveAndMerge(r, Bare(m.base), e, now)

\* The current entry opens the message; a pkmsg needs an open entry besides.
Accepted(r, b, m) ==
  /\ b \in Foremost(r)
  /\ m.frame.pre => OpenKeys(r) # {}
  /\ Opens(r[b].ratchet, m.frame)

Receive(p, m) == \E now \in Time : \E r \in Candidates(p, record[p], m, now) : \E b \in DOMAIN r :
  /\ m.from # p
  /\ Accepted(r, b, m)
  /\ StepNeeded(r[b].ratchet, m.frame.id) => steps < MaxSteps
  /\ record' = [record EXCEPT ![p] = [r EXCEPT ![b].ratchet = Decrypted(@, m.frame, RatchetKey(steps + 1))]]
  /\ steps' = IF StepNeeded(r[b].ratchet, m.frame.id) THEN steps + 1 ELSE steps
  /\ opened' = [opened EXCEPT ![p] = {x \in @ \cup {m} : \E c \in DOMAIN r : Bare(c) = x.session}]
  /\ built' = [built EXCEPT ![p] = IF Builds(record[p], m) THEN @ \cup {m.session} ELSE @]
  /\ rebuilt' = [rebuilt EXCEPT ![p] = IF Bare(m.base) \in built[p] \ DOMAIN record[p] /\ m.frame.pre
                                       THEN @ \cup {m.session} ELSE @]
  /\ UNCHANGED <<net, inits>>

Next == \E p \in Party : InitOutgoing(p) \/ Send(p) \/ \E m \in net : Receive(p, m)

Spec == Init /\ [][Next]_vars
-----------------------------------------------------------------------------
(* Properties *)

\* Would p decrypt m now, at any time of the clock?
Accepts(p, m) ==
  \A now \in Time : \A r \in Candidates(p, record[p], m, now) :
    \E b \in DOMAIN r : Accepted(r, b, m)
MayAccept(p, m) ==
  \E now \in Time : \E r \in Candidates(p, record[p], m, now) :
    \E b \in DOMAIN r : Accepted(r, b, m)

\* Whatever the clock does between the builds, a record has one open entry, and
\* no more archived ones than it may keep (session-cipher.js:149-178).
OneOpenEntry ==
  \A p \in Party : record[p] # <<>> =>
    /\ Cardinality(OpenKeys(record[p])) = 1
    /\ Cardinality(ArchivedKeys(record[p])) <= MaxArchived

\* What was decrypted under an entry is not decrypted again while the record
\* holds the entry, open or archived: a retransmitted pkmsg does not start the
\* session over (session-cipher.js:86-98).
NoReplay == \A p \in Party : \A m \in opened[p] : ~MayAccept(p, m)

\* While both parties are on one session, each opens what the other sends next,
\* whatever other sessions came and went (session.rs:237-254, ratchet.rs:
\* 474-706): unless one of them had let the session go and built it again.
SharedSessionOpens ==
  \A p \in Party : \A b \in Foremost(record[p]) :
    /\ Foremost(record[Other(p)]) = {b}
    /\ b \notin rebuilt[p] \cup rebuilt[Other(p)]
    /\ CanEncrypt(record[p][b].ratchet)
    => Accepts(Other(p), Message(p, b))

\* Starting over always works: what a party sends on a session that the other
\* has no entry of opens, whatever the other has instead and at whatever time
\* it got it (session-builder.js:40, session-cipher.js:98-111).
NewSessionOpens ==
  \A p \in Party : \A b \in Foremost(record[p]) :
    /\ record[p][b].ratchet.pending
    /\ ~HasBaseKey(record[Other(p)], b)
    => Accepts(Other(p), Message(p, b))

\* What the code and docs/api.md say of the archive (session-cipher.js:105-108,
\* 145-148): what is sent on a session whose entry is still held, open or
\* archived, can be decrypted.
HeldSessionOpens ==
  \A p \in Party : \A m \in net : \A b \in DOMAIN record[p] :
    m.from # p /\ Opens(record[p][b].ratchet, m.frame) => Accepts(p, m)

\* What the code says of a pkmsg whose base key has a session already
\* (session-cipher.js:86-90): the established session is kept, so what is
\* decrypted of it leaves its open entry open.
EstablishedIsKept ==
  [][\A p \in Party : \A b \in OpenKeys(record[p]) : \A m \in opened'[p] \ opened[p] :
       m.session = Bare(b) => b \in OpenKeys(record'[p])]_vars
=============================================================================
