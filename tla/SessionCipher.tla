--------------------------- MODULE SessionCipher ---------------------------
(***************************************************************************)
(* src/session-cipher.js and src/session-builder.js over a storage that can *)
(* fail and a process that can die.  A job of one address runs at a time    *)
(* (SerialQueue, which QueueJob implements); between two awaits it works on *)
(* the record it loaded, and other addresses' jobs, failures and crashes    *)
(* come in between.  Several jobs share the one-time prekeys.               *)
(*                                                                          *)
(* The ratchet is what the DoubleRatchet module shows of it: an entry opens *)
(* an authentic frame of its own session once, and numbers what it sends.   *)
(***************************************************************************)
EXTENDS Integers, Sequences, FiniteSets, Functions

CONSTANTS
  Job,              \* the calls made by the application
  Addr,             \* the remote addresses
  Frames,           \* what the network may deliver
  PreKey,           \* the one-time prekeys in storage at the start
  SignedPreKeys,    \* the signed prekeys that loadSignedPreKey(id) resolves
  FallbackSignedPreKeys, \* what loadSignedPreKey() may return; None: there is none
  MaxArchived,      \* MAX_ARCHIVED_SESSIONS
  ReadMayFail,      \* may loadSession, loadPreKey or reading a bundle throw?
  StoreMayFail,     \* may storeSession throw?
  HasRemovePreKey,  \* has the storage a removePreKey?
  RemoveMayFail,    \* may removePreKey throw?
  MaxCrashes,       \* bound: process restarts
  None              \* an absent one-time prekey

ASSUME CipherAssumption ==
  /\ MaxArchived \in Nat
  /\ {ReadMayFail, StoreMayFail, HasRemovePreKey, RemoveMayFail} \subseteq BOOLEAN
  /\ MaxCrashes \in Nat
  /\ None \notin PreKey \cup SignedPreKeys
  /\ \A f \in Frames : /\ f.kind \in {"whisper", "pkmsg"}
                       /\ f.n \in Nat
                       /\ f.authentic \in BOOLEAN

\* What a peer sends: its pkmsgs carry a base key of its own making, not a number
\* (an entry that initOutgoing made is known by one), and those of one session
\* name the one-time prekey its bundle had (ratchet.rs, pending_pre_key).
ASSUME FramesAssumption ==
  /\ None \notin Frames
  /\ \A f, g \in {h \in Frames : h.kind = "pkmsg" /\ h.authentic} :
       /\ f.base \notin Nat
       /\ f.base = g.base => f.preKey = g.preKey

VARIABLES
  record,       \* storage: record[a], the stored session record; empty if none
  prekeys,      \* storage: the one-time prekeys left
  line, phase,  \* the queues of the addresses
  job,          \* job[j]: the locals of j's async function, and how it settled
  clock,        \* builds so far: time stamp and identity of a session entry
  crashes

storage == <<record, prekeys>>
vars == <<storage, line, phase, job, clock, crashes>>

Serial == INSTANCE SerialQueue WITH Call <- Job, Queue <- Addr

NoRecord == <<>>

Entry(base, stamp) == [inc |-> stamp, base |-> base, closed |-> -1, sent |-> 0, got |-> {}]

IsOpen(e) == e.closed = -1
OpenKeys(r) == {b \in DOMAIN r : IsOpen(r[b])}

\* current_session_mut: an open entry before an archived one, then the newest.
CurrentKey(r) ==
  LET S == IF OpenKeys(r) # {} THEN OpenKeys(r) ELSE DOMAIN r
  IN  CHOOSE b \in S : \A c \in S : r[c].inc <= r[b].inc
Current(r) == r[CurrentKey(r)]

\* A pkmsg is of its sender's first epoch, whose keys any entry built from its
\* base key derives; the other frames answer one particular entry.
Matches(e, f) ==
  /\ f.authentic
  /\ IF f.kind = "pkmsg" THEN f.base = e.base ELSE f.inc = e.inc
  /\ f.n \notin e.got

Opened(r, f) == [r EXCEPT ![CurrentKey(r)].got = @ \cup {f.n}]
\* Mutation: the record is stored as it was loaded.
SteppedNot(r) == r

Stepped(r) == [r EXCEPT ![CurrentKey(r)].sent = @ + 1]
-----------------------------------------------------------------------------
(* archiveAndMerge and evictOldestArchived *)

\* Mutation: the open entry stays open beside the new one.
ArchivedNone(r) == r

Archived(r) == [b \in DOMAIN r |-> IF IsOpen(r[b]) THEN [r[b] EXCEPT !.closed = r[b].inc] ELSE r[b]]

\* Mutation: the entry is stored under its time stamp.
MergedUnderStamp(r, e) == [b \in DOMAIN r \cup {e.inc} |-> IF b = e.inc THEN e ELSE r[b]]

Merged(r, e) == [b \in DOMAIN r \cup {e.base} |-> IF b = e.base THEN e ELSE r[b]]

NewestArchived(r) ==
  LET A == DOMAIN r \ OpenKeys(r)
  IN  {b \in A : Cardinality({c \in A : r[c].closed > r[b].closed}) < MaxArchived}

EvictOldestArchived(r) == Restrict(r, OpenKeys(r) \cup NewestArchived(r))

ArchiveAndMerge(r, e) == EvictOldestArchived(Merged(Archived(r), e))
-----------------------------------------------------------------------------
(* Jobs *)

Requests == [addr : Addr, op : {"encrypt", "init"}, frame : {None}]
              \cup {[addr |-> a, op |-> f.kind, frame |-> f] : a \in Addr, f \in Frames}

\* reply is what the job returns: a counter of a session entry, or the frame it
\* opened.
Idle == [pc |-> "idle", request |-> None, loaded |-> NoRecord, next |-> NoRecord,
         signed |-> None, built |-> FALSE, reply |-> None, outcome |-> "pending"]

Init ==
  /\ record = [a \in Addr |-> NoRecord]
  /\ prekeys = PreKey
  /\ Serial!Init
  /\ job = [j \in Job |-> Idle]
  /\ clock = 0
  /\ crashes = 0

At(j, l) == job[j].pc = l
FrameOf(j) == job[j].request.frame
AddrOf(j) == job[j].request.addr

\* The job runs on to its next await, with these locals.
Goto(j, l, locals) == job' = [job EXCEPT ![j] = [locals EXCEPT !.pc = l]] /\ UNCHANGED <<line, phase>>

\* The job's promise settles, and its locals are gone.
Settle(j, how) ==
  /\ Serial!End(j)
  /\ job' = [job EXCEPT ![j] = [Idle EXCEPT !.request = job[j].request, !.outcome = how,
                                           !.reply = IF how = "ok" THEN job[j].reply ELSE None]]

\* A method is called: its job joins the queue of its address.
Call(j) == \E r \in Requests :
  /\ Serial!Submit(j, r.addr)
  /\ job' = [job EXCEPT ![j].request = r]
  /\ UNCHANGED <<storage, clock, crashes>>

\* Mutation: each SessionCipher has a queue of its own.
StartUnqueued(j) ==
  /\ phase[j] = "waiting"
  /\ phase' = [phase EXCEPT ![j] = "active"]
  /\ job' = [job EXCEPT ![j].pc = IF job[j].request.op = "init" THEN "build" ELSE "load"]
  /\ UNCHANGED <<storage, line, clock, crashes>>

Start(j) ==
  /\ \E a \in Addr : \E i \in 1..Len(line[a]) : line[a][i] = j /\ Serial!Begin(a, i)
  /\ job' = [job EXCEPT ![j].pc = IF job[j].request.op = "init" THEN "build" ELSE "load"]
  /\ UNCHANGED <<storage, clock, crashes>>

\* await storage.loadSession(addr), and the branch on what it returned.
Load(j) ==
  LET r == record[AddrOf(j)]
      l == [job[j] EXCEPT !.loaded = r]
  IN
  /\ At(j, "load")
  /\ \/ /\ job[j].request.op = "pkmsg"
        /\ Goto(j, IF FrameOf(j).base \in DOMAIN r THEN "open" ELSE "prekey", l)
     \/ /\ job[j].request.op # "pkmsg"
        /\ IF r = NoRecord THEN Settle(j, "no session") ELSE Goto(j, "open", l)
     \/ ReadMayFail /\ Settle(j, "unread")
  /\ UNCHANGED <<storage, clock, crashes>>

\* initIncoming awaits loadPreKey; a one-time prekey that is named and missing
\* throws.
LoadPreKey(j) ==
  /\ At(j, "prekey")
  /\ \/ FrameOf(j).preKey \in prekeys \cup {None} /\ Goto(j, "signed", job[j])
     \/ FrameOf(j).preKey \notin prekeys \cup {None} /\ Settle(j, "missing prekey")
     \/ ReadMayFail /\ Settle(j, "unread")
  /\ UNCHANGED <<storage, clock, crashes>>

\* The signed prekeys initIncoming may work with: the one named, or the argless
\* fallback where that is missing or reading it throws.
SignedPreKeysFor(f) ==
  (SignedPreKeys \cap {f.signedPreKey})
    \cup (IF f.signedPreKey \in SignedPreKeys /\ ~ReadMayFail THEN {} ELSE FallbackSignedPreKeys)

\* Then it awaits loadSignedPreKey, and throws if it has come to none.
LoadSignedPreKey(j) ==
  /\ At(j, "signed")
  /\ \/ \E k \in SignedPreKeysFor(FrameOf(j)) \ {None} : Goto(j, "join", [job[j] EXCEPT !.signed = k])
     \/ None \in SignedPreKeysFor(FrameOf(j)) /\ Settle(j, "missing prekey")
     \/ ReadMayFail /\ Settle(j, "unread")
  /\ UNCHANGED <<storage, clock, crashes>>

\* The two sides worked with the same signed prekey.
Agrees(j) == job[j].signed = FrameOf(j).signedPreKey

\* initIncoming builds the entry in memory, archiveAndMerge makes it the
\* candidate, and ratchetDecryptPkmsg authenticates it.
Candidate(j) ==
  LET e == Entry(FrameOf(j).base, clock + 1)
  IN  IF job[j].loaded = NoRecord THEN Merged(NoRecord, e) ELSE ArchiveAndMerge(job[j].loaded, e)

\* Mutation: the candidate is stored before its MAC is verified.
JoinStoringFirst(j) ==
  LET f == FrameOf(j) IN
  /\ At(j, "join")
  /\ clock' = clock + 1
  /\ record' = [record EXCEPT ![AddrOf(j)] = Candidate(j)]
  /\ IF Agrees(j) /\ Matches(Current(Candidate(j)), f)
     THEN Goto(j, "store", [job[j] EXCEPT !.next = Opened(Candidate(j), f), !.built = TRUE, !.reply = f])
     ELSE Settle(j, "bad mac")
  /\ UNCHANGED <<prekeys, crashes>>

Join(j) ==
  LET f == FrameOf(j) IN
  /\ At(j, "join")
  /\ clock' = clock + 1
  /\ IF Agrees(j) /\ Matches(Current(Candidate(j)), f)
     THEN Goto(j, "store", [job[j] EXCEPT !.next = Opened(Candidate(j), f), !.built = TRUE, !.reply = f])
     ELSE Settle(j, "bad mac")
  /\ UNCHANGED <<storage, crashes>>

\* The native call on the record as loaded.
Encrypt(j) ==
  LET e == Current(job[j].loaded) IN
  /\ At(j, "open")
  /\ job[j].request.op = "encrypt"
  /\ Goto(j, "store", [job[j] EXCEPT !.next = Stepped(job[j].loaded), !.reply = [inc |-> e.inc, n |-> e.sent]])
  /\ UNCHANGED <<storage, clock, crashes>>

\* Both kinds of message; ratchetDecryptPkmsg needs an open entry besides.
Decrypt(j) ==
  LET f == FrameOf(j) IN
  /\ At(j, "open")
  /\ job[j].request.op # "encrypt"
  /\ IF /\ Matches(Current(job[j].loaded), f)
        /\ job[j].request.op = "pkmsg" => OpenKeys(job[j].loaded) # {}
     THEN Goto(j, "store", [job[j] EXCEPT !.next = Opened(job[j].loaded, f), !.reply = f])
     ELSE Settle(j, "rejected")
  /\ UNCHANGED <<storage, clock, crashes>>

\* initOutgoing: the record is a new one, whatever was stored; without a bundle
\* whose signature verifies there is none.
Build(j) ==
  /\ At(j, "build")
  /\ \/ /\ clock' = clock + 1
        /\ Goto(j, "store", [job[j] EXCEPT !.next = Merged(NoRecord, Entry(clock + 1, clock + 1))])
     \/ /\ ReadMayFail
        /\ Settle(j, "unread")
        /\ UNCHANGED clock
  /\ UNCHANGED <<storage, crashes>>

\* Mutation: the one-time prekey is left in storage.
ConsumesNone(j) == FALSE

ConsumesPreKey(j) == HasRemovePreKey /\ job[j].built /\ FrameOf(j).preKey # None

\* await storage.storeSession: it may throw, having written or not.
Store(j) ==
  /\ At(j, "store")
  /\ \/ /\ record' = [record EXCEPT ![AddrOf(j)] = job[j].next]
        /\ IF ConsumesPreKey(j) THEN Goto(j, "remove", job[j]) ELSE Settle(j, "ok")
     \/ /\ StoreMayFail
        /\ record' \in {record, [record EXCEPT ![AddrOf(j)] = job[j].next]}
        /\ Settle(j, "storage")
  /\ UNCHANGED <<prekeys, clock, crashes>>

\* Mutation: the removal is best effort, and its failure is swallowed.
RemoveBestEffort(j) ==
  /\ At(j, "remove")
  /\ \/ prekeys' = prekeys \ {FrameOf(j).preKey}
     \/ RemoveMayFail /\ UNCHANGED prekeys
  /\ Settle(j, "ok")
  /\ UNCHANGED <<record, clock, crashes>>

\* await storage.removePreKey: a throw, with the prekey gone or not, is the
\* caller's to handle.
RemovePreKey(j) ==
  /\ At(j, "remove")
  /\ \/ prekeys' = prekeys \ {FrameOf(j).preKey} /\ Settle(j, "ok")
     \/ /\ RemoveMayFail
        /\ prekeys' \in {prekeys, prekeys \ {FrameOf(j).preKey}}
        /\ Settle(j, "storage")
  /\ UNCHANGED <<record, clock, crashes>>

\* The process dies: its jobs are gone, what was stored stays.
Crash ==
  LET gone == {j \in Job : phase[j] \in {"waiting", "active"}} IN
  /\ crashes < MaxCrashes
  /\ crashes' = crashes + 1
  /\ gone # {}
  /\ phase' = [j \in Job |-> IF j \in gone THEN "done" ELSE phase[j]]
  /\ job' = [j \in Job |-> IF j \in gone THEN [Idle EXCEPT !.request = job[j].request, !.outcome = "lost"] ELSE job[j]]
  /\ UNCHANGED <<storage, line, clock>>

Step(j) == \/ Call(j) \/ Start(j) \/ Load(j) \/ LoadPreKey(j) \/ LoadSignedPreKey(j)
           \/ Join(j) \/ Encrypt(j) \/ Decrypt(j) \/ Build(j) \/ Store(j) \/ RemovePreKey(j)

Next == Crash \/ \E j \in Job : Step(j)

Spec == Init /\ [][Next]_vars
-----------------------------------------------------------------------------
(* Properties *)

EntryOK(e) == e.inc \in 1..clock /\ (IsOpen(e) \/ e.closed = e.inc) /\ e.sent \in Nat /\ e.got \subseteq Nat

TypeOK ==
  /\ Serial!TypeOK
  /\ prekeys \subseteq PreKey
  /\ clock \in 0..Cardinality(Job) /\ crashes \in 0..MaxCrashes
  /\ \A a \in Addr : \A b \in DOMAIN record[a] : EntryOK(record[a][b]) /\ record[a][b].base = b
  /\ \A j \in Job : job[j].pc # "idle" <=> phase[j] = "active"

Succeeded(op) == {j \in Job : job[j].outcome = "ok" /\ job[j].request.op \in op}

\* Two frames handed to the application never carry the same counter of the
\* same session (session-cipher.js:40-60, session-record.js:21-23), whatever
\* ran concurrently, threw, or died on the way: a counter is stored before it
\* is returned.
NoCounterReuse ==
  \A i, j \in Succeeded({"encrypt"}) : job[i].reply = job[j].reply => i = j

\* The call j is about a pkmsg that names the prekey k.
Names(j, k) == phase[j] # "outside" /\ FrameOf(j) # None /\ FrameOf(j).preKey = k

\* May a prekey have outlived its session?  A call that named it told its caller
\* of a failure, or died with the process.
Troubled(k) == \E j \in Job : Names(j, k) /\ job[j].outcome \in {"storage", "lost"}

\* A plaintext is handed out once (session-cipher.js:62-130), even when the
\* record is replaced and the session built again.  A pkmsg without a one-time
\* prekey is left out: nothing of it is consumed; and so is one that arrives
\* for two addresses, whose builds race for the same prekey.
DeliveredOnce ==
  \A i, j \in Succeeded({"whisper", "pkmsg"}) :
    /\ job[i].reply = job[j].reply
    /\ job[i].reply.kind = "pkmsg" => /\ AddrOf(i) = AddrOf(j)
                                      /\ job[i].reply.preKey # None
                                      /\ ~Troubled(job[i].reply.preKey)
    => i = j

\* The write of a job replaces the very record it loaded (session-record.js:
\* 21-23): no other job's update is lost.
NoLostUpdate ==
  [][\A a \in Addr : record'[a] # record[a] =>
       \E j \in Job : /\ job'[j] # job[j]
                      /\ AddrOf(j) = a
                      /\ job[j].request.op = "init" \/ job[j].loaded = record[a]]_vars

\* A frame that is not authentic changes nothing in storage, neither the record
\* nor the prekeys (session-cipher.js:99-104).
OnlyAuthenticPersists ==
  [][storage' # storage =>
       \E j \in Job : job'[j] # job[j] /\ (FrameOf(j) = None \/ FrameOf(j).authentic)]_vars

\* A stored record has one open entry, the newest, and at most MaxArchived
\* others (session-cipher.js:149-178): no sequence of builds and evictions
\* leaves the address without a session or with two.
OneOpenEntry ==
  \A a \in Addr : record[a] # NoRecord =>
    /\ Cardinality(OpenKeys(record[a])) = 1
    /\ \A b \in DOMAIN record[a] : record[a][b].inc <= Current(record[a]).inc
    /\ Cardinality(DOMAIN record[a]) <= MaxArchived + 1

\* A prekey whose session is stored is still there only while the job that
\* built it is about to remove it, or after a call that named it told its
\* caller of a failure or died with the process (session-cipher.js:121-127).
PreKeyAccounted ==
  \A a \in Addr : \A f \in Frames :
    /\ f.kind = "pkmsg" /\ f.authentic
    /\ f.base \in DOMAIN record[a] /\ f.preKey \in prekeys
    => \/ Troubled(f.preKey)
       \/ \E j \in Job : Names(j, f.preKey) /\ AddrOf(j) = a /\ At(j, "remove")
=============================================================================
