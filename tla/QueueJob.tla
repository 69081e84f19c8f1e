------------------------------ MODULE QueueJob ------------------------------
(***************************************************************************)
(* src/queue-job.js: the per-address job queue that every read-modify-write *)
(* of a session record goes through.  add(key, fn) chains fn on the promise *)
(* stored for the key; an AsyncLocalStorage carries, into everything fn     *)
(* runs, the keys of the jobs that led there, so that a call coming from    *)
(* inside a job of the same key is dropped instead of waiting for itself.   *)
(*                                                                          *)
(* A Queue is one entry of one `queues` map: sharedQueue of                 *)
(* src/session-record.js keeps a QueueJob per (storage, address), and the   *)
(* key given to add is the address alone, so two queues may share a key.    *)
(***************************************************************************)
EXTENDS Naturals, Sequences, FiniteSets

CONSTANTS
  Call,          \* the invocations of add
  Queue,         \* the (storage, address) pairs
  Key,           \* the address strings
  KeyOf,         \* KeyOf[q]: the key under which q's calls are added
  Reaches,       \* <<q, r>>: code run by a job of q may call add on r
  DetachedCalls, \* may a job's code start work that it does not await?
  NoCall         \* Promise.resolve(): nothing to chain on

ASSUME QueueAssumption == /\ KeyOf \in [Queue -> Key]
                          /\ Reaches \subseteq Queue \X Queue
                          /\ DetachedCalls \in BOOLEAN
                          /\ NoCall \notin Call

VARIABLES
  state,    \* the promise returned by add, and its fn
  queueOf,  \* the queue each call was issued on; {} before
  tail,     \* the queues map: the last promise chained, NoCall when absent
  after,    \* the promise each call was chained on
  chain,    \* the AsyncLocalStorage store its fn runs with
  waits,    \* the nested call its fn is awaiting
  cleanup,  \* the calls whose cleanup reaction has yet to run
  line,     \* history: the calls chained on each queue, in order
  lineage   \* history: the jobs whose execution led to each call

vars == <<state, queueOf, tail, after, chain, waits, cleanup, line, lineage>>

State == {"idle", "dropped", "queued", "running", "fulfilled", "rejected"}

\* add has chained a promise for these,
Chained == {c \in Call : state[c] \notin {"idle", "dropped"}}

\* these have settled,
Settled == {c \in Call : state[c] \in {"fulfilled", "rejected"}}

\* and these have been cleaned up after: the reactions of a promise run in
\* the order they were registered, cleanup at the add that made the promise,
\* the start of its follower at a later one.
Gone == Settled \ cleanup

TypeOK ==
  /\ state \in [Call -> State]
  /\ queueOf \in [Call -> Queue \cup {{}}]
  /\ tail \in [Queue -> Call \cup {NoCall}]
  /\ after \in [Call -> Call \cup {NoCall}]
  /\ chain \in [Call -> SUBSET Key]
  /\ waits \in [Call -> Call \cup {NoCall}]
  /\ cleanup \in SUBSET Call
  /\ line \in [Queue -> Seq(Call)]
  /\ lineage \in [Call -> SUBSET Call]

Init ==
  /\ state = [c \in Call |-> "idle"]
  /\ queueOf = [c \in Call |-> {}]
  /\ tail = [q \in Queue |-> NoCall]
  /\ after = [c \in Call |-> NoCall]
  /\ chain = [c \in Call |-> {}]
  /\ waits = [c \in Call |-> NoCall]
  /\ cleanup = {}
  /\ line = [q \in Queue |-> <<>>]
  /\ lineage = [c \in Call |-> {}]
-----------------------------------------------------------------------------
(* add(key, fn), seen from a context whose store is ctx and which the jobs  *)
(* in jobs led to.                                                          *)

\* Mutations: any job in progress counts as re-entry; no call does.
ReentrantIfBusy(q, ctx) == ctx # {}
ReentrantNever(q, ctx) == FALSE

Reentrant(q, ctx) == KeyOf[q] \in ctx

Drop(c, q, ctx, jobs) ==
  /\ state[c] = "idle"
  /\ Reentrant(q, ctx)
  /\ state' = [state EXCEPT ![c] = "dropped"]
  /\ queueOf' = [queueOf EXCEPT ![c] = q]
  /\ lineage' = [lineage EXCEPT ![c] = jobs]
  /\ UNCHANGED <<tail, after, chain, cleanup, line>>

\* Mutation: every call chains on a resolved promise.
StoredNothing(q) == NoCall

\* What add chains on: the stored promise, or a resolved one.
Stored(q) == tail[q]

\* Mutation: the queue itself is added, instead of its key.
ChainForQueue(q, ctx) == ctx \cup {q}

\* The store the job will run with: a fresh set, not shared with its siblings.
ChainFor(q, ctx) == ctx \cup {KeyOf[q]}

Enqueue(c, q, ctx, jobs) ==
  /\ state[c] = "idle"
  /\ ~Reentrant(q, ctx)
  /\ state' = [state EXCEPT ![c] = "queued"]
  /\ queueOf' = [queueOf EXCEPT ![c] = q]
  /\ after' = [after EXCEPT ![c] = Stored(q)]
  /\ tail' = [tail EXCEPT ![q] = c]
  /\ cleanup' = cleanup \cup {c}
  /\ chain' = [chain EXCEPT ![c] = ChainFor(q, ctx)]
  /\ line' = [line EXCEPT ![q] = Append(@, c)]
  /\ lineage' = [lineage EXCEPT ![c] = jobs]

\* The application calls from outside any job.
AddOutside(c, q) == Enqueue(c, q, {}, {}) /\ UNCHANGED waits

\* A storage callback, or other code awaited by p's fn, calls back.  A
\* dropped call resolves at once, so there is nothing to wait for.
AddFromJob(c, q, p) ==
  /\ state[p] = "running"
  /\ waits[p] = NoCall
  /\ <<queueOf[p], q>> \in Reaches
  /\ \/ /\ Drop(c, q, chain[p], lineage[p] \cup {p})
        /\ UNCHANGED waits
     \/ /\ Enqueue(c, q, chain[p], lineage[p] \cup {p})
        /\ waits' = [waits EXCEPT ![p] = c]

\* A timer, listener or unawaited promise started by p's fn keeps p's context
\* and calls add, possibly after p has settled.
AddDetached(c, q, p) ==
  /\ DetachedCalls
  /\ state[p] = "running" \/ p \in Settled
  /\ <<queueOf[p], q>> \in Reaches
  /\ \/ Drop(c, q, chain[p], lineage[p] \cup {p})
     \/ Enqueue(c, q, chain[p], lineage[p] \cup {p})
  /\ UNCHANGED waits
-----------------------------------------------------------------------------
(* The rest of a promise's life.                                            *)

\* Mutation: the predecessor has started, and need not have settled.
ReadyOnceStarted(c) == after[c] # NoCall => state[after[c]] # "queued"

\* Both reactions of queue.then run the job: a rejected predecessor does not
\* break the chain.
Ready(c) == after[c] # NoCall => after[c] \in Gone

Start(c) ==
  /\ state[c] = "queued"
  /\ Ready(c)
  /\ state' = [state EXCEPT ![c] = "running"]
  /\ UNCHANGED <<queueOf, tail, after, chain, waits, cleanup, line, lineage>>

\* The nested call awaited by c's fn has settled.
Resume(c) ==
  /\ state[c] = "running"
  /\ waits[c] # NoCall
  /\ waits[c] \in Settled
  /\ waits' = [waits EXCEPT ![c] = NoCall]
  /\ UNCHANGED <<state, queueOf, tail, after, chain, cleanup, line, lineage>>

Finish(c) ==
  /\ state[c] = "running"
  /\ waits[c] = NoCall
  /\ \E s \in {"fulfilled", "rejected"} : state' = [state EXCEPT ![c] = s]
  /\ UNCHANGED <<queueOf, tail, after, chain, waits, cleanup, line, lineage>>

\* Mutation: the entry goes without the test that it is still c's.
CleanedBlindly(c) == [q \in Queue |-> IF q = queueOf[c] THEN NoCall ELSE tail[q]]

\* The map entry after c's reaction: removed only while c is still its value.
Cleaned(c) == [q \in Queue |-> IF tail[q] = c THEN NoCall ELSE tail[q]]

Cleanup(c) ==
  /\ c \in Settled
  /\ c \in cleanup
  /\ tail' = Cleaned(c)
  /\ cleanup' = cleanup \ {c}
  /\ UNCHANGED <<state, queueOf, after, chain, waits, line, lineage>>

Next ==
  \E c \in Call :
    \/ \E q \in Queue : AddOutside(c, q)
    \/ \E q \in Queue, p \in Call : AddFromJob(c, q, p) \/ AddDetached(c, q, p)
    \/ Start(c) \/ Resume(c) \/ Finish(c) \/ Cleanup(c)

Spec == Init /\ [][Next]_vars

\* The event loop runs every reaction, and the storage callbacks and native
\* calls a job awaits do return.  Nobody is obliged to call add.
Fairness == \A c \in Call : /\ WF_vars(Start(c))
                            /\ WF_vars(Resume(c))
                            /\ WF_vars(Finish(c))
                            /\ WF_vars(Cleanup(c))

FairSpec == Spec /\ Fairness
-----------------------------------------------------------------------------
(* Properties.                                                              *)

\* No two jobs of one queue are ever in progress together, not even when the
\* first is suspended in an await (queue-job.js:15-39): the load, the native
\* call and the store of a record never interleave with another job's.
MutualExclusion ==
  \A c, d \in Call :
    /\ state[c] = "running"
    /\ state[d] = "running"
    /\ queueOf[c] = queueOf[d]
    => c = d

\* The map has an entry exactly as long as the queue has a call whose cleanup
\* has not run (queue-job.js:32-37): an entry that went early would let the
\* next call overtake, one that stayed would leak an entry per address.
EntryIffPending ==
  \A q \in Queue :
    (tail[q] = NoCall) <=> \A c \in Chained : queueOf[c] = q => c \in Gone

\* A call is dropped only if the code making it is being awaited by a job of
\* the very queue it would have joined (queue-job.js:3-8, 16-24): dropping any
\* other one silently loses a message.
OnlyReentryDropped ==
  [][\A c \in Call :
       state[c] = "idle" /\ state'[c] = "dropped"
       => \E p \in lineage'[c] : state[p] = "running" /\ queueOf[p] = queueOf'[c]]_vars

\* Every call that joined a queue settles, whatever became of the ones before
\* it (queue-job.js:16-20, 29): no job waits for itself and no failure blocks
\* the queue.
EveryCallSettles == \A c \in Call : (state[c] = "queued") ~> c \in Settled

Phase == [c \in Call |-> CASE state[c] = "idle" -> "outside"
                           [] state[c] = "dropped" -> "refused"
                           [] state[c] = "queued" -> "waiting"
                           [] state[c] = "running" -> "active"
                           [] OTHER -> "done"]

Serial == INSTANCE SerialQueue WITH phase <- Phase

\* The promise chain serves each queue in the order of the calls, one at a
\* time (queue-job.js:15-39).
ImplementsSerialQueue == Serial!Spec
=============================================================================
