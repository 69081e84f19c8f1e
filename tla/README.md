# oktz-signal: TLA+ models, checks and proofs

oktz-signal is a Signal-protocol library for Node: a thin JavaScript layer that
loads, serialises and stores session records through callbacks of the
application (`src/src/*.js`), over a native Rust addon that holds the protocol
itself (`src/native/signal/src/*.rs`). The library keeps no state of its own
between calls except the job queues; a session record is a JSON string that goes
from the storage through the native code and back on every call. What can go
wrong therefore lies in three places: the interleaving of calls around the
awaits, the walk of the message chains and the ratchet over an unreliable network,
and the agreement between two endpoints that never share state.

Paths below are relative to `src/`.

## 1. Inventory

| Component | State | Operations | What makes it correct |
|---|---|---|---|
| Job queue: `src/queue-job.js`, `sharedQueue` in `src/session-record.js` | a map of promises per queue; the keys of the enclosing jobs in an `AsyncLocalStorage`; a map of queues per storage and address | `add`, the start of a job, its settling, the cleanup of the map | one job of an address at a time, in the order of the calls; a failure does not block; only a call that would wait for itself is dropped; the map does not leak |
| Session cipher: `src/session-cipher.js` | none; the stored record, the stored one-time prekeys | `encrypt`, `decryptWhisperMessage`, `decryptPreKeyWhisperMessage`, `archiveAndMerge`, `evictOldestArchived` | no counter goes out twice, no update is lost, nothing unauthenticated is stored, a message is delivered once, the record has one open entry |
| Session builder: `src/session-builder.js` | none | `initOutgoing`, `initIncoming` | both sides build from the same keys, or the message is refused |
| X3DH: `native/signal/src/x3dh.rs` | none | `build_initial_session`, `build_recipient_session` | the two secrets agree exactly when the keys do |
| Message chains: `ratchet.rs` 194-301, `session.rs` 104-176 | chain key, counter, retained message keys | `fill_message_keys`, `peek_message_key`, `evict_oldest_message_keys` | the read-only pass and the walk agree; every key is the one of its counter; the store keeps to its cap without losing the key asked for |
| Double Ratchet: `ratchet.rs` 303-740 | root key, own key pair, last remote key, chains | `encrypt`, `plan_ratchet`, `apply_ratchet`, `decrypt_entry` | no message key is used twice, no frame opens twice, the ends do not drift apart, retired chains are gone |
| Message cipher: `ratchet.rs` 50-106 | none | AES-CBC with padding | decryption undoes encryption and opens nothing else |
| Session record: `session.rs` | entries by base key, archived ones | parse, validate, serialise, selection of the current entry | a record is read whole or refused, never cut down; the entry used is the open one |
| Wire codec: `proto.rs` | none | varints, fields, two decoders and two encoders | what is read is what was meant; everything malformed is refused |
| Curve operations: `curve.rs` | none | X25519 key pairs and agreements, XEdDSA | both sides agree, the secret counts, and only what was signed verifies |
| Native bindings: `lib.rs`, `util.rs` | none | the exports around the functions above | an error of the function is an exception, and nothing else is |
| Native loader: `index.cjs`, `scripts/loader-guard.mjs` | none | platform dispatch at load time | not modelled |
| `src/crypto.js`, `src/errors.js`, `src/protocol-address.js`, `index.js` | none | wrappers, error classes, names | not modelled |

How they interact. `SessionCipher` and `SessionBuilder` put every operation on
the queue that `sharedQueue` keeps for the (storage, address) pair. A job awaits
callbacks of the storage (`loadSession`, `loadPreKey`, `loadSignedPreKey`,
`storeSession`, `removePreKey`), which are foreign code: they may fail, may call
back into the library, and may start work that outlives the job. Between two
awaits the job calls the native layer, which parses the record, works on one
entry and returns a new record. One-time prekeys and signed prekeys are shared
by all addresses of a storage; records are not.

What is hard: awaits between the load and the store of a record; re-entry through
callbacks; a failed or half-finished write; a process that dies between
`storeSession` and `removePreKey`; frames lost, duplicated, delayed and
reordered over several ratchet epochs; both parties starting sessions at once, with
a clock that may go back; the boundaries `MAX_SKIP` and
`MAX_RETAINED_MESSAGE_KEYS`; records written by an earlier release or by
libsignal-js; prekeys rotated, handed out twice or named by no id. `PROJECT.json`
lists each of these at its line, with the properties that would catch it.

## 2. Modules

```
SerialQueue <--refines-- QueueJob <-- MCQueueJob, QueueJobProofs
     ^
     +--INSTANCE-- SessionCipher <-- MCSessionCipher
                                 <-- SessionCipherProofs

Chain <-- ChainWalk <-- MCChainWalk, ChainProofs
  ^
Ratchet <-- RatchetLemmas
  ^
X3dh <-- DoubleRatchet <-- DoubleRatchetProofs (RatchetLemmas)
     <-- Handshake     <-- HandshakeProofs     (RatchetLemmas)
     <-- Sessions      <-- SessionsProofs      (RatchetLemmas), MCSessions
            |
         Archive
            |
Curve, Cbc <-- Primitives <-- PrimitivesProofs
                   ^
       Record <-- Native <-- MCNative

Proto <-- MCProto
```

Operators named "Mutation" are wrong versions of the definition that follows
them, of the kind a plausible bug would make. They belong to no specification:
`PROJECT.json` pairs each with the property it has to break.

**SerialQueue** is what a queue promises: a call joins its line or is refused, is
served when all before it are done, and once.

**QueueJob** is `queue-job.js`. `tail` is the map `queues`, `after[c]` the promise
that `add` chained `c` on, `chain[c]` the set in the async context, `cleanup` the
reactions of `run.then(cleanup, cleanup)` that have yet to run. A call comes from
outside (`AddOutside`), from a callback a job awaits (`AddFromJob`), or from work
a job left running (`AddDetached`). Reactions of one promise run in the order they
were registered, so a job starts only when its predecessor was cleaned up after.
`line` and `lineage` are history. `KeyOf` is separate from the queue: `sharedQueue`
keeps one `QueueJob` per storage and address, and the key is the address alone.
The mapping to SerialQueue is `phase <- Phase`, a renaming of `state`.

**Chain** holds one chain and the three functions that walk it. A chain key is a
seed and a number of HMAC steps; a message key is the pair it is made of. The
recursion of `fill_message_keys` is replaced by what it leaves behind, and
**ChainWalk** checks, and ChainProofs proves, that it is what the levels of the
recursion leave behind.

**Ratchet** is `ratchet.rs` above the chains. A Diffie-Hellman agreement is the set
of the two key pairs, a root key the sequence of agreements it was derived from. A
public key has two encodings, as in stored records, and `KeyIds` is
`chain_key_ids`. A frame carries the message key it was encrypted under; `Opens`
is that the receiver's read-only pass derives the very same key, which is what
the MAC decides.

**X3dh** builds the two first entries. **DoubleRatchet** lets two of them exchange
frames over a network that keeps every frame for ever and delivers it at any
time, any number of times. **Handshake** is the path from a bundle to the two
entries: rotation of the signed prekey, a server that hands out any bundle
published so far, lookups in the recipient's storage at the time the message
arrives, and the consumption of the one-time prekey.

**Archive** is the record as a map of entries: which of them is in use, natively and
in `currentSessionEntry`, and what `archiveAndMerge` and `evictOldestArchived` make
of it. Where the code's choice depends on the order of the keys, the model leaves
it open.

**Sessions** puts two parties over Ratchet, X3dh and Archive: `record[p]` is what `p`
stores of the other. Either may start a session at any time (`InitOutgoing`
replaces the record), send on its current entry, and receive any message sent so
far, again or late; a pkmsg of a new base key archives the open entry and adds one
(`Candidates`). The jobs of an address are serial, so a call is one step, and a
call that throws stores nothing and is no step. `Date.now()` returns any member of
`Time`, in no order. `opened`, `built` and `rebuilt` are history. With `Migrated`
the parties start from a session that libsignal wrote, keyed by the wire form of
its base key.

**Primitives** is one call of an export that computes, and its answer: key generation,
agreement, signing and verifying of **Curve**, and two functions behind other
exports, the cipher of **Cbc** and the selection of the current entry. *Curve* takes
the numbers modulo 8 * Order for the points of the curve and those modulo
4 * TwistOrder for its twist: these are the groups of Curve25519, with the
primes left open, and a u-coordinate is a point up to its sign. A secret is a
number, `Clamp` the masks on its bits, `Challenge` any function into the scalars. *Cbc* has
addition modulo the values of a byte in place of the exclusive or, and for AES under
one key any permutation of the blocks (`EncryptBlock`, `DecryptBlock`).

**Native** adds the exports that read and question a record, over **Record**, which says
what serde makes of a JSON tree under the attributes of the structs: unknown fields
refused, defaults, options, structs given by position. `ratchet_*`, `x3dh_*` and
`proto_*` are Ratchet, X3dh and Proto.

**SessionCipher** is the JavaScript around the native calls, one action per await:
`pc` names the await a job is suspended in, and `loaded`, `next`, `signed`, `built`
are its locals. `loadSignedPreKey` finds the key that is named or falls back to the
argless call (`SignedPreKeysFor`), which may have none; a write and a removal may
throw with or without having taken effect; a storage may have no `removePreKey`
(`HasRemovePreKey`), and then no prekey is consumed. The ratchet is reduced to what DoubleRatchet shows of it: an entry opens
an authentic frame of its session once and numbers what it sends. The queues are
SerialQueue, which QueueJob is proved to implement. `Crash` ends every job and
keeps what was stored.

**Proto** is `proto.rs`, byte by byte. Both decoders are one loop over a table of
known fields. The widths are scaled: a byte carries 64 values and a continuation
flag instead of 128, u64 is 2 * 64^2 and u32 is 512, so that the last byte of a
full u64 carries one bit, as in the code, after two bytes instead of nine.

## 3. Runs

| Run | Instance | What it shows |
|---|---|---|
| `queue_order` | four calls, two addresses, calls from every place into every queue | `MutualExclusion`, `EntryIffPending`, `ImplementsSerialQueue` |
| `queue_progress` | four calls, callbacks that reach into the same or a later address and are awaited | only genuine re-entry is dropped; every accepted call settles |
| `chain_walk` | `MAX_SKIP` 4, cap 3, stored chains up to counter 5 with any set of keys, closed or not | recursion, read-only pass and eviction agree at every counter |
| `ratchet_session` | six frames each way, four ratchet steps, `MAX_SKIP` 2, cap 2 | no reuse, no replay, no drift, no chain left behind |
| `handshake` | two sessions, three signed prekeys, two one-time prekeys | agreement exactly on the same keys, replies open, a prekey makes one session, sessions stay apart |
| `wire_codec` | 5360 messages of up to five fields | the decoders accept exactly the sound messages, with the values meant |
| `cipher` | four calls of any kind on one address, messages of two sessions and a forged one, an archive of one; reads, writes and removals that throw, one crash | counters, updates, authenticity, one open entry, one delivery, and prekeys accounted for |
| `sessions` | two parties, three sessions started, four messages, six ratchet steps, an archive of one, two clock values in any order | one open entry, no replay, a shared session works, starting over always works |
| `native_calls` | every secret of 6 bits and every key of a group of 56 points and a twist of 20; blocks of three bytes of four values, a permutation of them, texts up to five bytes and ciphertexts up to six; a record with every field, that of libsignal's fixture and a receiving chain with a retained key besides, under every edit of one node and every pair of a harmless edit and another; all records of three entries | agreements, signatures, padding, parsing and selection are exact |
| `queue_detached_drop` | work that a job left running | violation: its call is dropped after the job has settled |
| `sessions_displaced` | a message of a session that a newer one archived | violation: it is rejected, though comments and the API document say it stays decryptable |
| `sessions_migrated` | a further pkmsg of a session that libsignal wrote | violation: the session is built again and the established one archived |

The three violations are disagreements between the code and what a comment or a
document says of it; `findings` quotes the lines.

**Bounds.** Four calls are enough for a running job, a waiting one, a late one
that finds the map emptied, and one issued by any of them; two queues for a cycle.
With `MAX_SKIP` 2 and a cap of 2, six frames each way pass the guard, reach it and
exceed it, evict, and leave frames for later in each of five epochs. The counters
of the chain walk go from -1 to more than `MAX_SKIP` past the furthest stored one.
In `cipher` four calls cover a retry after a failure, after a crash, and beside
another call; a crash is enough once because nothing but the storage survives it.
Its calls are of one address; the proofs cover any number. An archive of one entry
overflows with the second re-initiation, where the code's holds 40. `wire_codec`
has every message of up to three fields of a list with edge values (empty, at the
width, one beyond), each unusual field between two plain ones, and each order of
the fields of a complete pkmsg with one more anywhere. In `sessions` three
sessions are enough for two that cross and one on top of them, which evicts; two
clock values for a build before, at and after another one; and fewer messages than
`MAX_SKIP` keep out the gaps that `ratchet_session` is about. In `native_calls`
the group has the proportions of the code's: a clamped secret is a multiple of 8
and not of the order, and S fits below the bit that carries the sign. `MaxSent`,
`MaxKeys`, `MaxInits`, `MaxSteps`, `MaxSessions`, `MaxSigned`, `MaxCrashes`,
`MaxStored` and `MaxReached` bound the models only; the code has no such limits.

**Deadlock** is not checked: the calls, frames and bytes of every model run out.

**Fairness.** Only QueueJob has liveness. `FairSpec` is weakly fair in the start of
a job, the resumption of an awaiting one, its settling and its cleanup: the event
loop runs every reaction of a settled promise, and the storage callbacks are
assumed to return. Nobody has to call `add`. `EveryCallSettles` needs the
assumption `Reaches` of `queue_progress`, that the callbacks of two addresses do not
call into each other in a cycle: if they do, the two jobs wait for each other for
ever, and nothing in the code prevents it, although
`tests/queue-reentrancy.test.mjs:121` says that re-entry into another address "must
just work".

## 4. Proofs

### The job queue

`QueueJobProofs` proves for every set of calls, queues and keys, and any pattern of
nested and detached calls:

- `TypeCorrect`: `Spec => []TypeOK`
- `OneJobPerQueue`: `Spec => []MutualExclusion`
- `EntryTracksWork`: `Spec => []EntryIffPending`
- `ImplementsSerial`: `Spec => ImplementsSerialQueue`
- `OnlyReentryIsDropped`: `ASSUME ~DetachedCalls, \A q, r \in Queue : KeyOf[q] = KeyOf[r] => q = r
  PROVE Spec => OnlyReentryDropped`

None is inductive. Mutual exclusion follows from the chain of promises only
through the history: the inductive invariant `IInv` says that the calls of a queue
stand in its line, once each (`Placed`, `OnQueue`, `Once`), that a call waits for
the one before it or found everyone before it gone (`Linked`), that whoever
started has nobody unfinished before it (`InTurn`), and that the map names the end
of the line with its cleanup still to come, or nothing once the line is through
(`TailLast`, `ToClean`). `TailLast` is where the identity test in `cleanup` matters:
with a blind removal a call would be chained on nothing while another runs, and
`Linked` would fail. The proof has one lemma per action; a step that chains nothing
(`ForwardStep`) is handled once. The refinement maps every step of the code to a
step of SerialQueue or to a stutter.

`OnlyReentryIsDropped` takes an invariant of its own, `LInv`: whoever led to a call that
has not settled is still running and awaits it, or another on the way to it (`Awaited`),
and every key in the store of a job is that of one that led there (`Keyed`). Its two
hypotheses are needed. With detached work `queue_detached_drop` violates the property, and
two storages that share an address share a key (section 5).

The assumption is `QueueAssumption`, that the constants have the types the code gives
them; `queue_order` evaluates it.

### The message chains

`ChainProofs` proves for every `MAX_SKIP`, every cap and every chain a record may
hold, over the cap or not, closed or not:

- `TypeCorrect`: `Spec => []TypeOK`
- `KeysStayInStep`: `Spec => []KeysInStep`
- `PeekIsFill`: `Spec => []PeekMatchesFill`
- `TrimsWhenGrowing`: `Spec => TrimsOnlyWhenGrowing`
- `WalkIsRecursion`: `Spec => []FillIsItsLevels`

`IInv` joins `TypeOK` and `KeysInStep` to the form of the record: a key put aside is
the one of its counter only because the chain key is, and a counter stays in range
only because the chain's own counter bounds it. What is left of a store is counted
by `Newest`; `TopIsNewest` (the highest counter survives any trimming) is why the
key asked for is never the one evicted, and `NewestBounded` bounds the rest.

`WalkIsRecursion` justifies the closed form that Chain gives to a recursion. Level
`i` leaves the newest of what was there and the first `i` counters walked
(`LevelOfFill`); that this composes is `NewestGrows`: dropping the lowest counters
before a higher one comes in drops nothing that would have stayed. The induction
over the levels uses no principle that takes a predicate: `Smallest`, that a set of
naturals has a least element, is derived from the well-foundedness of strict
inclusion on finite sets, and the least level that differs is refuted.

The assumptions are `ChainAssumption` and `WalkAssumption`, that
`MAX_SKIP` and the cap are positive and the bounds of the instance natural numbers;
`chain_walk` evaluates them.

### The session cipher

Proved for any number of calls, addresses, frames, prekeys and crashes, and
whatever throws:

- `TypeCorrect`: `ASSUME IsFiniteSet(Job) PROVE Spec => []TypeOK`
- `NoUpdateLost`: `Spec => NoLostUpdate`
- `OnlyAuthentic`: `Spec => OnlyAuthenticPersists`
- `OneIsOpen`: `Spec => []OneOpenEntry`
- `NoCounterReused`: `Spec => []NoCounterReuse`
- `PreKeysAccounted`: `ASSUME HasRemovePreKey PROVE Spec => []PreKeyAccounted`
- `DeliveredAtMostOnce`: `ASSUME HasRemovePreKey PROVE Spec => []DeliveredOnce`

all in `SessionCipherProofs`. The two hypotheses are needed: without a `removePreKey` the
code leaves the prekey where it is. The inductive invariant has four layers, each resting
on those above it.

1. `IInv`, between two awaits: `Fresh`, that what a job loaded is still what is
   stored when it writes. It is not inductive without the queue. That nobody else
   of the address is served meanwhile is `OneActive`, which takes that the line of
   an address holds exactly its calls (`OnLine`, `Placed`), once each (`Once`),
   served in turn (`InTurn`), and that a job is at an await exactly while it is
   served (`Working`). `Authentic` says that a job past the MAC works on an
   authentic frame, or on none. `Crash` keeps them because it ends every job at
   once and writes nothing. `initOutgoing` is the exception `NoLostUpdate` names:
   it replaces whatever is stored, as the code does.
2. `RInv`, records: a stored record, a loaded one and one about to be written are
   in order, one entry open and the newest, and a job's locals are those of its
   place (`Did`). `TypeOK` bounds the clock by the number of builds, which is why
   `TypeCorrect` needs finitely many calls; `Past` counts them.
3. `HInv`, what callers were told. `Apart`: no two addresses, and no record and a
   build under way, hold entries of one time stamp and one base key, so a counter
   belongs to one entry. `Remembered`: a record, stored or about to be written,
   is past every counter handed out on it; a stored one still is after a crash
   because `storeSession` comes before the answer.
4. `PInv`, what prekeys are for, of a storage that removes them. `Sealed` and `Joined`:
   once a pkmsg was handed out, its prekey is gone, nobody is building with it, and
   every record that has its session remembers it.

The assumptions are `CipherAssumption`, the types of the constants, and
`FramesAssumption`: an authentic pkmsg carries a base key of the peer's own making, and
those of one base key name one prekey, because the initiator puts the same pending
prekey, set once, into every message until it is answered (`x3dh.rs` 171,
`ratchet.rs` 576 and 704).
`cipher` evaluates both. That the line is served in turn is
SerialQueue's promise, which `ImplementsSerial` proves of the code.

### The Double Ratchet

`DoubleRatchetProofs` proves for any number of frames and steps, lost, delayed and
delivered again in any order, every `MAX_SKIP` and every cap of retained keys:

- `TypeCorrect`: `Spec => []TypeOK`
- `LiveChainsOnly`: `Spec => []OnlyLiveChains`
- `KeysUsedOnce`: `Spec => []NoKeyReuse`
- `NothingReplays`: `Spec => []NoReplay`
- `NextFramesOpen`: `Spec => []NextFrameOpens`
- `OvertakenFramesOpen`: `Spec => []OvertakenFrameOpens`

`RatchetLemmas` says what each operator does to one entry: `EncryptedRatchet`,
`OpenedRatchet` and what they rest on. An entry is in order (`IsRatchet`) when
each of its chains is in step, when it holds the sending chain of its own key and at
most the receiving chain of the last remote one, and nothing else.

The first invariant, `IInv`, is about one end and its frames. A frame was encrypted
under a root its sender has or had, at a counter its sender is past
(`FrameInOrder`), so the next one has a new key. The length of a root tells whose it
is (`Parity`), since a step appends two agreements and the recipient starts one
behind: no end can open what it sent itself, and no step leads back to a root
that was left. A key that was used is gone for good (`UsedUp`): its chain is past
it and does not hold it, or the root it came from is shorter than any the end can
still open under.

The second, `Agreed`, is about the two ends together, and is why they do not
drift apart. One end leads (`Leads`): the other either holds the matching
receiving chain, or will make it when the next frame arrives, from the root both
still share. Every frame of the live epochs is one its receiver would derive
(`Agrees`), and each chain remembers exactly what it has opened and what it put
aside (`Heard`). Only the end that is behind can step, and when it does it becomes
the one that leads; both theorems follow by asking what a frame meets at the
end that is behind and at the end that is ahead. `ratchet_session` bounds were used
to check each part of both invariants before it was proved.

The assumptions are `RatchetAssumption` and `PeersAssumption`: the limits are
positive and the two ends are different.

### The handshake

`HandshakeProofs` proves for any number of sessions, rotations of the signed prekey
and one-time prekeys, whatever bundle the server hands out and however often and late
a pkmsg arrives:

- `KeysAgree`: `Spec => []AgreeOnSameKeys`
- `RepliesOpen`: `Spec => []ReplyOpens`
- `PreKeysUsedOnce`: `ASSUME HasRemovePreKey PROVE Spec => []OnePreKeyOneSession`
- `SessionsApart`: `Spec => []SessionsSeparate`

`IInv` says that what was sent is still as it was built, that an answer is what the
recipient makes of the base key with the prekeys it had, and that the one-time prekey
of an established session is gone where prekeys are removed at all. The rest is about secrets, which are sequences
of agreements and thus injective in the keys, the symbolic reading of HKDF: the third
agreement names the base key and so the session (`SecretsOfSessions`), the
fourth names the one-time prekey or is not there (`FourthAgreement`), and together
they tell with which prekeys both sides worked (`SecretsOfKeys`). A first frame
opens exactly where the secrets are the same (`OpensAgreed`). The assumption is
`HandshakeAssumption`: in particular no prekey is `NoKey`.

### Two parties and their records

`SessionsProofs` proves for any clock, any number of sessions and messages and any
size of the archive:

- `OneIsOpen`: `Spec => []OneOpenEntry`
- `NothingReplays`: `ASSUME ~Migrated PROVE Spec => []NoReplay`
- `NewSessionsOpen`: `ASSUME ~Migrated PROVE Spec => []NewSessionOpens`
- `SharedSessionsOpen`: `ASSUME ~Migrated PROVE Spec => []SharedSessionOpens`

There are four layers. `IInv` adds to the property that a record is a finite
map of entries whose `closed` is -1 or a natural number and whose `used` is a natural
number (`Typed`): this is why an entry that is closed with the time of its use
cannot come out open, whatever the clock said. `MergedInOrder` is the heart of it:
what archiveAndMerge leaves has the new entry as its only open one, however many
were open before, and as many archived ones as it may keep.

`HInv` carries the ratchet's invariants to many sessions: every entry is an
`IsRatchet`, every root belongs to one base key, which its third agreement names, so
that no session opens what belongs to another; and what was opened is used up
under the entry that opened it (`UsedUp`), which archiving and merging leave alone.
`PInv` adds that an entry whose answer is pending is still on its first root and
first chain, with fewer frames sent than there are messages, which is why a
recipient that builds the session finds the frame within `MAX_SKIP`.

`SInv` says of every base key what `Agreed` says of the one session of DoubleRatchet,
although here an entry comes and goes on either side. Each base key has one starter,
who alone sends pkmsgs of it and never builds it again (`Started`). Until the
other party builds it, its messages are all the starter's and of the first root,
and the starter's entry is as initOutgoing made it but for its counter (`Unanswered`,
`Untouched`). From then on, while both hold it and neither let it go and built it again
(`Together`), the two are in touch (`InTouch`): one is ahead, its root one agreement past
the other's, and has heard no more than the other sent (`Ahead`); every message is of its
sender's root or of an earlier one (`Sent`); and no chain is further than there are
messages (`Under`), so with `MaxSent < MaxSkip` no gap is too wide. That limit is the
model's own, and its point is that wider gaps are the subject of DoubleRatchet, where
`NextFramesOpen` has them. Sending and opening keep two ends in touch
(`SendingSends`, `WalkStaysInTouch`, `StepStaysInTouch`), and ends that are in touch open
each other's next frame (`NextOpens`): lemmas about two entries, which say nothing of
records. TLC found `SInv` to hold on the bounds of `sessions` before it was proved.

`Migrated` is excluded because `NoReplay` and `SharedSessionOpens` are false of the record
that libsignal wrote: its base key is not found, a further pkmsg builds the session again
and is opened a second time. `sessions_migrated` shows it. `NewSessionOpens` holds on that
run's bounds as well, but its proof rests on `HInv`, which says that an entry is
kept under its bare base key, and so leaves that case to TLC. The assumptions are
`SessionsAssumption` and `ArchiveAssumption`; `sessions` evaluates them.

### The primitives

`PrimitivesProofs` proves for every group of the assumed structure, every challenge,
permutation and size of a block, texts of any length and records of any size:

- `AgreementContributes`: `Calls => []Contributory`
- `SignatureVerifies`: `Calls => []SignedVerifies`
- `VerifiedWasSigned`: `Calls => []OnlySignedVerifies`
- `CipherIsExact`: `Calls => []CbcExact`
- `SelectionsAreAlike`: `Calls => []SelectionsAgree`

`Calls` is `Native!Spec` with its two actions over a record, which the properties do not
speak of, replaced by `OtherCall`: any step from no call to a call of that name, whatever
the answer. Both actions are such steps by their first two conjuncts; they are replaced
because *Record* is recursive. The invariant, `Answers`, is only that an answer is what
the function makes of the arguments; the work is in the functions.

*Agreements.* A clamped secret is `8 * j` with `0 < j` below both primes
(`Clamped`): the low bits clear the cofactor and the bit that is always set keeps
`j` from being zero. A prime that divides a product divides a factor (`Euclid`), so
the product with a key vanishes exactly when `8 * key` does (`ZeroAgreement`). That
the two sides agree is `Agreement`: a key stands for a point and its opposite, and the
multiples of the two are opposite again (`PlusMinus`).

*Signatures.* A secret's key stands for two opposite multiples of the base point,
those of the scalar and of its opposite (`ScalarOf`), and the sign bit in `S` picks one.
The equation of `verify` says that `R` is the base point's multiple by
`S - challenge * scalar` (`Equation`), which gives `Verified` in the one direction; in
the other, that `S` is below the order leaves one `S` for each nonce, and the
nonce is not zero because `R` is not of small order (`Made`).

*The cipher.* What is encrypted is a chain (`Chained`) whose links decryption undoes one
by one (`OpenedChain`), and what decryption reads is encrypted to the same chain
(`ChainOpened`); padding is cut where it was added (`CutPadding`) and would be added again
where it was cut (`PadCut`), which takes that all its bytes were checked.

*The selections.* "Not behind" is a total preorder; the reduction ends on an entry
that is behind none (`ReducedIsBest`), `max_by_key` picks one (`CurrentIsForemost`), and
two such entries are open alike and of one age.

The chain and the reduction are recursive functions. No induction principle of the library
can be instantiated here, so `Least`, that a set of naturals has a least member, is
derived from the well-foundedness of `<`, and the least counterexample refuted:
for Euclid's lemma over the factor, for `StepsExist` over the steps of a function that is
given by its first value and its steps.

The assumptions are `WidthAssumption`, `CurveAssumption`, `ChallengeAssumption`,
`CbcAssumption`, `PermutationAssumption` and `PrimitivesAssumption`. Curve25519 meets the
second: `Unit` is 2^252, the base point's order a prime between it and twice it, the
twist has four times a prime close to 2^253, and the base point is a multiple of the
cofactor. `native_calls` evaluates all of them on its instance. That a SHA-512 is hard to
invert or AES hard to guess is not in them: the theorems say what the arithmetic around
them computes.

### What is model-checked only

- `DecodesAsMeant` and `VarintExact` of *Proto*, and `AcceptedIsKept` of *Native*. What the
  decoders make of bytes, and serde of a nested document, is written with RECURSIVE
  operators, over which the prover loses its arithmetic.
- `EveryCallSettles`, a liveness property under fairness, which the prover does not
  reach.

## 5. Not modelled, and known limits

- The loader, `crypto.js`, the error classes and addresses, and base64: stateless
  wrappers or one-time dispatch. The MAC is symbolic in the ratchet, and a
  Diffie-Hellman agreement too; *Curve* says what the latter is made of.
- Of `curve.rs`, the length checks and the encodings of a u-coordinate beyond the
  field's prime, which dalek reduces. Of `session.rs`, zeroising, which nothing
  reads, and `archive_current`, which only its own export and tests call. Inside a
  record, structs given as arrays are read by position; `parse` refuses that for
  the record itself only, and *Record* models both.
- *Curve* verifies points, not their encodings: what dalek makes of a non-canonical
  encoding of `R`, one beyond the field's prime, is left out. *Record* takes an object as a function of its names, so a
  document that repeats a name is outside it: serde refuses a repeated field of a
  struct and keeps the last of two entries of a map.
- `removePreKey` is optional in `session-cipher.js` 125, though `README.md` 161 lists
  it among the methods of a storage without saying so. *SessionCipher* and *Handshake* model
  both kinds of storage; the runs have one that removes, and the theorems about one-time
  prekeys assume it.
- Time stamps of entries grow with every build in SessionCipher; Sessions has the
  wall clock. Where two entries are of one age, `currentSessionEntry` and
  `current_session_mut` differ; `SelectionsAgree` leaves that case out, and nothing in
  the library calls the former.
- Two parties that start sessions at once may each answer on the other's, and then
  neither decrypts the other: each sends on the session the other has archived, and
  only the open entry is tried. `sessions_displaced` reaches this as well.
  `NewSessionOpens` says that starting over is always a way out.
- `SharedSessionOpens` leaves out a session that was let go and built again from a
  delayed pkmsg without a one-time prekey: the recipient then starts from the first
  state of a session whose other side has moved on.
- A pkmsg that names a signed prekey the recipient no longer has is built with the
  current one and fails with "MAC verification failed" (`session-builder.js` 74),
  although the comment at 61-63 promises a clear error. `AgreeOnSameKeys` covers
  that the two sides then disagree.
- A gap of more than `MAX_SKIP` frames at the end of a chain makes the receiver
  refuse every frame of the next epoch (`ratchet.rs` 342-362). `NextFrameOpens`
  says so in its condition.
- Skipped keys of a retired chain are never kept: the step walks that chain for its
  guards only. Comments at `proto.rs` 91-93 and `docs/protocol.md` 349-353 speak of
  deriving them. `OvertakenFrameOpens` is stated inside an epoch for that reason.
- A one-time prekey that outlives its session, because the process died between
  `storeSession` and `removePreKey` or the removal threw, can serve again once the
  record is replaced. `DeliveredOnce` leaves out a pkmsg whose prekey is `Troubled` in
  this way, and `PreKeyAccounted` says, of an authentic pkmsg, that the caller was
  told or the process died. Two addresses given the same pkmsg at once may both use
  its prekey and both deliver: the two properties speak of the calls of one address,
  and across two the code gives no guarantee.
- Two storages in one process share the async context, so a job of one that calls
  the same address of the other is dropped. `queue_order` and `queue_progress`
  use one storage, and no run has two queues that share a key; the proofs cover any
  sharing, but for `OnlyReentryIsDropped`, whose conclusion is false with a shared key.
- A non-canonical varint, padded with a zero byte, is accepted up to the full width,
  although the comment at `proto.rs` 53 speaks of rejecting it. `wire_codec` models
  the code.

## 6. Plan

Done: all the modules above, and the proofs of section 4.

Left, in the order of what it would add: `NewSessionsOpen` for a record that libsignal
wrote, from a weaker `HInv` that lets an entry lie under the wire form of its base key;
and gaps of more than `MAX_SKIP` frames inside Sessions, with the condition that
`NextFrameOpens` puts on them. What "What is model-checked only" lists stays with TLC.
