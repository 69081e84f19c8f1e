------------------------------- MODULE Chain -------------------------------
(***************************************************************************)
(* One chain of a session (session.rs:104-176) and the functions of         *)
(* ratchet.rs that walk it: fill_message_keys, peek_message_key and         *)
(* evict_oldest_message_keys.                                               *)
(*                                                                          *)
(* Keys are symbolic.  A chain key is the seed its chain was derived from   *)
(* and the number of HMAC(key, 2) steps taken since; the message key of a   *)
(* chain key, HMAC(key, 1), is the same pair.  The walk is modelled by what *)
(* it leaves behind: each level of the recursion inserts the next counter   *)
(* and then drops the lowest counters above the cap, so the keys that       *)
(* remain at the end are the newest ones of all that were ever in it.       *)
(***************************************************************************)
EXTENDS Integers, FiniteSets

CONSTANTS MaxSkip,     \* MAX_SKIP: how far ahead of a chain a counter may be
          MaxRetained  \* MAX_RETAINED_MESSAGE_KEYS

ASSUME ChainAssumption == MaxSkip \in Nat \ {0} /\ MaxRetained \in Nat \ {0}

NoSeed == <<>>  \* of a chain whose key was deleted

ChainKey(seed) == [seed |-> seed, step |-> 0]
Advance(key, n) == [key EXCEPT !.step = @ + n]

NewChain(type, seed) ==
  [type |-> type, counter |-> -1, key |-> ChainKey(seed), kept |-> [c \in {} |-> ChainKey(seed)]]

IsSending(ch) == ch.type = "sending"
IsReceiving(ch) == ch.type = "receiving"
IsClosed(ch) == ch.key.seed = NoSeed

\* The guards shared by fill_message_keys and its read-only twin.
Refuses(ch, n) == n > ch.counter /\ (IsClosed(ch) \/ n - ch.counter > MaxSkip)

\* Mutation: one HMAC step too many.
KeyAheadOneMore(ch, n) == Advance(ch.key, n - ch.counter)

\* The message key that the chain key yields at counter n, ahead of the chain.
KeyAhead(ch, n) == Advance(ch.key, n - ch.counter - 1)

\* Mutations: the cap is off by one, either way.
NewestLess(S) == {c \in S : Cardinality({d \in S : d > c}) < MaxRetained - 1}
NewestMore(S) == {c \in S : Cardinality({d \in S : d > c}) <= MaxRetained}

Newest(S) == {c \in S : Cardinality({d \in S : d > c}) < MaxRetained}

\* Mutation: no cap.
EvictedNever(kept) == kept

Evicted(kept) == [c \in Newest(DOMAIN kept) |-> kept[c]]

\* Mutations: the store is trimmed on entry (the placement that
\* ratchet.rs:237-245 rejects); the chain key moves and its counter does not.
FillTrimmingFirst(ch, n) ==
  IF n <= ch.counter
  THEN [ch EXCEPT !.kept = Evicted(@)]
  ELSE LET derived == (ch.counter + 1)..n
       IN  [ch EXCEPT !.counter = n,
                      !.key = Advance(@, n - ch.counter),
                      !.kept = Evicted([c \in DOMAIN @ \cup derived |->
                                          IF c \in derived THEN KeyAhead(ch, c) ELSE @[c]])]

FillWithoutCounting(ch, n) ==
  IF n <= ch.counter
  THEN ch
  ELSE LET derived == (ch.counter + 1)..n
       IN  [ch EXCEPT !.key = Advance(@, n - ch.counter),
                      !.kept = Evicted([c \in DOMAIN @ \cup derived |->
                                          IF c \in derived THEN KeyAhead(ch, c) ELSE @[c]])]

\* A counter that is not refused.
FillMessageKeys(ch, n) ==
  IF n <= ch.counter
  THEN ch
  ELSE LET derived == (ch.counter + 1)..n
           kept == [c \in DOMAIN ch.kept \cup derived |->
                      IF c \in derived THEN KeyAhead(ch, c) ELSE ch.kept[c]]
       IN  [ch EXCEPT !.counter = n,
                      !.key = Advance(@, n - ch.counter),
                      !.kept = Evicted(kept)]

\* peek_message_key: is there a key for n, and which one?
HasKey(ch, n) == ~Refuses(ch, n) /\ (n <= ch.counter => n \in DOMAIN ch.kept)

PeekMessageKey(ch, n) == IF n <= ch.counter THEN ch.kept[n] ELSE KeyAhead(ch, n)

\* Mutations: the key is used and stays; the key is used and the chain stays.
TakeLeavingTheKey(ch, n) == FillMessageKeys(ch, n)
TakeWithoutStepping(ch, n) == [ch EXCEPT !.kept = [c \in DOMAIN @ \ {n} |-> @[c]]]

\* Filling up to n and removing its key, as encrypt and decrypt_entry do.
TakeMessageKey(ch, n) ==
  LET filled == FillMessageKeys(ch, n)
  IN  [filled EXCEPT !.kept = [c \in DOMAIN filled.kept \ {n} |-> filled.kept[c]]]

\* Every counter behind the chain is either retained or was dropped or used.
ChainOK(ch) ==
  /\ ch.type \in {"sending", "receiving"}
  /\ ch.counter \in Int /\ ch.counter >= -1
  /\ ch.key.step \in Nat
  /\ DOMAIN ch.kept \subseteq 0..ch.counter
=============================================================================
