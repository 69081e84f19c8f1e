------------------------------ MODULE Ratchet ------------------------------
(***************************************************************************)
(* A session entry and the Double Ratchet of ratchet.rs: plan_ratchet,      *)
(* apply_ratchet, encrypt and decrypt_entry.                                *)
(*                                                                          *)
(* A key pair is a number; a Diffie-Hellman agreement is the set of the two *)
(* numbers; a root key, and the chain key derived beside it, is the         *)
(* sequence of agreements it was derived from.  A public key is stored      *)
(* under one of two encodings, the 33-byte wire form or the bare 32 bytes,  *)
(* and the chain map is keyed by the encoding.                              *)
(***************************************************************************)
EXTENDS Chain, Sequences, Functions

CONSTANT MaxCounter  \* the largest counter the u32 wire field holds

ASSUME RatchetAssumption == MaxCounter \in Nat

Id(k, form) == [key |-> k, form |-> form]
Bare(id) == Id(id.key, "bare")
Wire(id) == Id(id.key, "wire")

\* chain_key_ids: the encodings a chain may be stored under, given the one at
\* hand; the wire form falls back to the bare one and not the other way round.
KeyIds(id) == {id, Bare(id)}

HasChain(chains, id) == KeyIds(id) \cap DOMAIN chains # {}
ChainId(chains, id) == IF id \in DOMAIN chains THEN id ELSE Bare(id)
FindChain(chains, id) == chains[ChainId(chains, id)]

DH(own, remote) == {own.key, remote.key}
Derive(root, dh) == Append(root, dh)

Without(chains, ids) == Restrict(chains, DOMAIN chains \ ids)
With(chains, id, ch) == [i \in DOMAIN chains \cup {id} |-> IF i = id THEN ch ELSE chains[i]]
-----------------------------------------------------------------------------
(* encrypt *)

\* The chain named by the current key pair, else the only sending one.
NamedSending(e) ==
  {i \in {ChainId(e.chains, e.own)} \cap DOMAIN e.chains : IsSending(e.chains[i])}
SendingChains(e) ==
  IF NamedSending(e) # {} THEN NamedSending(e)
  ELSE {i \in DOMAIN e.chains : IsSending(e.chains[i])}
SendingId(e) == CHOOSE i \in SendingChains(e) : TRUE

NextCounter(e) == e.chains[SendingId(e)].counter + 1

CanEncrypt(e) ==
  /\ Cardinality(SendingChains(e)) = 1
  /\ ~Refuses(e.chains[SendingId(e)], NextCounter(e))
  /\ NextCounter(e) <= MaxCounter

Frame(e) == [id |-> Wire(e.own), counter |-> NextCounter(e),
             previousCounter |-> e.previousCounter, pre |-> e.pending,
             key |-> FillMessageKeys(e.chains[SendingId(e)], NextCounter(e)).kept[NextCounter(e)]]

Encrypted(e) == [e EXCEPT !.chains[SendingId(e)] = TakeMessageKey(@, NextCounter(e))]
-----------------------------------------------------------------------------
(* The DH ratchet step *)

StepNeeded(e, id) == ~HasChain(e.chains, id)

\* Step 1: the guards of walking the previous receiving chain to its end.
StepRefused(e, previousCounter) ==
  /\ HasChain(e.chains, e.lastRemote)
  /\ LET ch == FindChain(e.chains, e.lastRemote)
     IN  IsReceiving(ch) /\ Refuses(ch, previousCounter)

ReceivingRoot(e, id) == Derive(e.root, DH(e.own, id))
\* Mutation: the sending chain skips the receiving chain's root.
SendingRootFromOld(e, id, fresh) == Derive(e.root, DH(Id(fresh, "wire"), id))

SendingRoot(e, id, fresh) == Derive(ReceivingRoot(e, id), DH(Id(fresh, "wire"), id))

NonNegative(n) == IF n < 0 THEN 0 ELSE n

\* Mutation: the number of frames sent, instead of the last counter.
PlannedPreviousCount(e) ==
  IF HasChain(e.chains, e.own) /\ IsSending(FindChain(e.chains, e.own))
  THEN FindChain(e.chains, e.own).counter + 1
  ELSE e.previousCounter

PlannedPreviousCounter(e) ==
  IF HasChain(e.chains, e.own) /\ IsSending(FindChain(e.chains, e.own))
  THEN NonNegative(FindChain(e.chains, e.own).counter)
  ELSE e.previousCounter

\* The receiving chain for id, as it is or as the step would create it.
ReceivingChain(e, id) ==
  IF StepNeeded(e, id) THEN NewChain("receiving", ReceivingRoot(e, id)) ELSE FindChain(e.chains, id)

\* Mutation: only the encoding that is named goes.
RetiredReceivingNamed(e) == {e.lastRemote}

\* Every encoding of the previous remote key goes.
RetiredReceiving(e) == KeyIds(e.lastRemote)

\* apply_ratchet writes the counter that was planned only where it retires a
\* sending chain.
AppliedPreviousCounter(e, received) ==
  IF HasChain(received, e.own) /\ IsSending(FindChain(received, e.own))
  THEN PlannedPreviousCounter(e)
  ELSE e.previousCounter

ApplyRatchet(e, id, fresh) ==
  LET received == With(Without(e.chains, RetiredReceiving(e)), id, ReceivingChain(e, id))
      own == Id(fresh, "wire")
  IN  [e EXCEPT !.chains = With(Without(received, {ChainId(received, e.own)}), own,
                                NewChain("sending", SendingRoot(e, id, fresh))),
                !.previousCounter = AppliedPreviousCounter(e, received),
                !.root = SendingRoot(e, id, fresh),
                !.own = own,
                !.lastRemote = id]
-----------------------------------------------------------------------------
(* decrypt_entry: the frame is authentic when it was encrypted under the    *)
(* very key that the read-only pass derives for it.                         *)

Opens(e, frame) ==
  /\ StepNeeded(e, frame.id) => ~StepRefused(e, frame.previousCounter)
  /\ LET ch == ReceivingChain(e, frame.id)
     IN  /\ IsReceiving(ch)
         /\ HasKey(ch, frame.counter)
         /\ PeekMessageKey(ch, frame.counter) = frame.key

Stepped(e, frame, fresh) ==
  IF StepNeeded(e, frame.id) THEN ApplyRatchet(e, frame.id, fresh) ELSE e

Decrypted(e, frame, fresh) ==
  LET s == Stepped(e, frame, fresh)
  IN  [s EXCEPT !.chains[ChainId(s.chains, frame.id)] = TakeMessageKey(@, frame.counter),
                !.pending = FALSE]

EntryOK(e) ==
  /\ e.previousCounter \in 0..MaxCounter
  /\ e.pending \in BOOLEAN
  /\ \A i \in DOMAIN e.chains : ChainOK(e.chains[i])
=============================================================================
