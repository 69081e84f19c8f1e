--------------------------- MODULE DoubleRatchet ---------------------------
(***************************************************************************)
(* Two endpoints of one session over a network that delays, reorders,       *)
(* duplicates and loses frames: a frame, once sent, stays in net and may be *)
(* delivered never, or at any later time, or again.  Each endpoint holds    *)
(* the entry that Ratchet describes; a frame that does not open leaves it   *)
(* as it was.                                                               *)
(***************************************************************************)
EXTENDS X3dh

CONSTANTS Initiator, Recipient,
          MaxSent,   \* bound: frames sent by each endpoint
          MaxKeys    \* bound: key pairs generated after the first two

\* A resumed session has drawn one key pair already.
ASSUME PeersAssumption == Initiator # Recipient /\ MaxKeys \in Nat \ {0}

Peer == {Initiator, Recipient}
Other(p) == IF p = Initiator THEN Recipient ELSE Initiator

VARIABLES entry,    \* entry[p]: p's session
          net,      \* the frames sent
          opened,   \* history: the frames each endpoint decrypted
          fresh     \* the next key pair the random source yields

vars == <<entry, net, opened, fresh>>

BaseKey == Id(1, "bare")
SignedPreKey == Id(2, "bare")
IdentityOf(p) == Id(IF p = Initiator THEN -1 ELSE -2, "wire")

\* The sessions that build_initial_session and build_recipient_session make of
\* the same keys.
AtStart ==
  [p \in Peer |->
     IF p = Initiator
     THEN InitialSession(IdentityOf(p), BaseKey, IdentityOf(Other(p)), SignedPreKey, NoKey)
     ELSE RecipientSession(IdentityOf(p), SignedPreKey, NoKey, IdentityOf(Other(p)), BaseKey)]

\* The initiator's first frame, and the recipient's entry after it.
First == [from |-> Initiator, n |-> 0, frame |-> Frame(AtStart[Initiator])]
Answering == Decrypted(AtStart[Recipient], First.frame, 3)

\* An earlier release stored the chain under the bare key and left it there.
StoredBare(e) ==
  [e EXCEPT !.chains = With(Without(@, {e.lastRemote}), Bare(e.lastRemote), @[e.lastRemote])]

\* The endpoints start a session, or resume one that such a release started.
Init ==
  \/ entry = AtStart /\ net = {} /\ opened = [p \in Peer |-> {}] /\ fresh = 3
  \/ /\ entry = [p \in Peer |-> IF p = Initiator THEN Encrypted(AtStart[p]) ELSE StoredBare(Answering)]
     /\ net = {First}
     /\ opened = [p \in Peer |-> IF p = Initiator THEN {} ELSE {First}]
     /\ fresh = 4

FramesOf(p) == {m \in net : m.from = p}

\* What p would put on the wire now; n tells two sends apart.
Message(p) == [from |-> p, n |-> Cardinality(FramesOf(p)), frame |-> Frame(entry[p])]

Send(p) ==
  /\ Cardinality(FramesOf(p)) < MaxSent
  /\ CanEncrypt(entry[p])
  /\ net' = net \cup {Message(p)}
  /\ entry' = [entry EXCEPT ![p] = Encrypted(@)]
  /\ UNCHANGED <<opened, fresh>>

Receive(p, m) ==
  /\ m.from = Other(p)
  /\ Opens(entry[p], m.frame)
  /\ StepNeeded(entry[p], m.frame.id) => fresh < 3 + MaxKeys
  /\ entry' = [entry EXCEPT ![p] = Decrypted(@, m.frame, fresh)]
  /\ opened' = [opened EXCEPT ![p] = @ \cup {m}]
  /\ fresh' = IF StepNeeded(entry[p], m.frame.id) THEN fresh + 1 ELSE fresh
  /\ UNCHANGED net

Next == \E p \in Peer : Send(p) \/ \E m \in net : Receive(p, m)

Spec == Init /\ [][Next]_vars
-----------------------------------------------------------------------------
TypeOK ==
  /\ \A p \in Peer : EntryOK(entry[p])
  /\ \A p \in Peer : opened[p] \subseteq FramesOf(Other(p))
  /\ fresh \in 3..(3 + MaxKeys)

\* The counters of chain k that p has opened, and the furthest of them.
OpenedCounters(p, k) == {m.frame.counter : m \in {x \in opened[p] : x.frame.id.key = k}}
Top(p, k) == LET S == OpenedCounters(p, k) \cup {-1}
             IN  CHOOSE c \in S : \A d \in S : d <= c

\* No message key encrypts twice, whatever the endpoints received in between
\* (ratchet.rs:536-545): a chain is never rewound, and two chains never share
\* a seed.
NoKeyReuse == \A m, o \in net : m.frame.key = o.frame.key => m = o

\* A frame that was opened never opens again, not even after its chain was
\* retired and its ratchet key is taken for a new one (ratchet.rs:331-338,
\* 686-693).
NoReplay == \A p \in Peer : \A m \in opened[p] : ~Opens(entry[p], m.frame)

\* However the earlier frames were lost or reordered, the next frame an
\* endpoint sends opens at the other, as long as neither its chain nor, for
\* the first one of a chain, the previous chain left more than MaxSkip frames
\* behind (ratchet.rs:331-453): the two ends never drift apart.
InReach(p, m) ==
  LET k == m.frame.id.key
  IN  /\ m.frame.counter - Top(p, k) <= MaxSkip
      /\ OpenedCounters(p, k) = {}
           => m.frame.previousCounter - Top(p, entry[p].lastRemote.key) <= MaxSkip

NextFrameOpens ==
  \A p \in Peer : CanEncrypt(entry[p]) /\ InReach(Other(p), Message(p))
                    => Opens(entry[Other(p)], Message(p).frame)

\* Inside an epoch a frame that was overtaken opens when it arrives, unless
\* MaxRetained or more frames overtook it (ratchet.rs:204-210, 252-276).
OvertakenFrameOpens ==
  \A p \in Peer : \A m \in FramesOf(Other(p)) \ opened[p] :
    LET k == m.frame.id.key
    IN  /\ k = entry[p].lastRemote.key
        /\ m.frame.counter < Top(p, k)
        /\ Top(p, k) - m.frame.counter < MaxRetained
        => Opens(entry[p], m.frame)

\* A ratchet step leaves no chain behind (ratchet.rs:424-453): the record holds
\* the chain of its own key and the one of the last remote key, under whichever
\* encoding, and neither keeps more than MaxRetained - 1 keys.
OnlyLiveChains ==
  \A p \in Peer :
    /\ \A i \in DOMAIN entry[p].chains :
         i.key = IF IsSending(entry[p].chains[i]) THEN entry[p].own.key ELSE entry[p].lastRemote.key
    /\ \A i, j \in DOMAIN entry[p].chains : i.key = j.key => i = j
    /\ \A i \in DOMAIN entry[p].chains : Cardinality(DOMAIN entry[p].chains[i].kept) < MaxRetained
=============================================================================
