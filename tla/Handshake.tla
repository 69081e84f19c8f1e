----------------------------- MODULE Handshake -----------------------------
(***************************************************************************)
(* From a prekey bundle to a session on both sides.  The initiator builds   *)
(* from a bundle the recipient published at some time (SessionBuilder.      *)
(* initOutgoing); its first frame goes out in a pkmsg that names the        *)
(* prekeys; the recipient looks them up in what its storage has by then     *)
(* (initIncoming), authenticates the frame and consumes the one-time        *)
(* prekey.  A pkmsg may arrive late, again, or never.                       *)
(***************************************************************************)
EXTENDS X3dh

CONSTANTS PreKey,      \* ids of the one-time prekeys generated
          MaxSigned,   \* bound: signed prekeys generated, with ids 1, 2, ...
          MaxSessions, \* bound: sessions the initiator builds
          HasRemovePreKey, \* has the recipient's storage a removePreKey?
          Initiator, Recipient, Stranger  \* the parties, and who else may sign

\* NoKey is neither an id nor a key.
ASSUME HandshakeAssumption ==
  /\ NoKey \notin PreKey /\ \A k \in PreKey : Id(<<"one-time", k>>, "bare") # NoKey
  /\ MaxSigned \in Nat \ {0} /\ HasRemovePreKey \in BOOLEAN

VARIABLES
  current,  \* the signed prekey that loadSignedPreKey() returns
  signed,   \* those that loadSignedPreKey(id) still finds
  prekeys,  \* the one-time prekeys in the recipient's storage
  sent,     \* the initiator's sessions: the bundle of each, and its entry
  answers   \* history: what became of each attempt to answer a pkmsg

vars == <<current, signed, prekeys, sent, answers>>

IdentityKey(p) == Id(<<"identity", p>>, "wire")
SignedKey(n) == Id(<<"signed", n>>, "bare")
OneTimeKey(k) == IF k = NoKey THEN NoKey ELSE Id(<<"one-time", k>>, "bare")

\* Mutation: the seed of the base key is the same each time.
BaseKeyFixed(n) == Id(<<"base", 1>>, "bare")

\* build_initial_session draws a fresh base key.
BaseKey(n) == Id(<<"base", n>>, "bare")

NoEntry == <<>>

Init ==
  /\ current = 1
  /\ signed = {1}
  /\ prekeys = PreKey
  /\ sent = <<>>
  /\ answers = {}

\* What a server may hand out: any signed prekey published so far, a one-time
\* prekey or none, and each prekey with its id or without.
Bundle == [spk : 1..current, signer : {Recipient, Stranger},
           opk : PreKey \cup {NoKey}, named : SUBSET {"spk", "opk"}]

\* curve::verify of the signed prekey, under the identity key of the bundle.
Verified(b) == b.signer = Recipient

InitOutgoing == \E b \in Bundle :
  LET n == Len(sent) + 1 IN
  /\ n <= MaxSessions
  /\ Verified(b)
  /\ sent' = Append(sent, [bundle |-> b, base |-> BaseKey(n),
                           entry |-> InitialSession(IdentityKey(Initiator), BaseKey(n),
                             IdentityKey(Recipient), SignedKey(b.spk), OneTimeKey(b.opk))])
  /\ UNCHANGED <<current, signed, prekeys, answers>>

\* The application publishes a new signed prekey and may drop the old ones.
Rotate ==
  /\ current < MaxSigned
  /\ current' = current + 1
  /\ signed' \in {signed \cup {current + 1}, {current + 1}}
  /\ UNCHANGED <<prekeys, sent, answers>>

\* The prekeys that the pkmsg of session n names; a signed prekey without an id
\* goes out as number 0.
PreKeyId(n) == IF "opk" \in sent[n].bundle.named THEN sent[n].bundle.opk ELSE NoKey
SignedPreKeyId(n) == IF "spk" \in sent[n].bundle.named THEN sent[n].bundle.spk ELSE 0

\* loadPreKey has it, or none is named.
PreKeyFound(n) == PreKeyId(n) \in prekeys \cup {NoKey}

\* loadSignedPreKey(id), else loadSignedPreKey().
SignedPreKey(n) == IF SignedPreKeyId(n) \in signed THEN SignedPreKeyId(n) ELSE current

Candidate(n) ==
  RecipientSession(IdentityKey(Recipient), SignedKey(SignedPreKey(n)), OneTimeKey(PreKeyId(n)),
                   IdentityKey(Initiator), sent[n].base)

FirstFrame(n) == Frame(sent[n].entry)

Answer(n) == [n |-> n, spk |-> SignedPreKey(n), opk |-> PreKeyId(n), base |-> sent[n].base,
              entry |-> IF Opens(Candidate(n), FirstFrame(n))
                        THEN Decrypted(Candidate(n), FirstFrame(n), <<"ratchet", n>>)
                        ELSE NoEntry]

Established == {a \in answers : a.entry # NoEntry}

\* Mutation: the one-time prekey stays.
ConsumedNothing(n) == prekeys

Consumed(n) ==
  IF HasRemovePreKey /\ Answer(n).entry # NoEntry THEN prekeys \ {PreKeyId(n)} ELSE prekeys

\* The pkmsg of session n arrives, and the record has no session of its base key.
InitIncoming(n) ==
  /\ \A a \in Established : a.base # sent[n].base
  /\ PreKeyFound(n)
  /\ answers' = answers \cup {Answer(n)}
  /\ prekeys' = Consumed(n)
  /\ UNCHANGED <<current, signed, sent>>

Next == InitOutgoing \/ Rotate \/ \E n \in 1..Len(sent) : InitIncoming(n)

Spec == Init /\ [][Next]_vars
-----------------------------------------------------------------------------
(* Properties *)

\* The two sides agree on a secret exactly when the recipient worked with the
\* very prekeys that the initiator did (x3dh.rs:106-132, 246-266,
\* session-builder.js:51-76): after a rotation that dropped the signed prekey,
\* or with a one-time prekey that came without an id, they never do; in every
\* other case they do.
AgreeOnSameKeys ==
  \A a \in answers : (a.entry # NoEntry)
    <=> (a.spk = sent[a.n].bundle.spk /\ a.opk = sent[a.n].bundle.opk)

\* The session goes both ways: the recipient's first reply opens at the
\* initiator, whose entry has had no chain for it so far (ratchet.rs:331-453).
ReplyOpens ==
  \A a \in Established : CanEncrypt(a.entry) /\ Opens(sent[a.n].entry, Frame(a.entry))

\* A one-time prekey makes one session (session-cipher.js:121-127), however
\* often the server handed it out, of a storage that has a removePreKey.
OnePreKeyOneSession ==
  \A a, b \in Established : a.opk = b.opk /\ a.opk # NoKey => a.n = b.n

\* Sessions made of the same bundle are separate: neither opens a frame of the
\* other (x3dh.rs:72-79).
SessionsSeparate ==
  \A a \in Established : \A n \in 1..Len(sent) :
    n # a.n => /\ ~Opens(Candidate(a.n), FirstFrame(n))
               /\ ~Opens(sent[n].entry, Frame(a.entry))
=============================================================================
