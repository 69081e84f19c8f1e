--------------------------- MODULE HandshakeProofs --------------------------
(***************************************************************************)
(* Theorems about Handshake, for any number of sessions, rotations and      *)
(* one-time prekeys, whatever a bundle names, and whatever is late or comes *)
(* again.                                                                   *)
(***************************************************************************)
EXTENDS Handshake, RatchetLemmas

SecretSent(n) ==
  InitialSecret(IdentityKey(Initiator), BaseKey(n), IdentityKey(Recipient),
                SignedKey(sent[n].bundle.spk), OneTimeKey(sent[n].bundle.opk))

\* What the recipient derives of the base key of session n and these prekeys.
SecretOf(n, s, k) ==
  RecipientSecret(IdentityKey(Recipient), SignedKey(s), OneTimeKey(k), IdentityKey(Initiator), BaseKey(n))

CandidateOf(n, s, k) ==
  RecipientSession(IdentityKey(Recipient), SignedKey(s), OneTimeKey(k), IdentityKey(Initiator), BaseKey(n))

Fresh(n) == <<"ratchet", n>>

\* A session that the initiator built stays as it was built.
SentFits(n) ==
  /\ sent[n].base = BaseKey(n) /\ sent[n].bundle.opk \in PreKey \cup {NoKey}
  /\ sent[n].entry = InitialSession(IdentityKey(Initiator), BaseKey(n), IdentityKey(Recipient),
                                    SignedKey(sent[n].bundle.spk), OneTimeKey(sent[n].bundle.opk))

AnswerFits(a) ==
  /\ a.n \in 1..Len(sent) /\ a.base = BaseKey(a.n) /\ a.opk \in PreKey \cup {NoKey}
  /\ a.entry = IF Opens(CandidateOf(a.n, a.spk, a.opk), FirstFrame(a.n))
               THEN Decrypted(CandidateOf(a.n, a.spk, a.opk), FirstFrame(a.n), Fresh(a.n))
               ELSE NoEntry

\* Where prekeys are removed, that of an established session is gone.
IInv ==
  /\ sent \in Seq(Range(sent)) /\ \A n \in 1..Len(sent) : SentFits(n)
  /\ \A a \in answers : AnswerFits(a)
  /\ prekeys \subseteq PreKey
  /\ HasRemovePreKey => \A a \in Established : a.opk \notin prekeys
  /\ HasRemovePreKey => OnePreKeyOneSession

LEMMA KeysDiffer ==
  /\ \A n, k : BaseKey(n) = BaseKey(k) => n = k
  /\ \A n, k : BaseKey(n).key = BaseKey(k).key => n = k
  /\ \A n, k : SignedKey(n).key = SignedKey(k).key => n = k
  /\ \A n, s : BaseKey(n).key # SignedKey(s).key
  /\ \A n, k : Fresh(n) # BaseKey(k).key /\ Fresh(n) # SignedKey(k).key
  /\ \A s, p : SignedKey(s).key # IdentityKey(p).key
  /\ \A n, p : BaseKey(n).key # IdentityKey(p).key
  /\ \A n : Bare(BaseKey(n)) = BaseKey(n)
BY DEF BaseKey, SignedKey, IdentityKey, Fresh, Id, Bare

LEMMA OneTimeKeys ==
  ASSUME NEW k \in PreKey \cup {NoKey}, NEW j \in PreKey \cup {NoKey}
  PROVE  /\ OneTimeKey(k) = NoKey <=> k = NoKey
         /\ k # NoKey /\ j # NoKey /\ OneTimeKey(k).key = OneTimeKey(j).key => k = j
         /\ k # NoKey => \A n, p : OneTimeKey(k).key # BaseKey(n).key
BY HandshakeAssumption DEF OneTimeKey, Id, BaseKey

\* The third agreement of both is with the base key,
LEMMA OfItsBase ==
  ASSUME NEW n, NEW s, NEW k, NEW m
  PROVE  /\ SecretOf(n, s, k)[3] = {SignedKey(s).key, BaseKey(n).key}
         /\ SecretSent(m)[3] = {BaseKey(m).key, SignedKey(sent[m].bundle.spk).key}
<1>1. /\ SecretOf(n, s, k)[3] = DH(SignedKey(s), BaseKey(n))
      /\ SecretSent(m)[3] = DH(BaseKey(m), SignedKey(sent[m].bundle.spk))
  BY DEF SecretOf, SecretSent, InitialSecret, RecipientSecret, WithPreKey
<1> QED
  BY <1>1 DEF DH

\* so that sessions of different base keys have different secrets,
LEMMA SecretsOfSessions ==
  ASSUME NEW n, NEW m, n # m, NEW s, NEW k
  PROVE  SecretOf(n, s, k) # SecretSent(m) /\ SecretSent(n) # SecretSent(m)
<1>1. /\ {SignedKey(s).key, BaseKey(n).key} # {BaseKey(m).key, SignedKey(sent[m].bundle.spk).key}
      /\ {BaseKey(n).key, SignedKey(sent[n].bundle.spk).key} # {BaseKey(m).key, SignedKey(sent[m].bundle.spk).key}
  BY KeysDiffer
<1>2. /\ SecretOf(n, s, k)[3] = {SignedKey(s).key, BaseKey(n).key}
      /\ SecretSent(n)[3] = {BaseKey(n).key, SignedKey(sent[n].bundle.spk).key}
      /\ SecretSent(m)[3] = {BaseKey(m).key, SignedKey(sent[m].bundle.spk).key}
  BY OfItsBase
<1> QED
  BY <1>1, <1>2

\* A fourth agreement tells whether there is a one-time prekey, and which.
LEMMA FourthAgreement ==
  ASSUME NEW a, NEW b, NEW c, NEW base, NEW opk, NEW x, x = WithPreKey(<<a, b, c>>, base, opk)
  PROVE  /\ opk = NoKey => Len(x) = 3
         /\ opk # NoKey => Len(x) = 4 /\ x[4] = {base.key, opk.key}
<1>1. ASSUME opk = NoKey PROVE Len(x) = 3
  <2>1. x = <<a, b, c>>
    BY <1>1 DEF WithPreKey
  <2> QED
    BY <2>1
<1>2. ASSUME opk # NoKey PROVE Len(x) = 4 /\ x[4] = {base.key, opk.key}
  <2> DEFINE s == <<a, b, c>>
  <2>1. x = Append(s, DH(base, opk))
    BY <1>2 DEF WithPreKey
  <2>2. s \in Seq({a, b, c}) /\ Len(s) = 3
    OBVIOUS
  <2> HIDE DEF s
  <2>3. DH(base, opk) = {base.key, opk.key}
    BY DEF DH
  <2>4. s \in Seq({a, b, c, DH(base, opk)})
    BY <2>2
  <2>5. PICK S, d : S = {a, b, c, DH(base, opk)} /\ d = DH(base, opk)
    OBVIOUS
  <2>6. s \in Seq(S) /\ d \in S
    BY <2>4, <2>5
  <2>7. Len(Append(s, d)) = Len(s) + 1 /\ Append(s, d)[Len(s) + 1] = d
    BY <2>6, AppendProperties
  <2>8. Len(s) + 1 = 4
    BY <2>2
  <2>9. Len(x) = 4 /\ x[4] = DH(base, opk)
    BY <2>1, <2>5, <2>7, <2>8
  <2> QED
    BY <2>3, <2>9
<1> QED
  BY <1>1, <1>2

\* and those of one session have one when the prekeys are the same.
LEMMA SecretsOfKeys ==
  ASSUME NEW n, SentFits(n), NEW s, NEW k \in PreKey \cup {NoKey}
  PROVE  SecretOf(n, s, k) = SecretSent(n) <=> s = sent[n].bundle.spk /\ k = sent[n].bundle.opk
<1> DEFINE b == sent[n].bundle
           base == BaseKey(n)
           me == IdentityKey(Recipient)
           it == IdentityKey(Initiator)
<1>0. b.opk \in PreKey \cup {NoKey}
  BY DEF SentFits
<1>1. ASSUME s = b.spk, k = b.opk PROVE SecretOf(n, s, k) = SecretSent(n)
  BY <1>1, SecretsAgree DEF SecretOf, SecretSent
<1>2. ASSUME SecretOf(n, s, k) = SecretSent(n) PROVE s = b.spk /\ k = b.opk
  <2>1. s = b.spk
    <3>1. {SignedKey(s).key, base.key} = {base.key, SignedKey(b.spk).key}
      BY <1>2, OfItsBase
    <3>2. SignedKey(s).key = SignedKey(b.spk).key
      BY <3>1, KeysDiffer
    <3> QED
      BY <3>2, KeysDiffer
  <2>2. /\ OneTimeKey(k) = NoKey => Len(SecretOf(n, s, k)) = 3
        /\ OneTimeKey(k) # NoKey => /\ Len(SecretOf(n, s, k)) = 4
                                    /\ SecretOf(n, s, k)[4] = {base.key, OneTimeKey(k).key}
    BY FourthAgreement DEF SecretOf, RecipientSecret
  <2>3. /\ OneTimeKey(b.opk) = NoKey => Len(SecretSent(n)) = 3
        /\ OneTimeKey(b.opk) # NoKey => /\ Len(SecretSent(n)) = 4
                                        /\ SecretSent(n)[4] = {base.key, OneTimeKey(b.opk).key}
    BY FourthAgreement DEF SecretSent, InitialSecret
  <2> HIDE DEF b, base
  <2>4. (OneTimeKey(k) = NoKey <=> k = NoKey) /\ (OneTimeKey(b.opk) = NoKey <=> b.opk = NoKey)
    BY <1>0, OneTimeKeys
  <2>5. (k = NoKey <=> b.opk = NoKey) /\ (k # NoKey => {base.key, OneTimeKey(k).key} = {base.key, OneTimeKey(b.opk).key})
    BY <1>2, <2>2, <2>3, <2>4
  <2>6. k # NoKey => OneTimeKey(k).key = OneTimeKey(b.opk).key
    BY <2>5
  <2>7. k = b.opk
    BY <1>0, <2>5, <2>6, OneTimeKeys
  <2> QED
    BY <2>1, <2>7 DEF b
<1> QED
  BY <1>1, <1>2

\* The first frame of a session.
LEMMA FirstFrames ==
  ASSUME NEW n, SentFits(n), NEW spk, spk = SignedKey(sent[n].bundle.spk)
  PROVE  /\ Initiates(sent[n].entry, BaseKey(n), spk, SecretSent(n))
         /\ FirstFrame(n).id = Wire(BaseKey(n)) /\ FirstFrame(n).counter = 0
         /\ FirstFrame(n).key = [seed |-> Derive(<<SecretSent(n)>>, DH(BaseKey(n), spk)), step |-> 0]
         /\ FirstFrame(n).key.seed[1] = SecretSent(n)
         /\ IsId(FirstFrame(n).id) /\ FirstFrame(n).id.key = BaseKey(n).key
<1> DEFINE e == sent[n].entry
           base == BaseKey(n)
           secret == SecretSent(n)
<1>1. Initiates(e, base, spk, secret)
  BY KeysDiffer, InitialInOrder DEF SentFits, SecretSent
<1>2. Bare(base) = base /\ base.key # spk.key
  BY KeysDiffer
<1>3. FirstFrame(n) = Frame(e)
  BY DEF FirstFrame
<1> HIDE DEF e, base, secret
<1>4. /\ IsRatchet(e) /\ e.root = Derive(<<secret>>, DH(base, spk)) /\ e.root[1] = secret
      /\ e.own = base /\ DOMAIN e.chains = {base} /\ e.chains[base] = NewChain("sending", e.root)
  BY <1>1, <1>2 DEF Initiates
<1>5. /\ InStep(NewChain("sending", e.root)) /\ IsSending(NewChain("sending", e.root))
      /\ NewChain("sending", e.root).counter = -1 /\ NewChain("sending", e.root).key.seed = e.root
  BY NewChainInStep DEF IsSending
<1>6. SendingChains(e) # {}
  BY <1>4, <1>5 DEF SendingChains
<1>7. SendingId(e) = base
  BY <1>4, <1>6, SendingChain
<1>8. NextCounter(e) = 0
  BY <1>4, <1>5, <1>7 DEF NextCounter
<1>9. FillMessageKeys(e.chains[base], 0).kept[0] = [seed |-> e.root, step |-> 0]
  <2>1. PICK ch : ch = NewChain("sending", e.root)
    OBVIOUS
  <2>2. FillMessageKeys(ch, ch.counter + 1).kept[ch.counter + 1] = [seed |-> ch.key.seed, step |-> ch.counter + 1]
    BY <1>5, <2>1, FilledKey
  <2> QED
    BY <1>4, <1>5, <2>1, <2>2
<1>10. /\ Frame(e).id = Wire(e.own) /\ Frame(e).counter = NextCounter(e)
       /\ Frame(e).key = FillMessageKeys(e.chains[SendingId(e)], NextCounter(e)).kept[NextCounter(e)]
  BY DEF Frame
<1>11. IsId(Wire(base)) /\ Wire(base).key = base.key
  BY DEF IsId, Wire, Id
<1> QED
  BY <1>1, <1>3, <1>4, <1>7, <1>8, <1>9, <1>10, <1>11 DEF e, base, secret

\* It opens exactly the session of the same secret, and that one then answers.
LEMMA OpensAgreed ==
  ASSUME NEW n, SentFits(n), NEW s, NEW k \in PreKey \cup {NoKey}, NEW y, y = CandidateOf(n, s, k)
  PROVE  /\ Opens(y, FirstFrame(n)) <=> s = sent[n].bundle.spk /\ k = sent[n].bundle.opk
         /\ Opens(y, FirstFrame(n)) =>
              Answered(Decrypted(y, FirstFrame(n), Fresh(n)), BaseKey(n), SignedKey(sent[n].bundle.spk),
                       SecretSent(n), Fresh(n))
<1> DEFINE base == BaseKey(n)
           spk == SignedKey(s)
           frame == FirstFrame(n)
<1>1. Responds(y, base, spk, SecretOf(n, s, k))
  BY KeysDiffer, RecipientInOrder DEF CandidateOf, SecretOf
<1>2. /\ IsId(frame.id) /\ frame.id.key = base.key /\ frame.counter = 0
      /\ frame.key.seed[1] = SecretSent(n)
      /\ frame.key = [seed |-> Derive(<<SecretSent(n)>>, DH(base, SignedKey(sent[n].bundle.spk))), step |-> 0]
  BY FirstFrames
<1>3. base.key # spk.key /\ Fresh(n) # base.key
  BY KeysDiffer
<1> HIDE DEF base, spk, frame
<1>4. ASSUME Opens(y, frame) PROVE SecretOf(n, s, k) = SecretSent(n)
  <2>1. IsRatchet(y) /\ y.root[1] = SecretOf(n, s, k)
    BY <1>1 DEF Responds
  <2>2. PICK ch : ch = ReceivingChain(y, frame.id)
    OBVIOUS
  <2>3. frame.key.seed[1] = y.root[1]
    <3>1. frame.counter \in Nat /\ IsId(frame.id)
      BY <1>2
    <3> QED
      BY <1>4, <2>1, <2>2, <3>1, OpenedKey
  <2> QED
    BY <1>2, <2>1, <2>3
<1>5. ASSUME s = sent[n].bundle.spk, k = sent[n].bundle.opk PROVE Opens(y, frame)
  <2>1. SecretOf(n, s, k) = SecretSent(n)
    BY <1>5, SecretsOfKeys
  <2>2. 0 < MaxSkip
    BY ChainAssumption
  <2>3. frame.key = [seed |-> Derive(<<SecretOf(n, s, k)>>, DH(base, spk)), step |-> 0]
    BY <1>2, <1>5, <2>1 DEF spk
  <2> QED
    BY <1>1, <1>2, <2>2, <2>3, FirstOpens
<1>6. ASSUME Opens(y, frame) PROVE s = sent[n].bundle.spk /\ k = sent[n].bundle.opk
  BY <1>4, <1>6, SecretsOfKeys
<1>7. ASSUME Opens(y, frame)
      PROVE  Answered(Decrypted(y, frame, Fresh(n)), base, SignedKey(sent[n].bundle.spk), SecretSent(n), Fresh(n))
  <2>1. Answered(Decrypted(y, frame, Fresh(n)), base, spk, SecretOf(n, s, k), Fresh(n))
    BY <1>1, <1>2, <1>3, <1>7, FirstOpened
  <2> QED
    BY <1>4, <1>6, <1>7, <2>1 DEF spk
<1> QED
  BY <1>5, <1>6, <1>7 DEF base, frame

LEMMA EntryExists ==
  ASSUME NEW o, NEW base, NEW spk, NEW secret, NEW fresh, Answered(o, base, spk, secret, fresh)
  PROVE  o # NoEntry
<1>1. "root" \in DOMAIN o
  BY DEF Answered, IsRatchet
<1>2. DOMAIN NoEntry = {}
  BY DEF NoEntry
<1> QED
  BY <1>1, <1>2

\* What the recipient looks up is what it builds its session of.
LEMMA CandidateFits ==
  ASSUME IInv, NEW n \in 1..Len(sent)
  PROVE  Candidate(n) = CandidateOf(n, SignedPreKey(n), PreKeyId(n))
BY DEF IInv, SentFits, Candidate, CandidateOf
-----------------------------------------------------------------------------
(* The invariant                                                            *)

LEMMA InitFits == Init => IInv
<1> SUFFICES ASSUME Init PROVE IInv
  OBVIOUS
<1>1. sent = <<>> /\ answers = {} /\ prekeys = PreKey
  BY DEF Init
<1>2. sent \in Seq(Range(sent)) /\ 1..Len(sent) = {}
  BY <1>1
<1>3. Established = {}
  BY <1>1 DEF Established
<1> QED
  BY <1>1, <1>2, <1>3 DEF IInv, OnePreKeyOneSession

LEMMA OutgoingFits ==
  ASSUME IInv, InitOutgoing
  PROVE  IInv'
<1>0. PICK n : n = Len(sent) + 1
  OBVIOUS
<1>1. PICK b \in Bundle :
        /\ sent' = Append(sent, [bundle |-> b, base |-> BaseKey(n),
                           entry |-> InitialSession(IdentityKey(Initiator), BaseKey(n),
                             IdentityKey(Recipient), SignedKey(b.spk), OneTimeKey(b.opk))])
        /\ UNCHANGED <<current, signed, prekeys, answers>>
  BY <1>0 DEF InitOutgoing
<1> DEFINE x == [bundle |-> b, base |-> BaseKey(n),
                 entry |-> InitialSession(IdentityKey(Initiator), BaseKey(n),
                             IdentityKey(Recipient), SignedKey(b.spk), OneTimeKey(b.opk))]
<1>2. /\ x.bundle = b /\ x.base = BaseKey(n)
      /\ x.entry = InitialSession(IdentityKey(Initiator), BaseKey(n),
                     IdentityKey(Recipient), SignedKey(b.spk), OneTimeKey(b.opk))
      /\ b.opk \in PreKey \cup {NoKey}
  BY DEF Bundle
<1>3. sent' = Append(sent, x)
  BY <1>1
<1> HIDE DEF x
<1>4. /\ sent' \in Seq(Range(sent')) /\ Len(sent) \in Nat /\ Len(sent') = n
      /\ sent'[n] = x /\ \A i \in 1..Len(sent) : sent'[i] = sent[i]
  <2>1. Extended(sent', sent, x) /\ sent \in Seq(Range(sent))
    BY <1>3 DEF IInv, Extended
  <2>2. PICK next : next = sent'
    OBVIOUS
  <2>3. Extended(next, sent, x)
    BY <2>1, <2>2
  <2>4. /\ next \in Seq(Range(next)) /\ Len(sent) \in Nat /\ Len(next) = Len(sent) + 1
        /\ next[Len(sent) + 1] = x /\ \A i \in 1..Len(sent) : next[i] = sent[i]
    BY <2>1, <2>3, Appended
  <2>5. n = Len(sent) + 1
    BY <1>0
  <2> QED
    BY <2>2, <2>4, <2>5
<1>5. ASSUME NEW i \in 1..Len(sent') PROVE SentFits(i)'
  <2>1. CASE i = n
    BY <1>2, <1>4, <2>1 DEF SentFits
  <2>2. CASE i \in 1..Len(sent)
    <3>1. SentFits(i) /\ sent'[i] = sent[i]
      BY <1>4, <2>2 DEF IInv
    <3> QED
      BY <3>1 DEF SentFits
  <2> QED
    BY <1>1, <1>4, <2>1, <2>2
<1>6. ASSUME NEW a \in answers PROVE AnswerFits(a)'
  <2>1. AnswerFits(a)
    BY DEF IInv
  <2>2. a.n \in 1..Len(sent) /\ a.n \in 1..Len(sent') /\ sent'[a.n] = sent[a.n]
    BY <1>1, <1>4, <2>1 DEF AnswerFits
  <2>3. FirstFrame(a.n)' = FirstFrame(a.n)
    BY <2>2 DEF FirstFrame
  <2> QED
    BY <2>1, <2>2, <2>3 DEF AnswerFits
<1>7. answers' = answers /\ Established' = Established /\ prekeys' = prekeys
  BY <1>1 DEF Established
<1>8. HasRemovePreKey => OnePreKeyOneSession'
  BY <1>7 DEF IInv, OnePreKeyOneSession
<1> QED
  BY <1>4, <1>5, <1>6, <1>7, <1>8 DEF IInv

LEMMA IncomingFits ==
  ASSUME IInv, NEW n \in 1..Len(sent), InitIncoming(n)
  PROVE  IInv'
<1> DEFINE x == Answer(n)
<1>1. /\ PreKeyId(n) \in prekeys \cup {NoKey}
      /\ answers' = answers \cup {x} /\ prekeys' = Consumed(n) /\ sent' = sent
  BY DEF InitIncoming, PreKeyFound
<1>2. /\ x.n = n /\ x.spk = SignedPreKey(n) /\ x.opk = PreKeyId(n) /\ x.base = sent[n].base
      /\ x.entry = IF Opens(Candidate(n), FirstFrame(n))
                   THEN Decrypted(Candidate(n), FirstFrame(n), Fresh(n)) ELSE NoEntry
  BY DEF Answer, Fresh
<1>3. Consumed(n) = IF HasRemovePreKey /\ x.entry # NoEntry THEN prekeys \ {PreKeyId(n)} ELSE prekeys
  BY DEF Consumed
<1> HIDE DEF x
<1>4. AnswerFits(x)
  BY <1>1, <1>2, CandidateFits DEF IInv, SentFits, AnswerFits
<1>5. \A a \in answers' : AnswerFits(a)'
  <2>1. \A a \in answers' : AnswerFits(a)
    BY <1>1, <1>4 DEF IInv
  <2>2. \A a : FirstFrame(a)' = FirstFrame(a)
    BY <1>1 DEF FirstFrame
  <2> QED
    BY <1>1, <2>1, <2>2 DEF AnswerFits
<1>6. Established' = Established \cup {a \in {x} : a.entry # NoEntry}
  BY <1>1 DEF Established
<1>7. prekeys' \subseteq prekeys
  BY <1>1, <1>3
<1>8. ASSUME HasRemovePreKey PROVE \A a \in Established' : a.opk \notin prekeys'
  <2>1. \A a \in Established : a.opk \notin prekeys'
    BY <1>7, <1>8 DEF IInv
  <2>2. x.entry # NoEntry => x.opk \notin prekeys'
    BY <1>1, <1>2, <1>3, <1>8
  <2> QED
    BY <1>6, <2>1, <2>2
<1>9. ASSUME HasRemovePreKey PROVE OnePreKeyOneSession'
  <2> SUFFICES ASSUME NEW a \in Established', NEW b \in Established', a.opk = b.opk, a.opk # NoKey
               PROVE  a.n = b.n
    BY DEF OnePreKeyOneSession
  <2>1. \A c \in Established : c.opk \notin prekeys
    BY <1>9 DEF IInv
  <2>2. \A c \in Established' : c \in Established \/ c = x
    BY <1>6
  <2>3. x.opk \in prekeys \cup {NoKey}
    BY <1>1, <1>2
  <2>4. CASE a \in Established /\ b \in Established
    BY <1>9, <2>4 DEF IInv, OnePreKeyOneSession
  <2> QED
    BY <2>1, <2>2, <2>3, <2>4
<1> QED
  BY <1>1, <1>5, <1>7, <1>8, <1>9 DEF IInv, SentFits

\* Every step keeps it.
LEMMA StepFits ==
  ASSUME IInv, [Next]_vars
  PROVE  IInv'
<1>1. CASE InitOutgoing
  BY <1>1, OutgoingFits
<1>2. CASE Rotate \/ UNCHANGED vars
  <2>1. sent' = sent /\ answers' = answers /\ prekeys' = prekeys
    BY <1>2 DEF Rotate, vars
  <2>2. \A n : FirstFrame(n)' = FirstFrame(n) /\ SentFits(n)' = SentFits(n)
    BY <2>1 DEF FirstFrame, SentFits
  <2>3. Established' = Established
    BY <2>1 DEF Established
  <2>4. \A a : AnswerFits(a)' = AnswerFits(a)
    BY <2>1, <2>2 DEF AnswerFits
  <2> QED
    BY <2>1, <2>2, <2>3, <2>4 DEF IInv, OnePreKeyOneSession
<1>3. CASE \E n \in 1..Len(sent) : InitIncoming(n)
  BY <1>3, IncomingFits
<1> QED
  BY <1>1, <1>2, <1>3 DEF Next

LEMMA Fits == Spec => []IInv
<1>1. IInv /\ [Next]_vars => IInv'
  BY StepFits
<1> QED
  BY <1>1, InitFits, PTL DEF Spec
-----------------------------------------------------------------------------
(* The theorems                                                             *)

LEMMA AnswersAgree ==
  ASSUME IInv, NEW a \in answers
  PROVE  /\ a.n \in 1..Len(sent) /\ SentFits(a.n) /\ a.opk \in PreKey \cup {NoKey}
         /\ a.entry # NoEntry <=> a.spk = sent[a.n].bundle.spk /\ a.opk = sent[a.n].bundle.opk
         /\ a.entry # NoEntry => Answered(a.entry, BaseKey(a.n), SignedKey(sent[a.n].bundle.spk),
                                          SecretSent(a.n), Fresh(a.n))
<1>1. PICK n, y, e : n = a.n /\ y = CandidateOf(n, a.spk, a.opk) /\ e = Decrypted(y, FirstFrame(n), Fresh(n))
  OBVIOUS
<1>2. /\ n \in 1..Len(sent) /\ SentFits(n) /\ a.opk \in PreKey \cup {NoKey}
      /\ a.entry = IF Opens(y, FirstFrame(n)) THEN e ELSE NoEntry
  BY <1>1 DEF IInv, AnswerFits
<1>3. /\ Opens(y, FirstFrame(n)) <=> a.spk = sent[n].bundle.spk /\ a.opk = sent[n].bundle.opk
      /\ Opens(y, FirstFrame(n)) =>
           Answered(e, BaseKey(n), SignedKey(sent[n].bundle.spk), SecretSent(n), Fresh(n))
  BY <1>1, <1>2, OpensAgreed
<1>4. Opens(y, FirstFrame(n)) => e # NoEntry
  BY <1>3, EntryExists
<1> QED
  BY <1>1, <1>2, <1>3, <1>4

\* What a recipient answers with is of the session it answers.
LEMMA ReplyFits ==
  ASSUME IInv, NEW a \in Established
  PROVE  /\ CanEncrypt(a.entry) /\ Opens(sent[a.n].entry, Frame(a.entry))
         /\ Frame(a.entry).key.seed[1] = SecretSent(a.n)
         /\ IsId(Frame(a.entry).id) /\ Frame(a.entry).counter \in Nat
<1>1. PICK n, spk : n = a.n /\ spk = SignedKey(sent[n].bundle.spk)
  OBVIOUS
<1>2. SentFits(n) /\ Answered(a.entry, BaseKey(n), spk, SecretSent(n), Fresh(n))
  BY <1>1, AnswersAgree DEF Established
<1>3. Initiates(sent[n].entry, BaseKey(n), spk, SecretSent(n))
  BY <1>1, <1>2, FirstFrames
<1>4. BaseKey(n).key # spk.key /\ Fresh(n) # BaseKey(n).key /\ Fresh(n) # spk.key
  BY <1>1, KeysDiffer
<1> QED
  BY <1>1, <1>2, <1>3, <1>4, ReplyOpened

\* Whatever became of a pkmsg, both sides hold the same secret exactly when the
\* recipient worked with the prekeys that the initiator did (x3dh.rs:106-132,
\* 246-266, session-builder.js:51-76).
THEOREM KeysAgree == Spec => []AgreeOnSameKeys
<1>1. IInv => AgreeOnSameKeys
  BY AnswersAgree DEF AgreeOnSameKeys
<1> QED
  BY <1>1, Fits, PTL

\* The recipient of an established session can always answer, and its first
\* answer opens at the initiator (ratchet.rs:331-453).
THEOREM RepliesOpen == Spec => []ReplyOpens
<1>1. IInv => ReplyOpens
  BY ReplyFits DEF ReplyOpens
<1> QED
  BY <1>1, Fits, PTL

\* However often a one-time prekey was handed out, and whatever comes late or
\* again, one session is made of it where the storage has a removePreKey
\* (session-cipher.js:121-127).
THEOREM PreKeysUsedOnce == ASSUME HasRemovePreKey PROVE Spec => []OnePreKeyOneSession
<1>1. IInv => OnePreKeyOneSession
  BY DEF IInv
<1> QED
  BY <1>1, Fits, PTL

\* No session opens the first frame or the first answer of another, whichever
\* prekeys they share (x3dh.rs:72-79).
THEOREM SessionsApart == Spec => []SessionsSeparate
<1>1. ASSUME IInv PROVE SessionsSeparate
  <2> SUFFICES ASSUME NEW a \in Established, NEW n \in 1..Len(sent), n # a.n
               PROVE  ~Opens(Candidate(a.n), FirstFrame(n)) /\ ~Opens(sent[n].entry, Frame(a.entry))
    BY DEF SessionsSeparate
  <2>1. PICK m, s, k : m = a.n /\ s = SignedPreKey(m) /\ k = PreKeyId(m)
    OBVIOUS
  <2>2. a \in answers /\ m \in 1..Len(sent) /\ SentFits(m) /\ SentFits(n)
    BY <1>1, <2>1, AnswersAgree DEF Established, IInv
  <2>3. SecretOf(m, s, k) # SecretSent(n) /\ SecretSent(m) # SecretSent(n)
    BY <2>1, SecretsOfSessions
  <2>4. ~Opens(Candidate(m), FirstFrame(n))
    <3>1. PICK y : y = Candidate(m)
      OBVIOUS
    <3>2. y = CandidateOf(m, s, k)
      BY <1>1, <2>1, <2>2, <3>1, CandidateFits
    <3>3. Responds(y, BaseKey(m), SignedKey(s), SecretOf(m, s, k))
      BY <3>2, KeysDiffer, RecipientInOrder DEF CandidateOf, SecretOf
    <3>4. IsRatchet(y) /\ y.root[1] = SecretOf(m, s, k)
      BY <3>3 DEF Responds
    <3>5. /\ IsId(FirstFrame(n).id) /\ FirstFrame(n).counter = 0
          /\ FirstFrame(n).key.seed[1] = SecretSent(n)
      BY <2>2, FirstFrames
    <3>6. FirstFrame(n).counter \in Nat /\ FirstFrame(n).key.seed[1] # y.root[1]
      BY <2>3, <3>4, <3>5
    <3>7. PICK ch : ch = ReceivingChain(y, FirstFrame(n).id)
      OBVIOUS
    <3>8. Opens(y, FirstFrame(n)) => FirstFrame(n).key.seed[1] = y.root[1]
      BY <3>4, <3>5, <3>6, <3>7, OpenedKey
    <3> QED
      BY <3>1, <3>6, <3>8
  <2>5. ~Opens(sent[n].entry, Frame(a.entry))
    <3>1. /\ IsId(Frame(a.entry).id) /\ Frame(a.entry).counter \in Nat
          /\ Frame(a.entry).key.seed[1] = SecretSent(m)
      BY <1>1, <2>1, ReplyFits
    <3>2. PICK spk : spk = SignedKey(sent[n].bundle.spk)
      OBVIOUS
    <3>3. Initiates(sent[n].entry, BaseKey(n), spk, SecretSent(n))
      BY <2>2, <3>2, FirstFrames
    <3>4. IsRatchet(sent[n].entry) /\ sent[n].entry.root[1] = SecretSent(n)
      BY <3>3 DEF Initiates
    <3>5. PICK ch : ch = ReceivingChain(sent[n].entry, Frame(a.entry).id)
      OBVIOUS
    <3>6. Opens(sent[n].entry, Frame(a.entry)) => Frame(a.entry).key.seed[1] = sent[n].entry.root[1]
      BY <3>1, <3>4, <3>5, OpenedKey
    <3> QED
      BY <2>3, <3>1, <3>4, <3>6
  <2> QED
    BY <2>1, <2>4, <2>5
<1> QED
  BY <1>1, Fits, PTL
=============================================================================
