------------------------ MODULE SessionCipherProofs ------------------------
(***************************************************************************)
(* Theorems about SessionCipher, for any number of calls, addresses, frames *)
(* and crashes, and whatever fails: the records and their entries first,    *)
(* then what the callers were told of counters, frames and prekeys.         *)
(***************************************************************************)
EXTENDS SessionCipher, FiniteSetTheorems, SequenceTheorems, TLAPS

\* The locals of an async function.
IsLocals(l) ==
  l = [pc |-> l.pc, request |-> l.request, loaded |-> l.loaded, next |-> l.next,
       signed |-> l.signed, built |-> l.built, reply |-> l.reply, outcome |-> l.outcome]

Typed ==
  /\ Serial!TypeOK
  /\ job = [j \in Job |-> job[j]] /\ \A j \in Job : IsLocals(job[j])
  /\ record = [a \in Addr |-> record[a]]

\* A job is somewhere in its function exactly while the queue serves it,
Working == \A j \in Job : job[j].pc # "idle" <=> phase[j] = "active"

\* and it has been asked for something.
Asked == \A j \in Job : phase[j] # "outside" => job[j].request \in Requests

\* The line of an address holds the calls for it,
OnLine == \A a \in Addr : \A i \in 1..Len(line[a]) :
            phase[line[a][i]] # "outside" /\ AddrOf(line[a][i]) = a

\* each once,
Once == \A a \in Addr : \A i, k \in 1..Len(line[a]) : line[a][i] = line[a][k] => i = k

\* all of them,
Placed == \A j \in Job : phase[j] # "outside" =>
            \E i \in 1..Len(line[AddrOf(j)]) : line[AddrOf(j)][i] = j

\* and nobody is served before the ones ahead are done.
InTurn == \A a \in Addr : \A i, k \in 1..Len(line[a]) :
            k < i /\ phase[line[a][i]] = "active" => phase[line[a][k]] = "done"

\* What a job loaded is what is stored, until it has stored its successor.
FreshLocals(l, r) ==
  l.pc \in {"prekey", "signed", "join", "open", "store"} /\ l.request.op # "init" => l.loaded = r
Fresh == \A j \in Job : FreshLocals(job[j], record[AddrOf(j)])

\* A job that is about to change the storage works on no frame or on an
\* authentic one.
AuthenticLocals(l) ==
  /\ l.pc \in {"store", "remove"} => l.request.frame = None \/ l.request.frame.authentic
  /\ l.pc = "build" => l.request.op = "init"
Authentic == \A j \in Job : AuthenticLocals(job[j])

IInv == Typed /\ Working /\ Asked /\ OnLine /\ Once /\ Placed /\ InTurn /\ Fresh /\ Authentic
-----------------------------------------------------------------------------
LEMMA InitIInv == Init => IInv
<1> SUFFICES ASSUME Init PROVE IInv
  OBVIOUS
<1>1. /\ \A a \in Addr : line[a] = <<>>
      /\ \A j \in Job : phase[j] = "outside" /\ job[j] = Idle
      /\ record = [a \in Addr |-> NoRecord] /\ job = [j \in Job |-> Idle]
  BY DEF Init, Serial!Init
<1>2. Serial!TypeOK
  BY DEF Init, Serial!Init, Serial!TypeOK, Serial!Phase
<1>3. IsLocals(Idle) /\ Idle.pc = "idle"
  BY DEF IsLocals, Idle
<1>4. Typed
  BY <1>1, <1>2, <1>3 DEF Typed
<1>5. Working /\ Asked /\ Placed /\ Fresh /\ Authentic
  BY <1>1, <1>3 DEF Working, Asked, Placed, Fresh, FreshLocals, Authentic, AuthenticLocals
<1>6. OnLine /\ Once /\ InTurn
  <2>1. \A a \in Addr : Len(line[a]) = 0
    BY <1>1
  <2> QED
    BY <2>1 DEF OnLine, Once, InTurn
<1> QED
  BY <1>4, <1>5, <1>6 DEF IInv

\* Of the jobs of one address one at most is in progress.
LEMMA OneActive ==
  ASSUME IInv, NEW i \in Job, NEW j \in Job, phase[i] = "active", phase[j] = "active",
         AddrOf(i) = AddrOf(j)
  PROVE  i = j
<1> DEFINE a == AddrOf(j)
<1>1. a \in Addr
  BY DEF IInv, Asked, AddrOf, Requests
<1>2. PICK p \in 1..Len(line[a]) : line[a][p] = i
  BY DEF IInv, Placed
<1>3. PICK q \in 1..Len(line[a]) : line[a][q] = j
  BY DEF IInv, Placed
<1>4. p \in Int /\ q \in Int
  BY <1>2, <1>3
<1>5. ~(p < q) /\ ~(q < p)
  BY <1>1, <1>2, <1>3 DEF IInv, InTurn
<1> QED
  BY <1>2, <1>3, <1>4, <1>5

\* A step of the job being served, to its next await or to its end.  It may
\* write the record of its address and no other.
LEMMA JobStep ==
  ASSUME IInv, NEW j \in Job, phase[j] = "active", NEW p \in {"active", "done"}, NEW l,
         line' = line, phase' = [phase EXCEPT ![j] = p], job' = [job EXCEPT ![j] = l],
         IsLocals(l), l.request = job[j].request, l.pc # "idle" <=> p = "active",
         record' = [a \in Addr |-> record'[a]],
         \A a \in Addr : a # AddrOf(j) => record'[a] = record[a],
         FreshLocals(l, record'[AddrOf(j)]), AuthenticLocals(l)
  PROVE  IInv'
<1>0. /\ job'[j] = l /\ phase'[j] = p
      /\ \A i \in Job : i # j => job'[i] = job[i] /\ phase'[i] = phase[i]
      /\ \A i \in Job : job'[i].request = job[i].request
      /\ \A i \in Job : phase'[i] = "outside" <=> phase[i] = "outside"
  BY DEF IInv, Typed, Serial!TypeOK
<1>1. Typed'
  <2>1. Serial!TypeOK'
    BY DEF IInv, Typed, Serial!TypeOK, Serial!Phase
  <2>2. job' = [i \in Job |-> job'[i]] /\ \A i \in Job : IsLocals(job'[i])
    BY <1>0 DEF IInv, Typed
  <2> QED
    BY <2>1, <2>2 DEF Typed
<1>2. Working'
  BY <1>0 DEF IInv, Working
<1>3. Asked' /\ Placed'
  BY <1>0 DEF IInv, Asked, Placed, AddrOf
<1>4. \A a \in Addr : \A i \in 1..Len(line[a]) : line[a][i] \in Job
  BY DEF IInv, Typed, Serial!TypeOK
<1>5. OnLine' /\ Once'
  BY <1>0, <1>4 DEF IInv, OnLine, Once, AddrOf
<1>6. InTurn'
  <2>1. \A i \in Job : phase'[i] = "active" => phase[i] = "active"
    BY <1>0
  <2>2. \A i \in Job : phase[i] = "done" => phase'[i] = "done"
    BY <1>0
  <2> QED
    BY <1>4, <2>1, <2>2 DEF IInv, InTurn
<1>7. Fresh'
  <2> SUFFICES ASSUME NEW i \in Job PROVE FreshLocals(job'[i], record'[job'[i].request.addr])
    BY DEF Fresh, AddrOf
  <2>1. CASE i = j
    BY <1>0, <2>1 DEF AddrOf
  <2>2. CASE i # j
    <3>1. job'[i] = job[i]
      BY <1>0, <2>2
    <3>2. CASE job[i].pc = "idle"
      BY <3>1, <3>2 DEF FreshLocals
    <3>3. CASE job[i].pc # "idle"
      <4>1. phase[i] = "active"
        BY <3>3 DEF IInv, Working
      <4>2. AddrOf(i) \in Addr /\ AddrOf(i) # AddrOf(j)
        BY <2>2, <4>1, OneActive DEF IInv, Asked, AddrOf, Requests
      <4>3. FreshLocals(job[i], record[AddrOf(i)])
        BY DEF IInv, Fresh
      <4> QED
        BY <3>1, <4>2, <4>3 DEF AddrOf
    <3> QED
      BY <3>2, <3>3
  <2> QED
    BY <2>1, <2>2
<1>8. Authentic'
  BY <1>0 DEF IInv, Authentic
<1> QED
  BY <1>1, <1>2, <1>3, <1>5, <1>6, <1>7, <1>8 DEF IInv
-----------------------------------------------------------------------------
(* One lemma per action *)

\* A job that stands at an await is being served.
LEMMA AtWork == ASSUME IInv, NEW j \in Job, job[j].pc # "idle" PROVE phase[j] = "active"
BY DEF IInv, Working

LEMMA GotoStep ==
  ASSUME IInv, NEW j \in Job, phase[j] = "active", NEW l, NEW locals, Goto(j, l, locals),
         l # "idle", IsLocals(locals), locals.request = job[j].request,
         record' = [a \in Addr |-> record'[a]],
         \A a \in Addr : a # AddrOf(j) => record'[a] = record[a],
         FreshLocals([locals EXCEPT !.pc = l], record'[AddrOf(j)]),
         AuthenticLocals([locals EXCEPT !.pc = l])
  PROVE  IInv'
<1> DEFINE m == [locals EXCEPT !.pc = l]
<1>1. m = [pc |-> l, request |-> locals.request, loaded |-> locals.loaded, next |-> locals.next,
           signed |-> locals.signed, built |-> locals.built, reply |-> locals.reply, outcome |-> locals.outcome]
  BY DEF IsLocals
<1>2. IsLocals(m) /\ m.pc = l /\ m.request = job[j].request
  BY <1>1 DEF IsLocals
<1>3. line' = line /\ phase' = [phase EXCEPT ![j] = "active"] /\ job' = [job EXCEPT ![j] = m]
  BY DEF Goto, IInv, Typed, Serial!TypeOK
<1>4. FreshLocals(m, record'[AddrOf(j)]) /\ AuthenticLocals(m)
  OBVIOUS
<1> HIDE DEF m
<1> QED
  BY <1>2, <1>3, <1>4, JobStep

LEMMA SettleStep ==
  ASSUME IInv, NEW j \in Job, NEW how, Settle(j, how),
         record' = [a \in Addr |-> record'[a]],
         \A a \in Addr : a # AddrOf(j) => record'[a] = record[a]
  PROVE  IInv'
<1> DEFINE m == [Idle EXCEPT !.request = job[j].request, !.outcome = how,
                            !.reply = IF how = "ok" THEN job[j].reply ELSE None]
<1>1. phase[j] = "active" /\ line' = line /\ phase' = [phase EXCEPT ![j] = "done"]
      /\ job' = [job EXCEPT ![j] = m]
  BY DEF Settle, Serial!End
<1>2. IsLocals(m) /\ m.pc = "idle" /\ m.request = job[j].request
  <2> DEFINE y == IF how = "ok" THEN job[j].reply ELSE None
             m1 == [Idle EXCEPT !.request = job[j].request]
             m2 == [m1 EXCEPT !.outcome = how]
  <2>1. m = [m2 EXCEPT !.reply = y]
    OBVIOUS
  <2>2. IsLocals(Idle) /\ Idle.pc = "idle"
    BY DEF IsLocals, Idle
  <2>3. IsLocals(m1) /\ m1.pc = "idle" /\ m1.request = job[j].request
    BY <2>2 DEF IsLocals
  <2>4. IsLocals(m2) /\ m2.pc = "idle" /\ m2.request = job[j].request
    <3> HIDE DEF m1
    <3> QED
      BY <2>3 DEF IsLocals
  <2> HIDE DEF m, m2, y
  <2> QED
    BY <2>1, <2>4 DEF IsLocals
<1>3. FreshLocals(m, record'[AddrOf(j)]) /\ AuthenticLocals(m)
  BY <1>2 DEF FreshLocals, AuthenticLocals
<1> HIDE DEF m
<1> QED
  BY <1>1, <1>2, <1>3, JobStep

LEMMA LoadKeeps == ASSUME IInv, NEW j \in Job, Load(j) PROVE IInv'
<1> DEFINE r == record[AddrOf(j)]
           m == [job[j] EXCEPT !.loaded = r]
<1>1. record' = record /\ phase[j] = "active"
  BY AtWork DEF Load, At, storage
<1>2. record' = [a \in Addr |-> record'[a]] /\ \A a \in Addr : record'[a] = record[a]
  BY <1>1 DEF IInv, Typed
<1>3. IsLocals(m) /\ m.request = job[j].request /\ m.loaded = r
  BY DEF IInv, Typed, IsLocals
<1>4. \A l : FreshLocals([m EXCEPT !.pc = l], record'[AddrOf(j)])
  BY <1>1, <1>3 DEF FreshLocals, IsLocals
<1>5. \A l \in {"open", "prekey"} : AuthenticLocals([m EXCEPT !.pc = l])
  BY <1>3 DEF AuthenticLocals, IsLocals
<1>6. CASE \E how : Settle(j, how)
  BY <1>2, <1>6, SettleStep
<1>7. CASE \E l \in {"open", "prekey"} : Goto(j, l, m)
  <2>1. PICK l \in {"open", "prekey"} : Goto(j, l, m)
    BY <1>7
  <2> HIDE DEF m
  <2> QED
    BY <1>1, <1>2, <1>3, <1>4, <1>5, <2>1, GotoStep
<1> QED
  BY <1>6, <1>7 DEF Load

LEMMA LoadPreKeyKeeps == ASSUME IInv, NEW j \in Job, LoadPreKey(j) PROVE IInv'
<1>1. record' = record /\ phase[j] = "active" /\ job[j].pc = "prekey"
  BY AtWork DEF LoadPreKey, At, storage
<1>2. record' = [a \in Addr |-> record'[a]] /\ \A a \in Addr : record'[a] = record[a]
  BY <1>1 DEF IInv, Typed
<1>3. CASE \E how : Settle(j, how)
  BY <1>2, <1>3, SettleStep
<1>4. CASE Goto(j, "signed", job[j])
  <2>1. IsLocals(job[j])
    BY DEF IInv, Typed
  <2>2. FreshLocals([job[j] EXCEPT !.pc = "signed"], record'[AddrOf(j)])
    BY <1>1, <2>1 DEF IInv, Fresh, FreshLocals, IsLocals
  <2>3. AuthenticLocals([job[j] EXCEPT !.pc = "signed"])
    BY <2>1 DEF AuthenticLocals, IsLocals
  <2> QED
    BY <1>1, <1>2, <1>4, <2>1, <2>2, <2>3, GotoStep
<1> QED
  BY <1>3, <1>4 DEF LoadPreKey

LEMMA LoadSignedPreKeyKeeps == ASSUME IInv, NEW j \in Job, LoadSignedPreKey(j) PROVE IInv'
<1>1. record' = record /\ phase[j] = "active" /\ job[j].pc = "signed"
  BY AtWork DEF LoadSignedPreKey, At, storage
<1>2. record' = [a \in Addr |-> record'[a]] /\ \A a \in Addr : record'[a] = record[a]
  BY <1>1 DEF IInv, Typed
<1>3. CASE \E how : Settle(j, how)
  BY <1>2, <1>3, SettleStep
<1>4. ASSUME NEW k, Goto(j, "join", [job[j] EXCEPT !.signed = k]) PROVE IInv'
  <2> DEFINE m == [job[j] EXCEPT !.signed = k]
  <2>1. IsLocals(m) /\ m.request = job[j].request /\ m.loaded = job[j].loaded
    BY DEF IInv, Typed, IsLocals
  <2>2. Goto(j, "join", m)
    BY <1>4
  <2> HIDE DEF m
  <2>3. FreshLocals([m EXCEPT !.pc = "join"], record'[AddrOf(j)])
    BY <1>1, <2>1 DEF IInv, Fresh, FreshLocals, IsLocals
  <2>4. AuthenticLocals([m EXCEPT !.pc = "join"])
    BY <2>1 DEF AuthenticLocals, IsLocals
  <2> QED
    BY <1>1, <1>2, <2>1, <2>2, <2>3, <2>4, GotoStep
<1> QED
  BY <1>3, <1>4 DEF LoadSignedPreKey

\* A job that goes on to store its record with what it worked on.
LEMMA ToStore ==
  ASSUME IInv, NEW j \in Job, job[j].pc # "idle", record' = record, NEW n, NEW b, NEW y,
         Goto(j, "store", [job[j] EXCEPT !.next = n, !.built = b, !.reply = y]),
         FreshLocals([job[j] EXCEPT !.pc = "store"], record[AddrOf(j)]),
         FrameOf(j) = None \/ FrameOf(j).authentic
  PROVE  IInv'
<1> DEFINE m == [job[j] EXCEPT !.next = n, !.built = b, !.reply = y]
<1>1. IsLocals(job[j]) /\ phase[j] = "active"
  BY AtWork DEF IInv, Typed
<1>3. IsLocals(m) /\ m.request = job[j].request /\ m.loaded = job[j].loaded
  <2> DEFINE m1 == [job[j] EXCEPT !.next = n]
             m2 == [m1 EXCEPT !.built = b]
  <2>1. m = [m2 EXCEPT !.reply = y]
    OBVIOUS
  <2>2. IsLocals(m1) /\ m1.request = job[j].request /\ m1.loaded = job[j].loaded
    BY <1>1 DEF IsLocals
  <2>3. IsLocals(m2) /\ m2.request = job[j].request /\ m2.loaded = job[j].loaded
    <3> HIDE DEF m1
    <3> QED
      BY <2>2 DEF IsLocals
  <2> HIDE DEF m, m2
  <2> QED
    BY <2>1, <2>3 DEF IsLocals
<1>4. FreshLocals([m EXCEPT !.pc = "store"], record'[AddrOf(j)])
  <2> HIDE DEF m
  <2> QED
    BY <1>1, <1>3 DEF FreshLocals, IsLocals
<1>5. AuthenticLocals([m EXCEPT !.pc = "store"])
  <2> HIDE DEF m
  <2> QED
    BY <1>3 DEF AuthenticLocals, FrameOf, IsLocals
<1>6. record' = [a \in Addr |-> record'[a]] /\ \A a \in Addr : record'[a] = record[a]
  BY DEF IInv, Typed
<1>7. Goto(j, "store", m)
  OBVIOUS
<1> HIDE DEF m
<1> QED
  BY <1>1, <1>3, <1>4, <1>5, <1>6, <1>7, GotoStep

LEMMA JoinKeeps == ASSUME IInv, NEW j \in Job, Join(j) PROVE IInv'
<1>1. record' = record /\ job[j].pc = "join"
  BY DEF Join, At, storage
<1>2. record' = [a \in Addr |-> record'[a]] /\ \A a \in Addr : record'[a] = record[a]
  BY <1>1 DEF IInv, Typed
<1>3. CASE Settle(j, "bad mac")
  BY <1>2, <1>3, SettleStep
<1>4. CASE /\ FrameOf(j).authentic
           /\ \E n : Goto(j, "store", [job[j] EXCEPT !.next = n, !.built = TRUE, !.reply = FrameOf(j)])
  <2>1. FreshLocals([job[j] EXCEPT !.pc = "store"], record[AddrOf(j)])
    BY <1>1 DEF IInv, Typed, Fresh, FreshLocals, IsLocals
  <2> QED
    BY <1>1, <1>4, <2>1, ToStore
<1>5. \/ Settle(j, "bad mac")
      \/ /\ FrameOf(j).authentic
         /\ \E n : Goto(j, "store", [job[j] EXCEPT !.next = n, !.built = TRUE, !.reply = FrameOf(j)])
  BY DEF Join, Matches
<1> QED
  BY <1>3, <1>4, <1>5

LEMMA EncryptKeeps == ASSUME IInv, NEW j \in Job, Encrypt(j) PROVE IInv'
<1> DEFINE e == Current(job[j].loaded)
           y == [inc |-> e.inc, n |-> e.sent]
<1>1. record' = record /\ job[j].pc = "open" /\ job[j].request.op = "encrypt"
  BY DEF Encrypt, At, storage
<1>2. FreshLocals([job[j] EXCEPT !.pc = "store"], record[AddrOf(j)])
  BY <1>1 DEF IInv, Typed, Fresh, FreshLocals, IsLocals
<1>3. FrameOf(j) = None
  <2>1. job[j].request \in Requests
    BY <1>1, AtWork DEF IInv, Asked
  <2> QED
    BY <1>1, <2>1, CipherAssumption DEF Requests, FrameOf
<1>4. Goto(j, "store", [job[j] EXCEPT !.next = Stepped(job[j].loaded), !.reply = y])
  BY DEF Encrypt
<1>5. [job[j] EXCEPT !.next = Stepped(job[j].loaded), !.reply = y]
        = [job[j] EXCEPT !.next = Stepped(job[j].loaded), !.built = job[j].built, !.reply = y]
  <2> HIDE DEF y
  <2>1. \A n : [job[j] EXCEPT !.next = n, !.reply = y]
                = [job[j] EXCEPT !.next = n, !.built = job[j].built, !.reply = y]
    OBVIOUS
  <2> QED
    BY <2>1
<1>6. Goto(j, "store", [job[j] EXCEPT !.next = Stepped(job[j].loaded), !.built = job[j].built, !.reply = y])
  BY <1>4, <1>5, Zenon
<1> HIDE DEF y
<1> QED
  BY <1>1, <1>2, <1>3, <1>6, ToStore

LEMMA DecryptKeeps == ASSUME IInv, NEW j \in Job, Decrypt(j) PROVE IInv'
<1> DEFINE r == Opened(job[j].loaded, FrameOf(j))
<1>1. record' = record /\ job[j].pc = "open"
  BY DEF Decrypt, At, storage
<1>2. record' = [a \in Addr |-> record'[a]] /\ \A a \in Addr : record'[a] = record[a]
  BY <1>1 DEF IInv, Typed
<1>3. \/ Settle(j, "rejected")
      \/ FrameOf(j).authentic /\ Goto(j, "store", [job[j] EXCEPT !.next = r, !.reply = FrameOf(j)])
  <2>1. Matches(Current(job[j].loaded), FrameOf(j)) => FrameOf(j).authentic
    BY DEF Matches
  <2>2. \/ Settle(j, "rejected")
        \/ /\ Matches(Current(job[j].loaded), FrameOf(j))
           /\ Goto(j, "store", [job[j] EXCEPT !.next = r, !.reply = FrameOf(j)])
    BY DEF Decrypt
  <2> QED
    BY <2>1, <2>2
<1>4. CASE Settle(j, "rejected")
  BY <1>2, <1>4, SettleStep
<1>5. CASE FrameOf(j).authentic /\ Goto(j, "store", [job[j] EXCEPT !.next = r, !.reply = FrameOf(j)])
  <2>1. FreshLocals([job[j] EXCEPT !.pc = "store"], record[AddrOf(j)])
    BY <1>1 DEF IInv, Typed, Fresh, FreshLocals, IsLocals
  <2> HIDE DEF r
  <2>2. [job[j] EXCEPT !.next = r, !.reply = FrameOf(j)]
          = [job[j] EXCEPT !.next = r, !.built = job[j].built, !.reply = FrameOf(j)]
    OBVIOUS
  <2>3. Goto(j, "store", [job[j] EXCEPT !.next = r, !.built = job[j].built, !.reply = FrameOf(j)])
    BY <1>5, <2>2, Zenon
  <2> QED
    BY <1>1, <1>5, <2>1, <2>3, ToStore
<1> QED
  BY <1>3, <1>4, <1>5

LEMMA BuildKeeps == ASSUME IInv, NEW j \in Job, Build(j) PROVE IInv'
<1> DEFINE n == Merged(NoRecord, Entry(clock + 1, clock + 1))
<1>1. record' = record /\ job[j].pc = "build" /\ phase[j] = "active"
  BY AtWork DEF Build, At, storage
<1>2. record' = [a \in Addr |-> record'[a]] /\ \A a \in Addr : record'[a] = record[a]
  BY <1>1 DEF IInv, Typed
<1>3. Settle(j, "unread") \/ Goto(j, "store", [job[j] EXCEPT !.next = n])
  BY DEF Build
<1>4. CASE Settle(j, "unread")
  BY <1>2, <1>4, SettleStep
<1>5. CASE Goto(j, "store", [job[j] EXCEPT !.next = n])
  <2> HIDE DEF n
  <2> DEFINE m == [job[j] EXCEPT !.next = n]
  <2>1. job[j].request.op = "init"
    BY <1>1 DEF IInv, Authentic, AuthenticLocals
  <2>2. FrameOf(j) = None
    <3>1. job[j].request \in Requests
      BY <1>1 DEF IInv, Asked
    <3> QED
      BY <2>1, <3>1, CipherAssumption DEF Requests, FrameOf
  <2>3. IsLocals(job[j])
    BY DEF IInv, Typed
  <2>4. IsLocals(m) /\ m.request = job[j].request
    BY <2>3 DEF IsLocals
  <2> HIDE DEF m
  <2>5. FreshLocals([m EXCEPT !.pc = "store"], record'[AddrOf(j)])
    BY <2>1, <2>4 DEF FreshLocals, IsLocals
  <2>6. AuthenticLocals([m EXCEPT !.pc = "store"])
    BY <2>2, <2>4 DEF AuthenticLocals, FrameOf, IsLocals
  <2>7. Goto(j, "store", m)
    BY <1>5 DEF m
  <2> QED
    BY <1>1, <1>2, <2>4, <2>5, <2>6, <2>7, GotoStep
<1> QED
  BY <1>3, <1>4, <1>5

\* The write: it ends the job, or leaves it to remove the prekey.
LEMMA StoreKeeps == ASSUME IInv, NEW j \in Job, Store(j) PROVE IInv'
<1>1. job[j].pc = "store" /\ phase[j] = "active"
  BY AtWork DEF Store, At
<1>2. record' \in {record, [record EXCEPT ![AddrOf(j)] = job[j].next]}
  BY DEF Store
<1>3. record' = [a \in Addr |-> record'[a]] /\ \A a \in Addr : a # AddrOf(j) => record'[a] = record[a]
  BY <1>2 DEF IInv, Typed
<1>4. CASE \E how : Settle(j, how)
  BY <1>3, <1>4, SettleStep
<1>5. CASE Goto(j, "remove", job[j])
  <2>1. IsLocals(job[j])
    BY DEF IInv, Typed
  <2>2. FreshLocals([job[j] EXCEPT !.pc = "remove"], record'[AddrOf(j)])
    BY <2>1 DEF FreshLocals, IsLocals
  <2>3. AuthenticLocals([job[j] EXCEPT !.pc = "remove"])
    BY <1>1, <2>1 DEF IInv, Authentic, AuthenticLocals, IsLocals
  <2> QED
    BY <1>1, <1>3, <1>5, <2>1, <2>2, <2>3, GotoStep
<1> QED
  BY <1>4, <1>5 DEF Store

LEMMA RemovePreKeyKeeps == ASSUME IInv, NEW j \in Job, RemovePreKey(j) PROVE IInv'
<1>1. record' = [a \in Addr |-> record'[a]] /\ \A a \in Addr : record'[a] = record[a]
  BY DEF RemovePreKey, IInv, Typed
<1>2. \E how : Settle(j, how)
  BY DEF RemovePreKey
<1> QED
  BY <1>1, <1>2, SettleStep

LEMMA StartKeeps == ASSUME IInv, NEW j \in Job, Start(j) PROVE IInv'
<1> DEFINE l == IF job[j].request.op = "init" THEN "build" ELSE "load"
           m == [job[j] EXCEPT !.pc = l]
<1>0. PICK a \in Addr : \E i \in 1..Len(line[a]) : line[a][i] = j /\ Serial!Begin(a, i)
  BY DEF Start
<1>1. PICK i \in 1..Len(line[a]) : line[a][i] = j /\ Serial!Begin(a, i)
  BY <1>0
<1>2. /\ phase[j] = "waiting" /\ phase' = [phase EXCEPT ![j] = "active"] /\ line' = line
      /\ \A k \in 1..(i - 1) : phase[line[a][k]] = "done"
      /\ record' = record /\ job' = [job EXCEPT ![j] = m]
  BY <1>1 DEF Serial!Begin, Start, storage, IInv, Typed
<1>3. IsLocals(m) /\ m.pc = l /\ m.request = job[j].request
  BY DEF IInv, Typed, IsLocals
<1>4. /\ job'[j] = m /\ phase'[j] = "active"
      /\ \A k \in Job : k # j => job'[k] = job[k] /\ phase'[k] = phase[k]
      /\ \A k \in Job : job'[k].request = job[k].request
      /\ \A k \in Job : phase'[k] = "outside" <=> phase[k] = "outside"
  BY <1>2, <1>3 DEF IInv, Typed, Serial!TypeOK
<1> HIDE DEF m
<1>5. Typed'
  <2>1. Serial!TypeOK'
    BY <1>2 DEF IInv, Typed, Serial!TypeOK, Serial!Phase
  <2>2. job' = [k \in Job |-> job'[k]] /\ \A k \in Job : IsLocals(job'[k])
    BY <1>2, <1>3, <1>4 DEF IInv, Typed
  <2> QED
    BY <1>2, <2>1, <2>2 DEF IInv, Typed
<1>6. Working'
  BY <1>3, <1>4 DEF IInv, Working
<1>7. Asked' /\ Placed'
  BY <1>2, <1>4 DEF IInv, Asked, Placed, AddrOf
<1>8. \A b \in Addr : \A k \in 1..Len(line[b]) : line[b][k] \in Job
  BY DEF IInv, Typed, Serial!TypeOK
<1>9. OnLine' /\ Once'
  BY <1>2, <1>4, <1>8 DEF IInv, OnLine, Once, AddrOf
<1>10. InTurn'
  <2> SUFFICES ASSUME NEW b \in Addr, NEW p \in 1..Len(line[b]), NEW k \in 1..Len(line[b]),
                      k < p, phase'[line[b][p]] = "active"
               PROVE  phase'[line[b][k]] = "done"
    BY <1>2 DEF InTurn
  <2>1. \A c \in Job : phase[c] = "done" => phase'[c] = "done"
    BY <1>2, <1>4
  <2>2. CASE line[b][p] # j
    BY <1>4, <1>8, <2>1, <2>2 DEF IInv, InTurn
  <2>3. CASE line[b][p] = j
    <3>1. a = b
      BY <1>1, <2>3 DEF IInv, OnLine
    <3>2. i = p
      BY <1>1, <2>3, <3>1 DEF IInv, Once
    <3> QED
      BY <1>2, <1>8, <2>1, <3>1, <3>2
  <2> QED
    BY <2>2, <2>3
<1>11. Fresh'
  BY <1>2, <1>3, <1>4 DEF IInv, Fresh, FreshLocals, AddrOf
<1>12. Authentic'
  BY <1>3, <1>4 DEF IInv, Authentic, AuthenticLocals
<1> QED
  BY <1>5, <1>6, <1>7, <1>9, <1>10, <1>11, <1>12 DEF IInv

LEMMA CallKeeps == ASSUME IInv, NEW j \in Job, Call(j) PROVE IInv'
<1>1. PICK r \in Requests : Serial!Submit(j, r.addr) /\ job' = [job EXCEPT ![j].request = r]
  BY DEF Call
<1> DEFINE a == r.addr
           m == [job[j] EXCEPT !.request = r]
<1>2. /\ phase[j] = "outside" /\ phase' = [phase EXCEPT ![j] = "waiting"]
      /\ line' = [line EXCEPT ![a] = Append(@, j)]
      /\ record' = record /\ job' = [job EXCEPT ![j] = m]
      /\ job[j].pc = "idle" /\ a \in Addr
  <2>1. a \in Addr
    BY DEF Requests
  <2>2. phase[j] = "outside" /\ phase' = [phase EXCEPT ![j] = "waiting"]
        /\ line' = [line EXCEPT ![a] = Append(@, j)]
    BY <1>1 DEF Serial!Submit
  <2>3. record' = record /\ job' = [job EXCEPT ![j] = m]
    BY <1>1 DEF Call, storage
  <2>4. job[j].pc = "idle"
    BY <2>2 DEF IInv, Working
  <2> QED
    BY <2>1, <2>2, <2>3, <2>4
<1>3. IsLocals(m) /\ m.pc = "idle" /\ m.request = r
  BY <1>2 DEF IInv, Typed, IsLocals
<1>4. /\ job'[j] = m /\ phase'[j] = "waiting"
      /\ \A k \in Job : k # j => job'[k] = job[k] /\ phase'[k] = phase[k]
  BY <1>2, <1>3 DEF IInv, Typed, Serial!TypeOK
<1> HIDE DEF m
<1>5. line[a] \in Seq(Job)
  BY <1>2 DEF IInv, Typed, Serial!TypeOK
<1>6. /\ Len(line'[a]) = Len(line[a]) + 1 /\ line'[a][Len(line[a]) + 1] = j
      /\ \A i \in 1..Len(line[a]) : line'[a][i] = line[a][i]
      /\ \A b \in Addr : b # a => line'[b] = line[b]
  BY <1>2, <1>5 DEF IInv, Typed, Serial!TypeOK
<1>7. Serial!TypeOK'
  BY <1>2 DEF IInv, Typed, Serial!TypeOK, Serial!Phase
<1>8. \A b \in Addr : Len(line[b]) \in Nat /\ \A i \in 1..Len(line[b]) : line[b][i] \in Job \ {j}
  BY <1>2 DEF IInv, Typed, OnLine, Serial!TypeOK
\* A place in the new line is one of the old line, or the last of it and j's.
<1>9. \A b \in Addr : \A i \in 1..Len(line'[b]) :
        \/ i \in 1..Len(line[b]) /\ line'[b][i] = line[b][i]
        \/ b = a /\ i = Len(line[a]) + 1 /\ line'[b][i] = j
  <2> SUFFICES ASSUME NEW b \in Addr, NEW i \in 1..Len(line'[b])
               PROVE  \/ i \in 1..Len(line[b]) /\ line'[b][i] = line[b][i]
                      \/ b = a /\ i = Len(line[a]) + 1 /\ line'[b][i] = j
    OBVIOUS
  <2>1. CASE b # a
    BY <1>6, <2>1
  <2>2. CASE b = a
    <3>1. Len(line[a]) \in Nat /\ Len(line'[a]) = Len(line[a]) + 1
      BY <1>5, <1>6
    <3>2. i = Len(line[a]) + 1 \/ i \in 1..Len(line[a])
      BY <2>2, <3>1
    <3> QED
      BY <1>6, <2>2, <3>2
  <2> QED
    BY <2>1, <2>2
<1>10. Typed'
  <2>1. job' = [k \in Job |-> job'[k]] /\ \A k \in Job : IsLocals(job'[k])
    BY <1>2, <1>3, <1>4 DEF IInv, Typed
  <2> QED
    BY <1>2, <1>7, <2>1 DEF IInv, Typed
<1>11. Working' /\ Asked'
  BY <1>2, <1>3, <1>4 DEF IInv, Working, Asked
<1>12. OnLine'
  BY <1>3, <1>4, <1>8, <1>9 DEF IInv, OnLine, AddrOf
<1>13. Once'
  BY <1>8, <1>9 DEF IInv, Once
<1>14. Placed'
  <2> SUFFICES ASSUME NEW c \in Job, phase'[c] # "outside"
               PROVE  \E i \in 1..Len(line'[job'[c].request.addr]) : line'[job'[c].request.addr][i] = c
    BY DEF Placed, AddrOf
  <2>1. CASE c = j
    BY <1>3, <1>4, <1>5, <1>6, <2>1
  <2>2. CASE c # j
    <3>1. PICK i \in 1..Len(line[AddrOf(c)]) : line[AddrOf(c)][i] = c
      BY <1>4, <2>2 DEF IInv, Placed
    <3>2. AddrOf(c) \in Addr /\ job'[c].request.addr = AddrOf(c)
      BY <1>4, <2>2 DEF IInv, Asked, AddrOf, Requests
    <3> QED
      BY <1>5, <1>6, <3>1, <3>2
  <2> QED
    BY <2>1, <2>2
<1>15. InTurn'
  <2> SUFFICES ASSUME NEW b \in Addr, NEW i \in 1..Len(line'[b]), NEW k \in 1..Len(line'[b]),
                      k < i, phase'[line'[b][i]] = "active"
               PROVE  phase'[line'[b][k]] = "done"
    BY DEF InTurn
  <2>1. i \in 1..Len(line[b]) /\ line'[b][i] = line[b][i]
    BY <1>4, <1>9
  <2>2. k \in 1..Len(line[b]) /\ line'[b][k] = line[b][k]
    BY <1>8, <1>9, <2>1
  <2> QED
    BY <1>4, <1>8, <2>1, <2>2 DEF IInv, InTurn
<1>16. Fresh'
  BY <1>2, <1>3, <1>4 DEF IInv, Fresh, FreshLocals, AddrOf
<1>17. Authentic'
  BY <1>3, <1>4 DEF IInv, Authentic, AuthenticLocals
<1> QED
  BY <1>10, <1>11, <1>12, <1>13, <1>14, <1>15, <1>16, <1>17 DEF IInv

\* Whoever was at work is gone.
LEMMA CrashKeeps == ASSUME IInv, Crash PROVE IInv'
<1> DEFINE gone == {j \in Job : phase[j] \in {"waiting", "active"}}
           m(j) == [Idle EXCEPT !.request = job[j].request, !.outcome = "lost"]
<1>1. /\ phase' = [j \in Job |-> IF j \in gone THEN "done" ELSE phase[j]]
      /\ job' = [j \in Job |-> IF j \in gone THEN m(j) ELSE job[j]]
      /\ line' = line /\ record' = record
  BY DEF Crash, storage
<1>2. ASSUME NEW j \in Job PROVE IsLocals(m(j)) /\ m(j).pc = "idle" /\ m(j).request = job[j].request
  <2> DEFINE m1 == [Idle EXCEPT !.request = job[j].request]
  <2>1. m(j) = [m1 EXCEPT !.outcome = "lost"]
    OBVIOUS
  <2>2. IsLocals(Idle) /\ Idle.pc = "idle"
    BY DEF IsLocals, Idle
  <2>3. IsLocals(m1) /\ m1.pc = "idle" /\ m1.request = job[j].request
    BY <2>2 DEF IsLocals
  <2> HIDE DEF m, m1
  <2> QED
    BY <2>1, <2>3 DEF IsLocals
<1> HIDE DEF m
<1>3. \A j \in Job :
        /\ phase'[j] = IF j \in gone THEN "done" ELSE phase[j]
        /\ IsLocals(job'[j]) /\ job'[j].request = job[j].request
        /\ j \notin gone => job'[j] = job[j]
        /\ j \in gone => job'[j].pc = "idle"
  BY <1>1, <1>2 DEF IInv, Typed
<1>4. Typed'
  <2>1. Serial!TypeOK'
    BY <1>1 DEF IInv, Typed, Serial!TypeOK, Serial!Phase
  <2> QED
    BY <1>1, <1>3, <2>1 DEF IInv, Typed
<1>5. Working'
  BY <1>3 DEF IInv, Working
<1>6. Asked' /\ Placed'
  BY <1>1, <1>3 DEF IInv, Asked, Placed, AddrOf
<1>7. \A a \in Addr : \A i \in 1..Len(line[a]) : line[a][i] \in Job
  BY DEF IInv, Typed, Serial!TypeOK
<1>8. OnLine' /\ Once'
  BY <1>1, <1>3, <1>7 DEF IInv, OnLine, Once, AddrOf
<1>9. InTurn'
  BY <1>1, <1>3, <1>7 DEF InTurn
<1>10. Fresh'
  BY <1>1, <1>3 DEF IInv, Fresh, FreshLocals, AddrOf
<1>11. Authentic'
  BY <1>3 DEF IInv, Authentic, AuthenticLocals
<1> QED
  BY <1>4, <1>5, <1>6, <1>8, <1>9, <1>10, <1>11 DEF IInv

LEMMA NextIInv == IInv /\ [Next]_vars => IInv'
<1> SUFFICES ASSUME IInv, [Next]_vars PROVE IInv'
  OBVIOUS
<1>1. ASSUME NEW j \in Job, Step(j) PROVE IInv'
  BY <1>1, CallKeeps, StartKeeps, LoadKeeps, LoadPreKeyKeeps, LoadSignedPreKeyKeeps, JoinKeeps,
     EncryptKeeps, DecryptKeeps,
     BuildKeeps, StoreKeeps, RemovePreKeyKeeps DEF Step
<1>2. CASE Crash
  BY <1>2, CrashKeeps
<1>3. CASE UNCHANGED vars
  BY <1>3 DEF vars, storage, IInv, Typed, Working, Asked, OnLine, Once, Placed, InTurn, Fresh, Authentic,
              AddrOf, Serial!TypeOK
<1> QED
  BY <1>1, <1>2, <1>3 DEF Next

LEMMA CipherInvariant == Spec => []IInv
<1> QED
  BY InitIInv, NextIInv, PTL DEF Spec
-----------------------------------------------------------------------------
(* The theorems *)

LEMMA WriterWasFresh ==
  ASSUME IInv, [Next]_vars, NEW a \in Addr, record'[a] # record[a]
  PROVE  \E j \in Job : /\ job'[j] # job[j]
                        /\ AddrOf(j) = a
                        /\ job[j].request.op = "init" \/ job[j].loaded = record[a]
<1>1. record' # record
  OBVIOUS
<1>2. ~Crash /\ ~UNCHANGED vars
  BY <1>1 DEF Crash, vars, storage
<1>3. PICK j \in Job : Step(j)
  BY <1>2 DEF Next
<1>4. Store(j)
  BY <1>1, <1>3 DEF Step, Call, Start, Load, LoadPreKey, LoadSignedPreKey, Join, Encrypt, Decrypt, Build,
                    RemovePreKey, storage
<1>5. job[j].pc = "store" /\ AddrOf(j) = a
  BY <1>4 DEF Store, At, IInv, Typed
<1>6. job[j].request.op = "init" \/ job[j].loaded = record[a]
  BY <1>5 DEF IInv, Fresh, FreshLocals
<1>7. job'[j] # job[j]
  <2>1. job'[j].pc \in {"idle", "remove"}
    <3>1. CASE \E how : Settle(j, how)
      BY <3>1 DEF Settle, Idle, IInv, Typed
    <3>2. CASE Goto(j, "remove", job[j])
      BY <3>2 DEF Goto, IInv, Typed, IsLocals
    <3> QED
      BY <1>4, <3>1, <3>2 DEF Store
  <2> QED
    BY <1>5, <2>1
<1> QED
  BY <1>5, <1>6, <1>7

\* Lost updates cannot happen: whatever runs concurrently, throws or dies, a
\* job replaces the record it read (session-record.js:21-23).
THEOREM NoUpdateLost == Spec => NoLostUpdate
<1>1. IInv /\ [Next]_vars =>
        \A a \in Addr : record'[a] # record[a] =>
          \E j \in Job : /\ job'[j] # job[j]
                         /\ AddrOf(j) = a
                         /\ job[j].request.op = "init" \/ job[j].loaded = record[a]
  BY WriterWasFresh
<1> QED
  BY <1>1, CipherInvariant, PTL DEF Spec, NoLostUpdate

\* Only a job with an authentic frame, or with none, changes what is stored
\* (session-cipher.js:99-104).
THEOREM OnlyAuthentic == Spec => OnlyAuthenticPersists
<1>1. IInv /\ [Next]_vars =>
        (storage' # storage => \E j \in Job : job'[j] # job[j] /\ (FrameOf(j) = None \/ FrameOf(j).authentic))
  <2> SUFFICES ASSUME IInv, [Next]_vars, storage' # storage
               PROVE  \E j \in Job : job'[j] # job[j] /\ (FrameOf(j) = None \/ FrameOf(j).authentic)
    OBVIOUS
  <2>1. ~Crash /\ ~UNCHANGED vars
    BY DEF Crash, vars
  <2>2. PICK j \in Job : Step(j)
    BY <2>1 DEF Next
  <2>3. Store(j) \/ RemovePreKey(j)
    BY <2>2 DEF Step, Call, Start, Load, LoadPreKey, LoadSignedPreKey, Join, Encrypt, Decrypt, Build
  <2>4. job[j].pc \in {"store", "remove"}
    BY <2>3 DEF Store, RemovePreKey, At
  <2>5. FrameOf(j) = None \/ FrameOf(j).authentic
    BY <2>4 DEF IInv, Authentic, AuthenticLocals, FrameOf
  <2>6. job'[j].pc # job[j].pc
    <3>1. CASE \E how : Settle(j, how)
      <4>1. PICK o : o.pc = "idle" /\ job' = [job EXCEPT ![j] = o]
        BY <3>1 DEF Settle, Idle
      <4>2. job'[j] = o
        BY <4>1 DEF IInv, Typed
      <4> QED
        BY <2>4, <4>1, <4>2
    <3>2. CASE At(j, "store") /\ Goto(j, "remove", job[j])
      BY <3>2 DEF At, Goto, IInv, Typed, IsLocals
    <3> QED
      BY <2>3, <3>1, <3>2 DEF Store, RemovePreKey
  <2> QED
    BY <2>5, <2>6
<1> QED
  BY <1>1, CipherInvariant, PTL DEF Spec, OnlyAuthenticPersists
-----------------------------------------------------------------------------
(* The records: what the calls of the native module, archiveAndMerge and    *)
(* evictOldestArchived make of one, for any size of the archive             *)

\* An entry built by the c-th build or before.
IsEntry(e, c) ==
  /\ e = [inc |-> e.inc, base |-> e.base, closed |-> e.closed, sent |-> e.sent, got |-> e.got]
  /\ e.inc \in 1..c
  /\ e.closed \in {-1, e.inc}
  /\ e.sent \in Nat
  /\ e.got \subseteq Nat

\* The newest entry of a record is open, and no other.
InOrder(r) ==
  \E o \in DOMAIN r : /\ IsOpen(r[o])
                      /\ \A b \in DOMAIN r \ {o} : ~IsOpen(r[b]) /\ r[b].inc < r[o].inc

IsRecord(r, c) ==
  /\ r = [b \in DOMAIN r |-> r[b]]
  /\ IsFiniteSet(DOMAIN r) /\ Cardinality(DOMAIN r) <= MaxArchived + 1
  /\ \A b \in DOMAIN r : IsEntry(r[b], c) /\ r[b].base = b
  /\ \A b, d \in DOMAIN r : r[b].inc = r[d].inc => b = d
  /\ InOrder(r)

\* The entry e is what has become of d.
Grown(e, d) == e.inc = d.inc /\ e.sent >= d.sent /\ d.got \subseteq e.got
-----------------------------------------------------------------------------
(* Entries and records *)

LEMMA NoEntries == DOMAIN NoRecord = {}
BY DEF NoRecord

LEMMA NewEntry ==
  ASSUME NEW base, NEW s \in Nat \ {0}, NEW e, e = Entry(base, s)
  PROVE  IsEntry(e, s) /\ IsOpen(e) /\ e.base = base /\ e.inc = s /\ e.sent = 0 /\ e.got = {}
BY DEF Entry, IsEntry, IsOpen

LEMMA RecordLater ==
  ASSUME NEW c \in Nat, NEW d \in Nat, c <= d, NEW r, IsRecord(r, c)
  PROVE  IsRecord(r, d)
BY DEF IsRecord, IsEntry

\* The current entry is the open one.
LEMMA CurrentIsOpen ==
  ASSUME NEW c \in Nat, NEW r, IsRecord(r, c)
  PROVE  /\ CurrentKey(r) \in DOMAIN r
         /\ OpenKeys(r) = {CurrentKey(r)}
         /\ \A b \in DOMAIN r : r[b].inc <= r[CurrentKey(r)].inc
<1>1. PICK o \in DOMAIN r : /\ IsOpen(r[o])
                            /\ \A b \in DOMAIN r \ {o} : ~IsOpen(r[b]) /\ r[b].inc < r[o].inc
  BY DEF IsRecord, InOrder
<1>2. OpenKeys(r) = {o}
  BY <1>1 DEF OpenKeys
<1>3. \A b \in DOMAIN r : r[b].inc \in Int
  BY DEF IsRecord, IsEntry
<1>4. CurrentKey(r) = o
  <2>1. \A d \in {o} : r[d].inc <= r[o].inc
    BY <1>3
  <2>2. (CHOOSE b \in {o} : \A d \in {o} : r[d].inc <= r[b].inc) = o
    BY <2>1
  <2> QED
    BY <1>2, <2>2 DEF CurrentKey
<1> QED
  BY <1>1, <1>2, <1>3, <1>4

\* A record of one entry, as initOutgoing and initIncoming make it.
LEMMA SoleEntry ==
  ASSUME NEW base, NEW s \in Nat \ {0}, NEW r, r = Merged(NoRecord, Entry(base, s))
  PROVE  IsRecord(r, s) /\ DOMAIN r = {base} /\ r[base] = Entry(base, s)
<1>1. Entry(base, s).base = base
  BY NewEntry
<1>2. DOMAIN r = {base} /\ r[base] = Entry(base, s) /\ r = [b \in DOMAIN r |-> r[b]]
  BY <1>1, NoEntries DEF Merged
<1>3. IsFiniteSet(DOMAIN r) /\ Cardinality(DOMAIN r) = 1
  <2>1. IsFiniteSet({base}) /\ Cardinality({base}) = 1
    BY FS_Singleton
  <2> QED
    BY <1>2, <2>1
<1>4. InOrder(r)
  BY <1>2, NewEntry DEF InOrder
<1>5. IsRecord(r, s)
  BY <1>2, <1>3, <1>4, NewEntry, CipherAssumption DEF IsRecord
<1> QED
  BY <1>2, <1>5

\* An entry is replaced by what has become of it.
LEMMA EntryGrows ==
  ASSUME NEW c \in Nat, NEW r, IsRecord(r, c), NEW o \in DOMAIN r, NEW e, IsEntry(e, c),
         e.base = o, e.closed = r[o].closed, Grown(e, r[o]),
         NEW s, s = [b \in DOMAIN r |-> IF b = o THEN e ELSE r[b]]
  PROVE  /\ IsRecord(s, c) /\ DOMAIN s = DOMAIN r /\ s[o] = e
         /\ \A b \in DOMAIN r : Grown(s[b], r[b]) /\ s[b].inc = r[b].inc
<1>1. DOMAIN s = DOMAIN r /\ s = [b \in DOMAIN s |-> s[b]]
  OBVIOUS
<1>2. \A b \in DOMAIN r : s[b] = IF b = o THEN e ELSE r[b]
  OBVIOUS
<1>3. \A b \in DOMAIN r : IsEntry(s[b], c) /\ s[b].base = b
  BY <1>2 DEF IsRecord
<1>4. \A b \in DOMAIN r : Grown(s[b], r[b]) /\ s[b].inc = r[b].inc
  <2>1. \A b \in DOMAIN r : r[b].sent \in Nat
    BY DEF IsRecord, IsEntry
  <2> QED
    BY <1>2, <2>1 DEF Grown
<1>5. \A b \in DOMAIN r : s[b].closed = r[b].closed
  BY <1>2
<1>6. InOrder(s)
  BY <1>1, <1>4, <1>5 DEF IsRecord, InOrder, IsOpen
<1> QED
  BY <1>1, <1>2, <1>3, <1>4, <1>6 DEF IsRecord

\* Encrypting takes the counter of the current entry.
LEMMA SteppedGrows ==
  ASSUME NEW c \in Nat, NEW r, IsRecord(r, c),
         NEW o, o = CurrentKey(r), NEW s, s = Stepped(r)
  PROVE  /\ IsRecord(s, c) /\ DOMAIN s = DOMAIN r
         /\ \A b \in DOMAIN r : Grown(s[b], r[b])
         /\ o \in DOMAIN r /\ s[o].inc = r[o].inc /\ s[o].sent = r[o].sent + 1
<1> DEFINE e == [r[o] EXCEPT !.sent = @ + 1]
<1>1. o \in DOMAIN r
  BY CurrentIsOpen
<1>2. s = [b \in DOMAIN r |-> IF b = o THEN e ELSE r[b]]
  BY DEF Stepped, IsRecord
<1>3. /\ IsEntry(e, c) /\ e.base = o /\ e.closed = r[o].closed /\ Grown(e, r[o])
      /\ e.inc = r[o].inc /\ e.sent = r[o].sent + 1
  <2>1. IsEntry(r[o], c) /\ r[o].base = o
    BY <1>1 DEF IsRecord
  <2> QED
    BY <2>1 DEF IsEntry, Grown
<1> HIDE DEF e
<1>4. /\ IsRecord(s, c) /\ DOMAIN s = DOMAIN r /\ s[o] = e
      /\ \A b \in DOMAIN r : Grown(s[b], r[b]) /\ s[b].inc = r[b].inc
  BY <1>1, <1>2, <1>3, EntryGrows
<1> QED
  BY <1>1, <1>3, <1>4

\* Decrypting puts the counter of the frame down in the current entry.
LEMMA OpenedGrows ==
  ASSUME NEW c \in Nat, NEW r, IsRecord(r, c), NEW f, f.n \in Nat,
         NEW o, o = CurrentKey(r), NEW s, s = Opened(r, f)
  PROVE  /\ IsRecord(s, c) /\ DOMAIN s = DOMAIN r
         /\ \A b \in DOMAIN r : Grown(s[b], r[b])
         /\ o \in DOMAIN r /\ s[o].inc = r[o].inc /\ f.n \in s[o].got
<1> DEFINE e == [r[o] EXCEPT !.got = @ \cup {f.n}]
<1>1. o \in DOMAIN r
  BY CurrentIsOpen
<1>2. s = [b \in DOMAIN r |-> IF b = o THEN e ELSE r[b]]
  BY DEF Opened, IsRecord
<1>3. /\ IsEntry(e, c) /\ e.base = o /\ e.closed = r[o].closed /\ Grown(e, r[o])
      /\ e.inc = r[o].inc /\ f.n \in e.got
  <2>1. IsEntry(r[o], c) /\ r[o].base = o
    BY <1>1 DEF IsRecord
  <2> QED
    BY <2>1 DEF IsEntry, Grown
<1> HIDE DEF e
<1>4. /\ IsRecord(s, c) /\ DOMAIN s = DOMAIN r /\ s[o] = e
      /\ \A b \in DOMAIN r : Grown(s[b], r[b]) /\ s[b].inc = r[b].inc
  BY <1>1, <1>2, <1>3, EntryGrows
<1> QED
  BY <1>1, <1>3, <1>4
-----------------------------------------------------------------------------
(* The archive *)

\* Of a finite number of archived entries there is an oldest.
LEMMA OldestArchived ==
  ASSUME NEW r, NEW A, IsFiniteSet(A), NEW N, N \subseteq A, N # {},
         \A b \in A : r[b].closed \in Int
  PROVE  \E m \in N : \A b \in N : r[m].closed <= r[b].closed
<1> DEFINE UpTo(b) == {d \in A : r[d].closed <= r[b].closed}
           W == {UpTo(b) : b \in N}
<1>1. IsWellFoundedOn(StrictSubsetOrdering(A), FiniteSubsetsOf(A))
  BY FS_StrictSubsetOrderingWellFounded
<1>2. W \subseteq FiniteSubsetsOf(A)
  BY FS_Subset DEF FiniteSubsetsOf
<1>3. W # {}
  OBVIOUS
<1> HIDE DEF W
<1>4. PICK w \in W : \A v \in W : <<v, w>> \notin StrictSubsetOrdering(A)
  BY <1>1, <1>2, <1>3, WFMin
<1> USE DEF W
<1>5. PICK m \in N : w = UpTo(m)
  OBVIOUS
<1>6. ASSUME NEW b \in N, r[b].closed < r[m].closed PROVE FALSE
  <2>1. m \in UpTo(m) /\ m \notin UpTo(b) /\ UpTo(b) \subseteq UpTo(m) /\ UpTo(m) \subseteq A
    BY <1>6
  <2>2. UpTo(b) \in W
    OBVIOUS
  <2> HIDE DEF UpTo, W
  <2>3. <<UpTo(b), UpTo(m)>> \in StrictSubsetOrdering(A)
    BY <2>1 DEF StrictSubsetOrdering
  <2> QED
    BY <1>4, <1>5, <2>2, <2>3
<1> QED
  BY <1>6

\* Eviction keeps no more archived entries than it may.
LEMMA NewestArchivedBounded ==
  ASSUME NEW r, NEW A, A = DOMAIN r \ OpenKeys(r), IsFiniteSet(A),
         \A b \in A : r[b].closed \in Int,
         \A b, d \in A : r[b].closed = r[d].closed => b = d
  PROVE  /\ NewestArchived(r) \subseteq A
         /\ IsFiniteSet(NewestArchived(r)) /\ Cardinality(NewestArchived(r)) <= MaxArchived
<1> DEFINE N == NewestArchived(r)
           Above(b) == {d \in A : r[d].closed > r[b].closed}
<1>1. N = {b \in A : Cardinality(Above(b)) < MaxArchived}
  BY DEF NewestArchived
<1>2. N \subseteq A /\ IsFiniteSet(N)
  BY <1>1, FS_Subset
<1>3. \A b : IsFiniteSet(Above(b))
  BY FS_Subset
<1>4. CASE N = {}
  BY <1>2, <1>4, FS_EmptySet, CipherAssumption
<1>5. CASE N # {}
  <2>1. PICK m \in N : \A b \in N : r[m].closed <= r[b].closed
    BY <1>2, <1>5, OldestArchived
  <2>2. N \ {m} \subseteq Above(m)
    BY <1>2, <2>1
  <2>3. Cardinality(N \ {m}) <= Cardinality(Above(m))
    BY <1>3, <2>2, FS_Subset
  <2>4. Cardinality(N \ {m}) = Cardinality(N) - 1
    BY <1>2, <2>1, FS_RemoveElement
  <2>5. Cardinality(Above(m)) < MaxArchived
    BY <1>1, <2>1
  <2>6. Cardinality(N) \in Nat /\ Cardinality(Above(m)) \in Nat
    BY <1>2, <1>3, FS_CardinalityType
  <2> HIDE DEF N, Above
  <2>7. Cardinality(N) <= MaxArchived
    BY <2>3, <2>4, <2>5, <2>6, CipherAssumption
  <2> QED
    BY <1>2, <2>7 DEF N
<1> QED
  BY <1>4, <1>5

\* What archiveAndMerge leaves: the new entry is the open one, the entries that
\* stay are what they were, closed.
LEMMA MergedIsRecord ==
  ASSUME NEW c \in Nat, NEW r, IsRecord(r, c), NEW base, base \notin DOMAIN r,
         NEW e, e = Entry(base, c + 1), NEW s, s = ArchiveAndMerge(r, e)
  PROVE  /\ IsRecord(s, c + 1) /\ CurrentKey(s) = base
         /\ base \in DOMAIN s /\ s[base] = e
         /\ DOMAIN s \subseteq DOMAIN r \cup {base}
         /\ \A b \in DOMAIN s \ {base} : Grown(s[b], r[b])
<1> DEFINE m == Merged(Archived(r), e)
<1>1. IsEntry(e, c + 1) /\ IsOpen(e) /\ e.base = base /\ e.inc = c + 1
  BY NewEntry
<1>2. DOMAIN m = DOMAIN r \cup {base} /\ m[base] = e
  BY <1>1 DEF Merged, Archived
<1>3. \A b \in DOMAIN r : /\ IsEntry(m[b], c) /\ m[b].base = b /\ m[b].closed = r[b].inc
                          /\ Grown(m[b], r[b])
  <2> SUFFICES ASSUME NEW b \in DOMAIN r
               PROVE  /\ IsEntry(m[b], c) /\ m[b].base = b /\ m[b].closed = r[b].inc
                      /\ Grown(m[b], r[b])
    OBVIOUS
  <2>1. IsEntry(r[b], c) /\ r[b].base = b
    BY DEF IsRecord
  <2>2. m[b] = IF IsOpen(r[b]) THEN [r[b] EXCEPT !.closed = r[b].inc] ELSE r[b]
    BY <1>1 DEF Merged, Archived
  <2> HIDE DEF m
  <2>3. CASE IsOpen(r[b])
    BY <2>1, <2>2, <2>3 DEF IsEntry, Grown
  <2>4. CASE ~IsOpen(r[b])
    BY <2>1, <2>2, <2>4 DEF IsEntry, Grown, IsOpen
  <2> QED
    BY <2>3, <2>4
<1> HIDE DEF m
<1>4. \A b \in DOMAIN r : ~IsOpen(m[b]) /\ m[b].inc = r[b].inc /\ r[b].inc \in 1..c
  <2> SUFFICES ASSUME NEW b \in DOMAIN r
               PROVE  ~IsOpen(m[b]) /\ m[b].inc = r[b].inc /\ r[b].inc \in 1..c
    OBVIOUS
  <2>1. m[b].inc = r[b].inc /\ m[b].inc \in 1..c /\ m[b].closed = r[b].inc
    BY <1>3 DEF IsEntry, Grown
  <2> QED
    BY <2>1 DEF IsOpen
<1>5. OpenKeys(m) = {base} /\ DOMAIN m \ OpenKeys(m) = DOMAIN r
  BY <1>1, <1>2, <1>4 DEF OpenKeys
<1>6. IsFiniteSet(DOMAIN r) /\ \A b, d \in DOMAIN r : r[b].inc = r[d].inc => b = d
  BY DEF IsRecord
<1> DEFINE N == NewestArchived(m)
<1>7. N \subseteq DOMAIN r /\ IsFiniteSet(N) /\ Cardinality(N) <= MaxArchived
  <2>1. \A b \in DOMAIN r : m[b].closed \in Int
    BY <1>3, <1>4
  <2>2. \A b, d \in DOMAIN r : m[b].closed = m[d].closed => b = d
    BY <1>3, <1>6
  <2> QED
    BY <1>5, <1>6, <2>1, <2>2, NewestArchivedBounded
<1> HIDE DEF N
<1>8. DOMAIN s = {base} \cup N /\ s = [b \in DOMAIN s |-> s[b]] /\ \A b \in {base} \cup N : s[b] = m[b]
  BY <1>5 DEF ArchiveAndMerge, EvictOldestArchived, Restrict, m, N
<1>9. IsFiniteSet(DOMAIN s) /\ Cardinality(DOMAIN s) <= MaxArchived + 1
  <2>1. base \notin N
    BY <1>7
  <2>2. IsFiniteSet(N \cup {base}) /\ Cardinality(N \cup {base}) = Cardinality(N) + 1
    BY <1>7, <2>1, FS_AddElement
  <2>3. Cardinality(N) \in Nat /\ DOMAIN s = N \cup {base}
    BY <1>7, <1>8, FS_CardinalityType
  <2> QED
    BY <1>7, <2>2, <2>3, CipherAssumption
<1>10. \A b \in DOMAIN s : IsEntry(s[b], c + 1) /\ s[b].base = b
  BY <1>1, <1>2, <1>3, <1>7, <1>8 DEF IsEntry
<1>11. \A b, d \in DOMAIN s : s[b].inc = s[d].inc => b = d
  BY <1>1, <1>2, <1>4, <1>6, <1>7, <1>8
<1>12. InOrder(s)
  BY <1>1, <1>2, <1>4, <1>7, <1>8 DEF InOrder
<1>13. IsRecord(s, c + 1)
  BY <1>8, <1>9, <1>10, <1>11, <1>12 DEF IsRecord
<1>14. CurrentKey(s) = base
  <2>1. base \in OpenKeys(s)
    BY <1>1, <1>2, <1>8 DEF OpenKeys
  <2> QED
    BY <1>13, <2>1, CurrentIsOpen
<1> QED
  BY <1>2, <1>3, <1>7, <1>8, <1>13, <1>14
-----------------------------------------------------------------------------
(* The locals of a job *)

\* What the reply and the successor of the record say of what was done.
Sent(l) ==
  /\ DOMAIN l.next = DOMAIN l.loaded
  /\ \E b \in DOMAIN l.loaded :
       /\ l.reply = [inc |-> l.loaded[b].inc, n |-> l.loaded[b].sent]
       /\ l.next[b].inc = l.loaded[b].inc /\ l.next[b].sent > l.loaded[b].sent

ReadWhisper(l) ==
  /\ DOMAIN l.next = DOMAIN l.loaded
  /\ l.reply = l.request.frame /\ l.reply.authentic
  /\ \E b \in DOMAIN l.loaded :
       /\ l.loaded[b].inc = l.reply.inc /\ l.reply.n \notin l.loaded[b].got
       /\ l.next[b].inc = l.reply.inc /\ l.reply.n \in l.next[b].got

ReadPkmsg(l) ==
  /\ DOMAIN l.next \subseteq DOMAIN l.loaded \cup {l.reply.base}
  /\ l.reply = l.request.frame /\ l.reply.authentic
  /\ l.reply.base \in DOMAIN l.next /\ l.reply.n \in l.next[l.reply.base].got
  /\ ~l.built => l.reply.base \in DOMAIN l.loaded /\ l.reply.n \notin l.loaded[l.reply.base].got

Did(l) ==
  /\ l.request.op = "encrypt" => Sent(l)
  /\ l.request.op = "whisper" => ReadWhisper(l)
  /\ l.request.op = "pkmsg" => ReadPkmsg(l)
  /\ l.request.op = "init" => \E s \in Nat : DOMAIN l.next = {s}

LocalsOK(l, c) ==
  /\ l.pc \in {"idle", "load", "prekey", "signed", "join", "open", "build", "store", "remove"}
  /\ l.pc # "idle" => l.outcome = "pending"
  /\ l.pc \in {"load", "prekey", "signed", "join", "open"} => l.request.op # "init"
  /\ l.pc \in {"prekey", "signed", "join"} => l.request.op = "pkmsg" /\ l.request.frame.base \notin DOMAIN l.loaded
  /\ l.pc = "open" => l.loaded # NoRecord
  /\ l.pc \notin {"store", "remove"} => l.built = FALSE
  /\ l.pc = "remove" => l.built /\ l.request.frame.preKey # None
  /\ l.built => l.request.op = "pkmsg"
  /\ l.pc \in {"store", "remove"} => IsRecord(l.next, c) /\ Did(l)

RecordOK(r, c) == r = NoRecord \/ IsRecord(r, c)

Bounded == clock \in Nat /\ crashes \in 0..MaxCrashes /\ prekeys \subseteq PreKey
StoredOK == \A a \in Addr : RecordOK(record[a], clock)
LocalsAreOK == \A j \in Job : LocalsOK(job[j], clock)
Unbegun == \A j \in Job : phase[j] \notin {"active", "done"} =>
             job[j] = [Idle EXCEPT !.request = job[j].request]

RInv == Bounded /\ StoredOK /\ LocalsAreOK /\ Unbegun

LEMMA InitRInv == Init => RInv
<1> SUFFICES ASSUME Init PROVE RInv
  OBVIOUS
<1>1. \A j \in Job : job[j] = Idle
  BY DEF Init
<1>2. Idle = [Idle EXCEPT !.request = Idle.request]
  BY DEF Idle
<1>3. \A c : LocalsOK(Idle, c)
  BY DEF LocalsOK, Idle
<1>4. Bounded /\ StoredOK
  BY CipherAssumption DEF Init, Bounded, StoredOK, RecordOK
<1> QED
  BY <1>1, <1>2, <1>3, <1>4 DEF RInv, LocalsAreOK, Unbegun

LEMMA RequestKinds ==
  ASSUME NEW q \in Requests
  PROVE  /\ q.addr \in Addr
         /\ q.op \in {"encrypt", "init", "whisper", "pkmsg"}
         /\ q.op \in {"encrypt", "init"} => q.frame = None
         /\ q.op \in {"whisper", "pkmsg"} => q.frame \in Frames /\ q.frame.kind = q.op /\ q.frame.n \in Nat
BY CipherAssumption DEF Requests

\* What was true of a job's locals stays true as other jobs build.
LEMMA LocalsLater ==
  ASSUME NEW c \in Nat, NEW d \in Nat, c <= d, NEW l, LocalsOK(l, c)
  PROVE  LocalsOK(l, d)
<1>1. IsRecord(l.next, c) => IsRecord(l.next, d)
  BY RecordLater
<1> QED
  BY <1>1 DEF LocalsOK

\* A step of one job.
LEMMA JobKeepsRecords ==
  ASSUME IInv, RInv, NEW j \in Job, NEW l, job' = [job EXCEPT ![j] = l],
         \A i \in Job : i # j => phase'[i] = phase[i],
         phase'[j] \notin {"active", "done"} => l = [Idle EXCEPT !.request = l.request],
         clock' \in {clock, clock + 1}, crashes' = crashes, prekeys' \subseteq prekeys,
         LocalsOK(l, clock'),
         \A a \in Addr : record'[a] = record[a] \/ IsRecord(record'[a], clock')
  PROVE  RInv'
<1>1. clock \in Nat /\ clock' \in Nat /\ clock <= clock'
  BY DEF RInv, Bounded
<1>2. Bounded'
  BY <1>1 DEF RInv, Bounded
<1>3. StoredOK'
  BY <1>1, RecordLater DEF RInv, StoredOK, RecordOK
<1>4. \A i \in Job : job'[i] = IF i = j THEN l ELSE job[i]
  BY DEF IInv, Typed
<1>5. LocalsAreOK'
  BY <1>1, <1>4, LocalsLater DEF RInv, LocalsAreOK
<1>6. Unbegun'
  BY <1>4 DEF RInv, Unbegun
<1> QED
  BY <1>2, <1>3, <1>5, <1>6 DEF RInv

\* The locals after Goto,
LEMMA GotoLocals ==
  ASSUME IInv, NEW j \in Job, NEW p, NEW l, IsLocals(l), Goto(j, p, l)
  PROVE  /\ IsLocals(job'[j])
         /\ job'[j].pc = p /\ job'[j].request = l.request /\ job'[j].loaded = l.loaded
         /\ job'[j].next = l.next /\ job'[j].signed = l.signed /\ job'[j].built = l.built /\ job'[j].reply = l.reply
         /\ job'[j].outcome = l.outcome
         /\ job' = [job EXCEPT ![j] = job'[j]]
         /\ \A i \in Job : i # j => job'[i] = job[i]
         /\ phase' = phase /\ line' = line
<1> DEFINE m == [l EXCEPT !.pc = p]
<1>1. m = [pc |-> p, request |-> l.request, loaded |-> l.loaded, next |-> l.next,
           signed |-> l.signed, built |-> l.built, reply |-> l.reply, outcome |-> l.outcome]
  BY DEF IsLocals
<1>2. job' = [job EXCEPT ![j] = m] /\ phase' = phase /\ line' = line
  BY DEF Goto
<1> HIDE DEF m
<1>3. \A i \in Job : job'[i] = IF i = j THEN m ELSE job[i]
  BY <1>2 DEF IInv, Typed
<1>4. /\ IsLocals(m)
      /\ m.pc = p /\ m.request = l.request /\ m.loaded = l.loaded /\ m.next = l.next
      /\ m.signed = l.signed /\ m.built = l.built /\ m.reply = l.reply /\ m.outcome = l.outcome
  BY <1>1 DEF IsLocals
<1>5. job'[j] = m
  BY <1>3
<1>6. job' = [job EXCEPT ![j] = job'[j]] /\ \A i \in Job : i # j => job'[i] = job[i]
  BY <1>2, <1>3, <1>5
<1> QED
  BY <1>2, <1>4, <1>5, <1>6

\* and after Settle.
LEMMA SettleLocals ==
  ASSUME IInv, NEW j \in Job, NEW how, Settle(j, how)
  PROVE  /\ job'[j] = [pc |-> "idle", request |-> job[j].request, loaded |-> NoRecord, next |-> NoRecord,
                       signed |-> None, built |-> FALSE, reply |-> IF how = "ok" THEN job[j].reply ELSE None,
                       outcome |-> how]
         /\ job' = [job EXCEPT ![j] = job'[j]]
         /\ \A i \in Job : i # j => job'[i] = job[i] /\ phase'[i] = phase[i]
         /\ phase[j] = "active" /\ phase'[j] = "done" /\ line' = line
<1> DEFINE y == IF how = "ok" THEN job[j].reply ELSE None
           m == [Idle EXCEPT !.request = job[j].request, !.outcome = how, !.reply = y]
<1>1. m = [pc |-> "idle", request |-> job[j].request, loaded |-> NoRecord, next |-> NoRecord,
           signed |-> None, built |-> FALSE, reply |-> y, outcome |-> how]
  <2> DEFINE m1 == [Idle EXCEPT !.request = job[j].request]
             m2 == [m1 EXCEPT !.outcome = how]
  <2>1. m = [m2 EXCEPT !.reply = y]
    OBVIOUS
  <2> HIDE DEF m, y
  <2>2. /\ IsLocals(Idle) /\ Idle.pc = "idle" /\ Idle.loaded = NoRecord /\ Idle.next = NoRecord
        /\ Idle.signed = None /\ Idle.built = FALSE
    BY DEF IsLocals, Idle
  <2>3. /\ IsLocals(m1) /\ m1.pc = "idle" /\ m1.loaded = NoRecord /\ m1.next = NoRecord
        /\ m1.signed = None /\ m1.built = FALSE /\ m1.request = job[j].request
    BY <2>2 DEF IsLocals
  <2> HIDE DEF m1
  <2>4. /\ IsLocals(m2) /\ m2.pc = "idle" /\ m2.loaded = NoRecord /\ m2.next = NoRecord
        /\ m2.signed = None /\ m2.built = FALSE /\ m2.request = job[j].request /\ m2.outcome = how
    BY <2>3 DEF IsLocals
  <2> HIDE DEF m2
  <2> QED
    BY <2>1, <2>4 DEF IsLocals
<1>2. job' = [job EXCEPT ![j] = m] /\ phase[j] = "active" /\ phase' = [phase EXCEPT ![j] = "done"] /\ line' = line
  BY DEF Settle, Serial!End
<1> HIDE DEF m
<1>3. \A i \in Job : job'[i] = IF i = j THEN m ELSE job[i]
  BY <1>2 DEF IInv, Typed
<1>4. \A i \in Job : phase'[i] = IF i = j THEN "done" ELSE phase[i]
  BY <1>2 DEF IInv, Typed, Serial!TypeOK
<1> QED
  BY <1>1, <1>2, <1>3, <1>4

LEMMA SettleKeepsRecords ==
  ASSUME IInv, RInv, NEW j \in Job, NEW how, Settle(j, how),
         clock' \in {clock, clock + 1}, crashes' = crashes, prekeys' \subseteq prekeys,
         \A a \in Addr : record'[a] = record[a] \/ IsRecord(record'[a], clock')
  PROVE  RInv'
<1> DEFINE l == job'[j]
<1>1. l.pc = "idle" /\ l.built = FALSE
  <2>1. l = [pc |-> "idle", request |-> job[j].request, loaded |-> NoRecord, next |-> NoRecord,
             signed |-> None, built |-> FALSE, reply |-> IF how = "ok" THEN job[j].reply ELSE None,
                       outcome |-> how]
    BY SettleLocals, Zenon
  <2> HIDE DEF l
  <2> QED
    BY <2>1
<1>2. LocalsOK(l, clock')
  BY <1>1 DEF LocalsOK
<1>3. /\ job' = [job EXCEPT ![j] = l] /\ \A i \in Job : i # j => phase'[i] = phase[i]
      /\ phase'[j] = "done"
  BY SettleLocals
<1> HIDE DEF l
<1> QED
  BY <1>2, <1>3, JobKeepsRecords

LEMMA AwaitKeepsRecords ==
  ASSUME IInv, RInv, NEW j \in Job, job[j].pc # "idle", job' = [job EXCEPT ![j] = job'[j]], phase' = phase,
         clock' \in {clock, clock + 1}, crashes' = crashes, prekeys' \subseteq prekeys,
         LocalsOK(job'[j], clock'),
         \A a \in Addr : record'[a] = record[a] \/ IsRecord(record'[a], clock')
  PROVE  RInv'
<1> DEFINE m == job'[j]
<1>1. phase[j] = "active"
  BY AtWork
<1>2. LocalsOK(m, clock') /\ job' = [job EXCEPT ![j] = m]
  OBVIOUS
<1> HIDE DEF m
<1> QED
  BY <1>1, <1>2, JobKeepsRecords

\* The successor of the record is made.
LEMMA GotoStore ==
  ASSUME IInv, NEW j \in Job, NEW n, NEW b, NEW y,
         Goto(j, "store", [job[j] EXCEPT !.next = n, !.built = b, !.reply = y])
  PROVE  /\ job'[j] = [pc |-> "store", request |-> job[j].request, loaded |-> job[j].loaded, next |-> n,
                       signed |-> job[j].signed, built |-> b, reply |-> y, outcome |-> job[j].outcome]
         /\ job' = [job EXCEPT ![j] = job'[j]]
         /\ \A i \in Job : i # j => job'[i] = job[i]
         /\ phase' = phase /\ line' = line
<1> DEFINE m1 == [job[j] EXCEPT !.next = n]
           m2 == [m1 EXCEPT !.built = b]
           m == [job[j] EXCEPT !.next = n, !.built = b, !.reply = y]
<1>0. Goto(j, "store", m)
  OBVIOUS
<1>1. m = [m2 EXCEPT !.reply = y] /\ IsLocals(job[j])
  BY DEF IInv, Typed
<1>2. m1 = [pc |-> job[j].pc, request |-> job[j].request, loaded |-> job[j].loaded, next |-> n,
            signed |-> job[j].signed, built |-> job[j].built, reply |-> job[j].reply, outcome |-> job[j].outcome]
  BY <1>1 DEF IsLocals
<1> HIDE DEF m, m1
<1>3. m2 = [pc |-> job[j].pc, request |-> job[j].request, loaded |-> job[j].loaded, next |-> n,
            signed |-> job[j].signed, built |-> b, reply |-> job[j].reply, outcome |-> job[j].outcome]
  BY <1>2
<1> HIDE DEF m2
<1>4. m = [pc |-> job[j].pc, request |-> job[j].request, loaded |-> job[j].loaded, next |-> n,
           signed |-> job[j].signed, built |-> b, reply |-> y, outcome |-> job[j].outcome]
  BY <1>1, <1>3
<1>5. IsLocals(m)
  BY <1>4 DEF IsLocals
<1>6. /\ IsLocals(job'[j]) /\ job'[j].pc = "store" /\ job'[j].request = m.request
      /\ job'[j].loaded = m.loaded /\ job'[j].next = m.next
      /\ job'[j].signed = m.signed /\ job'[j].built = m.built
      /\ job'[j].reply = m.reply /\ job'[j].outcome = m.outcome
  BY <1>0, <1>5, GotoLocals
<1>7. /\ job' = [job EXCEPT ![j] = job'[j]] /\ \A i \in Job : i # j => job'[i] = job[i]
      /\ phase' = phase /\ line' = line
  BY <1>0, <1>5, GotoLocals
<1> HIDE DEF m
<1> QED
  BY <1>4, <1>6, <1>7 DEF IsLocals

\* A job that stands at an await, what it loaded, and what it was asked for.
LEMMA AtAwait ==
  ASSUME IInv, RInv, NEW j \in Job, job[j].pc # "idle"
  PROVE  /\ IsLocals(job[j]) /\ phase[j] = "active" /\ job[j].request \in Requests /\ AddrOf(j) \in Addr
         /\ LocalsOK(job[j], clock) /\ clock \in Nat
         /\ job[j].pc \in {"prekey", "signed", "join", "open"} =>
              job[j].loaded = record[AddrOf(j)] /\ RecordOK(job[j].loaded, clock)
<1>1. IsLocals(job[j]) /\ phase[j] = "active" /\ job[j].request \in Requests
  BY AtWork DEF IInv, Typed, Asked
<1>2. AddrOf(j) \in Addr
  BY <1>1, RequestKinds DEF AddrOf
<1>3. LocalsOK(job[j], clock) /\ clock \in Nat /\ RecordOK(record[AddrOf(j)], clock)
  BY <1>2 DEF RInv, LocalsAreOK, StoredOK, Bounded
<1>4. job[j].pc \in {"prekey", "signed", "join", "open"} => job[j].loaded = record[AddrOf(j)]
  BY <1>3 DEF LocalsOK, IInv, Fresh, FreshLocals
<1> QED
  BY <1>1, <1>2, <1>3, <1>4

\* The job goes on to write its record: every entry of it is what has become of
\* one of the record it loaded, or was built just now.
Makes(j) ==
  /\ job[j].pc \in {"join", "open", "build"}
  /\ job'[j].pc = "store" /\ phase' = phase /\ line' = line
  /\ job'[j].request = job[j].request /\ job'[j].loaded = job[j].loaded
  /\ \A i \in Job : i # j => job'[i] = job[i]
  /\ job'[j].built => job[j].pc = "join"
  /\ LocalsOK(job'[j], clock')
  /\ \A b \in DOMAIN job'[j].next :
       \/ /\ job[j].pc # "build" /\ b \in DOMAIN job[j].loaded
          /\ Grown(job'[j].next[b], job[j].loaded[b])
       \/ /\ clock' = clock + 1 /\ job'[j].next[b].inc = clock + 1
          /\ \/ job[j].pc = "join" /\ b = job[j].request.frame.base
             \/ job[j].pc = "build" /\ b \in Nat

\* The job ends without having changed anything.
Fails(j) == \E how \in {"no session", "unread", "missing prekey", "bad mac", "rejected"} : Settle(j, how)

\* The locals of a function that made a record and is about to store it.
LEMMA StoreLocals ==
  ASSUME NEW l, NEW c, l.pc = "store", l.outcome = "pending", l.request.op # "init",
         l.built => l.request.op = "pkmsg", IsRecord(l.next, c), Did(l)
  PROVE  LocalsOK(l, c)
BY DEF LocalsOK

LEMMA EncryptMakes == ASSUME IInv, RInv, NEW j \in Job, Encrypt(j) PROVE Makes(j) /\ RInv'
<1> DEFINE r == job[j].loaded
           o == CurrentKey(r)
           s == Stepped(r)
           y == [inc |-> r[o].inc, n |-> r[o].sent]
<1>1. /\ job[j].pc = "open" /\ job[j].request.op = "encrypt"
      /\ Goto(j, "store", [job[j] EXCEPT !.next = s, !.reply = y])
      /\ record' = record /\ prekeys' = prekeys /\ clock' = clock /\ crashes' = crashes
  BY DEF Encrypt, At, storage, Current
<1>2. IsLocals(job[j]) /\ LocalsOK(job[j], clock) /\ clock \in Nat /\ RecordOK(r, clock)
  BY <1>1, AtAwait
<1>3. IsRecord(r, clock) /\ job[j].outcome = "pending" /\ job[j].built = FALSE
  BY <1>1, <1>2 DEF RecordOK, LocalsOK
<1>4. /\ IsRecord(s, clock) /\ DOMAIN s = DOMAIN r /\ \A b \in DOMAIN r : Grown(s[b], r[b])
      /\ o \in DOMAIN r /\ s[o].inc = r[o].inc /\ s[o].sent = r[o].sent + 1
  BY <1>2, <1>3, SteppedGrows
<1>5. r[o].sent \in Nat
  BY <1>3, <1>4 DEF IsRecord, IsEntry
<1> HIDE DEF s, y
<1>6. [job[j] EXCEPT !.next = s, !.reply = y] = [job[j] EXCEPT !.next = s, !.built = job[j].built, !.reply = y]
  BY <1>2 DEF IsLocals
<1>7. Goto(j, "store", [job[j] EXCEPT !.next = s, !.built = job[j].built, !.reply = y])
  BY <1>1, <1>6, Zenon
<1>8. /\ job'[j] = [pc |-> "store", request |-> job[j].request, loaded |-> r, next |-> s,
                    signed |-> job[j].signed, built |-> job[j].built, reply |-> y, outcome |-> job[j].outcome]
      /\ job' = [job EXCEPT ![j] = job'[j]]
      /\ \A i \in Job : i # j => job'[i] = job[i]
      /\ phase' = phase /\ line' = line
  BY <1>7, GotoStore
<1>9. Sent(job'[j])
  <2>1. PICK l : l = job'[j]
    OBVIOUS
  <2>2. l.next = s /\ l.loaded = r /\ l.reply = y
    BY <1>8, <2>1
  <2>3. s[o].sent > r[o].sent
    BY <1>4, <1>5
  <2>4. Sent(l)
    BY <1>4, <2>2, <2>3 DEF Sent, y
  <2> QED
    BY <2>1, <2>4
<1>10. LocalsOK(job'[j], clock')
  <2>1. PICK l : l = job'[j]
    OBVIOUS
  <2>2. /\ l.pc = "store" /\ l.outcome = "pending" /\ l.request.op = "encrypt" /\ l.next = s
        /\ l.built = FALSE
    BY <1>1, <1>3, <1>8, <2>1
  <2>3. Did(l)
    BY <1>9, <2>1, <2>2 DEF Did
  <2>4. IsRecord(l.next, clock)
    BY <1>4, <2>2
  <2>5. LocalsOK(l, clock)
    BY <2>2, <2>3, <2>4, StoreLocals
  <2> QED
    BY <1>1, <2>1, <2>5
<1>11. Makes(j)
  BY <1>1, <1>3, <1>4, <1>8, <1>10 DEF Makes
<1>12. RInv'
  BY <1>1, <1>8, <1>10, AwaitKeepsRecords
<1> QED
  BY <1>11, <1>12

LEMMA FailsKeepsRecords ==
  ASSUME IInv, RInv, NEW j \in Job, Fails(j), UNCHANGED storage,
         clock' \in {clock, clock + 1}, crashes' = crashes
  PROVE  RInv'
BY SettleKeepsRecords DEF Fails, storage

LEMMA DecryptMakes ==
  ASSUME IInv, RInv, NEW j \in Job, Decrypt(j)
  PROVE  Makes(j) \/ Fails(j)
<1> DEFINE r == job[j].loaded
           f == FrameOf(j)
           o == CurrentKey(r)
           s == Opened(r, f)
<1>1. /\ job[j].pc = "open" /\ job[j].request.op # "encrypt"
      /\ record' = record /\ prekeys' = prekeys /\ clock' = clock /\ crashes' = crashes
  BY DEF Decrypt, At, storage
<1>2. /\ IsLocals(job[j]) /\ LocalsOK(job[j], clock) /\ clock \in Nat /\ RecordOK(r, clock)
      /\ job[j].request \in Requests
  BY <1>1, AtAwait
<1>3. /\ IsRecord(r, clock) /\ job[j].outcome = "pending" /\ job[j].built = FALSE
      /\ job[j].request.op \in {"whisper", "pkmsg"} /\ f.kind = job[j].request.op /\ f.n \in Nat
  BY <1>1, <1>2, RequestKinds DEF RecordOK, LocalsOK, FrameOf
<1>4. /\ IsRecord(s, clock) /\ DOMAIN s = DOMAIN r /\ \A b \in DOMAIN r : Grown(s[b], r[b])
      /\ o \in DOMAIN r /\ s[o].inc = r[o].inc /\ f.n \in s[o].got
  BY <1>2, <1>3, OpenedGrows
<1>5. r[o].base = o
  BY <1>3, <1>4 DEF IsRecord
<1>6. \/ Settle(j, "rejected")
      \/ Matches(r[o], f) /\ Goto(j, "store", [job[j] EXCEPT !.next = s, !.reply = f])
  BY DEF Decrypt, Current
<1>7. CASE Settle(j, "rejected")
  BY <1>7 DEF Fails
<1>8. CASE Matches(r[o], f) /\ Goto(j, "store", [job[j] EXCEPT !.next = s, !.reply = f])
  <2> HIDE DEF s, f
  <2>1. [job[j] EXCEPT !.next = s, !.reply = f] = [job[j] EXCEPT !.next = s, !.built = job[j].built, !.reply = f]
    BY <1>2 DEF IsLocals
  <2>2. Goto(j, "store", [job[j] EXCEPT !.next = s, !.built = job[j].built, !.reply = f])
    BY <1>8, <2>1, Zenon
  <2>3. /\ job'[j] = [pc |-> "store", request |-> job[j].request, loaded |-> r, next |-> s,
                      signed |-> job[j].signed, built |-> job[j].built, reply |-> f, outcome |-> job[j].outcome]
        /\ job' = [job EXCEPT ![j] = job'[j]]
        /\ \A i \in Job : i # j => job'[i] = job[i]
        /\ phase' = phase /\ line' = line
    BY <2>2, GotoStore
  <2>4. PICK l : l = job'[j]
    OBVIOUS
  <2>7. /\ l.pc = "store" /\ l.outcome = "pending" /\ l.request = job[j].request /\ l.loaded = r
        /\ l.next = s /\ l.reply = f /\ l.built = FALSE
    BY <1>3, <2>3, <2>4
  <2>8. IsRecord(l.next, clock)
    BY <1>4, <2>7
  <2>9. f = job[j].request.frame
    BY DEF f, FrameOf
  <2>5. CASE job[j].request.op = "whisper"
    <3>1. f.inc = r[o].inc /\ f.authentic /\ f.n \notin r[o].got
      BY <1>3, <1>8, <2>5 DEF Matches
    <3>2. ReadWhisper(l)
      BY <1>4, <2>7, <2>9, <3>1 DEF ReadWhisper
    <3>4. Did(l)
      BY <2>5, <2>7, <3>2 DEF Did
    <3>5. LocalsOK(l, clock)
      BY <2>5, <2>7, <2>8, <3>4, StoreLocals
    <3>3. LocalsOK(job'[j], clock')
      BY <1>1, <2>4, <3>5
    <3> QED
      BY <1>1, <1>3, <1>4, <2>3, <3>3 DEF Makes
  <2>6. CASE job[j].request.op = "pkmsg"
    <3>1. f.base = o /\ f.authentic /\ f.n \notin r[o].got
      BY <1>3, <1>5, <1>8, <2>6 DEF Matches
    <3>2. ReadPkmsg(l)
      BY <1>4, <2>7, <2>9, <3>1 DEF ReadPkmsg
    <3>4. Did(l)
      BY <2>6, <2>7, <3>2 DEF Did
    <3>5. LocalsOK(l, clock)
      BY <2>6, <2>7, <2>8, <3>4, StoreLocals
    <3>3. LocalsOK(job'[j], clock')
      BY <1>1, <2>4, <3>5
    <3> QED
      BY <1>1, <1>3, <1>4, <2>3, <3>3 DEF Makes
  <2> QED
    BY <1>3, <2>5, <2>6
<1> QED
  BY <1>6, <1>7, <1>8

\* A record with nothing else in it.
IsSole(s, base, c) ==
  IsRecord(s, c + 1) /\ CurrentKey(s) = base /\ DOMAIN s = {base} /\ s[base] = Entry(base, c + 1)

LEMMA FirstEntry ==
  ASSUME NEW c \in Nat, NEW base
  PROVE  IsSole(Merged(NoRecord, Entry(base, c + 1)), base, c)
<1>0. PICK s : s = Merged(NoRecord, Entry(base, c + 1))
  OBVIOUS
<1>1. PICK n \in Nat \ {0} : n = c + 1
  OBVIOUS
<1>2. IsRecord(s, n) /\ DOMAIN s = {base} /\ s[base] = Entry(base, n)
  BY <1>0, <1>1, SoleEntry
<1>3. CurrentKey(s) \in DOMAIN s
  BY <1>1, <1>2, CurrentIsOpen
<1> QED
  BY <1>0, <1>1, <1>2, <1>3 DEF IsSole

\* The candidate: the record loaded, with an entry of the frame's base key.
LEMMA CandidateIsRecord ==
  ASSUME IInv, RInv, NEW j \in Job, job[j].pc = "join",
         NEW r, r = job[j].loaded, NEW base, base = FrameOf(j).base, NEW s, s = Candidate(j)
  PROVE  /\ IsRecord(s, clock + 1) /\ CurrentKey(s) = base
         /\ base \in DOMAIN s /\ s[base] = Entry(base, clock + 1)
         /\ DOMAIN s \subseteq DOMAIN r \cup {base} /\ base \notin DOMAIN r
         /\ \A b \in DOMAIN s \ {base} : Grown(s[b], r[b])
<1>1. clock \in Nat /\ RecordOK(r, clock) /\ base \notin DOMAIN r
  BY AtAwait DEF LocalsOK, FrameOf
<1> DEFINE e == Entry(base, clock + 1)
<1>2. CASE r = NoRecord
  <2>1. clock \in Nat /\ s = Merged(NoRecord, Entry(base, clock + 1))
    BY <1>1, <1>2 DEF Candidate
  <2> HIDE DEF e
  <2>2. IsSole(s, base, clock)
    BY <2>1, FirstEntry
  <2> QED
    BY <1>1, <2>2 DEF IsSole
<1>3. CASE r # NoRecord
  <2>1. s = ArchiveAndMerge(r, e) /\ IsRecord(r, clock)
    BY <1>1, <1>3 DEF Candidate, RecordOK
  <2>2. clock \in Nat /\ base \notin DOMAIN r
    BY <1>1
  <2>3. PICK d : d = e
    OBVIOUS
  <2>4. d = Entry(base, clock + 1) /\ s = ArchiveAndMerge(r, d)
    BY <2>1, <2>3
  <2> HIDE DEF e
  <2>5. /\ IsRecord(s, clock + 1) /\ CurrentKey(s) = base
        /\ base \in DOMAIN s /\ s[base] = d
        /\ DOMAIN s \subseteq DOMAIN r \cup {base}
        /\ \A b \in DOMAIN s \ {base} : Grown(s[b], r[b])
    BY <2>1, <2>2, <2>4, MergedIsRecord
  <2> QED
    BY <2>2, <2>4, <2>5
<1> QED
  BY <1>2, <1>3

LEMMA JoinMakes ==
  ASSUME IInv, RInv, NEW j \in Job, Join(j)
  PROVE  Makes(j) \/ Fails(j)
<1> DEFINE r == job[j].loaded
           f == FrameOf(j)
           base == f.base
           cand == Candidate(j)
           s == Opened(cand, f)
<1>1. /\ job[j].pc = "join" /\ clock' = clock + 1
      /\ record' = record /\ prekeys' = prekeys /\ crashes' = crashes
  BY DEF Join, At, storage
<1>2. /\ IsLocals(job[j]) /\ LocalsOK(job[j], clock) /\ clock \in Nat /\ RecordOK(r, clock)
      /\ job[j].request \in Requests
  BY <1>1, AtAwait
<1>3. /\ job[j].outcome = "pending" /\ job[j].request.op = "pkmsg" /\ f.n \in Nat /\ f.kind = "pkmsg"
  BY <1>1, <1>2, RequestKinds DEF LocalsOK, FrameOf
<1>4. /\ IsRecord(cand, clock + 1) /\ CurrentKey(cand) = base
      /\ base \in DOMAIN cand /\ cand[base] = Entry(base, clock + 1)
      /\ DOMAIN cand \subseteq DOMAIN r \cup {base} /\ base \notin DOMAIN r
      /\ \A b \in DOMAIN cand \ {base} : Grown(cand[b], r[b])
  BY <1>1, CandidateIsRecord
<1>5. \/ Settle(j, "bad mac")
      \/ /\ Matches(cand[CurrentKey(cand)], f)
         /\ Goto(j, "store", [job[j] EXCEPT !.next = s, !.built = TRUE, !.reply = f])
  BY DEF Join, Current
<1>6. CASE Settle(j, "bad mac")
  BY <1>6 DEF Fails
<1> HIDE DEF cand
<1>7. CASE /\ Matches(cand[CurrentKey(cand)], f)
           /\ Goto(j, "store", [job[j] EXCEPT !.next = s, !.built = TRUE, !.reply = f])
  <2>1. /\ IsRecord(s, clock + 1) /\ DOMAIN s = DOMAIN cand /\ \A b \in DOMAIN cand : Grown(s[b], cand[b])
        /\ s[base].inc = cand[base].inc /\ f.n \in s[base].got
    <3>1. clock + 1 \in Nat
      BY <1>2
    <3> HIDE DEF f
    <3>2. s = Opened(cand, f)
      OBVIOUS
    <3> HIDE DEF s
    <3> QED
      BY <1>3, <1>4, <3>1, <3>2, OpenedGrows
  <2>2. cand[base].inc = clock + 1
    BY <1>2, <1>4, NewEntry
  <2> HIDE DEF s, f
  <2>3. f.authentic
    BY <1>7 DEF Matches
  <2>4. /\ job'[j] = [pc |-> "store", request |-> job[j].request, loaded |-> r, next |-> s,
                      signed |-> job[j].signed, built |-> TRUE, reply |-> f, outcome |-> job[j].outcome]
        /\ job' = [job EXCEPT ![j] = job'[j]]
        /\ \A i \in Job : i # j => job'[i] = job[i]
        /\ phase' = phase /\ line' = line
    BY <1>7, GotoStore
  <2>9. PICK l : l = job'[j]
    OBVIOUS
  <2>10. /\ l.pc = "store" /\ l.outcome = "pending" /\ l.request = job[j].request /\ l.loaded = r
         /\ l.next = s /\ l.reply = f /\ l.built = TRUE /\ l.request.op = "pkmsg"
    BY <1>3, <2>4, <2>9
  <2>11. f = l.request.frame /\ f.base = base
    BY <2>10 DEF f, FrameOf
  <2>5. ReadPkmsg(l)
    BY <1>4, <2>1, <2>3, <2>10, <2>11 DEF ReadPkmsg
  <2>12. Did(l)
    BY <2>5, <2>10 DEF Did
  <2>6. LocalsOK(job'[j], clock')
    <3>1. LocalsOK(l, clock + 1)
      BY <2>1, <2>10, <2>12, StoreLocals
    <3> QED
      BY <1>1, <2>9, <3>1
  <2>7. \A b \in DOMAIN s : \/ b \in DOMAIN r /\ Grown(s[b], r[b])
                            \/ b = base /\ s[b].inc = clock + 1
    <3> TAKE b \in DOMAIN s
    <3>1. CASE b = base
      BY <2>1, <2>2, <3>1
    <3>2. CASE b # base
      <4>1. b \in DOMAIN r /\ Grown(s[b], cand[b]) /\ Grown(cand[b], r[b])
        BY <1>4, <2>1, <3>2
      <4>2. s[b].sent \in Int /\ cand[b].sent \in Int /\ r[b].sent \in Int
        <5>1. r # NoRecord
          BY <4>1, NoEntries
        <5>2. IsRecord(r, clock)
          BY <1>2, <5>1 DEF RecordOK
        <5>3. r[b].sent \in Int
          <6>1. IsEntry(r[b], clock)
            BY <4>1, <5>2 DEF IsRecord
          <6> QED
            BY <6>1 DEF IsEntry
        <5>4. s[b].sent \in Int
          BY <2>1 DEF IsRecord, IsEntry
        <5>5. cand[b].sent \in Int
          BY <1>4, <2>1 DEF IsRecord, IsEntry
        <5> QED
          BY <5>3, <5>4, <5>5
      <4> QED
        BY <4>1, <4>2 DEF Grown
    <3> QED
      BY <3>1, <3>2
  <2>8. base = job[j].request.frame.base
    BY DEF f, FrameOf
  <2> QED
    BY <1>1, <2>4, <2>6, <2>7, <2>8 DEF Makes
<1> QED
  BY <1>5, <1>6, <1>7

LEMMA BuildMakes ==
  ASSUME IInv, RInv, NEW j \in Job, Build(j)
  PROVE  Makes(j) \/ Fails(j)
<1> DEFINE s == Merged(NoRecord, Entry(clock + 1, clock + 1))
<1>1. /\ job[j].pc = "build" /\ clock' \in {clock, clock + 1}
      /\ record' = record /\ prekeys' = prekeys /\ crashes' = crashes
  BY DEF Build, At, storage
<1>2. /\ IsLocals(job[j]) /\ LocalsOK(job[j], clock) /\ clock \in Nat /\ job[j].request \in Requests
  BY <1>1, AtAwait
<1>3. job[j].outcome = "pending" /\ job[j].request.op = "init" /\ job[j].built = FALSE
  BY <1>1, <1>2 DEF LocalsOK, IInv, Authentic, AuthenticLocals
<1>4. IsRecord(s, clock + 1) /\ DOMAIN s = {clock + 1} /\ s[clock + 1].inc = clock + 1
  <2>1. clock + 1 \in Nat \ {0}
    BY <1>2
  <2>2. IsRecord(s, clock + 1) /\ DOMAIN s = {clock + 1} /\ s[clock + 1] = Entry(clock + 1, clock + 1)
    BY <2>1, SoleEntry
  <2>3. Entry(clock + 1, clock + 1).inc = clock + 1
    BY <2>1, NewEntry
  <2> QED
    BY <2>2, <2>3
<1>5. Settle(j, "unread") \/ (clock' = clock + 1 /\ Goto(j, "store", [job[j] EXCEPT !.next = s]))
  BY DEF Build
<1>6. CASE Settle(j, "unread")
  BY <1>6 DEF Fails
<1>7. CASE clock' = clock + 1 /\ Goto(j, "store", [job[j] EXCEPT !.next = s])
  <2> HIDE DEF s
  <2>1. [job[j] EXCEPT !.next = s] = [job[j] EXCEPT !.next = s, !.built = job[j].built, !.reply = job[j].reply]
    BY <1>2 DEF IsLocals
  <2>2. Goto(j, "store", [job[j] EXCEPT !.next = s, !.built = job[j].built, !.reply = job[j].reply])
    BY <1>7, <2>1, Zenon
  <2>3. /\ job'[j] = [pc |-> "store", request |-> job[j].request, loaded |-> job[j].loaded, next |-> s,
                      signed |-> job[j].signed, built |-> job[j].built, reply |-> job[j].reply, outcome |-> job[j].outcome]
        /\ job' = [job EXCEPT ![j] = job'[j]]
        /\ \A i \in Job : i # j => job'[i] = job[i]
        /\ phase' = phase /\ line' = line
    BY <2>2, GotoStore
  <2>4. LocalsOK(job'[j], clock')
    BY <1>2, <1>3, <1>4, <1>7, <2>3 DEF LocalsOK, Did
  <2> QED
    BY <1>1, <1>2, <1>3, <1>4, <1>7, <2>3, <2>4 DEF Makes
<1> QED
  BY <1>5, <1>6, <1>7
-----------------------------------------------------------------------------
(* The records stay in order *)

LEMMA MakesKeepsRecords ==
  ASSUME IInv, RInv, NEW j \in Job, Encrypt(j) \/ Decrypt(j) \/ Join(j) \/ Build(j)
  PROVE  (Makes(j) \/ Fails(j)) /\ RInv'
<1>1. /\ UNCHANGED storage /\ clock' \in {clock, clock + 1} /\ crashes' = crashes /\ job[j].pc # "idle"
      /\ prekeys' \subseteq prekeys /\ \A a \in Addr : record'[a] = record[a]
  BY DEF Encrypt, Decrypt, Join, Build, At, storage
<1>2. Makes(j) \/ Fails(j)
  BY EncryptMakes, DecryptMakes, JoinMakes, BuildMakes
<1>3. CASE Makes(j)
  <2>1. LocalsOK(job'[j], clock') /\ phase' = phase /\ \A i \in Job : i # j => job'[i] = job[i]
    BY <1>3 DEF Makes
  <2>2. job' = [job EXCEPT ![j] = job'[j]]
    <3>1. CASE \E p, l : Goto(j, p, l)
      BY <3>1 DEF Goto, IInv, Typed
    <3>2. CASE \E how : Settle(j, how)
      BY <3>2 DEF Settle, IInv, Typed
    <3> QED
      BY <3>1, <3>2 DEF Encrypt, Decrypt, Join, Build
  <2> QED
    BY <1>1, <1>3, <2>1, <2>2, AwaitKeepsRecords
<1>4. CASE Fails(j)
  BY <1>1, <1>4, FailsKeepsRecords
<1> QED
  BY <1>2, <1>3, <1>4

LEMMA StoreKeepsRecords == ASSUME IInv, RInv, NEW j \in Job, Store(j) PROVE RInv'
<1>1. /\ job[j].pc = "store" /\ clock' = clock /\ prekeys' = prekeys /\ crashes' = crashes
      /\ record' \in {record, [record EXCEPT ![AddrOf(j)] = job[j].next]}
  BY DEF Store, At
<1>2. IsLocals(job[j]) /\ LocalsOK(job[j], clock)
  BY <1>1, AtAwait
<1>3. \A a \in Addr : record'[a] = record[a] \/ IsRecord(record'[a], clock')
  <2>1. IsRecord(job[j].next, clock)
    BY <1>1, <1>2 DEF LocalsOK
  <2> QED
    BY <1>1, <2>1 DEF IInv, Typed
<1>4. CASE \E how : Settle(j, how)
  BY <1>1, <1>3, <1>4, SettleKeepsRecords
<1>5. CASE ConsumesPreKey(j) /\ Goto(j, "remove", job[j])
  <2>1. /\ IsLocals(job'[j])
        /\ job'[j].pc = "remove" /\ job'[j].request = job[j].request /\ job'[j].loaded = job[j].loaded
        /\ job'[j].next = job[j].next /\ job'[j].built = job[j].built /\ job'[j].reply = job[j].reply
        /\ job'[j].outcome = job[j].outcome
    BY <1>2, <1>5, GotoLocals
  <2>2. LocalsOK(job'[j], clock')
    BY <1>1, <1>2, <1>5, <2>1
       DEF LocalsOK, ConsumesPreKey, FrameOf, Did, Sent, ReadWhisper, ReadPkmsg
  <2>3. job' = [job EXCEPT ![j] = job'[j]] /\ phase' = phase
    BY <1>2, <1>5, GotoLocals
  <2> QED
    BY <1>1, <1>3, <2>2, <2>3, AwaitKeepsRecords
<1> QED
  BY <1>4, <1>5 DEF Store

LEMMA RemovePreKeyKeepsRecords == ASSUME IInv, RInv, NEW j \in Job, RemovePreKey(j) PROVE RInv'
<1>1. /\ clock' = clock /\ crashes' = crashes /\ prekeys' \subseteq prekeys /\ record' = record
      /\ \E how : Settle(j, how)
  BY DEF RemovePreKey
<1> QED
  BY <1>1, SettleKeepsRecords

LEMMA LoadKeepsRecords == ASSUME IInv, RInv, NEW j \in Job, Load(j) PROVE RInv'
<1> DEFINE r == record[AddrOf(j)]
           m == [job[j] EXCEPT !.loaded = r]
<1>1. /\ job[j].pc = "load" /\ clock' = clock /\ prekeys' = prekeys /\ crashes' = crashes /\ record' = record
  BY DEF Load, At, storage
<1>2. IsLocals(job[j]) /\ LocalsOK(job[j], clock)
  BY <1>1, AtAwait
<1>3. CASE \E how : Settle(j, how)
  BY <1>1, <1>3, SettleKeepsRecords
<1>4. CASE \E p \in {"open", "prekey"} :
             /\ Goto(j, p, m)
             /\ p = "open" => r # NoRecord
             /\ p = "prekey" => job[j].request.op = "pkmsg" /\ FrameOf(j).base \notin DOMAIN r
  <2>1. PICK p \in {"open", "prekey"} :
             /\ Goto(j, p, m)
             /\ p = "open" => r # NoRecord
             /\ p = "prekey" => job[j].request.op = "pkmsg" /\ FrameOf(j).base \notin DOMAIN r
    BY <1>4
  <2>2. /\ IsLocals(m) /\ m.request = job[j].request /\ m.loaded = r /\ m.built = job[j].built
        /\ m.outcome = job[j].outcome
    BY <1>2 DEF IsLocals
  <2>3. Goto(j, p, m)
    BY <2>1
  <2> HIDE DEF m
  <2>4. /\ job'[j].pc = p /\ job'[j].request = m.request /\ job'[j].loaded = m.loaded
        /\ job'[j].built = m.built /\ job'[j].outcome = m.outcome
    BY <2>2, <2>3, GotoLocals
  <2>5. job' = [job EXCEPT ![j] = job'[j]] /\ phase' = phase
    BY <2>2, <2>3, GotoLocals
  <2> HIDE DEF r
  <2>6. LocalsOK(job'[j], clock')
    BY <1>1, <1>2, <2>1, <2>2, <2>4 DEF LocalsOK, FrameOf
  <2> QED
    BY <1>1, <2>5, <2>6, AwaitKeepsRecords
<1>5. (\E how : Settle(j, how))
      \/ \E p \in {"open", "prekey"} :
             /\ Goto(j, p, m)
             /\ p = "open" => r # NoRecord
             /\ p = "prekey" => job[j].request.op = "pkmsg" /\ FrameOf(j).base \notin DOMAIN r
  <2>1. FrameOf(j).base \in DOMAIN r => r # NoRecord
    BY NoEntries
  <2> HIDE DEF m
  <2>2. Load(j) => \/ \E how : Settle(j, how)
                   \/ /\ job[j].request.op = "pkmsg"
                      /\ Goto(j, IF FrameOf(j).base \in DOMAIN r THEN "open" ELSE "prekey", m)
                   \/ r # NoRecord /\ Goto(j, "open", m)
    BY DEF Load, m
  <2>3. CASE /\ job[j].request.op = "pkmsg"
             /\ Goto(j, IF FrameOf(j).base \in DOMAIN r THEN "open" ELSE "prekey", m)
    <3>1. CASE FrameOf(j).base \in DOMAIN r
      BY <2>1, <2>3, <3>1
    <3>2. CASE FrameOf(j).base \notin DOMAIN r
      BY <2>3, <3>2
    <3> QED
      BY <3>1, <3>2
  <2> QED
    BY <2>2, <2>3
<1> QED
  BY <1>3, <1>4, <1>5

LEMMA LoadPreKeyKeepsRecords == ASSUME IInv, RInv, NEW j \in Job, LoadPreKey(j) PROVE RInv'
<1>1. job[j].pc = "prekey" /\ clock' = clock /\ prekeys' = prekeys /\ crashes' = crashes /\ record' = record
  BY DEF LoadPreKey, At, storage
<1>2. IsLocals(job[j]) /\ LocalsOK(job[j], clock)
  BY <1>1, AtAwait
<1>3. CASE \E how : Settle(j, how)
  BY <1>1, <1>3, SettleKeepsRecords
<1>4. CASE Goto(j, "signed", job[j])
  <2>1. /\ job'[j].pc = "signed" /\ job'[j].request = job[j].request /\ job'[j].loaded = job[j].loaded
        /\ job'[j].built = job[j].built /\ job'[j].outcome = job[j].outcome
    BY <1>2, <1>4, GotoLocals
  <2>2. job' = [job EXCEPT ![j] = job'[j]] /\ phase' = phase
    BY <1>2, <1>4, GotoLocals
  <2>3. LocalsOK(job'[j], clock')
    BY <1>1, <1>2, <2>1 DEF LocalsOK
  <2> QED
    BY <1>1, <2>2, <2>3, AwaitKeepsRecords
<1> QED
  BY <1>3, <1>4 DEF LoadPreKey

LEMMA LoadSignedPreKeyKeepsRecords == ASSUME IInv, RInv, NEW j \in Job, LoadSignedPreKey(j) PROVE RInv'
<1>1. job[j].pc = "signed" /\ clock' = clock /\ prekeys' = prekeys /\ crashes' = crashes /\ record' = record
  BY DEF LoadSignedPreKey, At, storage
<1>2. IsLocals(job[j]) /\ LocalsOK(job[j], clock)
  BY <1>1, AtAwait
<1>3. CASE \E how : Settle(j, how)
  BY <1>1, <1>3, SettleKeepsRecords
<1>4. ASSUME NEW k, Goto(j, "join", [job[j] EXCEPT !.signed = k]) PROVE RInv'
  <2> DEFINE m == [job[j] EXCEPT !.signed = k]
  <2>1. /\ IsLocals(m) /\ m.request = job[j].request /\ m.loaded = job[j].loaded
        /\ m.built = job[j].built /\ m.outcome = job[j].outcome
    BY <1>2 DEF IsLocals
  <2>2. Goto(j, "join", m)
    BY <1>4
  <2> HIDE DEF m
  <2>3. /\ job'[j].pc = "join" /\ job'[j].request = m.request /\ job'[j].loaded = m.loaded
        /\ job'[j].built = m.built /\ job'[j].outcome = m.outcome
        /\ job' = [job EXCEPT ![j] = job'[j]] /\ phase' = phase
    BY <2>1, <2>2, GotoLocals
  <2>4. LocalsOK(job'[j], clock')
    BY <1>1, <1>2, <2>1, <2>3 DEF LocalsOK
  <2> QED
    BY <1>1, <2>3, <2>4, AwaitKeepsRecords
<1> QED
  BY <1>3, <1>4 DEF LoadSignedPreKey

\* A call that has not begun has nothing but its request.
LEMMA FreshLocalsOf ==
  ASSUME RInv, NEW j \in Job, phase[j] \notin {"active", "done"}
  PROVE  /\ IsLocals(job[j]) /\ job[j].pc = "idle" /\ job[j].built = FALSE /\ job[j].outcome = "pending"
         /\ \A q : [job[j] EXCEPT !.request = q] = [Idle EXCEPT !.request = q]
<1>1. job[j] = [Idle EXCEPT !.request = job[j].request]
  BY DEF RInv, Unbegun
<1> DEFINE m == [Idle EXCEPT !.request = job[j].request]
<1>2. IsLocals(m) /\ m.pc = "idle" /\ m.built = FALSE /\ m.outcome = "pending"
  <2>1. IsLocals(Idle) /\ Idle.pc = "idle" /\ Idle.built = FALSE /\ Idle.outcome = "pending"
    BY DEF Idle, IsLocals
  <2> QED
    BY <2>1 DEF IsLocals
<1>3. \A q : [m EXCEPT !.request = q] = [Idle EXCEPT !.request = q]
  BY DEF Idle
<1> HIDE DEF m
<1>4. job[j] = m
  BY <1>1 DEF m
<1> QED
  BY <1>2, <1>3, <1>4

LEMMA StartKeepsRecords == ASSUME IInv, RInv, NEW j \in Job, Start(j) PROVE RInv'
<1> DEFINE p == IF job[j].request.op = "init" THEN "build" ELSE "load"
           m == [job[j] EXCEPT !.pc = p]
<1>0. PICK a \in Addr : \E i \in 1..Len(line[a]) : line[a][i] = j /\ Serial!Begin(a, i)
  BY DEF Start
<1>1. /\ phase[j] = "waiting" /\ phase' = [phase EXCEPT ![j] = "active"]
      /\ record' = record /\ prekeys' = prekeys /\ clock' = clock /\ crashes' = crashes
      /\ job' = [job EXCEPT ![j] = m]
  BY <1>0 DEF Serial!Begin, Start, storage
<1>2. phase'[j] = "active" /\ \A i \in Job : i # j => phase'[i] = phase[i]
  BY <1>1 DEF IInv, Typed, Serial!TypeOK
<1>3. IsLocals(job[j]) /\ job[j].built = FALSE /\ job[j].outcome = "pending"
  BY <1>1, FreshLocalsOf
<1>4. /\ m.pc = p /\ m.request = job[j].request /\ m.built = FALSE /\ m.outcome = "pending"
  BY <1>3 DEF IsLocals
<1> HIDE DEF m
<1>5. LocalsOK(m, clock')
  BY <1>4 DEF LocalsOK
<1> QED
  BY <1>1, <1>2, <1>5, JobKeepsRecords

LEMMA CallKeepsRecords == ASSUME IInv, RInv, NEW j \in Job, Call(j) PROVE RInv'
<1>1. PICK q \in Requests : Serial!Submit(j, q.addr) /\ job' = [job EXCEPT ![j].request = q]
  BY DEF Call
<1> DEFINE m == [job[j] EXCEPT !.request = q]
<1>2. /\ phase[j] = "outside" /\ phase' = [phase EXCEPT ![j] = "waiting"]
      /\ record' = record /\ prekeys' = prekeys /\ clock' = clock /\ crashes' = crashes
      /\ job' = [job EXCEPT ![j] = m]
  BY <1>1 DEF Serial!Submit, Call, storage
<1>3. \A i \in Job : i # j => phase'[i] = phase[i]
  BY <1>2 DEF IInv, Typed, Serial!TypeOK
<1>4. /\ IsLocals(job[j]) /\ job[j].pc = "idle" /\ job[j].built = FALSE
      /\ m = [Idle EXCEPT !.request = q]
  BY <1>2, FreshLocalsOf
<1>5. m.pc = "idle" /\ m.request = q /\ m.built = FALSE
  BY <1>4 DEF IsLocals
<1> HIDE DEF m
<1>6. LocalsOK(m, clock')
  BY <1>5 DEF LocalsOK
<1>7. m = [Idle EXCEPT !.request = m.request]
  BY <1>4, <1>5
<1> QED
  BY <1>2, <1>3, <1>6, <1>7, JobKeepsRecords

\* A crash ends the jobs that were called and not done.
LEMMA CrashLocals ==
  ASSUME IInv, Crash, NEW j \in Job
  PROVE  /\ phase[j] \in {"waiting", "active"} =>
              /\ phase'[j] = "done" /\ job'[j].pc = "idle" /\ job'[j].built = FALSE
              /\ job'[j].request = job[j].request /\ job'[j].outcome = "lost"
         /\ phase[j] \notin {"waiting", "active"} => phase'[j] = phase[j] /\ job'[j] = job[j]
<1> DEFINE gone == {i \in Job : phase[i] \in {"waiting", "active"}}
           m1 == [Idle EXCEPT !.request = job[j].request]
           m == [Idle EXCEPT !.request = job[j].request, !.outcome = "lost"]
<1>1. /\ phase'[j] = IF j \in gone THEN "done" ELSE phase[j]
      /\ job'[j] = IF j \in gone THEN m ELSE job[j]
  BY DEF Crash
<1>2. m.pc = "idle" /\ m.built = FALSE /\ m.request = job[j].request /\ m.outcome = "lost"
  <2>1. m = [m1 EXCEPT !.outcome = "lost"]
    OBVIOUS
  <2>2. IsLocals(Idle) /\ Idle.pc = "idle" /\ Idle.built = FALSE
    BY DEF IsLocals, Idle
  <2>3. IsLocals(m1) /\ m1.pc = "idle" /\ m1.built = FALSE /\ m1.request = job[j].request
    BY <2>2 DEF IsLocals
  <2> HIDE DEF m, m1
  <2> QED
    BY <2>1, <2>3 DEF IsLocals
<1> HIDE DEF m
<1> QED
  BY <1>1, <1>2

LEMMA CrashKeepsRecords == ASSUME IInv, RInv, Crash PROVE RInv'
<1>1. /\ record' = record /\ prekeys' = prekeys /\ clock' = clock /\ crashes < MaxCrashes /\ crashes' = crashes + 1
  BY DEF Crash, storage
<1>2. Bounded' /\ StoredOK'
  BY <1>1, CipherAssumption DEF RInv, Bounded, StoredOK
<1>3. LocalsAreOK'
  <2> SUFFICES ASSUME NEW j \in Job PROVE LocalsOK(job'[j], clock')
    BY DEF LocalsAreOK
  <2>1. CASE phase[j] \in {"waiting", "active"}
    BY <2>1, CrashLocals DEF LocalsOK
  <2>2. CASE phase[j] \notin {"waiting", "active"}
    BY <1>1, <2>2, CrashLocals DEF RInv, LocalsAreOK
  <2> QED
    BY <2>1, <2>2
<1>4. Unbegun'
  <2> SUFFICES ASSUME NEW j \in Job, phase'[j] \notin {"active", "done"}
               PROVE  job'[j] = [Idle EXCEPT !.request = job'[j].request]
    BY DEF Unbegun
  <2>1. phase'[j] = phase[j] /\ job'[j] = job[j]
    BY CrashLocals
  <2> QED
    BY <2>1 DEF RInv, Unbegun
<1> QED
  BY <1>2, <1>3, <1>4 DEF RInv

LEMMA NextRInv == ASSUME IInv, RInv, [Next]_vars PROVE RInv'
<1>1. ASSUME NEW j \in Job, Step(j) PROVE RInv'
  BY <1>1, CallKeepsRecords, StartKeepsRecords, LoadKeepsRecords, LoadPreKeyKeepsRecords,
     LoadSignedPreKeyKeepsRecords, MakesKeepsRecords,
     StoreKeepsRecords, RemovePreKeyKeepsRecords DEF Step
<1>2. CASE Crash
  BY <1>2, CrashKeepsRecords
<1>3. CASE UNCHANGED vars
  BY <1>3 DEF vars, storage, RInv, Bounded, StoredOK, LocalsAreOK, Unbegun
<1> QED
  BY <1>1, <1>2, <1>3 DEF Next

LEMMA RecordInvariant == Spec => [](IInv /\ RInv)
<1>1. Init => IInv /\ RInv
  BY InitIInv, InitRInv
<1>2. IInv /\ RInv /\ [Next]_vars => (IInv /\ RInv)'
  BY NextIInv, NextRInv
<1> QED
  BY <1>1, <1>2, PTL DEF Spec
-----------------------------------------------------------------------------
(* The theorems *)

\* A stored record has one open entry, the newest, and at most MaxArchived
\* others, whatever was built, evicted, replaced, or lost on the way
\* (session-cipher.js:149-178).
THEOREM OneIsOpen == Spec => []OneOpenEntry
<1>1. RInv => OneOpenEntry
  <2> SUFFICES ASSUME RInv, NEW a \in Addr, record[a] # NoRecord
               PROVE  /\ Cardinality(OpenKeys(record[a])) = 1
                      /\ \A b \in DOMAIN record[a] : record[a][b].inc <= Current(record[a]).inc
                      /\ Cardinality(DOMAIN record[a]) <= MaxArchived + 1
    BY DEF OneOpenEntry
  <2>1. clock \in Nat /\ IsRecord(record[a], clock)
    BY DEF RInv, Bounded, StoredOK, RecordOK
  <2>2. OpenKeys(record[a]) = {CurrentKey(record[a])}
    BY <2>1, CurrentIsOpen
  <2>3. Cardinality(OpenKeys(record[a])) = 1
    BY <2>2, FS_Singleton
  <2>4. \A b \in DOMAIN record[a] : record[a][b].inc <= Current(record[a]).inc
    BY <2>1, CurrentIsOpen DEF Current
  <2> QED
    BY <2>1, <2>3, <2>4 DEF IsRecord
<1> QED
  BY <1>1, RecordInvariant, PTL

\* The jobs that have built their session or never will: clock counts no others.
Past == {j \in Job : phase[j] = "done" \/ job[j].pc \in {"store", "remove"}}

LEMMA BuiltIsPast ==
  ASSUME IInv, RInv, [Next]_vars
  PROVE  /\ Past \subseteq Past'
         /\ clock' = clock \/ (clock' = clock + 1 /\ \E j \in Past' : j \notin Past)
<1>1. ASSUME NEW j \in Job, Step(j) PROVE Past \subseteq Past'
  <2>1. CASE Call(j) \/ Start(j)
    <3>1. /\ phase[j] \in {"outside", "waiting"}
          /\ \A i \in Job : i # j => phase'[i] = phase[i] /\ job'[i] = job[i]
      BY <2>1 DEF Call, Start, Serial!Submit, Serial!Begin, IInv, Typed, Serial!TypeOK
    <3>2. job[j].pc = "idle"
      BY <3>1, FreshLocalsOf
    <3> QED
      BY <3>1, <3>2 DEF Past
  <2>2. CASE \E how : Settle(j, how)
    BY <2>2, SettleLocals DEF Past
  <2>3. CASE \E p, l : Goto(j, p, l) /\ job[j].pc \notin {"store", "remove"}
    <3>1. phase' = phase /\ \A i \in Job : i # j => job'[i] = job[i]
      BY <2>3 DEF Goto, IInv, Typed
    <3> QED
      BY <2>3, <3>1 DEF Past
  <2>4. CASE Goto(j, "remove", job[j])
    <3>1. IsLocals(job[j])
      BY DEF IInv, Typed
    <3>2. phase' = phase /\ job'[j].pc = "remove" /\ \A i \in Job : i # j => job'[i] = job[i]
      BY <2>4, <3>1, GotoLocals
    <3> QED
      BY <3>2 DEF Past
  <2> QED
    BY <1>1, <2>1, <2>2, <2>3, <2>4
       DEF Step, Load, LoadPreKey, LoadSignedPreKey, Join, Encrypt, Decrypt, Build, Store, RemovePreKey, At
<1>2. ASSUME NEW j \in Job, Join(j) \/ Build(j)
      PROVE  clock' = clock \/ (clock' = clock + 1 /\ \E i \in Past' : i \notin Past)
  <2>1. job[j].pc \in {"join", "build"} /\ clock' \in {clock, clock + 1}
    BY <1>2 DEF Join, Build, At
  <2>2. phase[j] = "active"
    BY <2>1, AtWork
  <2>3. Makes(j) \/ Fails(j)
    BY <1>2, MakesKeepsRecords
  <2>4. j \in Past'
    <3>1. CASE Makes(j)
      BY <3>1 DEF Makes, Past
    <3>2. CASE Fails(j)
      BY <3>2, SettleLocals DEF Fails, Past
    <3> QED
      BY <2>3, <3>1, <3>2
  <2> QED
    BY <2>1, <2>2, <2>4 DEF Past
<1>3. CASE \E j \in Job : Step(j)
  <2>1. PICK j \in Job : Step(j)
    BY <1>3
  <2>2. clock' = clock \/ Join(j) \/ Build(j)
    BY <2>1 DEF Step, Call, Start, Load, LoadPreKey, LoadSignedPreKey, Encrypt, Decrypt, Store, RemovePreKey
  <2> QED
    BY <1>1, <1>2, <2>1, <2>2
<1>4. CASE Crash
  <2>1. clock' = clock
    BY <1>4 DEF Crash
  <2>2. ASSUME NEW j \in Past PROVE j \in Past'
    <3>1. j \in Job
      BY DEF Past
    <3>2. CASE phase[j] \in {"waiting", "active"}
      BY <1>4, <3>1, <3>2, CrashLocals DEF Past
    <3>3. CASE phase[j] \notin {"waiting", "active"}
      BY <1>4, <3>1, <3>3, CrashLocals DEF Past
    <3> QED
      BY <3>2, <3>3
  <2> QED
    BY <2>1, <2>2
<1>5. CASE UNCHANGED vars
  BY <1>5 DEF vars, Past
<1> QED
  BY <1>3, <1>4, <1>5 DEF Next

\* What is stored has the types the code gives it, every entry is found under
\* its own base key, no call builds twice, and a job is at an await exactly
\* while the queue serves it.
THEOREM TypeCorrect ==
  ASSUME IsFiniteSet(Job)
  PROVE  Spec => []TypeOK
<1> DEFINE Counted == clock <= Cardinality(Past)
<1>1. Init => Counted
  BY FS_CardinalityType, FS_Subset DEF Init, Past
<1>2. IInv /\ RInv /\ Counted /\ [Next]_vars => Counted'
  <2> SUFFICES ASSUME IInv, RInv, Counted, [Next]_vars PROVE Counted'
    OBVIOUS
  <2>1. Past \subseteq Past' /\ Past \subseteq Job /\ Past' \subseteq Job
    BY BuiltIsPast DEF Past
  <2>2. IsFiniteSet(Past) /\ IsFiniteSet(Past')
    BY <2>1, FS_Subset
  <2>3. Cardinality(Past) <= Cardinality(Past') /\ Cardinality(Past) \in Nat /\ Cardinality(Past') \in Nat
    BY <2>1, <2>2, FS_Subset, FS_CardinalityType
  <2>4. clock \in Nat
    BY DEF RInv, Bounded
  <2>5. CASE clock' = clock
    BY <2>3, <2>4, <2>5
  <2>6. CASE clock' = clock + 1 /\ \E j \in Past' : j \notin Past
    <3>1. PICK j \in Past' : j \notin Past
      BY <2>6
    <3>2. IsFiniteSet(Past \cup {j}) /\ Cardinality(Past \cup {j}) = Cardinality(Past) + 1
      BY <2>2, <3>1, FS_AddElement
    <3>3. Past \cup {j} \subseteq Past'
      BY <2>1, <3>1
    <3>4. Cardinality(Past \cup {j}) <= Cardinality(Past')
      BY <2>2, <3>3, FS_Subset
    <3> QED
      BY <2>3, <2>4, <2>6, <3>2, <3>4
  <2> QED
    BY <2>5, <2>6, BuiltIsPast
<1>3. IInv /\ RInv /\ Counted => TypeOK
  <2> SUFFICES ASSUME IInv, RInv, Counted PROVE TypeOK
    OBVIOUS
  <2>1. IsFiniteSet(Past) /\ Cardinality(Past) <= Cardinality(Job)
    BY FS_Subset DEF Past
  <2>2. clock \in 0..Cardinality(Job)
    BY <2>1, FS_CardinalityType DEF RInv, Bounded
  <2>3. \A a \in Addr : \A b \in DOMAIN record[a] : EntryOK(record[a][b]) /\ record[a][b].base = b
    <3> SUFFICES ASSUME NEW a \in Addr, NEW b \in DOMAIN record[a]
                 PROVE  EntryOK(record[a][b]) /\ record[a][b].base = b
      OBVIOUS
    <3>1. IsEntry(record[a][b], clock) /\ record[a][b].base = b
      BY NoEntries DEF RInv, StoredOK, RecordOK, IsRecord
    <3> QED
      BY <3>1 DEF IsEntry, EntryOK, IsOpen
  <2> QED
    BY <2>2, <2>3 DEF TypeOK, IInv, Typed, Working, RInv, Bounded
<1> QED
  BY <1>1, <1>2, <1>3, RecordInvariant, PTL DEF Spec
-----------------------------------------------------------------------------
(* What the callers were told *)

\* The job i makes, writes and answers nothing, and comes to build no session but
\* one whose prekey is there.
Rests(i) ==
  /\ job'[i].pc \in {"store", "remove"} \/ job'[i].built \/ job'[i].outcome = "ok" => job'[i] = job[i]
  /\ job'[i].pc \in {"signed", "join"} =>
       \/ job'[i] = job[i]
       \/ job'[i].request.frame.preKey \in prekeys \cup {None}
       \/ job[i].pc = "signed" /\ job'[i].request = job[i].request
  /\ job[i].pc = "remove" =>
       job'[i] = job[i] \/ (job'[i].outcome = "lost" /\ job'[i].request = job[i].request)

Quiet == UNCHANGED storage /\ \A i \in Job : Rests(i)

\* The job j writes its record,
Writes(j) ==
  /\ job[j].pc = "store"
  /\ UNCHANGED <<prekeys, clock>>
  /\ \A i \in Job : i # j => job'[i] = job[i]
  /\ \A a \in Addr : a # AddrOf(j) => record'[a] = record[a]
  /\ record'[AddrOf(j)] \in {record[AddrOf(j)], job[j].next}
  /\ \/ /\ job'[j].outcome = "storage" /\ job'[j].request = job[j].request
        /\ job'[j].pc = "idle" /\ ~job'[j].built
     \/ /\ record'[AddrOf(j)] = job[j].next
        /\ IF ConsumesPreKey(j)
           THEN /\ job'[j].pc = "remove" /\ job'[j].outcome = job[j].outcome
                /\ job'[j].built = job[j].built /\ job'[j].next = job[j].next
           ELSE job'[j].outcome = "ok" /\ job'[j].pc = "idle" /\ ~job'[j].built
        /\ job'[j].reply = job[j].reply /\ job'[j].request = job[j].request

\* and removes its prekey.
Removes(j) ==
  /\ job[j].pc = "remove"
  /\ UNCHANGED <<record, clock>>
  /\ \A i \in Job : i # j => job'[i] = job[i]
  /\ job'[j].request = job[j].request /\ job'[j].pc = "idle" /\ ~job'[j].built
  /\ \/ job'[j].outcome = "storage" /\ prekeys' \in {prekeys, prekeys \ {FrameOf(j).preKey}}
     \/ /\ job'[j].outcome = "ok" /\ job'[j].reply = job[j].reply
        /\ prekeys' = prekeys \ {FrameOf(j).preKey}

\* What lasts: a request, an answer, a consumed prekey, and the time stamps.
Lasting ==
  /\ \A i \in Job : phase[i] # "outside" => phase'[i] # "outside" /\ job'[i].request = job[i].request
  /\ \A i \in Job : phase[i] = "done" => phase'[i] = "done" /\ job'[i] = job[i]
  /\ prekeys' \subseteq prekeys
  /\ clock' \in {clock, clock + 1}

\* A call that has an outcome is over.
LEMMA SettledIsDone ==
  ASSUME IInv, RInv, NEW j \in Job, job[j].outcome # "pending"
  PROVE  phase[j] = "done"
<1>1. phase[j] \in {"active", "done"}
  BY FreshLocalsOf
<1>2. phase[j] # "active"
  BY DEF IInv, Working, RInv, LocalsAreOK, LocalsOK
<1> QED
  BY <1>1, <1>2
-----------------------------------------------------------------------------
(* The steps *)

\* What Settle leaves of the locals.
LEMMA SettledLocals ==
  ASSUME IInv, NEW j \in Job, NEW how, Settle(j, how)
  PROVE  /\ job'[j].pc = "idle" /\ ~job'[j].built /\ job'[j].outcome = how
         /\ job'[j].request = job[j].request /\ (how = "ok" => job'[j].reply = job[j].reply)
         /\ \A i \in Job : i # j => job'[i] = job[i]
<1> DEFINE l == job'[j]
<1>1. /\ l = [pc |-> "idle", request |-> job[j].request, loaded |-> NoRecord, next |-> NoRecord,
              signed |-> None, built |-> FALSE, reply |-> IF how = "ok" THEN job[j].reply ELSE None,
                       outcome |-> how]
      /\ \A i \in Job : i # j => job'[i] = job[i]
  BY SettleLocals, Zenon
<1> HIDE DEF l
<1>2. /\ l.pc = "idle" /\ ~l.built /\ l.outcome = how
      /\ l.request = job[j].request /\ (how = "ok" => l.reply = job[j].reply)
  BY <1>1
<1> QED
  BY <1>1, <1>2 DEF l

LEMMA QuietStep ==
  ASSUME NEW j \in Job, UNCHANGED storage, \A i \in Job : i # j => job'[i] = job[i], Rests(j),
         IInv, RInv
  PROVE  Quiet
<1>1. \A i \in Job : i # j => Rests(i)
  BY DEF Rests
<1> QED
  BY <1>1 DEF Quiet

LEMMA FailsIsQuiet ==
  ASSUME IInv, RInv, NEW j \in Job, Fails(j), UNCHANGED storage, job[j].pc # "remove"
  PROVE  Quiet
<1>1. /\ job'[j].pc = "idle" /\ ~job'[j].built /\ job'[j].outcome # "ok"
      /\ \A i \in Job : i # j => job'[i] = job[i]
  BY SettledLocals DEF Fails
<1>2. Rests(j)
  BY <1>1 DEF Rests
<1> QED
  BY <1>1, <1>2, QuietStep

LEMMA StoreWrites == ASSUME IInv, RInv, NEW j \in Job, Store(j) PROVE Writes(j)
<1>1. /\ job[j].pc = "store" /\ prekeys' = prekeys /\ clock' = clock
      /\ record' \in {record, [record EXCEPT ![AddrOf(j)] = job[j].next]}
  BY DEF Store, At
<1>2. IsLocals(job[j]) /\ AddrOf(j) \in Addr
  BY <1>1, AtAwait
<1>3. /\ \A a \in Addr : a # AddrOf(j) => record'[a] = record[a]
      /\ record'[AddrOf(j)] \in {record[AddrOf(j)], job[j].next}
  BY <1>1, <1>2 DEF IInv, Typed
<1>4. CASE Settle(j, "storage")
  <2>1. /\ job'[j].outcome = "storage" /\ job'[j].request = job[j].request
        /\ job'[j].pc = "idle" /\ ~job'[j].built /\ \A i \in Job : i # j => job'[i] = job[i]
    BY <1>4, SettledLocals
  <2> QED
    BY <1>1, <1>3, <2>1 DEF Writes
<1>5. CASE /\ record' = [record EXCEPT ![AddrOf(j)] = job[j].next]
           /\ IF ConsumesPreKey(j) THEN Goto(j, "remove", job[j]) ELSE Settle(j, "ok")
  <2>1. record'[AddrOf(j)] = job[j].next
    BY <1>2, <1>5 DEF IInv, Typed
  <2>2. CASE ConsumesPreKey(j)
    <3>1. /\ job'[j].pc = "remove" /\ job'[j].request = job[j].request
          /\ job'[j].next = job[j].next /\ job'[j].built = job[j].built /\ job'[j].reply = job[j].reply
          /\ job'[j].outcome = job[j].outcome /\ \A i \in Job : i # j => job'[i] = job[i]
      BY <1>2, <1>5, <2>2, GotoLocals
    <3> QED
      BY <1>1, <1>3, <2>1, <2>2, <3>1 DEF Writes
  <2>3. CASE ~ConsumesPreKey(j)
    <3>1. /\ job'[j].outcome = "ok" /\ job'[j].request = job[j].request /\ job'[j].reply = job[j].reply
          /\ job'[j].pc = "idle" /\ ~job'[j].built /\ \A i \in Job : i # j => job'[i] = job[i]
      BY <1>5, <2>3, SettledLocals
    <3> QED
      BY <1>1, <1>3, <2>1, <2>3, <3>1 DEF Writes
  <2> QED
    BY <2>2, <2>3
<1> QED
  BY <1>4, <1>5 DEF Store

LEMMA RemovePreKeyRemoves == ASSUME IInv, RInv, NEW j \in Job, RemovePreKey(j) PROVE Removes(j)
<1>1. /\ job[j].pc = "remove" /\ record' = record /\ clock' = clock
      /\ \/ prekeys' = prekeys \ {FrameOf(j).preKey} /\ Settle(j, "ok")
         \/ prekeys' \in {prekeys, prekeys \ {FrameOf(j).preKey}} /\ Settle(j, "storage")
  BY DEF RemovePreKey, At
<1>2. /\ job'[j].pc = "idle" /\ ~job'[j].built /\ job'[j].request = job[j].request
      /\ \A i \in Job : i # j => job'[i] = job[i]
  BY <1>1, SettledLocals
<1>3. \/ job'[j].outcome = "storage" /\ prekeys' \in {prekeys, prekeys \ {FrameOf(j).preKey}}
      \/ /\ job'[j].outcome = "ok" /\ job'[j].reply = job[j].reply
         /\ prekeys' = prekeys \ {FrameOf(j).preKey}
  BY <1>1, SettledLocals
<1> QED
  BY <1>1, <1>2, <1>3 DEF Removes

LEMMA LoadIsQuiet ==
  ASSUME IInv, RInv, NEW j \in Job, Load(j) \/ LoadPreKey(j) \/ LoadSignedPreKey(j)
  PROVE  Quiet
<1>1. UNCHANGED storage /\ job[j].pc \in {"load", "prekey", "signed"}
  BY DEF Load, LoadPreKey, LoadSignedPreKey, At
<1>2. IsLocals(job[j]) /\ LocalsOK(job[j], clock)
  BY <1>1, AtAwait
<1>3. job[j].built = FALSE /\ job[j].outcome = "pending"
  BY <1>1, <1>2 DEF LocalsOK
<1>4. CASE Fails(j)
  BY <1>1, <1>4, FailsIsQuiet
<1>5. CASE \E p \in {"open", "prekey"} : Goto(j, p, [job[j] EXCEPT !.loaded = record[AddrOf(j)]])
  <2> DEFINE m == [job[j] EXCEPT !.loaded = record[AddrOf(j)]]
  <2>1. PICK p \in {"open", "prekey"} : Goto(j, p, m)
    BY <1>5
  <2>2. IsLocals(m) /\ m.built = FALSE /\ m.outcome = "pending"
    BY <1>2, <1>3 DEF IsLocals
  <2> HIDE DEF m
  <2>3. /\ job'[j].pc = p /\ job'[j].built = m.built /\ job'[j].outcome = m.outcome
        /\ \A i \in Job : i # j => job'[i] = job[i]
    BY <2>1, <2>2, GotoLocals
  <2>4. Rests(j)
    BY <1>1, <2>2, <2>3 DEF Rests
  <2> QED
    BY <1>1, <2>3, <2>4, QuietStep
<1>6. CASE FrameOf(j).preKey \in prekeys \cup {None} /\ Goto(j, "signed", job[j])
  <2>1. /\ job'[j].pc = "signed" /\ job'[j].request = job[j].request
        /\ job'[j].built = job[j].built /\ job'[j].outcome = job[j].outcome
        /\ \A i \in Job : i # j => job'[i] = job[i]
    BY <1>2, <1>6, GotoLocals
  <2>2. Rests(j)
    BY <1>1, <1>3, <1>6, <2>1 DEF Rests, FrameOf
  <2> QED
    BY <1>1, <2>1, <2>2, QuietStep
<1>7. ASSUME NEW k, At(j, "signed"), Goto(j, "join", [job[j] EXCEPT !.signed = k]) PROVE Quiet
  <2> DEFINE m == [job[j] EXCEPT !.signed = k]
  <2>1. /\ IsLocals(m) /\ m.request = job[j].request /\ m.built = FALSE /\ m.outcome = "pending"
    BY <1>2, <1>3 DEF IsLocals
  <2>2. Goto(j, "join", m)
    BY <1>7
  <2> HIDE DEF m
  <2>3. /\ job'[j].pc = "join" /\ job'[j].request = m.request
        /\ job'[j].built = m.built /\ job'[j].outcome = m.outcome
        /\ \A i \in Job : i # j => job'[i] = job[i]
    BY <2>1, <2>2, GotoLocals
  <2>4. Rests(j)
    BY <1>7, <2>1, <2>3 DEF Rests, At
  <2> QED
    BY <1>1, <2>3, <2>4, QuietStep
<1>8. Load(j) => \/ Fails(j)
                 \/ \E p \in {"open", "prekey"} : Goto(j, p, [job[j] EXCEPT !.loaded = record[AddrOf(j)]])
  BY DEF Load, Fails
<1>9. LoadPreKey(j) => Fails(j) \/ (FrameOf(j).preKey \in prekeys \cup {None} /\ Goto(j, "signed", job[j]))
  BY DEF LoadPreKey, Fails
<1>10. LoadSignedPreKey(j) =>
         Fails(j) \/ (At(j, "signed") /\ \E k : Goto(j, "join", [job[j] EXCEPT !.signed = k]))
  BY DEF LoadSignedPreKey, Fails
<1> QED
  BY <1>4, <1>5, <1>6, <1>7, <1>8, <1>9, <1>10

LEMMA BeginIsQuiet == ASSUME IInv, RInv, NEW j \in Job, Call(j) \/ Start(j) PROVE Quiet
<1>1. /\ UNCHANGED storage /\ phase[j] \in {"outside", "waiting"}
      /\ \A i \in Job : i # j => job'[i] = job[i]
  BY DEF Call, Start, Serial!Submit, Serial!Begin, IInv, Typed
<1>2. IsLocals(job[j]) /\ job[j].pc = "idle" /\ job[j].built = FALSE /\ job[j].outcome = "pending"
  BY <1>1, FreshLocalsOf
<1>3. \/ \E q : job'[j] = [job[j] EXCEPT !.request = q]
      \/ \E p \in {"build", "load"} : job'[j] = [job[j] EXCEPT !.pc = p]
  BY DEF Call, Start, IInv, Typed
<1>4. /\ job'[j].pc \in {"idle", "build", "load"} /\ job'[j].built = FALSE
      /\ job'[j].outcome = "pending"
  BY <1>2, <1>3 DEF IsLocals
<1>5. Rests(j)
  BY <1>2, <1>4 DEF Rests
<1> QED
  BY <1>1, <1>5, QuietStep

LEMMA CrashIsQuiet == ASSUME IInv, RInv, Crash PROVE Quiet
<1>1. UNCHANGED storage
  BY DEF Crash
<1>2. ASSUME NEW i \in Job PROVE Rests(i)
  BY CrashLocals DEF Rests
<1> QED
  BY <1>1, <1>2 DEF Quiet

\* A step makes a record, writes one, removes a prekey, or does none of it.
LEMMA StepKinds ==
  ASSUME IInv, RInv, [Next]_vars
  PROVE  \/ Quiet
         \/ \E j \in Job : (Makes(j) /\ UNCHANGED storage) \/ Writes(j) \/ Removes(j)
<1>1. ASSUME NEW j \in Job, Encrypt(j) \/ Decrypt(j) \/ Join(j) \/ Build(j)
      PROVE  Quiet \/ (Makes(j) /\ UNCHANGED storage)
  <2>1. UNCHANGED storage /\ job[j].pc # "remove"
    BY <1>1 DEF Encrypt, Decrypt, Join, Build, At
  <2>2. Makes(j) \/ Fails(j)
    BY <1>1, MakesKeepsRecords
  <2> QED
    BY <2>1, <2>2, FailsIsQuiet
<1>2. CASE UNCHANGED vars
  BY <1>2 DEF vars, Quiet, Rests
<1> QED
  BY <1>1, <1>2, BeginIsQuiet, LoadIsQuiet, CrashIsQuiet, StoreWrites, RemovePreKeyRemoves DEF Next, Step

LEMMA LastingStep == ASSUME IInv, RInv, [Next]_vars PROVE Lasting
<1>1. ASSUME NEW j \in Job, Call(j) \/ Start(j)
      PROVE  /\ \A i \in Job : i # j => job'[i] = job[i] /\ phase'[i] = phase[i]
             /\ phase[j] \in {"outside", "waiting"} /\ phase'[j] # "outside"
             /\ phase[j] # "outside" => job'[j].request = job[j].request
  <2>1. /\ \A i \in Job : i # j => job'[i] = job[i] /\ phase'[i] = phase[i]
        /\ phase[j] \in {"outside", "waiting"} /\ phase'[j] # "outside"
    BY <1>1 DEF Call, Start, Serial!Submit, Serial!Begin, IInv, Typed, Serial!TypeOK
  <2>2. ASSUME Start(j) PROVE job'[j].request = job[j].request
    <3>1. PICK p : job' = [job EXCEPT ![j].pc = p]
      BY <2>2 DEF Start
    <3>2. IsLocals(job[j]) /\ job'[j] = [job[j] EXCEPT !.pc = p]
      BY <3>1 DEF IInv, Typed
    <3> QED
      BY <3>2 DEF IsLocals
  <2>3. Call(j) => phase[j] = "outside"
    BY DEF Call, Serial!Submit
  <2> QED
    BY <1>1, <2>1, <2>2, <2>3
<1>2. ASSUME NEW j \in Job, Call(j) \/ Start(j) PROVE Lasting
  <2>1. prekeys' \subseteq prekeys /\ clock' = clock
    BY <1>2 DEF Call, Start, storage
  <2> QED
    BY <1>1, <1>2, <2>1 DEF Lasting
<1>3. ASSUME NEW j \in Job, job[j].pc # "idle", \A i \in Job : i # j => job'[i] = job[i] /\ phase'[i] = phase[i],
             job'[j].request = job[j].request, phase'[j] # "outside",
             prekeys' \subseteq prekeys, clock' \in {clock, clock + 1}
      PROVE  Lasting
  <2>1. phase[j] = "active"
    BY <1>3, AtWork
  <2> QED
    BY <1>3, <2>1 DEF Lasting
<1>4. ASSUME NEW j \in Job, NEW how, Settle(j, how), job[j].pc # "idle",
             prekeys' \subseteq prekeys, clock' \in {clock, clock + 1}
      PROVE  Lasting
  <2>1. job'[j].request = job[j].request
    BY <1>4, SettledLocals
  <2>2. phase'[j] = "done" /\ \A i \in Job : i # j => job'[i] = job[i] /\ phase'[i] = phase[i]
    BY <1>4, SettleLocals
  <2> QED
    BY <1>3, <1>4, <2>1, <2>2
<1>5. ASSUME NEW j \in Job, NEW p, NEW l, Goto(j, p, l), IsLocals(l), l.request = job[j].request, job[j].pc # "idle",
             prekeys' \subseteq prekeys, clock' \in {clock, clock + 1}
      PROVE  Lasting
  <2>1. job'[j].request = job[j].request /\ phase' = phase /\ \A i \in Job : i # j => job'[i] = job[i]
    BY <1>5, GotoLocals
  <2>2. phase[j] = "active"
    BY <1>5, AtWork
  <2> QED
    BY <1>3, <1>5, <2>1, <2>2
<1>6. ASSUME NEW j \in Job, Encrypt(j) \/ Decrypt(j) \/ Join(j) \/ Build(j) PROVE Lasting
  <2>1. UNCHANGED storage /\ clock' \in {clock, clock + 1} /\ job[j].pc # "idle"
    BY <1>6 DEF Encrypt, Decrypt, Join, Build, At
  <2>2. CASE Makes(j)
    <3>1. phase[j] = "active"
      BY <2>1, AtWork
    <3> QED
      BY <1>3, <2>1, <2>2, <3>1 DEF Makes, storage
  <2>3. CASE Fails(j)
    BY <1>4, <2>1, <2>3 DEF Fails, storage
  <2> QED
    BY <1>6, <2>2, <2>3, MakesKeepsRecords
<1>7. ASSUME NEW j \in Job, Load(j) \/ LoadPreKey(j) \/ LoadSignedPreKey(j) \/ Store(j) \/ RemovePreKey(j)
      PROVE  Lasting
  <2>1. prekeys' \subseteq prekeys /\ clock' = clock /\ job[j].pc # "idle"
    BY <1>7 DEF Load, LoadPreKey, LoadSignedPreKey, Store, RemovePreKey, At, storage
  <2>2. IsLocals(job[j])
    BY DEF IInv, Typed
  <2>3. CASE \E how : Settle(j, how)
    BY <1>4, <2>1, <2>3
  <2>4. CASE \E p : Goto(j, p, job[j])
    BY <1>5, <2>1, <2>2, <2>4
  <2>5. CASE \E p : Goto(j, p, [job[j] EXCEPT !.loaded = record[AddrOf(j)]])
    <3> DEFINE m == [job[j] EXCEPT !.loaded = record[AddrOf(j)]]
    <3>1. PICK p : Goto(j, p, m)
      BY <2>5
    <3>2. IsLocals(m) /\ m.request = job[j].request
      BY <2>2 DEF IsLocals
    <3> HIDE DEF m
    <3> QED
      BY <1>5, <2>1, <3>1, <3>2
  <2>6. ASSUME NEW k, Goto(j, "join", [job[j] EXCEPT !.signed = k]) PROVE Lasting
    <3> DEFINE m == [job[j] EXCEPT !.signed = k]
    <3>1. Goto(j, "join", m)
      BY <2>6
    <3>2. IsLocals(m) /\ m.request = job[j].request
      BY <2>2 DEF IsLocals
    <3> HIDE DEF m
    <3> QED
      BY <1>5, <2>1, <3>1, <3>2
  <2> QED
    BY <1>7, <2>3, <2>4, <2>5, <2>6 DEF Load, LoadPreKey, LoadSignedPreKey, Store, RemovePreKey
<1>8. CASE Crash
  <2>1. prekeys' = prekeys /\ clock' = clock
    BY <1>8 DEF Crash, storage
  <2>2. ASSUME NEW i \in Job
        PROVE  /\ phase[i] # "outside" => phase'[i] # "outside" /\ job'[i].request = job[i].request
               /\ phase[i] = "done" => phase'[i] = "done" /\ job'[i] = job[i]
    BY <1>8, CrashLocals
  <2> QED
    BY <2>1, <2>2 DEF Lasting
<1>9. CASE UNCHANGED vars
  BY <1>9 DEF vars, storage, Lasting
<1> QED
  BY <1>2, <1>6, <1>7, <1>8, <1>9 DEF Next, Step
-----------------------------------------------------------------------------
(* The records there are *)

\* The record of an address, and those its jobs are about to write.
Versions(a) == {record[a]} \cup {job[i].next : i \in {k \in Job : At(k, "store") /\ AddrOf(k) = a}}

LEMMA VersionIsRecord ==
  ASSUME IInv, RInv, NEW a \in Addr, NEW r \in Versions(a), NEW b \in DOMAIN r
  PROVE  IsRecord(r, clock) /\ IsEntry(r[b], clock) /\ clock \in Nat
<1>1. RecordOK(r, clock)
  BY DEF Versions, RInv, StoredOK, RecordOK, LocalsAreOK, LocalsOK, At
<1>2. IsRecord(r, clock)
  BY <1>1, NoEntries DEF RecordOK
<1> QED
  BY <1>2 DEF IsRecord, RInv, Bounded

LEMMA VersionsLater ==
  ASSUME IInv, RInv, [Next]_vars, NEW a \in Addr, NEW s \in (Versions(a))'
  PROVE  \/ s \in Versions(a)
         \/ \E j \in Job : Makes(j) /\ UNCHANGED storage /\ AddrOf(j) = a /\ s = job'[j].next
<1>1. CASE s = record'[a]
  <2>1. CASE record'[a] = record[a]
    BY <1>1, <2>1 DEF Versions
  <2>2. CASE record'[a] # record[a]
    <3>1. PICK j \in Job : Writes(j)
      BY <2>2, StepKinds DEF Quiet, Removes, storage
    <3>2. AddrOf(j) = a /\ s = job[j].next /\ At(j, "store")
      BY <1>1, <2>2, <3>1 DEF Writes, At
    <3> QED
      BY <3>2 DEF Versions
  <2> QED
    BY <2>1, <2>2
<1>2. CASE \E i \in Job : job'[i].pc = "store" /\ job'[i].request.addr = a /\ s = job'[i].next
  <2>1. PICK i \in Job : job'[i].pc = "store" /\ job'[i].request.addr = a /\ s = job'[i].next
    BY <1>2
  <2>2. CASE job'[i] = job[i]
    BY <2>1, <2>2 DEF Versions, At, AddrOf
  <2>3. CASE job'[i] # job[i]
    <3>1. Makes(i) /\ UNCHANGED storage
      BY <2>1, <2>3, StepKinds DEF Quiet, Rests, Makes, Writes, Removes
    <3> QED
      BY <2>1, <3>1 DEF Makes, AddrOf
  <2> QED
    BY <2>2, <2>3
<1> QED
  BY <1>1, <1>2 DEF Versions, At, AddrOf

\* Every entry is what has become of an entry of the same address, or was built
\* just now.
LEMMA EntriesLater ==
  ASSUME IInv, RInv, [Next]_vars, NEW a \in Addr, NEW s \in (Versions(a))', NEW b \in DOMAIN s
  PROVE  \/ \E r \in Versions(a) : b \in DOMAIN r /\ Grown(s[b], r[b])
         \/ /\ clock' = clock + 1 /\ s[b].inc = clock + 1
            /\ \E j \in Job : /\ AddrOf(j) = a /\ job'[j].pc = "store" /\ job'[j].next = s
                              /\ \/ b \in Nat
                                 \/ At(j, "join") /\ b = FrameOf(j).base
<1>1. CASE s \in Versions(a)
  <2>1. s[b].sent \in Nat
    BY <1>1, VersionIsRecord DEF IsEntry
  <2> QED
    BY <1>1, <2>1 DEF Grown
<1>2. CASE \E j \in Job : Makes(j) /\ UNCHANGED storage /\ AddrOf(j) = a /\ s = job'[j].next
  <2>1. PICK j \in Job : Makes(j) /\ UNCHANGED storage /\ AddrOf(j) = a /\ s = job'[j].next
    BY <1>2
  <2>2. CASE job[j].pc # "build" /\ b \in DOMAIN job[j].loaded /\ Grown(s[b], job[j].loaded[b])
    <3>1. job[j].loaded = record[a]
      BY <2>1, <2>2, AtAwait DEF Makes
    <3> QED
      BY <2>2, <3>1 DEF Versions
  <2>3. CASE /\ clock' = clock + 1 /\ s[b].inc = clock + 1
             /\ \/ job[j].pc = "join" /\ b = job[j].request.frame.base
                \/ job[j].pc = "build" /\ b \in Nat
    BY <2>1, <2>3 DEF Makes, At, FrameOf
  <2> QED
    BY <2>1, <2>2, <2>3 DEF Makes
<1> QED
  BY <1>1, <1>2, VersionsLater
-----------------------------------------------------------------------------
(* Whose entries there are, and who has had an answer *)

\* No entry is found at two addresses.
Apart ==
  \A a, d \in Addr : \A r \in Versions(a), s \in Versions(d) :
    \A b \in DOMAIN r, c \in DOMAIN s : r[b].inc = s[c].inc => a = d

\* What a job wrote is there when it removes its prekey.
Stored == \A j \in Job : At(j, "remove") => record[AddrOf(j)] = job[j].next

LEMMA EntryOrNew ==
  ASSUME IInv, RInv, [Next]_vars, NEW a \in Addr, NEW s \in (Versions(a))', NEW b \in DOMAIN s
  PROVE  \/ \E r \in Versions(a) : \E c \in DOMAIN r : r[c].inc = s[b].inc /\ s[b].inc \in 1..clock
         \/ clock' = clock + 1 /\ s[b].inc = clock + 1 /\ \E j \in Job : Makes(j) /\ AddrOf(j) = a
<1>1. CASE \E r \in Versions(a) : b \in DOMAIN r /\ Grown(s[b], r[b])
  <2>1. PICK r \in Versions(a) : b \in DOMAIN r /\ Grown(s[b], r[b])
    BY <1>1
  <2>2. r[b].inc = s[b].inc /\ r[b].inc \in 1..clock
    BY <2>1, VersionIsRecord DEF IsEntry, Grown
  <2> QED
    BY <2>1, <2>2
<1>2. CASE clock' = clock + 1 /\ s[b].inc = clock + 1
  <2>1. CASE s \in Versions(a)
    <3>1. s[b].inc \in 1..clock
      BY <2>1, VersionIsRecord DEF IsEntry
    <3> QED
      BY <2>1, <3>1
  <2>2. CASE s \notin Versions(a)
    BY <1>2, <2>2, VersionsLater
  <2> QED
    BY <2>1, <2>2
<1> QED
  BY <1>1, <1>2, EntriesLater

LEMMA NextApart == ASSUME IInv, RInv, Apart, [Next]_vars PROVE Apart'
<1> SUFFICES ASSUME NEW a \in Addr, NEW d \in Addr, NEW r \in (Versions(a))', NEW s \in (Versions(d))',
                    NEW b \in DOMAIN r, NEW c \in DOMAIN s, r[b].inc = s[c].inc
             PROVE  a = d
  BY DEF Apart
<1> DEFINE Older(e, x) == \E u \in Versions(x) : \E y \in DOMAIN u : u[y].inc = e /\ e \in 1..clock
           Newer(e, x) == clock' = clock + 1 /\ e = clock + 1 /\ \E j \in Job : Makes(j) /\ AddrOf(j) = x
<1>1. (Older(r[b].inc, a) \/ Newer(r[b].inc, a)) /\ (Older(s[c].inc, d) \/ Newer(s[c].inc, d))
  BY EntryOrNew
<1>2. clock \in Nat
  BY DEF RInv, Bounded
<1>3. CASE Older(r[b].inc, a) /\ Older(s[c].inc, d)
  BY <1>3 DEF Apart
<1>4. CASE Newer(r[b].inc, a) /\ Newer(s[c].inc, d)
  <2>1. PICK j \in Job : Makes(j) /\ AddrOf(j) = a
    BY <1>4
  <2>2. PICK k \in Job : Makes(k) /\ AddrOf(k) = d
    BY <1>4
  <2>3. j = k
    BY <2>1, <2>2 DEF Makes
  <2> QED
    BY <2>1, <2>2, <2>3
<1>5. ~(Older(r[b].inc, a) /\ Newer(s[c].inc, d)) /\ ~(Newer(r[b].inc, a) /\ Older(s[c].inc, d))
  BY <1>2
<1> HIDE DEF Older, Newer
<1> QED
  BY <1>1, <1>3, <1>4, <1>5

LEMMA NextStored == ASSUME IInv, RInv, Stored, [Next]_vars PROVE Stored'
<1> SUFFICES ASSUME NEW j \in Job, job'[j].pc = "remove" PROVE record'[(AddrOf(j))'] = job'[j].next
  BY DEF Stored, At
<1>1. CASE Quiet \/ (\E i \in Job : Removes(i) \/ (Makes(i) /\ UNCHANGED storage))
  <2>1. job'[j] = job[j] /\ record' = record
    BY <1>1 DEF Quiet, Rests, Makes, Removes, storage
  <2> QED
    BY <2>1 DEF Stored, At, AddrOf
<1>2. CASE \E i \in Job : Writes(i)
  <2>1. PICK i \in Job : Writes(i)
    BY <1>2
  <2>2. CASE i = j
    BY <2>1, <2>2 DEF Writes, AddrOf
  <2>3. CASE i # j
    <3>1. job'[j] = job[j] /\ job[j].pc = "remove" /\ job[i].pc = "store"
      BY <2>1, <2>3 DEF Writes
    <3>2. phase[i] = "active" /\ phase[j] = "active" /\ AddrOf(j) \in Addr
      BY <3>1, AtAwait
    <3>3. AddrOf(i) # AddrOf(j)
      BY <2>3, <3>2, OneActive
    <3>4. record'[AddrOf(j)] = record[AddrOf(j)]
      BY <2>1, <3>2, <3>3 DEF Writes
    <3> QED
      BY <3>1, <3>4 DEF Stored, At, AddrOf
  <2> QED
    BY <2>2, <2>3
<1> QED
  BY <1>1, <1>2, StepKinds

\* The call j answers its caller.
Succeeds(j) ==
  /\ job[j].pc \in {"store", "remove"} /\ job'[j].outcome = "ok"
  /\ job'[j].pc = "idle" /\ ~job'[j].built
  /\ job'[j].request = job[j].request /\ job'[j].reply = job[j].reply
  /\ \A i \in Job : i # j => job'[i] = job[i]
  /\ \A a \in Addr : a # AddrOf(j) => record'[a] = record[a]
  /\ record'[AddrOf(j)] = job[j].next
  /\ clock' = clock
  /\ job[j].pc = "store" => ~ConsumesPreKey(j)
  /\ job[j].pc = "remove" => record' = record /\ FrameOf(j).preKey \notin prekeys'

LEMMA SuccessLater ==
  ASSUME IInv, RInv, Stored, [Next]_vars, NEW j \in Job, job'[j].outcome = "ok"
  PROVE  job'[j] = job[j] \/ Succeeds(j)
<1>1. CASE Quiet \/ (\E i \in Job : Makes(i) /\ UNCHANGED storage)
  <2>1. CASE \E i \in Job : Makes(i) /\ i = j
    <3>1. job'[j].outcome = "pending"
      BY <2>1 DEF Makes, LocalsOK
    <3> QED
      BY <3>1
  <2> QED
    BY <1>1, <2>1 DEF Quiet, Rests, Makes
<1>2. CASE \E i \in Job : i # j /\ (Writes(i) \/ Removes(i))
  BY <1>2 DEF Writes, Removes
<1>3. CASE Writes(j)
  <2>1. job[j].outcome = "pending"
    BY <1>3, AtAwait DEF Writes, LocalsOK
  <2> QED
    BY <1>3, <2>1 DEF Writes, Succeeds
<1>4. CASE Removes(j)
  <2>1. record[AddrOf(j)] = job[j].next
    BY <1>4 DEF Removes, Stored, At
  <2> QED
    BY <1>4, <2>1 DEF Removes, Succeeds
<1> QED
  BY <1>1, <1>2, <1>3, <1>4, StepKinds

\* Then no other job of its address is at work,
LEMMA SucceedsAlone ==
  ASSUME IInv, RInv, NEW j \in Job, Succeeds(j), NEW i \in Job,
         job'[i].pc # "idle" \/ job'[i].built
  PROVE  AddrOf(i) # AddrOf(j)
<1>1. i # j /\ job'[i] = job[i]
  BY DEF Succeeds
<1>2. job[i].pc # "idle" /\ job[j].pc # "idle"
  BY <1>1 DEF RInv, LocalsAreOK, LocalsOK, Succeeds
<1> QED
  BY <1>1, <1>2, AtWork, OneActive

\* and the record it wrote is the only one there is.
LEMMA SoleVersion ==
  ASSUME IInv, RInv, NEW j \in Job, Succeeds(j),
         NEW a \in Addr, a = AddrOf(j), NEW s \in (Versions(a))'
  PROVE  s = job[j].next
<1>1. ASSUME NEW i \in Job, job'[i].pc = "store", job'[i].request.addr = a PROVE FALSE
  <2>1. AddrOf(i) # AddrOf(j)
    BY <1>1, SucceedsAlone
  <2>2. job'[i] = job[i]
    BY <1>1 DEF Succeeds
  <2> QED
    BY <1>1, <2>1, <2>2 DEF AddrOf
<1>2. record'[a] = job[j].next
  BY DEF Succeeds
<1> QED
  BY <1>1, <1>2 DEF Versions, At, AddrOf

\* What others keep while one job answers.
LEMMA OtherVersions ==
  ASSUME NEW j \in Job, Succeeds(j), NEW a \in Addr, a # AddrOf(j), NEW s \in (Versions(a))'
  PROVE  s \in Versions(a)
BY DEF Versions, Succeeds, At, AddrOf
-----------------------------------------------------------------------------
(* Counters and messages are used once *)

\* The entry that counted q, or read it, says so.
Remembers(r, op, q) ==
  \A b \in DOMAIN r : r[b].inc = q.inc =>
    IF op = "encrypt" THEN r[b].sent > q.n ELSE q.n \in r[b].got

\* What was answered is not forgotten: not by any record that is stored, nor by
\* any that is about to be.
Remembered ==
  \A i \in Succeeded({"encrypt", "whisper"}) :
    /\ job[i].reply.inc \in 1..clock /\ job[i].reply.n \in Nat
    /\ \A a \in Addr : \A r \in Versions(a) : Remembers(r, job[i].request.op, job[i].reply)

\* A call that decrypted returns the frame it was given, and it was authentic.
Replied ==
  \A i \in Succeeded({"whisper", "pkmsg"}) : job[i].reply = FrameOf(i) /\ FrameOf(i).authentic

LEMMA SucceededIsAsked ==
  ASSUME IInv, RInv, NEW j \in Job, job[j].outcome # "pending"
  PROVE  job[j].request \in Requests /\ phase[j] = "done"
<1>1. phase[j] = "done"
  BY SettledIsDone
<1> QED
  BY <1>1 DEF IInv, Asked

\* What the job that answers has done.
LEMMA SucceedsDid ==
  ASSUME IInv, RInv, NEW j \in Job, Succeeds(j)
  PROVE  /\ job[j].request \in Requests /\ AddrOf(j) \in Addr /\ clock \in Nat
         /\ IsRecord(job[j].next, clock) /\ Did(job[j])
         /\ job[j].pc = "remove" => job[j].built
         /\ job[j].built => job[j].request.op = "pkmsg"
         /\ job[j].pc = "store" /\ job[j].request.op # "init" => job[j].loaded = record[AddrOf(j)]
         /\ phase[j] = "active"
<1>1. job[j].pc \in {"store", "remove"}
  BY DEF Succeeds
<1>2. /\ job[j].request \in Requests /\ AddrOf(j) \in Addr /\ clock \in Nat
      /\ LocalsOK(job[j], clock) /\ phase[j] = "active"
  BY <1>1, AtAwait
<1>3. job[j].pc = "store" /\ job[j].request.op # "init" => job[j].loaded = record[AddrOf(j)]
  BY DEF IInv, Fresh, FreshLocals
<1> QED
  BY <1>1, <1>2, <1>3 DEF LocalsOK

LEMMA NextReplied ==
  ASSUME IInv, RInv, Stored, Replied, [Next]_vars
  PROVE  Replied'
<1> SUFFICES ASSUME NEW i \in Job, job'[i].outcome = "ok", job'[i].request.op \in {"whisper", "pkmsg"}
             PROVE  job'[i].reply = job'[i].request.frame /\ job'[i].request.frame.authentic
  BY DEF Replied, Succeeded, FrameOf
<1>1. CASE job'[i] = job[i]
  BY <1>1 DEF Replied, Succeeded, FrameOf
<1>2. CASE Succeeds(i)
  <2>1. Did(job[i]) /\ job'[i].request = job[i].request /\ job'[i].reply = job[i].reply
    BY <1>2, SucceedsDid DEF Succeeds
  <2> QED
    BY <2>1 DEF Did, ReadWhisper, ReadPkmsg
<1> QED
  BY <1>1, <1>2, SuccessLater

\* What is remembered stays so as the records grow.
LEMMA RemembersLater ==
  ASSUME IInv, RInv, [Next]_vars, NEW q, q.inc \in 1..clock, q.n \in Nat, NEW op,
         NEW a \in Addr, \A r \in Versions(a) : Remembers(r, op, q), NEW s \in (Versions(a))'
  PROVE  Remembers(s, op, q)
<1> SUFFICES ASSUME NEW b \in DOMAIN s, s[b].inc = q.inc
             PROVE  IF op = "encrypt" THEN s[b].sent > q.n ELSE q.n \in s[b].got
  BY DEF Remembers
<1>1. clock \in Nat
  BY DEF RInv, Bounded
<1>2. PICK r \in Versions(a) : b \in DOMAIN r /\ Grown(s[b], r[b])
  BY <1>1, EntriesLater
<1>3. r[b].inc = q.inc /\ s[b].sent >= r[b].sent /\ r[b].got \subseteq s[b].got /\ r[b].sent \in Nat
  BY <1>2, VersionIsRecord DEF Grown, IsEntry
<1>4. IF op = "encrypt" THEN r[b].sent > q.n ELSE q.n \in r[b].got
  BY <1>2, <1>3 DEF Remembers
<1>5. s[b].sent \in Nat
  <2>1. CASE s \in Versions(a)
    BY <2>1, VersionIsRecord DEF IsEntry
  <2>2. CASE \E j \in Job : Makes(j) /\ s = job'[j].next
    BY <2>2 DEF Makes, LocalsOK, IsRecord, IsEntry
  <2> QED
    BY <2>1, <2>2, VersionsLater
<1> QED
  BY <1>3, <1>4, <1>5

\* What the job that answers wrote remembers the answer; no other record can.
LEMMA AnswerRemembered ==
  ASSUME IInv, RInv, Apart, NEW j \in Job, Succeeds(j), job[j].request.op \in {"encrypt", "whisper"},
         NEW q, q = job[j].reply
  PROVE  /\ q.inc \in 1..clock /\ q.n \in Nat
         /\ \A a \in Addr : \A s \in (Versions(a))' : Remembers(s, job[j].request.op, q)
<1> DEFINE n == job[j].next
           op == job[j].request.op
           A == AddrOf(j)
<1>1. /\ job[j].pc = "store" /\ job[j].loaded = record[A] /\ A \in Addr /\ clock \in Nat
      /\ IsRecord(n, clock) /\ Did(job[j]) /\ job[j].request \in Requests
  BY SucceedsDid DEF Succeeds
<1>2. record[A] \in Versions(A) /\ n \in Versions(A)
  BY <1>1 DEF Versions, At
<1>3. PICK b \in DOMAIN n : /\ n[b].inc = q.inc /\ q.n \in Nat
                            /\ IF op = "encrypt" THEN n[b].sent > q.n ELSE q.n \in n[b].got
  <2>1. CASE op = "encrypt"
    <3>1. PICK b \in DOMAIN n :
            /\ b \in DOMAIN record[A]
            /\ q = [inc |-> record[A][b].inc, n |-> record[A][b].sent]
            /\ n[b].inc = record[A][b].inc /\ n[b].sent > record[A][b].sent
      BY <1>1, <2>1 DEF Did, Sent
    <3>2. record[A][b].sent \in Nat
      BY <1>1, <1>2, <3>1, VersionIsRecord DEF IsEntry
    <3>3. q.inc = record[A][b].inc /\ q.n = record[A][b].sent
      BY <3>1
    <3> QED
      BY <2>1, <3>1, <3>2, <3>3
  <2>2. CASE op = "whisper"
    <3>1. q = job[j].request.frame /\ q.n \in Nat
      BY <1>1, <2>2, RequestKinds DEF Did, ReadWhisper
    <3>2. PICK b \in DOMAIN n : n[b].inc = q.inc /\ q.n \in n[b].got
      BY <1>1, <2>2 DEF Did, ReadWhisper
    <3> QED
      BY <2>2, <3>1, <3>2
  <2> QED
    BY <2>1, <2>2
<1>4. n[b].inc \in 1..clock
  BY <1>1, <1>2, VersionIsRecord DEF IsEntry
<1>5. ASSUME NEW a \in Addr, NEW s \in (Versions(a))' PROVE Remembers(s, op, q)
  <2>1. CASE a = A
    <3>1. s = n
      BY <1>5, <2>1, SoleVersion
    <3>2. \A c \in DOMAIN n : n[c].inc = q.inc => c = b
      BY <1>1, <1>3 DEF IsRecord
    <3> QED
      BY <1>3, <3>1, <3>2 DEF Remembers
  <2>2. CASE a # A
    <3>1. s \in Versions(a)
      BY <1>5, <2>2, OtherVersions
    <3>2. \A c \in DOMAIN s : s[c].inc # n[b].inc
      BY <1>1, <1>2, <2>2, <3>1 DEF Apart
    <3> QED
      BY <1>3, <3>2 DEF Remembers
  <2> QED
    BY <2>1, <2>2
<1> QED
  BY <1>3, <1>4, <1>5

LEMMA NextRemembered ==
  ASSUME IInv, RInv, Apart, Stored, Remembered, [Next]_vars
  PROVE  Remembered'
<1> SUFFICES ASSUME NEW i \in Job, job'[i].outcome = "ok", job'[i].request.op \in {"encrypt", "whisper"}
             PROVE  /\ job'[i].reply.inc \in 1..clock' /\ job'[i].reply.n \in Nat
                    /\ \A a \in Addr : \A s \in (Versions(a))' :
                         Remembers(s, job'[i].request.op, job'[i].reply)
  BY DEF Remembered, Succeeded, Remembers
<1>1. clock \in Nat /\ clock' \in {clock, clock + 1}
  BY LastingStep DEF RInv, Bounded, Lasting
<1>2. CASE job'[i] = job[i]
  <2>1. /\ job[i].reply.inc \in 1..clock /\ job[i].reply.n \in Nat
        /\ \A a \in Addr : \A r \in Versions(a) : Remembers(r, job[i].request.op, job[i].reply)
    BY <1>2 DEF Remembered, Succeeded
  <2> QED
    BY <1>1, <1>2, <2>1, RemembersLater
<1>3. CASE Succeeds(i)
  <2>1. clock' = clock /\ job'[i].request = job[i].request /\ job'[i].reply = job[i].reply
    BY <1>3 DEF Succeeds
  <2> QED
    BY <1>3, <2>1, AnswerRemembered
<1> QED
  BY <1>2, <1>3, SuccessLater

\* No earlier answer is the one that is given now.
LEMMA AnswerIsNew ==
  ASSUME IInv, RInv, Remembered, NEW j \in Job, Succeeds(j), job[j].request.op \in {"encrypt", "whisper"},
         NEW i \in Succeeded({"encrypt", "whisper"}), job[i].request.op = job[j].request.op
  PROVE  job[i].reply # job[j].reply
<1> SUFFICES ASSUME job[i].reply = job[j].reply PROVE FALSE
  OBVIOUS
<1> DEFINE r == record[AddrOf(j)]
           q == job[j].reply
<1>1. /\ job[j].pc = "store" /\ job[j].loaded = r /\ AddrOf(j) \in Addr
      /\ Did(job[j]) /\ job[j].request \in Requests
  BY SucceedsDid DEF Succeeds
<1>2. r \in Versions(AddrOf(j))
  BY DEF Versions
<1>3. Remembers(r, job[j].request.op, q)
  BY <1>1, <1>2 DEF Remembered
<1>4. CASE job[j].request.op = "encrypt"
  <2>1. PICK b \in DOMAIN r : q = [inc |-> r[b].inc, n |-> r[b].sent]
    BY <1>1, <1>4 DEF Did, Sent
  <2>2. q.inc = r[b].inc /\ q.n = r[b].sent
    BY <2>1
  <2>3. r[b].sent > q.n /\ r[b].sent \in Nat
    BY <1>1, <1>2, <1>3, <1>4, <2>2, VersionIsRecord DEF Remembers, IsEntry
  <2> QED
    BY <2>2, <2>3
<1>5. CASE job[j].request.op = "whisper"
  BY <1>1, <1>3, <1>5 DEF Did, ReadWhisper, Remembers
<1> QED
  BY <1>4, <1>5

LEMMA NextNoCounterReuse ==
  ASSUME IInv, RInv, Stored, Remembered, NoCounterReuse, [Next]_vars
  PROVE  NoCounterReuse'
<1> SUFFICES ASSUME NEW i \in Job, NEW j \in Job, i # j,
                    job'[i].outcome = "ok", job'[i].request.op = "encrypt",
                    job'[j].outcome = "ok", job'[j].request.op = "encrypt"
             PROVE  job'[i].reply # job'[j].reply
  BY DEF NoCounterReuse, Succeeded
<1>1. CASE job'[i] = job[i] /\ job'[j] = job[j]
  BY <1>1 DEF NoCounterReuse, Succeeded
<1>2. ASSUME NEW k \in {i, j}, Succeeds(k), NEW l \in {i, j}, l # k
      PROVE  job'[k].reply # job'[l].reply
  <2>1. job'[l] = job[l] /\ l \in Succeeded({"encrypt", "whisper"}) /\ job[l].request.op = "encrypt"
    BY <1>2 DEF Succeeds, Succeeded
  <2>2. job[k].request.op = "encrypt" /\ job'[k].reply = job[k].reply
    BY <1>2 DEF Succeeds
  <2> QED
    BY <1>2, <2>1, <2>2, AnswerIsNew
<1> QED
  BY <1>1, <1>2, SuccessLater
-----------------------------------------------------------------------------
(* One-time prekeys *)

\* What was called about a prekey stays called, and a failure stays told.
LEMMA NamesLater ==
  ASSUME IInv, RInv, [Next]_vars, NEW k
  PROVE  /\ \A j \in Job : Names(j, k) => (Names(j, k))'
         /\ Troubled(k) => (Troubled(k))'
<1>1. Lasting
  BY LastingStep
<1>2. ASSUME NEW j \in Job, Names(j, k) PROVE (Names(j, k))'
  BY <1>1, <1>2 DEF Names, FrameOf, Lasting
<1>3. ASSUME NEW j \in Job, Names(j, k), job[j].outcome \in {"storage", "lost"} PROVE (Troubled(k))'
  <2>1. phase[j] = "done"
    BY <1>3, SettledIsDone
  <2>2. job'[j] = job[j]
    BY <1>1, <2>1 DEF Lasting
  <2> QED
    BY <1>2, <1>3, <2>2 DEF Troubled
<1> QED
  BY <1>2, <1>3 DEF Troubled

\* The job that writes a record with a new entry of a frame's base key built it
\* from a frame that names the same prekey.
LEMMA NewEntryIsBuilt ==
  ASSUME IInv, RInv, NEW j \in Job, job[j].pc = "store",
         NEW f \in Frames, f.kind = "pkmsg", f.authentic,
         f.base \in DOMAIN job[j].next, f.base \notin DOMAIN record[AddrOf(j)]
  PROVE  /\ job[j].built /\ FrameOf(j) \in Frames /\ FrameOf(j).preKey = f.preKey
         /\ phase[j] = "active"
<1>1. /\ job[j].request \in Requests /\ Did(job[j]) /\ phase[j] = "active"
      /\ job[j].request.op # "init" => job[j].loaded = record[AddrOf(j)]
  BY AtAwait DEF LocalsOK, IInv, Fresh, FreshLocals
<1>2. f.base \notin Nat
  BY FramesAssumption
<1>3. CASE job[j].request.op # "pkmsg"
  BY <1>1, <1>2, <1>3, RequestKinds DEF Did, Sent, ReadWhisper
<1>4. CASE job[j].request.op = "pkmsg"
  <2> DEFINE g == FrameOf(j)
  <2>1. /\ f.base = g.base /\ g.authentic /\ job[j].built
    BY <1>1, <1>4 DEF Did, ReadPkmsg, FrameOf
  <2>2. g \in Frames /\ g.kind = "pkmsg"
    BY <1>1, <1>4, RequestKinds DEF FrameOf
  <2> QED
    BY <1>1, <2>1, <2>2, FramesAssumption
<1> QED
  BY <1>3, <1>4

\* A job about to remove a prekey removes it, or its caller is told.
LEMMA RemoverLater ==
  ASSUME IInv, RInv, [Next]_vars, NEW j \in Job, NEW k \in prekeys', Names(j, k), At(j, "remove")
  PROVE  (Troubled(k))' \/ ((Names(j, k))' /\ (At(j, "remove"))' /\ (AddrOf(j))' = AddrOf(j))
<1>1. (Names(j, k))'
  BY NamesLater
<1>2. CASE job'[j] = job[j]
  BY <1>1, <1>2 DEF At, AddrOf
<1>3. CASE job'[j].outcome \in {"storage", "lost"}
  BY <1>1, <1>3 DEF Troubled
<1>4. CASE Removes(j) /\ k \notin prekeys'
  BY <1>4
<1>5. CASE Quiet
  BY <1>2, <1>3, <1>5 DEF Quiet, Rests, At
<1>6. CASE \E i \in Job : Makes(i) \/ Writes(i) \/ Removes(i)
  BY <1>2, <1>3, <1>4, <1>6 DEF Makes, Writes, Removes, Names, At
<1> QED
  BY <1>5, <1>6, StepKinds

LEMMA NextPreKeyAccounted ==
  ASSUME HasRemovePreKey, IInv, RInv, PreKeyAccounted, [Next]_vars
  PROVE  PreKeyAccounted'
<1> SUFFICES ASSUME NEW a \in Addr, NEW f \in Frames, f.kind = "pkmsg", f.authentic,
                    f.base \in DOMAIN record'[a], f.preKey \in prekeys'
             PROVE  \/ (Troubled(f.preKey))'
                    \/ \E j \in Job : (Names(j, f.preKey))' /\ (AddrOf(j))' = a /\ (At(j, "remove"))'
  BY DEF PreKeyAccounted
<1>1. f.preKey \in prekeys /\ f.preKey # None
  BY LastingStep, CipherAssumption DEF Lasting, RInv, Bounded
<1>2. CASE f.base \in DOMAIN record[a]
  <2>1. \/ Troubled(f.preKey)
        \/ \E j \in Job : Names(j, f.preKey) /\ AddrOf(j) = a /\ At(j, "remove")
    BY <1>1, <1>2 DEF PreKeyAccounted
  <2>2. Troubled(f.preKey) => (Troubled(f.preKey))'
    BY NamesLater
  <2> QED
    BY <2>1, <2>2, RemoverLater
<1>3. CASE f.base \notin DOMAIN record[a]
  <2>1. PICK j \in Job : Writes(j)
    BY <1>3, StepKinds DEF Quiet, Removes, storage
  <2>2. AddrOf(j) = a /\ record'[a] = job[j].next /\ job[j].pc = "store"
    BY <1>3, <2>1 DEF Writes
  <2>3. /\ job[j].built /\ FrameOf(j) \in Frames /\ FrameOf(j).preKey = f.preKey
        /\ phase[j] = "active"
    BY <1>3, <2>2, NewEntryIsBuilt
  <2>4. Names(j, f.preKey) /\ ConsumesPreKey(j)
    BY <1>1, <2>3, FramesAssumption DEF Names, ConsumesPreKey
  <2>5. (Names(j, f.preKey))'
    BY <2>4, NamesLater
  <2>6. CASE job'[j].outcome = "storage"
    BY <2>5, <2>6 DEF Troubled
  <2>7. CASE job'[j].pc = "remove"
    BY <2>1, <2>2, <2>5, <2>7 DEF Writes, At, AddrOf
  <2> QED
    BY <2>1, <2>4, <2>6, <2>7 DEF Writes
<1> QED
  BY <1>2, <1>3
-----------------------------------------------------------------------------
(* Messages that build a session are delivered once *)

\* The frame q of a, once delivered, cannot be again: its prekey is gone, every
\* record of a that has its session remembers it, and no call of a is building
\* a session on that prekey.
Sealed(a, q) ==
  /\ q.preKey \notin prekeys
  /\ \A r \in Versions(a) : q.base \in DOMAIN r => q.n \in r[q.base].got
  /\ \A j \in Job : AddrOf(j) = a /\ (job[j].pc \in {"signed", "join"} \/ job[j].built) => FrameOf(j).preKey # q.preKey

Joined ==
  \A i \in Succeeded({"pkmsg"}) :
    job[i].reply.preKey # None /\ ~Troubled(job[i].reply.preKey) => Sealed(AddrOf(i), job[i].reply)

LEMMA SealedLater ==
  ASSUME IInv, RInv, [Next]_vars, NEW a \in Addr,
         NEW q \in Frames, q.kind = "pkmsg", q.authentic, q.preKey # None, Sealed(a, q)
  PROVE  (Sealed(a, q))'
<1>1. Lasting
  BY LastingStep
<1>2. q.preKey \notin prekeys'
  BY <1>1 DEF Sealed, Lasting
<1>3. ASSUME NEW j \in Job, job'[j].request.addr = a, job'[j].pc \in {"signed", "join"} \/ job'[j].built
      PROVE  job'[j].request.frame.preKey # q.preKey
  <2>1. CASE job'[j] = job[j]
    BY <1>3, <2>1 DEF Sealed, At, AddrOf, FrameOf
  <2>2. CASE job'[j].pc \in {"signed", "join"} /\ job'[j].request.frame.preKey \in prekeys \cup {None}
    BY <2>2 DEF Sealed
  <2>3. CASE /\ job[j].pc \in {"signed", "join"} \/ job[j].built
             /\ job'[j].request = job[j].request
    BY <1>3, <2>3 DEF Sealed, At, AddrOf, FrameOf
  <2>4. CASE Quiet
    BY <1>3, <2>1, <2>2, <2>3, <2>4 DEF Quiet, Rests
  <2>5. CASE \E i \in Job : Makes(i) \/ Writes(i) \/ Removes(i)
    BY <1>3, <2>1, <2>3, <2>5 DEF Makes, Writes, Removes, ConsumesPreKey
  <2> QED
    BY <2>4, <2>5, StepKinds
<1>4. ASSUME NEW s \in (Versions(a))', q.base \in DOMAIN s PROVE q.n \in s[q.base].got
  <2>1. CASE \E r \in Versions(a) : q.base \in DOMAIN r /\ Grown(s[q.base], r[q.base])
    BY <2>1 DEF Sealed, Grown
  <2>2. CASE \E j \in Job : /\ AddrOf(j) = a /\ job'[j].pc = "store" /\ job'[j].next = s
                            /\ \/ q.base \in Nat
                               \/ At(j, "join") /\ q.base = FrameOf(j).base
    <3>1. PICK j \in Job : /\ AddrOf(j) = a /\ job'[j].pc = "store" /\ job'[j].next = s
                           /\ q.base \in Nat \/ (At(j, "join") /\ q.base = FrameOf(j).base)
      BY <2>2
    <3>2. At(j, "join") /\ q.base = FrameOf(j).base
      BY <3>1, FramesAssumption
    <3>3. FrameOf(j).preKey # q.preKey
      BY <3>1, <3>2 DEF Sealed, At
    <3>4. job[j].request \in Requests /\ job[j].request.op = "pkmsg" /\ Makes(j)
      <4>1. job[j].request \in Requests /\ job[j].request.op = "pkmsg"
        BY <3>2, AtAwait DEF At, LocalsOK
      <4>2. job'[j] # job[j] /\ job'[j].pc = "store"
        BY <3>1, <3>2 DEF At
      <4>3. Makes(j)
        BY <4>2, StepKinds DEF Quiet, Rests, Makes, Writes, Removes
      <4> QED
        BY <4>1, <4>3
    <3>5. FrameOf(j).authentic /\ FrameOf(j) \in Frames /\ FrameOf(j).kind = "pkmsg"
      <4>1. job'[j].request = job[j].request /\ LocalsOK(job'[j], clock')
        BY <3>4 DEF Makes
      <4>2. ReadPkmsg(job'[j])
        BY <3>1, <3>4, <4>1 DEF LocalsOK, Did
      <4> QED
        BY <3>4, <4>1, <4>2, RequestKinds DEF ReadPkmsg, FrameOf
    <3> QED
      BY <3>2, <3>3, <3>5, FramesAssumption
  <2> QED
    BY <1>4, <2>1, <2>2, EntriesLater
<1> QED
  BY <1>2, <1>3, <1>4 DEF Sealed, At, AddrOf, FrameOf

\* The frame that is delivered now,
LEMMA AnswerIsFrame ==
  ASSUME IInv, RInv, NEW j \in Job, Succeeds(j), job[j].request.op = "pkmsg",
         NEW q, q = job[j].reply
  PROVE  /\ q \in Frames /\ q.kind = "pkmsg" /\ q.authentic /\ q = FrameOf(j)
         /\ q.base \in DOMAIN job[j].next /\ q.n \in job[j].next[q.base].got
<1>1. job[j].request \in Requests /\ Did(job[j])
  BY SucceedsDid
<1> QED
  BY <1>1, RequestKinds DEF Did, ReadPkmsg, FrameOf

\* is sealed,
LEMMA AnswerSealed ==
  ASSUME HasRemovePreKey, IInv, RInv, PreKeyAccounted, [Next]_vars,
         NEW j \in Job, Succeeds(j), job[j].request.op = "pkmsg",
         NEW q, q = job[j].reply, q.preKey # None, ~Troubled(q.preKey), NEW a \in Addr, a = AddrOf(j)
  PROVE  (Sealed(a, q))'
<1>1. /\ q \in Frames /\ q.kind = "pkmsg" /\ q.authentic /\ q = FrameOf(j)
      /\ q.base \in DOMAIN job[j].next /\ q.n \in job[j].next[q.base].got
  BY AnswerIsFrame
<1>2. q.preKey \notin prekeys'
  <2>1. CASE job[j].pc = "remove"
    BY <1>1, <2>1 DEF Succeeds
  <2>2. CASE job[j].pc = "store"
    <3>1. ~job[j].built
      BY <1>1, <2>2 DEF Succeeds, ConsumesPreKey
    <3>2. q.base \in DOMAIN record[a]
      BY <2>2, <3>1, SucceedsDid DEF Did, ReadPkmsg
    <3>3. ASSUME q.preKey \in prekeys PROVE FALSE
      <4>1. PICK k \in Job : AddrOf(k) = a /\ At(k, "remove")
        BY <1>1, <3>2, <3>3 DEF PreKeyAccounted
      <4>2. phase[k] = "active" /\ phase[j] = "active" /\ k # j
        BY <2>2, <4>1, AtWork DEF At
      <4> QED
        BY <4>1, <4>2, OneActive
    <3> QED
      BY <3>3, LastingStep DEF Lasting
  <2> QED
    BY <2>1, <2>2 DEF Succeeds
<1>3. \A s \in (Versions(a))' : s = job[j].next
  BY SoleVersion
<1>4. ASSUME NEW i \in Job, job'[i].request.addr = a, job'[i].pc \in {"signed", "join"} \/ job'[i].built
      PROVE  FALSE
  <2>1. AddrOf(i) # a
    BY <1>4, SucceedsAlone
  <2>2. job'[i].request = job[i].request
    BY DEF Succeeds
  <2> QED
    BY <1>4, <2>1, <2>2 DEF AddrOf
<1> QED
  BY <1>1, <1>2, <1>3, <1>4 DEF Sealed, At, AddrOf, FrameOf

\* and was not before.
LEMMA AnswerNotSealed ==
  ASSUME IInv, RInv, NEW j \in Job, Succeeds(j), job[j].request.op = "pkmsg",
         NEW q, q = job[j].reply, NEW a \in Addr, a = AddrOf(j), Sealed(a, q)
  PROVE  FALSE
<1>1. q = FrameOf(j)
  BY AnswerIsFrame
<1>2. ~job[j].built
  BY <1>1 DEF Sealed
<1>3. job[j].pc = "store" /\ job[j].loaded = record[a] /\ Did(job[j])
  BY <1>2, SucceedsDid DEF Succeeds
<1>4. q.base \in DOMAIN record[a] /\ q.n \notin record[a][q.base].got
  BY <1>2, <1>3 DEF Did, ReadPkmsg
<1> QED
  BY <1>4 DEF Sealed, Versions

LEMMA RepliedFrame ==
  ASSUME IInv, RInv, Replied, NEW i \in Succeeded({"whisper", "pkmsg"})
  PROVE  /\ job[i].reply \in Frames /\ job[i].reply.authentic
         /\ job[i].reply.kind = job[i].request.op /\ AddrOf(i) \in Addr
<1>1. job[i].request \in Requests /\ i \in Job
  BY SucceededIsAsked DEF Succeeded
<1> QED
  BY <1>1, RequestKinds DEF Replied, Succeeded, FrameOf, AddrOf

LEMMA NextJoined ==
  ASSUME HasRemovePreKey, IInv, RInv, Stored, Replied, PreKeyAccounted, Joined, [Next]_vars
  PROVE  Joined'
<1> SUFFICES ASSUME NEW i \in Job, job'[i].outcome = "ok", job'[i].request.op = "pkmsg",
                    NEW q, q = job'[i].reply, q.preKey # None, ~(Troubled(q.preKey))',
                    NEW a, a = job'[i].request.addr
             PROVE  (Sealed(a, q))'
  BY DEF Joined, Succeeded, AddrOf, Sealed
<1>1. ~Troubled(q.preKey)
  BY NamesLater
<1>2. CASE job'[i] = job[i]
  <2>1. i \in Succeeded({"pkmsg"}) /\ i \in Succeeded({"whisper", "pkmsg"}) /\ q = job[i].reply /\ a = AddrOf(i)
    BY <1>2 DEF Succeeded, AddrOf
  <2>2. a \in Addr /\ q \in Frames /\ q.kind = "pkmsg" /\ q.authentic
    BY <1>2, <2>1, RepliedFrame
  <2>3. Sealed(a, q)
    BY <1>1, <2>1 DEF Joined
  <2> QED
    BY <2>2, <2>3, SealedLater
<1>3. CASE Succeeds(i)
  <2>1. q = job[i].reply /\ a = AddrOf(i) /\ job[i].request.op = "pkmsg"
    BY <1>3 DEF Succeeds, AddrOf
  <2>2. a \in Addr
    BY <1>3, <2>1, SucceedsDid
  <2> QED
    BY <1>1, <1>3, <2>1, <2>2, AnswerSealed
<1> QED
  BY <1>2, <1>3, SuccessLater

\* The frame that is delivered now never was before.
LEMMA DeliveredIsNew ==
  ASSUME IInv, RInv, Replied, Remembered, Joined, NEW j \in Job, Succeeds(j),
         job[j].request.op \in {"whisper", "pkmsg"},
         NEW i \in Succeeded({"whisper", "pkmsg"}), NEW q, q = job[i].reply, q = job[j].reply,
         q.kind = "pkmsg" => AddrOf(i) = AddrOf(j) /\ q.preKey # None /\ ~Troubled(q.preKey)
  PROVE  FALSE
<1>1. q.kind = job[i].request.op
  BY RepliedFrame
<1>2. q.kind = job[j].request.op
  BY SucceedsDid, RequestKinds DEF Did, ReadWhisper, ReadPkmsg
<1>3. CASE q.kind = "whisper"
  <2>1. i \in Succeeded({"encrypt", "whisper"})
    BY <1>1, <1>3 DEF Succeeded
  <2> QED
    BY <1>1, <1>2, <1>3, <2>1, AnswerIsNew
<1>4. CASE q.kind = "pkmsg"
  <2>1. i \in Succeeded({"pkmsg"})
    BY <1>1, <1>4 DEF Succeeded
  <2>2. Sealed(AddrOf(i), q)
    BY <1>4, <2>1 DEF Joined
  <2>3. AddrOf(j) \in Addr
    BY SucceedsDid
  <2> QED
    BY <1>2, <1>4, <2>2, <2>3, AnswerNotSealed
<1> QED
  BY <1>1, <1>3, <1>4 DEF Succeeded

LEMMA NextDeliveredOnce ==
  ASSUME IInv, RInv, Stored, Replied, Remembered, Joined, DeliveredOnce, [Next]_vars
  PROVE  DeliveredOnce'
<1> SUFFICES ASSUME NEW i \in Job, NEW j \in Job, i # j,
                    job'[i].outcome = "ok", job'[i].request.op \in {"whisper", "pkmsg"},
                    job'[j].outcome = "ok", job'[j].request.op \in {"whisper", "pkmsg"},
                    NEW q, q = job'[i].reply, q = job'[j].reply,
                    q.kind = "pkmsg" => /\ job'[i].request.addr = job'[j].request.addr
                                        /\ q.preKey # None /\ ~(Troubled(q.preKey))'
             PROVE  FALSE
  BY DEF DeliveredOnce, Succeeded, AddrOf
<1>1. q.kind = "pkmsg" => ~Troubled(q.preKey)
  BY NamesLater
<1>2. CASE job'[i] = job[i] /\ job'[j] = job[j]
  <2>1. i \in Succeeded({"whisper", "pkmsg"}) /\ j \in Succeeded({"whisper", "pkmsg"})
    BY <1>2 DEF Succeeded
  <2> QED
    BY <1>1, <1>2, <2>1 DEF DeliveredOnce, AddrOf
<1>3. ASSUME NEW k \in {i, j}, Succeeds(k), NEW l \in {i, j}, l # k
      PROVE  FALSE
  <2>1. job'[l] = job[l] /\ l \in Succeeded({"whisper", "pkmsg"}) /\ q = job[l].reply
    <3>1. job'[l] = job[l]
      BY <1>3 DEF Succeeds
    <3>2. job'[l].outcome = "ok" /\ job'[l].request.op \in {"whisper", "pkmsg"} /\ q = job'[l].reply
      BY <1>3
    <3> QED
      BY <1>3, <3>1, <3>2 DEF Succeeded
  <2>2. job[k].request.op \in {"whisper", "pkmsg"} /\ q = job[k].reply /\ job'[k].request = job[k].request
    BY <1>3 DEF Succeeds
  <2>3. q.kind = "pkmsg" => AddrOf(l) = AddrOf(k) /\ q.preKey # None /\ ~Troubled(q.preKey)
    BY <1>1, <1>3, <2>1, <2>2 DEF AddrOf
  <2> QED
    BY <1>3, <2>1, <2>2, <2>3, DeliveredIsNew
<1> QED
  BY <1>2, <1>3, SuccessLater
-----------------------------------------------------------------------------
(* The theorems *)

HInv == Apart /\ Stored /\ Replied /\ Remembered /\ NoCounterReuse

\* and, of a storage that removes prekeys, what they are for.
PInv == Joined /\ PreKeyAccounted /\ DeliveredOnce

LEMMA InitHInv == Init => HInv /\ PInv
<1> SUFFICES ASSUME Init PROVE HInv /\ PInv
  OBVIOUS
<1>1. \A j \in Job : job[j].pc = "idle" /\ job[j].outcome = "pending"
  BY DEF Init, Idle
<1>2. \A a \in Addr : record[a] = NoRecord /\ Versions(a) = {NoRecord}
  BY <1>1 DEF Init, Versions, At
<1>3. \A op : Succeeded(op) = {}
  BY <1>1 DEF Succeeded
<1>4. Apart /\ Stored /\ PreKeyAccounted
  BY <1>1, <1>2, NoEntries DEF Apart, Stored, PreKeyAccounted, At
<1>5. Replied /\ Remembered /\ Joined /\ NoCounterReuse /\ DeliveredOnce
  BY <1>3 DEF Replied, Remembered, Joined, NoCounterReuse, DeliveredOnce
<1> QED
  BY <1>4, <1>5 DEF HInv, PInv

LEMMA HistoryInvariant == Spec => []HInv
<1>1. IInv /\ RInv /\ HInv /\ [Next]_vars => HInv'
  BY NextApart, NextStored, NextReplied, NextRemembered, NextNoCounterReuse DEF HInv
<1> QED
  BY <1>1, InitHInv, RecordInvariant, PTL DEF Spec

LEMMA PreKeyInvariant == ASSUME HasRemovePreKey PROVE Spec => []PInv
<1>1. IInv /\ RInv /\ HInv /\ PInv /\ [Next]_vars => PInv'
  BY NextJoined, NextPreKeyAccounted, NextDeliveredOnce DEF HInv, PInv
<1> QED
  BY <1>1, InitHInv, RecordInvariant, HistoryInvariant, PTL DEF Spec

\* Two frames handed to the application never carry the same counter of the
\* same session, whatever ran concurrently, threw, or died on the way
\* (session-cipher.js:40-60: a counter is stored before it is returned).
THEOREM NoCounterReused == Spec => []NoCounterReuse
<1>1. HInv => NoCounterReuse
  BY DEF HInv
<1> QED
  BY <1>1, HistoryInvariant, PTL

\* Where the storage has a removePreKey, a prekey whose session is stored is
\* there only while the job that built it is about to remove it, or after a call
\* that named it failed or died (session-cipher.js:121-127).
THEOREM PreKeysAccounted == ASSUME HasRemovePreKey PROVE Spec => []PreKeyAccounted
<1>1. PInv => PreKeyAccounted
  BY DEF PInv
<1> QED
  BY <1>1, PreKeyInvariant, PTL

\* And a plaintext is handed out once, even when the record is replaced and the
\* session built again (session-cipher.js:62-130), but for a pkmsg of which
\* nothing was consumed.
THEOREM DeliveredAtMostOnce == ASSUME HasRemovePreKey PROVE Spec => []DeliveredOnce
<1>1. PInv => DeliveredOnce
  BY DEF PInv
<1> QED
  BY <1>1, PreKeyInvariant, PTL
=============================================================================
