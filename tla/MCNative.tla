------------------------------ MODULE MCNative ------------------------------
(* An instance of Native for TLC: a small curve, short texts, and documents *)
(* made from one sound record by one edit or two.                           *)
EXTENDS Native, SequencesExt, TLC

\* A challenge that depends on all it is made of, and a permutation of the blocks.
SomeChallenge(R, A, msg) == (3 * R + 5 * A + 7 * msg + 1) % Order
EncryptSome(b) == [i \in 1..Block |-> (b[(i % Block) + 1] + i) % Byte]
DecryptSome(c) ==
  [i \in 1..Block |-> LET k == IF i = 1 THEN Block ELSE i - 1 IN (c[k] - k + Byte) % Byte]

NumeralNames == {"0", "3"}

Text_(v) == Leaf("text", v)
Number(v) == Leaf("number", v)
MinusOne == Leaf("negative", "-1")

\* A sound record by its leaves: one entry with the fields that the record of
\* fixtures/libsignal-session.json has, and those it happens to lack: a receiving
\* chain with a retained key, and the ids of a pending prekey message.
Entry == <<"_sessions", "b1">>
ChainIn == Entry \o <<"_chains", "in">>
ChainOut == Entry \o <<"_chains", "out">>
Pending == Entry \o <<"pendingPreKey">>

Sound == {
  <<<<"version">>, Text_("v1")>>,
  <<Entry \o <<"registrationId">>, Number("7")>>,
  <<Entry \o <<"currentRatchet", "ephemeralKeyPair", "pubKey">>, Text_("e1")>>,
  <<Entry \o <<"currentRatchet", "ephemeralKeyPair", "privKey">>, Text_("e2")>>,
  <<Entry \o <<"currentRatchet", "lastRemoteEphemeralKey">>, Text_("e3")>>,
  <<Entry \o <<"currentRatchet", "previousCounter">>, Number("2")>>,
  <<Entry \o <<"currentRatchet", "rootKey">>, Text_("e4")>>,
  <<Entry \o <<"indexInfo", "baseKey">>, Text_("b1")>>,
  <<Entry \o <<"indexInfo", "baseKeyType">>, Number("2")>>,
  <<Entry \o <<"indexInfo", "closed">>, MinusOne>>,
  <<Entry \o <<"indexInfo", "used">>, Number("100")>>,
  <<Entry \o <<"indexInfo", "created">>, Number("99")>>,
  <<Entry \o <<"indexInfo", "remoteIdentityKey">>, Text_("i1")>>,
  <<ChainIn \o <<"chainKey", "counter">>, Number("4")>>,
  <<ChainIn \o <<"chainKey", "key">>, Text_("c1")>>,
  <<ChainIn \o <<"chainType">>, Number("2")>>,
  <<ChainIn \o <<"messageKeys", "3">>, Text_("m1")>>,
  <<ChainOut \o <<"chainKey", "counter">>, MinusOne>>,
  <<ChainOut \o <<"chainKey", "key">>, Text_("c2")>>,
  <<ChainOut \o <<"chainType">>, Number("1")>>,
  <<Pending \o <<"signedKeyId">>, Number("1")>>,
  <<Pending \o <<"preKeyId">>, Number("5")>>,
  <<Pending \o <<"baseKey">>, Text_("b1")>>}

\* The document of some nodes by their paths.
RECURSIVE Tree(_)
Tree(nodes) ==
  IF \E n \in nodes : n[1] = <<>> THEN (CHOOSE n \in nodes : n[1] = <<>>)[2]
  ELSE Object([k \in {n[1][1] : n \in nodes} |->
                 Tree({<<Tail(n[1]), n[2]>> : n \in {x \in nodes : x[1][1] = k}})])

Paths == UNION {{SubSeq(n[1], 1, i) : i \in 1..Len(n[1])} : n \in Sound} \cup {ChainOut \o <<"messageKeys">>}
LeafPaths == {n[1] : n \in Sound}
Holders == (Paths \cup {<<>>}) \ LeafPaths
Optional == {ChainIn \o <<"chainKey", "key">>, ChainOut \o <<"chainKey", "key">>,
             Pending, Pending \o <<"signedKeyId">>, Pending \o <<"preKeyId">>}
Removable == Optional \cup {<<"version">>, <<"_sessions">>, Entry, ChainIn, ChainOut,
                            ChainIn \o <<"messageKeys", "3">>}
Signed64 == {Entry \o <<"indexInfo", k>> : k \in {"closed", "used", "created"}}
              \cup {c \o <<"chainKey", "counter">> : c \in {ChainIn, ChainOut}}
TextPaths == {n[1] : n \in {x \in Sound : x[2].kind = "text"}}

\* An edit replaces what is at a path by nothing, or by a node that holds some
\* leaves of its own.
Edit(path, nodes, sound, leaves) == [path |-> path, nodes |-> nodes, sound |-> sound, leaves |-> leaves]
Become(path, node, sound) ==
  Edit(path, {<<path, node>>}, sound, IF node.kind = "null" THEN {} ELSE {<<path, node>>})

ChainKeyAt == ChainIn \o <<"chainKey">>
Counter == <<ChainKeyAt \o <<"counter">>, Number("4")>>
Key == <<ChainKeyAt \o <<"key">>, Text_("c1")>>
PendingLeaves == {<<Pending \o <<"signedKeyId">>, Number("1")>>, <<Pending \o <<"preKeyId">>, Number("5")>>,
                  <<Pending \o <<"baseKey">>, Text_("b1")>>}

Edits ==
  {Edit(p, {}, p \in Removable, {}) : p \in Paths}
  \cup {Become(p, Null, p \in Optional) : p \in Paths}
  \cup {Become(p, Number("8"), p \notin TextPaths) : p \in LeafPaths}
  \cup {Become(p, Leaf("negative", "-8"), p \in Signed64) : p \in LeafPaths}
  \cup {Become(p, Text_("x"), p \in TextPaths \ {<<"version">>}) : p \in LeafPaths}
  \cup {Become(p \o <<"extra">>, Text_("x"), FALSE) : p \in Holders}
  \cup {Become(ChainIn \o <<"messageKeys", "0">>, Text_("m0"), TRUE),
        Become(<<"version">>, Text_("v2"), FALSE),
        Edit(ChainKeyAt, {<<ChainKeyAt, Array(<<Number("4"), Text_("c1")>>)>>}, TRUE, {Counter, Key}),
        Edit(ChainKeyAt, {<<ChainKeyAt, Array(<<Number("4")>>)>>}, TRUE, {Counter}),
        Edit(ChainKeyAt, {<<ChainKeyAt, Array(<<>>)>>}, FALSE, {}),
        Edit(Pending, {<<Pending, Array(<<Number("1"), Number("5"), Text_("b1")>>)>>}, TRUE, PendingLeaves),
        Edit(Pending, {<<Pending, Array(<<Null, Null, Text_("b1")>>)>>}, TRUE,
             {<<Pending \o <<"baseKey">>, Text_("b1")>>}),
        Edit(Pending, {<<Pending, Array(<<Number("1"), Number("5")>>)>>}, FALSE, {}),
        Edit(Pending, {<<Pending, Array(<<Number("1"), Number("5"), Text_("b1"), Null>>)>>}, FALSE, {}),
        Edit(<<>>, {<<<<>>, Array(<<>>)>>}, FALSE, {})}

Below(path, nodes) == {n \in nodes : IsPrefix(path, n[1])}

\* An object whose members are all gone is still there, unless it went as well.
Edited(E) ==
  LET kept == Sound \ UNION {Below(e.path, Sound) : e \in E}
      nodes == kept \cup UNION {e.nodes : e \in E}
      hollow == {h \in Holders : (\A e \in E : ~IsPrefix(e.path, h)) /\ Below(h, nodes) = {}}
  IN  [text |-> Tree(nodes \cup {<<h, Object(<<>>)>> : h \in hollow}),
       sound |-> \A e \in E : e.sound,
       leaves |-> kept \cup UNION {e.leaves : e \in E}]

Apart(d, e) == ~IsPrefix(d.path, e.path) /\ ~IsPrefix(e.path, d.path)

Documents ==
  {Edited({})} \cup {Edited({e}) : e \in Edits}
    \cup {Edited({p[1], p[2]}) : p \in {q \in {e \in Edits : e.sound} \X Edits : Apart(q[1], q[2])}}

Words(lengths) == UNION {[1..n -> 0..(Byte - 1)] : n \in lengths}
Texts == Words(0..5)
Ciphertexts == Words({0, 1, 2, 3, 4, 6})
Vectors == {<<0, 0, 0>>, <<1, 3, 2>>}

EntrySequences == UNION {[1..n -> [closed : {-1, 1, 2}, used : 0..2]] : n \in 1..3}
=============================================================================
