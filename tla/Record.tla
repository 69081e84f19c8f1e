------------------------------- MODULE Record -------------------------------
(***************************************************************************)
(* session.rs: what the native layer reads as a session record, and what    *)
(* becomes of it when it is written again.  A document is a tree: an object *)
(* by the names of its fields, an array by position, or a leaf.             *)
(***************************************************************************)
EXTENDS Integers, Sequences, Functions

CONSTANT Numeral  \* the names that are integers

Object(fields) == [kind |-> "object", fields |-> fields]
Array(items) == [kind |-> "array", items |-> items]
Leaf(kind, value) == [kind |-> kind, value |-> value]
Null == [kind |-> "null"]

Field(name, type, presence) == [name |-> name, type |-> type, presence |-> presence]
Required(name, type) == Field(name, type, "required")

\* The structs, in the order of their fields.  A field with a default may be
\* missing, an optional one may be null as well and is then not written.
SessionRecordFields == <<Field("_sessions", "sessions", "default"), Field("version", "text", "default")>>
SessionEntryFields ==
  <<Required("registrationId", "u32"), Required("currentRatchet", "Ratchet"),
    Required("indexInfo", "IndexInfo"), Required("_chains", "chains"),
    Field("pendingPreKey", "PendingPreKey", "option")>>
RatchetFields ==
  <<Required("ephemeralKeyPair", "KeyPair"), Required("lastRemoteEphemeralKey", "text"),
    Required("previousCounter", "u32"), Required("rootKey", "text")>>
KeyPairFields == <<Required("pubKey", "text"), Required("privKey", "text")>>
IndexInfoFields ==
  <<Required("baseKey", "text"), Required("baseKeyType", "u32"), Required("closed", "i64"),
    Required("used", "i64"), Required("created", "i64"), Required("remoteIdentityKey", "text")>>
ChainFields ==
  <<Required("chainKey", "ChainKey"), Required("chainType", "u32"), Required("messageKeys", "messageKeys")>>
ChainKeyFields == <<Required("counter", "i64"), Field("key", "text", "default option")>>
PendingPreKeyFields ==
  <<Field("signedKeyId", "u32", "option"), Field("preKeyId", "u32", "option"), Required("baseKey", "text")>>

Struct == [SessionRecord |-> SessionRecordFields, SessionEntry |-> SessionEntryFields,
           Ratchet |-> RatchetFields, KeyPair |-> KeyPairFields, IndexInfo |-> IndexInfoFields,
           Chain |-> ChainFields, ChainKey |-> ChainKeyFields, PendingPreKey |-> PendingPreKeyFields]

MapOf == [sessions |-> "SessionEntry", chains |-> "Chain", messageKeys |-> "text"]

\* The leaves that a leaf type takes.
Fits == [text |-> {"text"}, u32 |-> {"number"}, i64 |-> {"number", "negative"}]

Names(type) == {Struct[type][i].name : i \in DOMAIN Struct[type]}
IsOption(f) == f.presence \in {"option", "default option"}

\* A default for what is missing: the version, no sessions, or nothing.
Default(f) == IF f.name = "version" THEN Leaf("text", "v1")
              ELSE IF IsOption(f) THEN Null ELSE Object(<<>>)

\* May the field be missing in an object, or at the end of an array?
MayLack(f, kind) == f.presence \in (IF kind = "object" THEN {"default", "option", "default option"}
                                    ELSE {"default", "default option"})

\* Mutation: unknown fields are passed over.
KnowsAnything(type, names) == TRUE

\* deny_unknown_fields
Knows(type, names) == names \subseteq Names(type)

\* The fields that a node gives to a struct, an array by position.
Given(type, node) ==
  IF node.kind = "object" THEN node.fields
  ELSE [n \in {Struct[type][i].name : i \in DOMAIN node.items} |->
          node.items[CHOOSE i \in DOMAIN node.items : Struct[type][i].name = n]]

RECURSIVE Readable(_, _)
Readable(type, node) ==
  IF type \in DOMAIN Fits THEN node.kind \in Fits[type]
  ELSE IF type \in DOMAIN MapOf
  THEN /\ node.kind = "object"
       /\ type = "messageKeys" => DOMAIN node.fields \subseteq Numeral
       /\ \A k \in DOMAIN node.fields : Readable(MapOf[type], node.fields[k])
  ELSE /\ node.kind \in {"object", "array"}
       /\ node.kind = "array" => Len(node.items) <= Len(Struct[type])
       /\ LET given == Given(type, node) IN
          /\ node.kind = "object" => Knows(type, DOMAIN given)
          /\ \A i \in DOMAIN Struct[type] :
               LET f == Struct[type][i]
               IN  IF f.name \in DOMAIN given
                   THEN (IsOption(f) /\ given[f.name] = Null) \/ Readable(f.type, given[f.name])
                   ELSE MayLack(f, node.kind)

\* What a readable node is read as.
RECURSIVE Value(_, _)
Value(type, node) ==
  IF type \in DOMAIN Fits THEN node
  ELSE IF type \in DOMAIN MapOf
  THEN Object([k \in DOMAIN node.fields |-> Value(MapOf[type], node.fields[k])])
  ELSE LET given == Given(type, node)
           read == [n \in Names(type) |->
                      LET f == Struct[type][CHOOSE i \in DOMAIN Struct[type] : Struct[type][i].name = n]
                      IN  IF n \notin DOMAIN given \/ given[n] = Null THEN Default(f)
                          ELSE Value(f.type, given[n])]
       IN  Object(Restrict(read, {n \in Names(type) : read[n] # Null}))

\* parse: only an object is handed to serde.
Parses(doc) == doc.kind = "object" /\ Readable("SessionRecord", doc)

\* validate
Valid(record) == record.fields["version"] = Leaf("text", "v1")

\* deserialize
Deserializes(doc) == Parses(doc) /\ Valid(Value("SessionRecord", doc))

\* serialize: the fields as they are, without the options that are not there.
Serialized(record) == record

\* have_open_session, of a record that was read.
HaveOpenSession(record) ==
  \E k \in DOMAIN record.fields["_sessions"].fields :
    record.fields["_sessions"].fields[k].fields["indexInfo"].fields["closed"].value = "-1"
=============================================================================
