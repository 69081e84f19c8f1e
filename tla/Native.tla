------------------------------- MODULE Native -------------------------------
(***************************************************************************)
(* The exports of lib.rs whose answer depends on their arguments alone:     *)
(* those that compute, of Primitives, and those that read a record.         *)
(***************************************************************************)
EXTENDS Primitives, Record

CONSTANT Document  \* texts given for a session record, each with what is
                   \* meant: is it sound, and the leaves it holds

SessionDeserialize ==
  /\ call = NoCall
  /\ \E doc \in Document :
     /\ call' = [op |-> "deserialize", doc |-> doc]
     /\ reply' = IF Deserializes(doc.text) THEN Returns(Serialized(Value("SessionRecord", doc.text))) ELSE Throws

SessionHaveOpenSession ==
  /\ call = NoCall
  /\ \E doc \in Document :
     /\ call' = [op |-> "have open", doc |-> doc]
     /\ reply' = IF Deserializes(doc.text) THEN Returns(HaveOpenSession(Value("SessionRecord", doc.text))) ELSE Throws

Next == PrimitiveCall \/ SessionDeserialize \/ SessionHaveOpenSession

Spec == Init /\ [][Next]_vars
-----------------------------------------------------------------------------
(* Properties *)

\* The leaves of a node, each with the names on the way to it.
RECURSIVE Leaves(_, _)
Leaves(type, node) ==
  IF type \in DOMAIN Fits THEN {<<<<>>, node>>}
  ELSE IF type \in DOMAIN MapOf
  THEN UNION {{<<<<k>> \o l[1], l[2]>> : l \in Leaves(MapOf[type], node.fields[k])} : k \in DOMAIN node.fields}
  ELSE LET given == Given(type, node)
           fields == {Struct[type][i] : i \in DOMAIN Struct[type]}
       IN  UNION {{<<<<f.name>> \o l[1], l[2]>> : l \in Leaves(f.type, given[f.name])} :
                  f \in {x \in fields : x.name \in DOMAIN given /\ given[x.name] # Null}}

\* A text is read exactly when it is sound, and what is written again holds all
\* it held and nothing more than the version (session.rs:188-225): a record is
\* refused rather than cut down.  Read once more, it is the same record, with an
\* open session or none as before (lib.rs:126-147).
AcceptedIsKept ==
  /\ call.op \in {"deserialize", "have open"} => (reply.ok <=> call.doc.sound)
  /\ call.op = "deserialize" /\ reply.ok =>
       LET kept == Leaves("SessionRecord", reply.value)
       IN  /\ call.doc.leaves \subseteq kept
           /\ kept \ call.doc.leaves \subseteq {<<<<"version">>, Leaf("text", "v1")>>}
           /\ Deserializes(reply.value) /\ Value("SessionRecord", reply.value) = reply.value
  /\ call.op = "have open" /\ reply.ok =>
       (reply.value <=> \E l \in call.doc.leaves : l[1][Len(l[1])] = "closed" /\ l[2] = Leaf("negative", "-1"))
=============================================================================
