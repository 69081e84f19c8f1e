------------------------------ MODULE MCProto ------------------------------
(* The instance of Proto for TLC: messages as sequences of fields, some of   *)
(* them faulty, whole or cut short, and what they mean.                      *)
EXTENDS Proto

Field(field, wire, body, value, intact) ==
  [field |-> field, wire |-> wire, value |-> value, intact |-> intact,
   bytes |-> WriteVarint(8 * field + wire) \o body]

Number(field, v) == Field(field, 0, WriteVarint(v), v, TRUE)
Data(field, d) == Field(field, 2, WriteBytes(d), d, TRUE)

\* Fields that both decoders may know, at either wire type.
Plain == {Number(1, 5), Data(1, <<9>>), Data(1, <<>>), Number(2, U32 - 1), Number(2, U32),
          Data(2, <<16, 1>>), Data(3, <<Payload>>), Data(4, <<34>>), Number(5, 0)}

\* Overlong but read, overlong and refused, unknown ones, a group, field zero,
\* a tag and a length that are too large.
Odd == {Field(2, 0, <<Payload + 3, Payload, 0>>, 3, TRUE),
        Field(2, 0, <<Payload + 3, Payload, Payload, 0>>, 0, FALSE),
        Number(7, U64 - 1), Data(7, <<10, 1, 9>>), Field(7, 5, <<10, 1, 9, 16>>, 0, TRUE),
        Field(7, 1, <<34, 1, 9, 16, 1, 16, 1, 16>>, 0, TRUE), Field(7, 3, <<>>, 0, FALSE),
        Number(0, 1), Field(U32 \div 8, 0, <<1>>, 0, FALSE), Field(4, 2, <<60, 1>>, <<>>, FALSE)}

Sound(schema, c) ==
  /\ c.intact /\ c.field # 0
  /\ c.field \in DOMAIN schema.wire => c.wire = schema.wire[c.field] /\ (c.wire = 0 => c.value < U32)

Meaning(schema, cs) ==
  LET named == {i \in DOMAIN cs : cs[i].field \in DOMAIN schema.wire}
      last(f) == CHOOSE i \in named : cs[i].field = f /\ \A k \in named : cs[k].field = f => k <= i
      values == [f \in {cs[i].field : i \in named} |-> cs[last(f)].value]
      sound == \A i \in DOMAIN cs : Sound(schema, cs[i])
  IN  [ok |-> sound /\ \A f \in schema.required :
                         f \in DOMAIN values /\ (schema.wire[f] = 2 => values[f] # <<>>),
       fields |-> values]

Message(schema, cs) ==
  [schema |-> schema, meaning |-> Meaning(schema, cs), bytes |-> FlattenSeq([i \in DOMAIN cs |-> cs[i].bytes])]

\* What a pkmsg needs, in any order, and anything else in between.
Needed == {<<Data(2, <<16, 1>>), Data(3, <<Payload>>), Data(4, <<34>>), Number(5, 0)>>}
Orders == {q \in [1..4 -> 1..4] : \A i, k \in 1..4 : q[i] = q[k] => i = k}
Mixed == {InsertAt([i \in 1..4 |-> cs[q[i]]], k, c) : cs \in Needed, q \in Orders, k \in 1..5, c \in Plain \cup Odd}

\* A message that ends inside its last field means nothing.
Cut(m, n) == [m EXCEPT !.bytes = SubSeq(@, 1, Len(@) - n), !.meaning.ok = FALSE]

Whole == {Message(s, cs) : s \in {Whisper, Pkmsg},
                           cs \in UNION {[1..n -> Plain] : n \in 0..3} \cup {<<a, b, c>> : a, c \in Plain, b \in Odd}}

CutShort == {Cut(Message(Whisper, <<Data(1, <<9>>), Data(4, <<34>>), c>>), n) :
               c \in {Number(7, U64 - 1), Data(7, <<10, 1, 9>>), Field(7, 5, <<10, 1, 9, 16>>, 0, TRUE),
                      Field(7, 1, <<34, 1, 9, 16, 1, 16, 1, 16>>, 0, TRUE)},
               n \in 1..3}

\* What the encoders write: every field at its edge values, both ids or not.
Edges == {0, Payload - 1, Payload, U32 - 1}

Encoded ==
  {[schema |-> Whisper, bytes |-> Encode(Whisper, m), meaning |-> [ok |-> TRUE, fields |-> m]] :
     m \in {<<e, c, p, <<34>>>> : e \in {<<0>>, <<5, Payload + 1>>}, c, p \in Edges}}
  \cup
  {[schema |-> Pkmsg, bytes |-> Encode(Pkmsg, m), meaning |-> [ok |-> TRUE, fields |-> m]] :
     m \in {[f \in ids \cup 2..5 |-> IF Pkmsg.wire[f] = 2 THEN <<f>> ELSE n] :
              ids \in SUBSET {1, 6}, n \in Edges}}

AllInputs == Whole \cup {Message(Pkmsg, cs) : cs \in Mixed} \cup CutShort \cup Encoded
=============================================================================
