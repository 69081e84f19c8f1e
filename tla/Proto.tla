------------------------------- MODULE Proto -------------------------------
(***************************************************************************)
(* proto.rs: the protobuf reader behind decode_whisper and decode_pkmsg,    *)
(* byte by byte, and the writers of their encoders.  Both decoders are one  *)
(* loop over the fields, each with its own table of known fields.           *)
(*                                                                          *)
(* The widths are constants: a byte carries Payload values and a            *)
(* continuation flag, where the code has 2^7; U64 and U32 stand for 2^64    *)
(* and 2^32.  As in the code, the last byte of a full u64 carries one bit.  *)
(***************************************************************************)
EXTENDS Integers, SequencesExt

CONSTANTS Payload, U64, U32,
          Inputs  \* the messages: [schema, bytes, meaning]

ASSUME WidthAssumption ==
  /\ {Payload, U64, U32} \subseteq Nat \ {0}
  /\ Payload > 1 /\ U32 < U64
  /\ \E n \in 1..10 : U64 = 2 * Payload^n

VARIABLES
  input,    \* the message, and for the properties what its writer meant
  pos,      \* the next byte to read
  fields,   \* the known fields read so far, the last value of each
  outcome   \* "reading", "ok", or "error"

vars == <<input, pos, fields, outcome>>

\* The wire type of each known field, by number, and the fields that must come.
Whisper == [wire |-> <<2, 0, 0, 2>>, required |-> {1, 4}]
Pkmsg == [wire |-> <<0, 2, 2, 2, 0, 0>>, required |-> {2, 3, 4, 5}]

Bytes == input.bytes
Left(p) == Len(Bytes) - p + 1
-----------------------------------------------------------------------------
(* Readers: what was read and where the next byte is, or Failure.           *)

Failure == [value |-> -1, next |-> 0]
Failed(r) == r.next = 0

\* Mutation: the shift drops what does not fit.
OverlongNever(weight, b) == FALSE

\* The guard against shifting bits out of the result.
Overlong(weight, b) == 2 * weight >= U64 /\ b > 1

\* The loop: byte b of this weight, and the bytes after it.
ReadVarint(p) ==
  LET read[i \in p..(Len(Bytes) + 1)] ==
        LET b == Bytes[i]
            weight == Payload^(i - p)
            low == ((b % Payload) * weight) % U64
        IN  IF i > Len(Bytes) \/ Overlong(weight, b)
            THEN Failure
            ELSE IF b < Payload
                 THEN [value |-> low, next |-> i + 1]
                 ELSE IF Failed(read[i + 1])
                      THEN Failure
                      ELSE [read[i + 1] EXCEPT !.value = @ + low]
  IN  read[p]

\* Mutation: the conversion truncates.
ReadVarintAsU32(p) ==
  IF Failed(ReadVarint(p)) THEN Failure ELSE [ReadVarint(p) EXCEPT !.value = @ % U32]

ReadVarintU32(p) == IF ReadVarint(p).value >= U32 THEN Failure ELSE ReadVarint(p)

\* The length, then as many bytes.
ReadBytes(p) ==
  LET len == ReadVarint(p)
  IN  IF Failed(len) \/ len.value > Left(len.next)
      THEN Failure
      ELSE [value |-> SubSeq(Bytes, len.next, len.next + len.value - 1), next |-> len.next + len.value]

\* Mutation: the position moves without a look at what is left.
SkipBlindly(p, n) == [value |-> -1, next |-> p + n]

Skip(p, n) == IF Left(p) < n THEN Failure ELSE [value |-> -1, next |-> p + n]

SkipField(p, wire) ==
  CASE wire = 0 -> ReadVarint(p)
    [] wire = 1 -> Skip(p, 8)
    [] wire = 2 -> ReadBytes(p)
    [] wire = 5 -> Skip(p, 4)
    [] OTHER -> Failure

\* The tag, split into field number and wire type.
ReadTag(p) ==
  LET tag == ReadVarint(p)
  IN  IF Failed(tag) \/ tag.value >= U32 \/ tag.value \div 8 = 0
      THEN Failure
      ELSE [tag EXCEPT !.value = [field |-> @ \div 8, wire |-> @ % 8]]

Known(field) == field \in DOMAIN input.schema.wire

\* expect_wire, then the reader of the wire type.
ReadKnown(field, wire, p) ==
  IF wire # input.schema.wire[field] THEN Failure
  ELSE IF wire = 0 THEN ReadVarintU32(p)
  ELSE ReadBytes(p)
-----------------------------------------------------------------------------
(* The decoders *)

Init ==
  /\ input \in Inputs
  /\ pos = 1
  /\ fields = <<>>
  /\ outcome = "reading"

Read(field, value) == [f \in DOMAIN fields \cup {field} |-> IF f = field THEN value ELSE fields[f]]

\* One turn of the loop: a tag, and the field it announces.
Turn ==
  LET tag == ReadTag(pos)
      field == tag.value.field
      body == IF Known(field)
              THEN ReadKnown(field, tag.value.wire, tag.next)
              ELSE SkipField(tag.next, tag.value.wire)
  IN  IF Failed(tag) \/ Failed(body) THEN Failure
      ELSE [value |-> IF Known(field) THEN Read(field, body.value) ELSE fields, next |-> body.next]

ReadField ==
  /\ outcome = "reading"
  /\ pos <= Len(Bytes)
  /\ ~Failed(Turn)
  /\ pos' = Turn.next
  /\ fields' = Turn.value
  /\ UNCHANGED <<input, outcome>>

\* An error of a reader ends the decoding.
Refuse ==
  /\ outcome = "reading"
  /\ pos <= Len(Bytes)
  /\ Failed(Turn)
  /\ outcome' = "error"
  /\ UNCHANGED <<input, pos, fields>>

\* The checks after the loop: required fields are there, and not empty.
Complete ==
  \A f \in input.schema.required :
    /\ f \in DOMAIN fields
    /\ input.schema.wire[f] = 2 => fields[f] # <<>>

End ==
  /\ outcome = "reading"
  /\ pos > Len(Bytes)
  /\ outcome' = IF Complete THEN "ok" ELSE "error"
  /\ UNCHANGED <<input, pos, fields>>

Next == ReadField \/ Refuse \/ End

Spec == Init /\ [][Next]_vars
-----------------------------------------------------------------------------
(* The writers, and the encoders: the fields in order, those there are.     *)

WriteVarint(v) ==
  LET write[n \in 0..v] ==
        IF n < Payload THEN <<n>> ELSE <<(n % Payload) + Payload>> \o write[n \div Payload]
  IN  write[v]

WriteTag(field, wire) == WriteVarint(8 * field + wire)
WriteBytes(data) == WriteVarint(Len(data)) \o data

EncodeField(schema, msg, f) ==
  IF f \notin DOMAIN msg THEN <<>>
  ELSE WriteTag(f, schema.wire[f]) \o
       IF schema.wire[f] = 0 THEN WriteVarint(msg[f]) ELSE WriteBytes(msg[f])

Encode(schema, msg) ==
  FlattenSeq([f \in DOMAIN schema.wire |-> EncodeField(schema, msg, f)])
-----------------------------------------------------------------------------
(* Properties *)

\* What the reader makes of a message is what its writer meant, whatever the
\* order of the fields, repetitions and unknown fields in between: each field
\* has its last value, and a message with any fault, a missing or empty field, a
\* known field of another wire type, a number beyond its width, a group, an end
\* inside a field, is refused and not completed with defaults (proto.rs:15-18,
\* 90-98, 153-217, 234-304).
DecodesAsMeant ==
  /\ outcome = "ok" => input.meaning.ok /\ fields = input.meaning.fields
  /\ outcome = "error" => ~input.meaning.ok

\* The loop computes the number that the bytes stand for, or refuses them: no
\* bit is shifted out, at any width (proto.rs:44-65).
Digits(p, e) == FoldFunction(LAMBDA d, sum : d + sum, 0,
                             [i \in p..e |-> (Bytes[i] % Payload) * Payload^(i - p)])

VarintExact ==
  \A p \in 1..Len(Bytes) :
    LET last == {e \in p..Len(Bytes) : Bytes[e] < Payload}
        e == CHOOSE x \in last : \A y \in last : x <= y
        r == ReadVarint(p)
    IN  IF last # {} /\ (e <= p + 1 \/ 2 * Payload^(e - p) <= U64)
        THEN IF Digits(p, e) < U64
             THEN r = [value |-> Digits(p, e), next |-> e + 1]
             ELSE Failed(r)
        ELSE Failed(r)
=============================================================================
