-------------------------------- MODULE Wire --------------------------------
(***************************************************************************)
(* Messages of the Kafka protocol as BinaryReader and BinaryWriter         *)
(* (include/protocol/kafka_codec.h) see them.                              *)
(*                                                                         *)
(* A message is a sequence of tokens, each with the width it was written   *)
(* with.  A format is the sequence of fields that a decoder reads, or an   *)
(* encoder writes, one after the other.  The reader has neither names nor  *)
(* lengths to go by: a read of another width than the one written, or      *)
(* behind the end, yields arbitrary bytes, and so does all that follows;   *)
(* such a message is Garbled.  The number of elements of an array is kept  *)
(* apart from other int32 values.                                          *)
(*                                                                         *)
(* Data abstraction.  The value of a field is a sequence of strings that   *)
(* says what it is; numbers, byte order and characters are left out.       *)
(***************************************************************************)
EXTENDS Integers, Sequences, SequencesExt, TLC

Token(type, value) == [type |-> type, value |-> value]

\* Formats of one field; longer ones are concatenations.
Field(type, name) == <<[type |-> type, name |-> name]>>
Int8(name) == Field("int8", name)
Int16(name) == Field("int16", name)
Int32(name) == Field("int32", name)
Int64(name) == Field("int64", name)
Str(name) == Field("string", name)
Bytes(name) == Field("bytes", name)
Varint(name) == Field("varint", name)
Sized(name) == Field("sized", name)     \* a varint length, and so many bytes or none

\* An array is its number of elements and the elements.
Counted(type, name, format) == <<[type |-> type, name |-> name, of |-> format]>>
Array(name, format) == Counted("count", name, format)
VarArray(name, format) == Counted("varcount", name, format)

\* A field that is there from some version on.
Since(version, first, format) == IF version >= first THEN format ELSE <<>>

IsArray(field) == field.type \in {"count", "varcount"}

\* The name of a field that the reader skips.
Skipped == "_"

\* A field a message says nothing of is named by itself.
Value(message, name) == IF name \in DOMAIN message THEN message[name] ELSE <<name>>
Elements(message, name) == IF name \in DOMAIN message THEN message[name] ELSE <<>>

Nothing == [name \in {} |-> <<>>]

-----------------------------------------------------------------------------
\* The tokens BinaryWriter writes for a message.
RECURSIVE Write(_, _)
Write(format, message) ==
  FlattenSeq([i \in DOMAIN format |->
    LET field == format[i]
        elements == Elements(message, field.name)
    IN  IF ~IsArray(field) THEN <<Token(field.type, Value(message, field.name))>>
        ELSE <<Token(field.type, Len(elements))>>
             \o FlattenSeq([k \in DOMAIN elements |-> Write(field.of, elements[k])])])

\* What BinaryReader has read up to pos: its fields, or the elements of an array.
Reading(pos, value) == [ok |-> TRUE, pos |-> pos, value |-> value]
Garbled(pos) == [ok |-> FALSE, pos |-> pos, value |-> Nothing]

RECURSIVE ReadElements(_, _, _, _)
RECURSIVE ReadFields(_, _, _)

\* n elements of an array, after those that so far holds.
ReadElements(format, n, data, so_far) ==
  IF n = 0 \/ ~so_far.ok THEN so_far
  ELSE \* the tokens behind so_far.pos hold the next element
       LET next == ReadFields(format, data, Reading(so_far.pos, Nothing))
       IN  ReadElements(format, n - 1, data,
             IF next.ok THEN Reading(next.pos, Append(so_far.value, next.value)) ELSE next)

\* The fields of format, after those that so_far holds.
ReadFields(format, data, so_far) ==
  IF format = <<>> \/ ~so_far.ok THEN so_far
  ELSE LET field == Head(format)
           pos   == so_far.pos
           token == data[pos]
           read  == IF pos > Len(data) \/ token.type # field.type THEN Garbled(pos)
                    ELSE IF IsArray(field)
                         THEN ReadElements(field.of, token.value, data, Reading(pos + 1, <<>>))
                         ELSE Reading(pos + 1, token.value)
       IN  ReadFields(Tail(format), data,
             IF read.ok THEN Reading(read.pos, (field.name :> read.value) @@ so_far.value) ELSE read)

Read(format, data, pos) == ReadFields(format, data, Reading(pos, Nothing))

\* The message was read to its end.
ReadWhole(reading, data) == reading.ok /\ reading.pos = Len(data) + 1

\* Two messages have the same value for every field of format that is kept.
RECURSIVE Agree(_, _, _)
Agree(format, a, b) ==
  \A i \in DOMAIN format :
    LET name == format[i].name
    IN  \/ name = Skipped
        \/ ~IsArray(format[i]) /\ Value(a, name) = Value(b, name)
        \/ /\ IsArray(format[i])
           /\ Len(Elements(a, name)) = Len(Elements(b, name))
           /\ \A k \in DOMAIN Elements(a, name) :
                Agree(format[i].of, Elements(a, name)[k], Elements(b, name)[k])

=============================================================================
