---------------------------- MODULE RestMessages ----------------------------
(***************************************************************************)
(* Messages through the REST API (src/http/http_server.cpp): POST takes    *)
(* them out of a JSON body, encodes them as Kafka records and appends them *)
(* as one batch; GET reads batches back, decodes their records and writes  *)
(* them as JSON.                                                           *)
(*                                                                         *)
(* Text is a sequence of character codes.  The words key, value and        *)
(* messages are one character each, in a body as in the messages, so that  *)
(* a text may happen to hold one.  Numbers in records are varints of base  *)
(* Radix; a byte of Radix or more says that another follows.               *)
(***************************************************************************)
EXTENDS Integers, Sequences, FiniteSets, SequencesExt

CONSTANTS
  Radix,          \* base of varints (128)
  Header,         \* bytes of a batch before its records (61)
  BufferSize,     \* append's stack buffer (65536)
  DefaultLimit, MaxLimit,   \* limit of GET without a usable one, and its maximum (10, 1000)
  Bodies,         \* what clients post: sequences of messages
  Limits,         \* the limits of GET requests
  MaxPosts        \* bound on the number of batches

ASSUME RestAssumption ==
  /\ Radix \in Nat /\ Radix > 1 /\ Header \in Nat /\ BufferSize \in Nat
  /\ DefaultLimit \in 1 .. MaxLimit /\ Limits \subseteq Int /\ MaxPosts \in Nat

Quote == 34
Backslash == 92
Comma == 44
Colon == 58
OpenBrace == 123
CloseBrace == 125
OpenBracket == 91
CloseBracket == 93
LetterN == 110
Newline == 10
Key == 1001
Value == 1002
Messages == 1003
OffsetWord == 1004
Null == 1005

VARIABLES
  batches,        \* the batches of the log, as stored
  next_offset,    \* next_offset_
  status,         \* the status of the last response
  reply,          \* the array in the body of the last response, if it was to a GET
  asked,          \* the offset and the limit of the last GET
  sent,           \* history: the messages posted, by offset
  parsed          \* history: what the last POST found in its body, and what was meant

vars == <<batches, next_offset, status, reply, asked, sent, parsed>>

Init ==
  /\ batches = <<>> /\ next_offset = 0
  /\ status = 0 /\ reply = <<>> /\ asked = [offset |-> 0, limit |-> 0]
  /\ sent = <<>> /\ parsed = [found |-> <<>>, meant |-> <<>>]

Least(S) == CHOOSE m \in S : \A n \in S : m <= n

-----------------------------------------------------------------------------
(***************************************************************************)
(* JSON strings, and JsonWriter.  buf is what has been written; need_comma *)
(* has an entry for every object or array that is not closed.              *)
(***************************************************************************)

Escaped(c) ==
  CASE c \in {Quote, Backslash} -> <<Backslash, c>>
    [] c = Newline -> <<Backslash, LetterN>>
    [] OTHER -> <<c>>

write_string(s) == <<Quote>> \o FlattenSeq([i \in 1 .. Len(s) |-> Escaped(s[i])]) \o <<Quote>>

NewWriter == [buf |-> <<>>, need_comma |-> <<>>]

Set(j, flag) ==
  IF j.need_comma = <<>> THEN j ELSE [j EXCEPT !.need_comma[Len(j.need_comma)] = flag]

comma(j) == IF j.need_comma # <<>> /\ Last(j.need_comma) THEN <<Comma>> ELSE <<>>
mark_value(j) == Set(j, TRUE)

begin(j, bracket) ==
  [buf |-> j.buf \o comma(j) \o <<bracket>>, need_comma |-> Append(j.need_comma, FALSE)]

\* Mutant of end: the enclosing container is not told that it has a value.
end_unmarked(j, bracket) == [buf |-> Append(j.buf, bracket), need_comma |-> Front(j.need_comma)]

end(j, bracket) == mark_value([buf |-> Append(j.buf, bracket), need_comma |-> Front(j.need_comma)])

key(j, k) == Set([j EXCEPT !.buf = @ \o comma(j) \o write_string(<<k>>) \o <<Colon>>], FALSE)

\* value and value_null, of something already formatted.
value(j, text) == mark_value([j EXCEPT !.buf = @ \o comma(j) \o text])

-----------------------------------------------------------------------------
(***************************************************************************)
(* Parsing the body of a POST                                              *)
(***************************************************************************)

\* std::string::find; no result is 0.
Find(s, pat, from) ==
  LET places == {i \in from .. Len(s) - Len(pat) + 1 : SubSeq(s, i, i + Len(pat) - 1) = pat}
  IN  IF places = {} THEN 0 ELSE Least(places)

Unescaped(c) == IF c = LetterN THEN Newline ELSE c

\* Mutant of Unquote: escapes are not understood.
UnquoteRaw(s, pos) ==
  LET ends == {i \in pos .. Len(s) : s[i] = Quote} \cup {Len(s) + 1} IN SubSeq(s, pos, Least(ends) - 1)

\* The text from pos to the next quote that is not escaped.
Unquote(s, pos) ==
  LET text[i \in pos .. Len(s) + 2] ==
        IF i > Len(s) \/ s[i] = Quote THEN <<>>
        ELSE IF s[i] = Backslash /\ i < Len(s) THEN <<Unescaped(s[i + 1])>> \o text[i + 2]
        ELSE <<s[i]>> \o text[i + 1]
  IN  text[pos]

\* The string after the first "word" and its colons; empty if there is none.
json_extract_string(json, word) ==
  LET at    == Find(json, <<Quote, word, Quote>>, 1)
      after == {i \in at + 3 .. Len(json) : json[i] # Colon}
  IN  IF at = 0 \/ after = {} THEN <<>>
      ELSE IF json[Least(after)] # Quote THEN <<>>
      ELSE Unquote(json, Least(after) + 1)

Count(s, c) == Cardinality({i \in DOMAIN s : s[i] = c})

\* The brace that closes the one at from; braces in strings count as well.
Closing(s, from) ==
  LET ends == {i \in from .. Len(s) : LET part == SubSeq(s, from, i)
                                      IN  Count(part, OpenBrace) = Count(part, CloseBrace)}
  IN  IF ends = {} THEN 0 ELSE Least(ends)

json_extract_messages(json) ==
  LET start   == Find(json, <<Quote, Messages, Quote>>, 1)
      bracket == IF start = 0 THEN 0 ELSE Find(json, <<OpenBracket>>, start)
      from[pos \in 1 .. Len(json) + 1] ==
        LET open  == Find(json, <<OpenBrace>>, pos)
            close == IF open = 0 THEN 0 ELSE Closing(json, open)
            obj   == SubSeq(json, open, close)
        IN  IF close = 0 THEN <<>>
            ELSE <<[key |-> json_extract_string(obj, Key), value |-> json_extract_string(obj, Value)]>>
                 \o from[close + 1]
  IN  IF bracket = 0 THEN <<>> ELSE from[bracket + 1]

-----------------------------------------------------------------------------
(***************************************************************************)
(* Kafka records                                                           *)
(***************************************************************************)

ZigZag(v) == IF v >= 0 THEN 2 * v ELSE -2 * v - 1
UnZigZag(z) == IF z % 2 = 0 THEN z \div 2 ELSE -(z \div 2) - 1

write_varint(v) ==
  LET bytes[z \in Nat] == IF z < Radix THEN <<z>> ELSE <<(z % Radix) + Radix>> \o bytes[z \div Radix]
  IN  bytes[ZigZag(v)]

\* The number at pos and the place behind it; past the end it is 0.
read_varint(bytes, pos) ==
  LET ends == {i \in pos .. Len(bytes) : bytes[i] < Radix} \cup {Len(bytes)}
      last == Least(ends)
      sum[i \in pos .. Len(bytes) + 1] ==
        IF i > last THEN 0 ELSE (bytes[i] % Radix) + Radix * sum[i + 1]
  IN  IF pos > Len(bytes) THEN [val |-> 0, next |-> pos]
      ELSE [val |-> UnZigZag(sum[pos]), next |-> last + 1]

\* The i-th record of a batch, from 0: attributes, timestamp and offset deltas,
\* key or -1 for none, value, no headers; and before them their length.
Record(i, m) ==
  LET content == <<0>> \o write_varint(0) \o write_varint(i)
                 \o (IF m.key = <<>> THEN write_varint(-1) ELSE write_varint(Len(m.key)) \o m.key)
                 \o write_varint(Len(m.value)) \o m.value \o write_varint(0)
  IN  write_varint(Len(content)) \o content

\* serialize_batch: a record that does not fit what is left of the buffer is skipped.
serialize_batch(records) ==
  LET data[i \in 0 .. Len(records)] ==
        IF i = 0 THEN <<>>
        ELSE IF Header + Len(data[i - 1]) + Len(records[i]) < BufferSize
        THEN data[i - 1] \o records[i] ELSE data[i - 1]
  IN  [data |-> data[Len(records)],
       kept |-> {i \in 1 .. Len(records) : Len(data[i]) > Len(data[i - 1])}]

\* A key or value of length n at pos: present, absent (n <= 0), or cut off.
Fits(bytes, pos, n) == n <= 0 \/ pos + n - 1 <= Len(bytes)
Taken(bytes, pos, n) == IF n <= 0 THEN <<>> ELSE SubSeq(bytes, pos, pos + n - 1)
Behind(pos, n) == IF n <= 0 THEN pos ELSE pos + n

\* One turn of the loop over the records of a batch: the record at pos and the
\* place behind it, which is 0 if the loop ends here.
ReadRecord(bytes, pos) ==
  LET length    == read_varint(bytes, pos)
      timestamp == read_varint(bytes, length.next + 1)
      delta     == read_varint(bytes, timestamp.next)
      klen      == read_varint(bytes, delta.next)
      vlen      == read_varint(bytes, Behind(klen.next, klen.val))
      headers   == read_varint(bytes, Behind(vlen.next, vlen.val))
  IN  IF length.next + 1 > Len(bytes) \/ ~Fits(bytes, klen.next, klen.val)
           \/ ~Fits(bytes, vlen.next, vlen.val)
      THEN [next |-> 0]
      ELSE [next |-> headers.next, delta |-> delta.val,
            key |-> Taken(bytes, klen.next, klen.val), value |-> Taken(bytes, vlen.next, vlen.val)]

\* At most n records of a batch.
ReadRecords(batch, n) ==
  LET from[r \in 0 .. batch.count, pos \in 1 .. Len(batch.data) + 1] ==
        IF r = batch.count \/ r = n \/ pos > Len(batch.data) THEN <<>>
        ELSE LET rec == ReadRecord(batch.data, pos)
             IN  IF rec.next = 0 THEN <<>>
                 ELSE <<[offset |-> batch.base + rec.delta, key |-> rec.key, value |-> rec.value]>>
                      \o from[r + 1, rec.next]
  IN  from[0, 1]

-----------------------------------------------------------------------------
(***************************************************************************)
(* The handlers                                                            *)
(***************************************************************************)

\* JSON as a client writes it.
JsonString(text) ==
  LET spelled == [c \in {Quote, Backslash, Newline} |-> <<Backslash, IF c = Newline THEN LetterN ELSE c>>]
  IN  <<Quote>>
      \o FlattenSeq([i \in 1 .. Len(text) |->
                       IF text[i] \in DOMAIN spelled THEN spelled[text[i]] ELSE <<text[i]>>])
      \o <<Quote>>

Named(word, text) == JsonString(<<word>>) \o <<Colon>> \o text
Field(word, text) == Named(word, JsonString(text))

\* A client's messages: the fields in either order, no key when it is empty.
Object(m, valueFirst) ==
  <<OpenBrace>>
  \o (IF m.key = <<>> THEN Field(Value, m.value)
      ELSE IF valueFirst THEN Field(Value, m.value) \o <<Comma>> \o Field(Key, m.key)
      ELSE Field(Key, m.key) \o <<Comma>> \o Field(Value, m.value))
  \o <<CloseBrace>>
Joined(texts) == FlattenSeq([i \in 1 .. Len(texts) |-> IF i = 1 THEN texts[i] ELSE <<Comma>> \o texts[i]])
BodyOf(ms, valueFirst) ==
  <<OpenBrace>> \o JsonString(<<Messages>>) \o <<Colon, OpenBracket>>
  \o Joined([i \in 1 .. Len(ms) |-> Object(ms[i], valueFirst)]) \o <<CloseBracket, CloseBrace>>

BadRequest ==
  /\ status' = 400
  /\ UNCHANGED <<batches, next_offset, sent>>

NewBatch(ms) ==
  LET body == serialize_batch([i \in 1 .. Len(ms) |-> Record(i - 1, ms[i])])
  IN  [base |-> next_offset, count |-> Len(ms), data |-> body.data, kept |-> body.kept]

\* The records are appended as one batch, whose count is that of the messages.
AppendBatch(ms) ==
  /\ status' = 200
  /\ batches' = Append(batches, NewBatch(ms))
  /\ next_offset' = next_offset + Len(ms)
  /\ sent' = sent \o ms

handle_post_messages(ms, valueFirst) ==
  /\ Len(batches) < MaxPosts
  /\ \E found \in {json_extract_messages(BodyOf(ms, valueFirst))} :
       /\ parsed' = [found |-> found, meant |-> ms]
       /\ IF found = <<>> THEN BadRequest ELSE AppendBatch(found)
  /\ reply' = <<>> /\ UNCHANGED asked

\* A POST without a body.
post_nothing ==
  /\ BadRequest
  /\ reply' = <<>> /\ UNCHANGED <<asked, parsed>>

Clamped(limit) == IF limit <= 0 THEN DefaultLimit ELSE IF limit > MaxLimit THEN MaxLimit ELSE limit

\* PartitionLog::read for one that nobody else uses: the batches from the first
\* one that begins at offset or later.  The byte limit, room for limit full
\* batches, is never what ends the result.
Read(offset) == SelectSeq(batches, LAMBDA b : b.base >= offset)

\* The records of the batches until limit is reached.
Peeked(bs, limit) ==
  LET recs[i \in 0 .. Len(bs)] ==
        IF i = 0 THEN <<>> ELSE recs[i - 1] \o ReadRecords(bs[i], limit - Len(recs[i - 1]))
  IN  recs[Len(bs)]

\* The record as an object; its offset stands for the decimal number, and its
\* timestamp is left out.
WriteRecord(j, rec) ==
  LET j1 == value(key(begin(j, OpenBrace), OffsetWord), <<rec.offset>>)
      j2 == value(key(j1, Key), IF rec.key = <<>> THEN <<Null>> ELSE write_string(rec.key))
      j3 == value(key(j2, Value), write_string(rec.value))
  IN  end(j3, CloseBrace)

WriteRecords(recs) ==
  LET j[i \in 0 .. Len(recs)] ==
        IF i = 0 THEN begin(NewWriter, OpenBracket) ELSE WriteRecord(j[i - 1], recs[i])
  IN  end(j[Len(recs)], CloseBracket).buf

handle_get_messages(offset, limit) ==
  /\ asked' = [offset |-> offset, limit |-> limit]
  /\ IF batches = <<>>
     THEN status' = 404 /\ reply' = <<>>
     ELSE status' = 200 /\ reply' = WriteRecords(Peeked(Read(offset), Clamped(limit)))
  /\ UNCHANGED <<batches, next_offset, sent, parsed>>

Next ==
  \/ \E ms \in Bodies, valueFirst \in BOOLEAN : handle_post_messages(ms, valueFirst)
  \/ post_nothing
  \/ \E offset \in 0 .. next_offset, limit \in Limits : handle_get_messages(offset, limit)

Spec == Init /\ [][Next]_vars

-----------------------------------------------------------------------------
(***************************************************************************)
(* Properties                                                              *)
(***************************************************************************)

\* docs/PRODUCT.md, line 160: "Each message can have an optional `key` and a
\* required `value`".  json_extract_messages finds the messages of a body as its
\* client meant them, provided that no text has a brace or a word in it that the
\* search, which looks into strings too, takes for syntax.
SyntaxIn(m) == (ToSet(m.key) \cup ToSet(m.value)) \cap {OpenBrace, CloseBrace, Key, Value, Messages}
ExtractedAsSent ==
  (\A i \in DOMAIN parsed.meant : SyntaxIn(parsed.meant[i]) = {}) => parsed.found = parsed.meant

Shown(o) == [offset |-> o, key |-> sent[o + 1].key, value |-> sent[o + 1].value]
KeptOffsets == UNION {{batches[i].base + k - 1 : k \in batches[i].kept} : i \in DOMAIN batches}
InOrder(offsets) == SetToSortSeq(offsets, <)
ShownAll(offsets) == LET os == InOrder(offsets) IN [i \in 1 .. Len(os) |-> Shown(os[i])]

JsonRecord(rec) ==
  <<OpenBrace>> \o Named(OffsetWord, <<rec.offset>>) \o <<Comma>>
  \o Named(Key, IF rec.key = <<>> THEN <<Null>> ELSE JsonString(rec.key)) \o <<Comma>>
  \o Named(Value, JsonString(rec.value)) \o <<CloseBrace>>

FirstOf(s, n) == SubSeq(s, 1, IF n < Len(s) THEN n ELSE Len(s))

\* The reply to a GET is the JSON array of the messages that were posted, from
\* the first batch at or after the offset on, as many as the limit allows and
\* the log has.
PeekShowsPosted ==
  reply # <<>> =>
    LET starts == {batches[i].base : i \in DOMAIN batches} \cap (asked.offset .. next_offset)
        limit  == IF asked.limit \in 1 .. MaxLimit THEN asked.limit
                  ELSE IF asked.limit > MaxLimit THEN MaxLimit ELSE DefaultLimit
        recs   == IF starts = {} THEN <<>>
                  ELSE FirstOf(ShownAll({o \in KeptOffsets : o >= Least(starts)}), limit)
    IN  reply = <<OpenBracket>> \o Joined([i \in 1 .. Len(recs) |-> JsonRecord(recs[i])])
                \o <<CloseBracket>>
=============================================================================
