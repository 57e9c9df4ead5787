---------------------------- MODULE MCKafkaCodec ----------------------------
(***************************************************************************)
(* Small instances of KafkaCodec for TLC: every API in every version       *)
(* offered, with lists of up to three topics, a topic possibly more than   *)
(* once, and up to two partitions.                                         *)
(***************************************************************************)
EXTENDS KafkaCodec

Partition == {<<"p0">>, <<"p1">>}
Topic == {<<"t1">>, <<"t2">>}
TopicApis == {"Fetch", "ListOffsets", "OffsetCommit", "OffsetFetch"}

UpTo(S, n) == UNION {[1 .. k -> S] : k \in 0 .. n}

Listed(parts) == {("topic" :> t) @@ ("partitions" :> ps) : t \in Topic, ps \in parts}
TopicLists(parts) ==
  {"topics" :> ts : ts \in UpTo(Listed(UpTo(parts, 2)), 2) \cup [1 .. 3 -> Listed([{1} -> parts])]}

Plain == {"partition" :> p : p \in Partition}

\* A batch of two records, without a key, with a header without a value; one of
\* an older format; and no data.
Header == ("key" :> <<"k">>) @@ ("value" :> <<"null">>)
TwoRecords ==
  Write(BatchFormat, ("magic" :> <<"2">>)
    @@ ("records" :> <<"key" :> <<"null">>, ("headers" :> <<Header, Header>>)>>))
OldRecords == Write(OldBatchFormat, "magic" :> <<"1">>)
Produced ==
  {("partition" :> <<"p0">>) @@ ("records" :> TwoRecords), ("partition" :> <<"p1">>) @@ ("records" :> OldRecords),
   ("partition" :> <<"p1">>) @@ ("records" :> <<>>)}

Lists == {[n \in {"protocols", "assignments"} |-> [i \in 1 .. k |-> Nothing]] : k \in 0 .. 2}

Bodies(api) ==
  CASE api \in TopicApis -> TopicLists(Plain)
    [] api = "Produce" -> TopicLists(Produced)
    [] api = "Metadata" -> {"topics" :> ts : ts \in UpTo({"topic" :> t : t \in Topic}, 2)}
    [] OTHER -> Lists

MCRequests ==
  UNION {[api : {api}, version : 0 .. apis[api], body : Bodies(api)] : api \in DOMAIN apis}

=============================================================================
