----------------------------- MODULE KafkaCodec -----------------------------
(***************************************************************************)
(* The broker's side of the Kafka protocol: KafkaDecoder, KafkaEncoder and *)
(* RequestRouter (src/protocol/kafka_codec.cpp), between a client that     *)
(* uses the formats of KafkaProtocol and the handlers main registers.      *)
(*                                                                         *)
(* A decoder or encoder is the format of what it reads or writes; a field  *)
(* the code reads and drops has the name Skipped.  The handlers are left   *)
(* out but for this: they answer each partition of a request once, in      *)
(* order, with values of their own for that partition.                     *)
(***************************************************************************)
EXTENDS KafkaProtocol, FiniteSets, Bags

CONSTANTS
  Requests    \* what clients ask: records of api, version and body

VARIABLES
  sent,       \* the client's request, or None
  data,       \* its tokens on the wire
  handled,    \* what the decoder gave the handler, or None
  response    \* the tokens of the response; <<>> if there is none (yet)

vars == <<sent, data, handled, response>>

None == [api |-> "none"]

\* encode_api_versions_response: the versions offered of each API.
apis ==
  [Produce |-> 5, Fetch |-> 4, ListOffsets |-> 2, Metadata |-> 0, OffsetCommit |-> 3, OffsetFetch |-> 3,
   FindCoordinator |-> 2, JoinGroup |-> 3, Heartbeat |-> 2, LeaveGroup |-> 1, SyncGroup |-> 2,
   ApiVersions |-> 3, CreateTopics |-> 3]

ASSUME RequestsAreOffered ==
  \A r \in Requests : r.api \in DOMAIN apis /\ r.version \in 0 .. apis[r.api]

-----------------------------------------------------------------------------
(***************************************************************************)
(* KafkaDecoder                                                            *)
(***************************************************************************)

decode_header == Int16("api_key") \o Int16("api_version") \o Int32("correlation_id") \o Str("client_id")

\* The loops over topics and their partitions.
Topics(fields) == Array("topics", Str("topic") \o Array("partitions", Int32("partition") \o fields))

decode_produce(v) ==
  Since(v, 3, Str(Skipped)) \o Int16("acks") \o Int32("timeout_ms") \o Topics(Bytes("records"))

decode_fetch(v) ==
  Int32(Skipped) \o Int32("max_wait_ms") \o Int32("min_bytes") \o Since(v, 3, Int32("max_bytes"))
  \o Since(v, 4, Int8(Skipped))
  \o Topics(Since(v, 9, Int32(Skipped)) \o Int64("fetch_offset") \o Since(v, 5, Int64(Skipped))
            \o Int32("partition_max_bytes"))

decode_list_offsets(v) ==
  Int32(Skipped) \o Since(v, 2, Int8(Skipped))
  \o Topics(Int64("timestamp") \o IF v = 0 THEN Int32(Skipped) ELSE <<>>)

decode_find_coordinator(v) == Str("group_id") \o Since(v, 1, Int8("coordinator_type"))

decode_join_group(v) ==
  Str("group_id") \o Int32("session_timeout_ms") \o Since(v, 1, Int32("rebalance_timeout_ms"))
  \o Str("member_id") \o Str("protocol_type") \o Array("protocols", Str("name") \o Bytes("metadata"))

decode_sync_group(v) ==
  Str("group_id") \o Int32("generation_id") \o Str("member_id")
  \o Array("assignments", Str("member_id") \o Bytes("assignment"))

decode_heartbeat(v) == Str("group_id") \o Int32("generation_id") \o Str("member_id")

decode_leave_group(v) == Str("group_id") \o Str("member_id")

\* Mutant of decode_offset_commit: the timestamp is taken to be there from
\* version 1 on.
decode_offset_commit_since_1(v) ==
  Str("group_id") \o Since(v, 1, Int32("generation_id") \o Str("member_id"))
  \o Since(v, 2, Int64("retention_time_ms"))
  \o Topics(Int64("offset") \o Since(v, 1, Int64("timestamp")) \o Str("metadata"))

decode_offset_commit(v) ==
  Str("group_id") \o Since(v, 1, Int32("generation_id") \o Str("member_id"))
  \o Since(v, 2, Int64("retention_time_ms"))
  \o Topics(Int64("offset") \o (IF v = 1 THEN Int64("timestamp") ELSE <<>>) \o Str("metadata"))

decode_offset_fetch(v) == Str("group_id") \o Topics(<<>>)

\* The topics of a Metadata request are read by route_request itself.
MetadataTopics == Array("topics", Str("topic"))

Decoder(api, v) ==
  CASE api = "Produce" -> decode_produce(v)
    [] api = "Fetch" -> decode_fetch(v)
    [] api = "ListOffsets" -> decode_list_offsets(v)
    [] api = "Metadata" -> MetadataTopics
    [] api = "FindCoordinator" -> decode_find_coordinator(v)
    [] api = "JoinGroup" -> decode_join_group(v)
    [] api = "SyncGroup" -> decode_sync_group(v)
    [] api = "Heartbeat" -> decode_heartbeat(v)
    [] api = "LeaveGroup" -> decode_leave_group(v)
    [] api = "OffsetCommit" -> decode_offset_commit(v)
    [] api = "OffsetFetch" -> decode_offset_fetch(v)

\* decode_record_batch keeps of each record the bytes from its length to its
\* last header; a batch of another message format has no records.
record_without_headers ==   \* Mutant of record: as the reader of the REST API has it
  Varint(Skipped) \o Int8(Skipped) \o Varint(Skipped) \o Varint(Skipped)
  \o Sized("key") \o Sized("value") \o Varint(Skipped)
record ==
  Varint(Skipped) \o Int8(Skipped) \o Varint(Skipped) \o Varint(Skipped)
  \o Sized("key") \o Sized("value") \o VarArray(Skipped, Sized(Skipped) \o Sized(Skipped))
batch_header ==
  Int32("crc") \o Int16("attributes") \o Int32("last_offset_delta") \o Int64("first_timestamp")
  \o Int64("max_timestamp") \o Int64("producer_id") \o Int16("producer_epoch") \o Int32("base_sequence")

\* The tokens of n records from pos on; Garbled if one cannot be read.
RECURSIVE RecordSpans(_, _, _)
RecordSpans(bytes, pos, n) ==
  LET read == Read(record, bytes, pos)
      rest == RecordSpans(bytes, read.pos, n - 1)
  IN  IF n = 0 THEN Reading(pos, <<>>)
      ELSE IF ~read.ok THEN read
      ELSE [rest EXCEPT !.value = IF rest.ok THEN <<SubSeq(bytes, pos, read.pos - 1)>> \o @ ELSE @]

decode_record_batch(bytes) ==
  LET prefix == Read(Int64(Skipped) \o Int32(Skipped) \o Int32("epoch") \o Int8("magic"), bytes, 1)
      header == Read(batch_header, bytes, prefix.pos)
  IN  IF ~prefix.ok THEN prefix
      ELSE IF prefix.value["magic"] # <<"2">> THEN Reading(prefix.pos, <<>>)
      ELSE IF ~header.ok THEN header
      ELSE RecordSpans(bytes, header.pos + 1, bytes[header.pos].value)

\* The requests of a handler list the partitions of all topics one after the
\* other; of a Produce request those without data are left out, and the data of
\* the others is decoded.
Flat(message) ==
  FlattenSeq([i \in DOMAIN Elements(message, "topics") |->
    LET topic == message["topics"][i]
    IN  [k \in DOMAIN topic["partitions"] |-> ("topic" :> topic["topic"]) @@ topic["partitions"][k]]])
WithData(message) == SelectSeq(Flat(message), LAMBDA p : p["records"] # <<>>)
batches(message) ==
  [i \in DOMAIN WithData(message) |->
    ("decoded" :> decode_record_batch(WithData(message)[i]["records"])) @@ WithData(message)[i]]

-----------------------------------------------------------------------------
(***************************************************************************)
(* The handlers, and KafkaEncoder                                          *)
(***************************************************************************)

\* The values a handler returns for a partition.
ProducePartitionResponse == {"error_code", "base_offset", "log_append_time", "log_start_offset"}
FetchPartitionResponse == {"error_code", "high_watermark", "record_data"}
ListOffsetsPartitionResponse == {"error_code", "timestamp", "offset"}
OffsetCommitPartitionResponse == {"error_code"}
OffsetFetchPartitionResponse == {"error_code", "offset", "metadata"}

Results(api) ==
  CASE api = "Produce" -> ProducePartitionResponse
    [] api = "Fetch" -> FetchPartitionResponse
    [] api = "ListOffsets" -> ListOffsetsPartitionResponse
    [] api = "OffsetCommit" -> OffsetCommitPartitionResponse
    [] api = "OffsetFetch" -> OffsetFetchPartitionResponse
    [] OTHER -> {}

Answer(api, p) ==
  [name \in Results(api) |-> <<name>> \o p["topic"] \o p["partition"]]
  @@ ("topic" :> p["topic"]) @@ ("partition" :> p["partition"])
Answers(api, partitions) == [i \in DOMAIN partitions |-> Answer(api, partitions[i])]

\* Mutant of GroupByTopic: a topic is only found if it was the last one listed.
GroupRuns(parts) ==
  LET firsts == SelectSeq([i \in DOMAIN parts |-> <<i, parts[i]["topic"]>>],
                          LAMBDA e : e[1] = 1 \/ parts[e[1] - 1]["topic"] # e[2])
  IN  [j \in DOMAIN firsts |->
        ("topic" :> firsts[j][2])
        @@ ("partitions" :> SelectSeq(parts, LAMBDA p : p["topic"] = firsts[j][2]))]

\* The topics in the order of their first partition, and under each of them its
\* partitions: the same code in four encoders.
GroupByTopic(parts) ==
  LET firsts == SelectSeq([i \in DOMAIN parts |-> <<i, parts[i]["topic"]>>],
                          LAMBDA e : \A j \in 1 .. e[1] - 1 : parts[j]["topic"] # e[2])
  IN  [j \in DOMAIN firsts |->
        ("topic" :> firsts[j][2])
        @@ ("partitions" :> SelectSeq(parts, LAMBDA p : p["topic"] = firsts[j][2]))]

\* A response begins with the correlation id, and from some version on with a
\* throttle time; its size is patched in at the end.
Begin(v, throttled, cid, format, message) ==
  Write(Int32("correlation_id") \o Since(v, throttled, Int32("throttle_time_ms")) \o format,
        ("correlation_id" :> cid) @@ message)

Never == 99      \* a version no encoder knows

\* All partitions go under one topic, in the layout of version 5.
encode_produce_response(cid, parts, topic) ==
  Begin(0, Never, cid,
        Topics(Int16("error_code") \o Int64("base_offset") \o Int64("log_append_time")
               \o Int64("log_start_offset")) \o Int32("throttle_time_ms"),
        "topics" :> <<("topic" :> topic) @@ ("partitions" :> parts)>>)

encode_list_offsets_response(cid, parts, v) ==
  LET encoded(p) == IF v = 0 THEN ("offsets" :> <<"offset" :> p["offset"]>>) @@ p ELSE p
  IN  Begin(v, 2, cid,
            Topics(Int16("error_code") \o IF v = 0 THEN Array("offsets", Int64("offset"))
                                          ELSE Int64("timestamp") \o Int64("offset")),
            "topics" :> GroupByTopic([i \in DOMAIN parts |-> encoded(parts[i])]))

\* The last stable offset is the high watermark; the null array of aborted
\* transactions is read as an empty one.
encode_fetch_response(cid, parts, v) ==
  LET encoded(p) == ("last_stable_offset" :> p["high_watermark"]) @@ p
  IN  Begin(v, 1, cid,
            Topics(Int16("error_code") \o Int64("high_watermark")
                   \o Since(v, 4, Int64("last_stable_offset") \o Array("aborted", <<>>))
                   \o Bytes("record_data")),
            "topics" :> GroupByTopic([i \in DOMAIN parts |-> encoded(parts[i])]))

encode_offset_commit_response(cid, v, parts) ==
  Begin(v, 3, cid, Topics(Int16("error_code")), "topics" :> GroupByTopic(parts))

encode_offset_fetch_response(cid, v, parts) ==
  Begin(v, 3, cid,
        Topics(Int64("offset") \o Str("metadata") \o Int16("error_code"))
        \o Since(v, 2, Int16("group_error_code")),
        "topics" :> GroupByTopic(parts))

encode_api_versions_response(cid, v) ==
  LET api == Int16("key") \o Int16("min") \o Int16("max")
      offered == "apis" :> [i \in 1 .. Cardinality(DOMAIN apis) |-> Nothing]
  IN  IF v >= 3
      THEN Begin(v, Never, cid,
                 Int16("error_code") \o VarArray("apis", api \o Int8("tags")) \o Int32("throttle_time_ms")
                 \o Int8("tags"), offered)
      ELSE Begin(v, Never, cid,
                 Int16("error_code") \o Array("apis", api) \o Since(v, 1, Int32("throttle_time_ms")), offered)

\* One broker, and one partition of each topic.  A request that names no topic
\* is answered with all that are known.
known_topics == <<"topic" :> <<"known">>>>
InfoTopics(requested) == IF requested = <<>> THEN known_topics ELSE requested

encode_metadata_response(cid, topics) ==
  LET one == <<Nothing>>
      partitions == <<("replicas" :> one) @@ ("isr" :> one)>>
  IN  Begin(0, Never, cid,
        Array("brokers", Int32("broker_id") \o Str("host") \o Int32("port"))
        \o Array("topics", Int16("error_code") \o Str("topic")
             \o Array("partitions", Int16("error_code") \o Int32("partition") \o Int32("leader")
                  \o Array("replicas", Int32("broker_id")) \o Array("isr", Int32("broker_id")))),
        ("brokers" :> one)
        @@ ("topics" :> [i \in DOMAIN topics |-> ("partitions" :> partitions) @@ topics[i]]))

encode_find_coordinator_response(cid, v) ==
  Begin(v, 1, cid, Int16("error_code") \o Since(v, 1, Str("error_message")) \o Int32("node_id")
                   \o Str("host") \o Int32("port"), Nothing)

\* The member list is here that of a leader.
encode_join_group_response(cid, v, members) ==
  Begin(v, 2, cid, Int16("error_code") \o Int32("generation_id") \o Str("protocol_name") \o Str("leader_id")
                   \o Str("member_id") \o Array("members", Str("member_id") \o Bytes("metadata")),
        "members" :> members)

encode_sync_group_response(cid, v) ==
  Begin(v, 1, cid, Int16("error_code") \o Bytes("member_assignment"), Nothing)

encode_heartbeat_response(cid, v) == Begin(v, 1, cid, Int16("error_code"), Nothing)
encode_leave_group_response(cid, v) == Begin(v, 1, cid, Int16("error_code"), Nothing)

-----------------------------------------------------------------------------
(***************************************************************************)
(* RequestRouter, and the client                                           *)
(***************************************************************************)

Init == sent = None /\ data = <<>> /\ handled = None /\ response = <<>>

CorrelationId == <<"correlation_id", "of the request">>

Message(r) ==
  ("correlation_id" :> CorrelationId) @@ ("api_key" :> <<r.api>>) @@ ("api_version" :> <<r.version>>) @@ r.body

Send(r) ==
  /\ sent = None
  /\ sent' = r
  /\ data' = Write(HeaderFormat \o RequestFormat(r.api, r.version), Message(r))
  /\ UNCHANGED <<handled, response>>

\* ApiVersions is answered from the first three fields, before any decoding.
RouteApiVersions ==
  LET peek == Read(Int16("api_key") \o Int16("api_version") \o Int32("correlation_id"), data, 1)
  IN  /\ sent # None /\ handled = None
      /\ peek.value["api_key"] = <<"ApiVersions">>
      /\ response' = encode_api_versions_response(peek.value["correlation_id"], peek.value["api_version"][1])
      /\ handled' = [api |-> "ApiVersions", read |-> peek, batches |-> <<>>]
      /\ UNCHANGED <<sent, data>>

\* The response to a decoded request.
Encoded(api, v, cid, message) ==
  CASE api = "Produce" ->
         LET bs == WithData(message)
         IN  encode_produce_response(cid, Answers(api, bs), IF bs = <<>> THEN <<>> ELSE bs[1]["topic"])
    [] api = "Fetch" -> encode_fetch_response(cid, Answers(api, Flat(message)), v)
    [] api = "ListOffsets" -> encode_list_offsets_response(cid, Answers(api, Flat(message)), v)
    [] api = "OffsetCommit" -> encode_offset_commit_response(cid, v, Answers(api, Flat(message)))
    [] api = "OffsetFetch" -> encode_offset_fetch_response(cid, v, Answers(api, Flat(message)))
    [] api = "Metadata" -> encode_metadata_response(cid, InfoTopics(message["topics"]))
    [] api = "FindCoordinator" -> encode_find_coordinator_response(cid, v)
    [] api = "JoinGroup" -> encode_join_group_response(cid, v, <<Nothing, Nothing>>)
    [] api = "SyncGroup" -> encode_sync_group_response(cid, v)
    [] api = "Heartbeat" -> encode_heartbeat_response(cid, v)
    [] api = "LeaveGroup" -> encode_leave_group_response(cid, v)

\* The switch of route_request.  What follows a garbled read is arbitrary and
\* left out: the properties say that there is none.
route_request ==
  LET header == Read(decode_header, data, 1)
      api == header.value["api_key"][1]
      version == header.value["api_version"][1]
      body == Read(Decoder(api, version), data, header.pos)
  IN  /\ sent # None /\ handled = None
      /\ api \notin {"ApiVersions", "CreateTopics"}
      /\ handled' = [api |-> api, read |-> body,
                      batches |-> IF body.ok /\ api = "Produce" THEN batches(body.value) ELSE <<>>]
      /\ response' = IF body.ok
                     THEN Encoded(api, version, header.value["correlation_id"], body.value)
                     ELSE <<>>
      /\ UNCHANGED <<sent, data>>

\* CreateTopics is offered but has no case: nothing is sent.
RouteUnknown ==
  LET header == Read(decode_header, data, 1)
  IN  /\ sent # None /\ handled = None
      /\ header.value["api_key"] = <<"CreateTopics">>
      /\ handled' = [api |-> "CreateTopics", read |-> header, batches |-> <<>>]
      /\ UNCHANGED <<sent, data, response>>

\* The client has dealt with the response and asks something else.
Receive ==
  /\ response # <<>>
  /\ sent' = None /\ data' = <<>> /\ handled' = None /\ response' = <<>>

Next ==
  \/ \E r \in Requests : Send(r)
  \/ RouteApiVersions \/ route_request \/ RouteUnknown \/ Receive

Spec == Init /\ [][Next]_vars

-----------------------------------------------------------------------------
(***************************************************************************)
(* Properties                                                              *)
(***************************************************************************)

Decoded == handled # None /\ handled.api \notin {"ApiVersions", "CreateTopics"}

\* In every version the broker offers, the decoder reads a request to its end,
\* and each field it keeps has the value the client gave it, though fields come
\* and go with the version and nothing in the message says which are there.
DecodedAsSent ==
  Decoded =>
    /\ handled.api = sent.api
    /\ ReadWhole(handled.read, data)
    /\ Agree(Decoder(sent.api, sent.version), handled.read.value, sent.body)

\* The records of a Produce request are cut where the client's records begin
\* and end, whatever their keys, values and headers, and kept byte by byte.
RecordsAsSent ==
  Decoded =>
    \A i \in DOMAIN handled.batches :
      LET bytes == handled.batches[i]["records"]
          batch == Read(BatchFormat, bytes, 1)
          records == handled.batches[i]["decoded"]
      IN  /\ records.ok
          /\ batch.ok => /\ ReadWhole(records, bytes)
                         /\ records.value = [k \in DOMAIN batch.value["records"] |->
                                               Write(RecordFormat, batch.value["records"][k])]

Asked == IF sent.api = "Produce" THEN WithData(sent.body) ELSE Flat(sent.body)

\* encode_produce_response has one topic and one layout.
ProduceLimits ==
  sent.api = "Produce" =>
    sent.version = 5 /\ Asked # <<>> /\ Cardinality({Asked[i]["topic"] : i \in DOMAIN Asked}) = 1

\* Every request but CreateTopics is answered.  A client reads the response to
\* its end in the version it asked for, finds its correlation id, and under each topic the answers to the partitions it
\* asked for there, each once, however its request listed them: encoders group
\* what the handlers return in request order.
AnsweredAsAsked ==
  handled # None /\ handled.api # "CreateTopics" /\ ProduceLimits =>
    LET read == Read(ResponseFormat(sent.api, sent.version), response, 1)
        pick(p) == <<p["topic"], p["partition"], p["error_code"]>>
        got == Flat(read.value)
        asked == Answers(sent.api, Asked)
    IN  /\ ReadWhole(read, response)
        /\ read.value["correlation_id"] = CorrelationId
        /\ Results(sent.api) # {} =>
             /\ ToBag([i \in DOMAIN got |-> pick(got[i])]) = ToBag([i \in DOMAIN asked |-> pick(asked[i])])
             /\ \A i \in DOMAIN got : \A name \in Results(sent.api) \cap DOMAIN got[i] :
                  got[i][name] = Answer(sent.api, got[i])[name]

=============================================================================
