---------------------------- MODULE KafkaProtocol ----------------------------
(***************************************************************************)
(* The messages that Kafka clients write and expect, for the versions the  *)
(* broker offers them: external to the repository, and what a client that  *)
(* negotiated a version with the broker's ApiVersions response uses.       *)
(***************************************************************************)
EXTENDS Wire

PartitionOf(fields) == Str("topic") \o Array("partitions", Int32("partition") \o fields)

\* What follows the header of a request.
RequestFormat(api, v) ==
  CASE api = "Produce" ->
         Since(v, 3, Str("transactional_id")) \o Int16("acks") \o Int32("timeout_ms")
         \o Array("topics", PartitionOf(Bytes("records")))
    [] api = "Fetch" ->
         Int32("replica_id") \o Int32("max_wait_ms") \o Int32("min_bytes")
         \o Since(v, 3, Int32("max_bytes")) \o Since(v, 4, Int8("isolation_level"))
         \o Array("topics", PartitionOf(Int64("fetch_offset") \o Int32("partition_max_bytes")))
    [] api = "ListOffsets" ->
         Int32("replica_id") \o Since(v, 2, Int8("isolation_level"))
         \o Array("topics", PartitionOf(Int64("timestamp")
                                        \o IF v = 0 THEN Int32("max_num_offsets") ELSE <<>>))
    [] api = "Metadata" -> Array("topics", Str("topic"))
    [] api = "OffsetCommit" ->
         Str("group_id") \o Since(v, 1, Int32("generation_id") \o Str("member_id"))
         \o Since(v, 2, Int64("retention_time_ms"))
         \o Array("topics", PartitionOf(Int64("offset") \o (IF v = 1 THEN Int64("timestamp") ELSE <<>>)
                                        \o Str("metadata")))
    [] api = "OffsetFetch" -> Str("group_id") \o Array("topics", PartitionOf(<<>>))
    [] api = "FindCoordinator" -> Str("group_id") \o Since(v, 1, Int8("coordinator_type"))
    [] api = "JoinGroup" ->
         Str("group_id") \o Int32("session_timeout_ms") \o Since(v, 1, Int32("rebalance_timeout_ms"))
         \o Str("member_id") \o Str("protocol_type")
         \o Array("protocols", Str("name") \o Bytes("metadata"))
    [] api = "Heartbeat" -> Str("group_id") \o Int32("generation_id") \o Str("member_id")
    [] api = "LeaveGroup" -> Str("group_id") \o Str("member_id")
    [] api = "SyncGroup" ->
         Str("group_id") \o Int32("generation_id") \o Str("member_id")
         \o Array("assignments", Str("member_id") \o Bytes("assignment"))
    [] api = "ApiVersions" ->
         Since(v, 3, Int8("tags") \o Str("software_name") \o Str("software_version") \o Int8("tags"))
    [] OTHER -> <<>>

\* What follows the size of a response.
ResponseFormat(api, v) ==
  LET throttled(first) == Since(v, first, Int32("throttle_time_ms"))
  IN  Int32("correlation_id") \o
  CASE api = "Produce" ->
         Array("topics", PartitionOf(Int16("error_code") \o Int64("base_offset")
                                     \o Since(v, 2, Int64("log_append_time"))
                                     \o Since(v, 5, Int64("log_start_offset"))))
         \o throttled(1)
    [] api = "Fetch" ->
         throttled(1)
         \o Array("topics", PartitionOf(Int16("error_code") \o Int64("high_watermark")
              \o Since(v, 4, Int64("last_stable_offset")
                             \o Array("aborted", Int64("producer_id") \o Int64("first_offset")))
              \o Bytes("record_data")))
    [] api = "ListOffsets" ->
         throttled(2)
         \o Array("topics", PartitionOf(Int16("error_code")
              \o IF v = 0 THEN Array("offsets", Int64("offset")) ELSE Int64("timestamp") \o Int64("offset")))
    [] api = "Metadata" ->
         Array("brokers", Int32("broker_id") \o Str("host") \o Int32("port"))
         \o Array("topics", Int16("error_code") \o Str("topic")
              \o Array("partitions", Int16("error_code") \o Int32("partition") \o Int32("leader")
                   \o Array("replicas", Int32("broker_id")) \o Array("isr", Int32("broker_id"))))
    [] api = "OffsetCommit" -> throttled(3) \o Array("topics", PartitionOf(Int16("error_code")))
    [] api = "OffsetFetch" ->
         throttled(3)
         \o Array("topics", PartitionOf(Int64("offset") \o Str("metadata") \o Int16("error_code")))
         \o Since(v, 2, Int16("group_error_code"))
    [] api = "FindCoordinator" ->
         throttled(1) \o Int16("error_code") \o Since(v, 1, Str("error_message"))
         \o Int32("node_id") \o Str("host") \o Int32("port")
    [] api = "JoinGroup" ->
         throttled(2) \o Int16("error_code") \o Int32("generation_id") \o Str("protocol_name")
         \o Str("leader_id") \o Str("member_id")
         \o Array("members", Str("member_id") \o Bytes("metadata"))
    [] api = "SyncGroup" -> throttled(1) \o Int16("error_code") \o Bytes("member_assignment")
    [] api \in {"Heartbeat", "LeaveGroup"} -> throttled(1) \o Int16("error_code")
    [] api = "ApiVersions" /\ v < 3 ->
         Int16("error_code") \o Array("apis", Int16("key") \o Int16("min") \o Int16("max")) \o throttled(1)
    [] OTHER ->
         Int16("error_code")
         \o VarArray("apis", Int16("key") \o Int16("min") \o Int16("max") \o Int8("tags"))
         \o Int32("throttle_time_ms") \o Int8("tags")

\* The header of a request.
HeaderFormat == Int16("api_key") \o Int16("api_version") \o Int32("correlation_id") \o Str("client_id")

\* A record batch of message format 2, and what an older one has in common with it.
RecordFormat ==
  Varint("length") \o Int8("attributes") \o Varint("timestamp_delta") \o Varint("offset_delta")
  \o Sized("key") \o Sized("value") \o VarArray("headers", Sized("key") \o Sized("value"))
OldBatchFormat == Int64("base_offset") \o Int32("length") \o Int32("epoch") \o Int8("magic")
BatchFormat ==
  OldBatchFormat \o Int32("crc") \o Int16("attributes") \o Int32("last_offset_delta")
  \o Int64("first_timestamp") \o Int64("max_timestamp") \o Int64("producer_id")
  \o Int16("producer_epoch") \o Int32("base_sequence") \o Array("records", RecordFormat)

=============================================================================
