--------------------------- MODULE ConsumerGroup ---------------------------
(***************************************************************************)
(* The consumer-group coordinator, class ConsumerGroupManager of           *)
(* include/storage/consumer_group.h, for one group.  Every handler holds   *)
(* mu_ from its first to its last line, so a handler is one atomic step,   *)
(* and groups share no state but the mutex, so one group is enough.        *)
(*                                                                         *)
(* Data abstraction.  Member ids are the values generate_member_id may     *)
(* return; NoMember is the empty string.  Assignments are opaque to the    *)
(* broker, NoAssignment being the empty byte vector.  The wall clock is    *)
(* abstracted to the set "lapsed" of the members whose session timeout has *)
(* run out.  Names, metadata and log lines are left out.                   *)
(*                                                                         *)
(* The module leaves the clients open: any request may arrive at any time, *)
(* provided that a client only quotes generations the broker told it.      *)
(***************************************************************************)
EXTENDS Integers, Sequences, FiniteSets

CONSTANTS
  Client,         \* the connections replies are sent to
  MemberId,       \* the ids generate_member_id can return
  NoMember,       \* the empty member id, also the empty leader id
  Protocol,       \* names of assignment protocols
  ProtocolLists,  \* the protocol lists clients send, in order of preference
  NoProtocol,     \* the empty protocol name
  Assignment,     \* the assignments leaders send
  NoAssignment,   \* the empty assignment
  Partition,      \* the partitions whose offsets are kept
  Offset,         \* the offsets clients commit
  MaxGeneration   \* bound on the number of rebalances

ASSUME ConstantsAssumption ==
  /\ NoMember \notin MemberId
  /\ NoProtocol \notin Protocol
  /\ ProtocolLists \subseteq Seq(Protocol)
  /\ NoAssignment \in Assignment
  /\ Offset \subseteq Nat
  /\ MaxGeneration \in Nat

\* A client lists a protocol once, so the votes of a protocol are the members
\* that list it.
ASSUME NoRepeatedProtocol ==
  \A ps \in ProtocolLists : \A i, j \in DOMAIN ps : ps[i] = ps[j] => i = j

VARIABLES
  exists,         \* groups_ has an entry for the group
  state,          \* ConsumerGroup::state
  generation_id,  \* ConsumerGroup::generation_id
  protocol_name,  \* ConsumerGroup::protocol_name
  leader_id,      \* ConsumerGroup::leader_id
  members,        \* the keys of ConsumerGroup::members
  protocols,      \* MemberMetadata::protocols of each member
  assignment,     \* MemberMetadata::assignment of each member
  lapsed,         \* members whose last heartbeat is older than their timeout
  used,           \* ids generate_member_id has returned
  committed,      \* ConsumerGroup::committed_offsets, -1 where absent
  reply,          \* the last reply sent on each connection
  told            \* history: the last generation a join reply gave each id

groupVars == <<state, generation_id, protocol_name, leader_id, members,
               protocols, assignment, lapsed>>
vars == <<exists, groupVars, used, committed, reply, told>>

GroupState == {"Empty", "PreparingRebalance", "CompletingRebalance", "Stable"}

\* The error codes of the Kafka protocol that the handlers return.
NONE == 0
ILLEGAL_GENERATION == 22
UNKNOWN_MEMBER_ID == 25
REBALANCE_IN_PROGRESS == 27

JoinReply ==
  [api : {"JoinGroup"}, error : {NONE, UNKNOWN_MEMBER_ID}, generation : Nat \cup {-1},
   leader : MemberId \cup {NoMember}, member : MemberId, members : SUBSET MemberId]
SyncReply ==
  [api : {"SyncGroup"}, error : {NONE, ILLEGAL_GENERATION, UNKNOWN_MEMBER_ID},
   assignment : Assignment]
ErrorReply ==
  [api : {"Heartbeat", "LeaveGroup", "OffsetCommit"},
   error : {NONE, ILLEGAL_GENERATION, UNKNOWN_MEMBER_ID, REBALANCE_IN_PROGRESS}]
OffsetReply == [api : {"OffsetFetch"}, offset : Offset \cup {-1}]
NoReply == [api |-> "none"]
Reply == JoinReply \cup SyncReply \cup ErrorReply \cup OffsetReply \cup {NoReply}

\* The worker writes the reply to the connection the request came from.  A
\* request whose connection is gone (c is no Client) is still processed.
Respond(c, r) ==
  reply' = IF c \in Client THEN [reply EXCEPT ![c] = r] ELSE reply

Init ==
  /\ exists = FALSE
  /\ state = "Empty"
  /\ generation_id = 0
  /\ protocol_name = NoProtocol
  /\ leader_id = NoMember
  /\ members = {}
  /\ protocols = [m \in MemberId |-> <<>>]
  /\ assignment = [m \in MemberId |-> NoAssignment]
  /\ lapsed = {}
  /\ used = {}
  /\ committed = [p \in Partition |-> -1]
  /\ reply = [c \in Client |-> NoReply]
  /\ told = [m \in MemberId |-> -1]

-----------------------------------------------------------------------------
(***************************************************************************)
(* join_group                                                              *)
(***************************************************************************)

Lists(ps, p) == \E i \in DOMAIN ps : ps[i] = p

\* Mutant of choose_protocol: some member's first preference, no vote.
FirstPreference(ms, ps) == {IF ps[m] = <<>> THEN NoProtocol ELSE ps[m][1] : m \in ms}

\* The possible results of choose_protocol.  The iteration order of the
\* members (an unordered_map) is arbitrary, so any member may be visited first.
choose_protocol(ms, ps) ==
  LET common == {p \in Protocol : \A m \in ms : Lists(ps[m], p)}
      first(m) == {p \in common : \E i \in DOMAIN ps[m] :
                     ps[m][i] = p /\ \A j \in 1 .. i - 1 : ps[m][j] \notin common}
  IN  IF common # {}
      THEN UNION {first(m) : m \in ms}
      ELSE {IF ps[m] = <<>> THEN NoProtocol ELSE ps[m][1] : m \in ms}

IsKnown(id) == id \in members

Rejoined(c, id, ps) ==
  /\ lapsed' = lapsed \ {id}
  /\ protocols' = [protocols EXCEPT ![id] = ps]
  /\ told' = [told EXCEPT ![id] = generation_id]
  /\ Respond(c, [api |-> "JoinGroup", error |-> NONE, generation |-> generation_id,
                 leader |-> leader_id, member |-> id,
                 members |-> IF id = leader_id THEN members ELSE {}])
  /\ UNCHANGED <<exists, state, generation_id, protocol_name, leader_id, members,
                 assignment, used, committed>>

\* Mutant of RejoinStable: the state of the group is not looked at.
RejoinAnyState(c, id, ps) == id # NoMember /\ IsKnown(id) /\ Rejoined(c, id, ps)

\* A known member that joins a Stable group is told the current generation
\* again; no rebalance starts.
RejoinStable(c, id, ps) ==
  id # NoMember /\ state = "Stable" /\ IsKnown(id) /\ Rejoined(c, id, ps)

RefusesJoin(id) ==
  id # NoMember /\ members # {} /\ state # "Empty" /\ ~IsKnown(id)

JoinRefused(c, id) ==
  /\ RefusesJoin(id)
  /\ Respond(c, [api |-> "JoinGroup", error |-> UNKNOWN_MEMBER_ID, generation |-> -1,
                 leader |-> NoMember, member |-> id, members |-> {}])
  /\ UNCHANGED <<exists, groupVars, used, committed, told>>

generate_member_id == MemberId \ used

\* Any other join adds or updates the member and starts the next generation.
JoinRebalance(c, id, ps) ==
  /\ ~RefusesJoin(id)
  /\ ~(id # NoMember /\ state = "Stable" /\ IsKnown(id))
  /\ generation_id < MaxGeneration
  /\ \E m \in (IF id = NoMember THEN generate_member_id ELSE {id}) :
       /\ exists' = TRUE
       /\ members' = members \cup {m}
       /\ protocols' = [protocols EXCEPT ![m] = ps]
       /\ lapsed' = lapsed \ {m}
       /\ used' = used \cup {m}
       /\ generation_id' = generation_id + 1
       /\ protocol_name' \in choose_protocol(members', protocols')
       /\ leader_id' = IF leader_id = NoMember \/ leader_id \notin members'
                       THEN m ELSE leader_id
       /\ state' = "CompletingRebalance"
       /\ told' = [told EXCEPT ![m] = generation_id']
       /\ Respond(c, [api |-> "JoinGroup", error |-> NONE, generation |-> generation_id',
                      leader |-> leader_id', member |-> m,
                      members |-> IF m = leader_id' THEN members' ELSE {}])
       /\ UNCHANGED <<assignment, committed>>

join_group(c, id, ps) ==
  \/ RejoinStable(c, id, ps)
  \/ JoinRefused(c, id)
  \/ JoinRebalance(c, id, ps)

-----------------------------------------------------------------------------
(***************************************************************************)
(* sync_group                                                              *)
(***************************************************************************)

SyncRefused(c, id, g) ==
  /\ ~IsKnown(id) \/ g # generation_id
  /\ Respond(c, [api |-> "SyncGroup",
                 error |-> IF IsKnown(id) THEN ILLEGAL_GENERATION ELSE UNKNOWN_MEMBER_ID,
                 assignment |-> NoAssignment])
  /\ UNCHANGED <<exists, groupVars, used, committed, told>>

\* Mutant of Synced: the assignments are stored with operator[], which makes a
\* member of every id the list names.
SyncedCreates(c, id, as) ==
  /\ IF id = leader_id /\ DOMAIN as # {}
     THEN /\ assignment' = [m \in MemberId |-> IF m \in DOMAIN as THEN as[m] ELSE assignment[m]]
          /\ members' = members \cup DOMAIN as
          /\ state' = "Stable"
     ELSE UNCHANGED <<assignment, members, state>>
  /\ Respond(c, [api |-> "SyncGroup", error |-> NONE, assignment |-> assignment'[id]])
  /\ UNCHANGED <<exists, generation_id, protocol_name, leader_id, protocols,
                 lapsed, used, committed, told>>

\* as is the assignment list of the request: a function on some member ids.
\* The leader's non-empty list is stored and makes the group Stable; every
\* accepted request is answered with the sender's stored assignment.
Synced(c, id, as) ==
  /\ IF id = leader_id /\ DOMAIN as # {}
     THEN /\ assignment' = [m \in MemberId |->
                              IF m \in DOMAIN as /\ IsKnown(m) THEN as[m] ELSE assignment[m]]
          /\ state' = "Stable"
     ELSE UNCHANGED <<assignment, state>>
  /\ Respond(c, [api |-> "SyncGroup", error |-> NONE, assignment |-> assignment'[id]])
  /\ UNCHANGED <<exists, generation_id, protocol_name, leader_id, members, protocols,
                 lapsed, used, committed, told>>

\* Mutant of SyncAccepted: the generation is not checked.
SyncAnyGeneration(c, id, g, as) == IsKnown(id) /\ Synced(c, id, as)

SyncAccepted(c, id, g, as) == IsKnown(id) /\ g = generation_id /\ Synced(c, id, as)

sync_group(c, id, g, as) == SyncRefused(c, id, g) \/ SyncAccepted(c, id, g, as)

-----------------------------------------------------------------------------
(***************************************************************************)
(* heartbeat, leave_group and the session timeouts                         *)
(***************************************************************************)

\* Erasing members forgets what was stored with them.
Erase(gone) ==
  /\ members' = members \ gone
  /\ protocols' = [m \in MemberId |-> IF m \in gone THEN <<>> ELSE protocols[m]]
  /\ assignment' = [m \in MemberId |-> IF m \in gone THEN NoAssignment ELSE assignment[m]]

\* The caller has just refreshed its own heartbeat, so it is not among the
\* expired.  The new leader is members.begin() of an unordered_map: any member.
check_session_timeouts(id) ==
  LET expired == lapsed \ {id}
  IN  IF expired = {}
      THEN UNCHANGED <<members, protocols, assignment, leader_id, generation_id, state>>
      ELSE /\ Erase(expired)
           /\ IF members' = {}
              THEN /\ state' = "Empty"
                   /\ leader_id' = NoMember
                   /\ UNCHANGED generation_id
              ELSE /\ generation_id < MaxGeneration
                   /\ leader_id' \in (IF leader_id \in members' THEN {leader_id} ELSE members')
                   /\ generation_id' = generation_id + 1
                   /\ state' = "PreparingRebalance"

HeartbeatRefused(c, id, g) ==
  /\ ~IsKnown(id) \/ g # generation_id
  /\ Respond(c, [api |-> "Heartbeat",
                 error |-> IF IsKnown(id) THEN ILLEGAL_GENERATION ELSE UNKNOWN_MEMBER_ID])
  /\ UNCHANGED <<exists, groupVars, used, committed, told>>

\* Mutant of HeartbeatAccepted: the answer is decided before the sweep.
HeartbeatBeforeSweep(c, id, g) ==
  /\ IsKnown(id) /\ g = generation_id
  /\ check_session_timeouts(id)
  /\ lapsed' = {}
  /\ Respond(c, [api |-> "Heartbeat",
                 error |-> IF state \in {"PreparingRebalance", "CompletingRebalance"}
                           THEN REBALANCE_IN_PROGRESS ELSE NONE])
  /\ UNCHANGED <<exists, protocol_name, used, committed, told>>

HeartbeatAccepted(c, id, g) ==
  /\ IsKnown(id) /\ g = generation_id
  /\ check_session_timeouts(id)
  /\ lapsed' = {}
  /\ Respond(c, [api |-> "Heartbeat",
                 error |-> IF state' \in {"PreparingRebalance", "CompletingRebalance"}
                           THEN REBALANCE_IN_PROGRESS ELSE NONE])
  /\ UNCHANGED <<exists, protocol_name, used, committed, told>>

heartbeat(c, id, g) == HeartbeatRefused(c, id, g) \/ HeartbeatAccepted(c, id, g)

LeaveRefused(c, id) ==
  /\ ~IsKnown(id)
  /\ Respond(c, [api |-> "LeaveGroup", error |-> IF exists THEN UNKNOWN_MEMBER_ID ELSE NONE])
  /\ UNCHANGED <<exists, groupVars, used, committed, told>>

\* Mutants of LeaveAccepted: the leader is not replaced, no generation is
\* started, or the last leave resets the counter.
LeaveWith(c, id, keepLeader, next) ==
  /\ IsKnown(id)
  /\ generation_id < MaxGeneration
  /\ Erase({id})
  /\ lapsed' = lapsed \ {id}
  /\ generation_id' = next
  /\ IF members' = {}
     THEN state' = "Empty" /\ leader_id' = NoMember
     ELSE /\ leader_id' \in (IF id = leader_id /\ ~keepLeader THEN members' ELSE {leader_id})
          /\ state' = "PreparingRebalance"
  /\ Respond(c, [api |-> "LeaveGroup", error |-> NONE])
  /\ UNCHANGED <<exists, protocol_name, used, committed, told>>
LeaveKeepsLeader(c, id) == LeaveWith(c, id, TRUE, generation_id + 1)
LeaveKeepsGeneration(c, id) == LeaveWith(c, id, FALSE, generation_id)
LeaveResetsGeneration(c, id) ==
  LeaveWith(c, id, FALSE, IF members = {id} THEN 0 ELSE generation_id + 1)

LeaveAccepted(c, id) ==
  /\ IsKnown(id)
  /\ generation_id < MaxGeneration
  /\ Erase({id})
  /\ lapsed' = lapsed \ {id}
  /\ generation_id' = generation_id + 1
  /\ IF members' = {}
     THEN state' = "Empty" /\ leader_id' = NoMember
     ELSE /\ leader_id' \in (IF id = leader_id THEN members' ELSE {leader_id})
          /\ state' = "PreparingRebalance"
  /\ Respond(c, [api |-> "LeaveGroup", error |-> NONE])
  /\ UNCHANGED <<exists, protocol_name, used, committed, told>>

leave_group(c, id) == LeaveRefused(c, id) \/ LeaveAccepted(c, id)

\* Time passes: the session timeout of m runs out.
SessionLapses(m) ==
  /\ m \in members \ lapsed
  /\ lapsed' = lapsed \cup {m}
  /\ UNCHANGED <<exists, state, generation_id, protocol_name, leader_id, members,
                 protocols, assignment, used, committed, reply, told>>

-----------------------------------------------------------------------------
(***************************************************************************)
(* offset_commit and offset_fetch                                          *)
(***************************************************************************)

\* A commit is stored whoever sends it, and creates the group if need be.
offset_commit(c, p, o) ==
  /\ exists' = TRUE
  /\ committed' = [committed EXCEPT ![p] = o]
  /\ Respond(c, [api |-> "OffsetCommit", error |-> NONE])
  /\ UNCHANGED <<groupVars, used, told>>

offset_fetch(c, p) ==
  /\ Respond(c, [api |-> "OffsetFetch", offset |-> committed[p]])
  /\ UNCHANGED <<exists, groupVars, used, committed, told>>

-----------------------------------------------------------------------------
(***************************************************************************)
(* Any client may send any request at any time, quoting any member id, but *)
(* nobody quotes the current generation for an id unless a join reply for  *)
(* that id announced it.                                                   *)
(***************************************************************************)

Generation == 0 .. MaxGeneration
Quotes(id, g) == g = generation_id => told[id] = generation_id
AssignmentLists == UNION {[ms -> Assignment] : ms \in SUBSET MemberId}

Join(c) == \E id \in MemberId \cup {NoMember}, ps \in ProtocolLists : join_group(c, id, ps)
Sync(c) == \E id \in MemberId, g \in Generation :
             /\ Quotes(id, g)
             /\ \E as \in (IF g = generation_id THEN AssignmentLists ELSE {<<>>}) :
                  sync_group(c, id, g, as)
Heartbeat(c) == \E id \in MemberId, g \in Generation : Quotes(id, g) /\ heartbeat(c, id, g)
Leave(c) == \E id \in MemberId : leave_group(c, id)
Commit(c) == \E p \in Partition, o \in Offset : offset_commit(c, p, o)
Fetch(c) == \E p \in Partition : offset_fetch(c, p)

Next ==
  \/ \E c \in Client : Join(c) \/ Sync(c) \/ Heartbeat(c) \/ Leave(c) \/ Commit(c) \/ Fetch(c)
  \/ \E m \in MemberId : SessionLapses(m)

Spec == Init /\ [][Next]_vars

-----------------------------------------------------------------------------
(***************************************************************************)
(* Properties                                                              *)
(***************************************************************************)

\* Every variable keeps the type its C++ counterpart has; the member map only
\* ever holds ids that join_group generated, though the leader names others in
\* its SyncGroup request, and only members have lapsed sessions.
TypeOK ==
  /\ exists \in BOOLEAN
  /\ state \in GroupState
  /\ generation_id \in Nat
  /\ protocol_name \in Protocol \cup {NoProtocol}
  /\ leader_id \in MemberId \cup {NoMember}
  /\ members \subseteq used /\ used \subseteq MemberId
  /\ protocols \in [MemberId -> ProtocolLists \cup {<<>>}]
  /\ assignment \in [MemberId -> Assignment]
  /\ lapsed \subseteq members
  /\ committed \in [Partition -> Offset \cup {-1}]
  /\ reply \in [Client -> Reply]
  /\ told \in [MemberId -> Nat \cup {-1}]

\* join_group, leave_group and check_session_timeouts each maintain the state,
\* the member map and the leader by hand: the group is Empty exactly when it
\* has no member, and any other group is led by one of its current members,
\* however joins, leaves and expiries follow one another.
LeaderIsMember ==
  /\ state = "Empty" <=> members = {}
  /\ IF members = {} THEN leader_id = NoMember ELSE leader_id \in members

\* No generation is announced twice before the leader has synced it: while the
\* group waits for joins nobody has been told the current generation, and in
\* CompletingRebalance exactly one member has, the one whose join started it.
\* This is why a sync_group that passes the generation check cannot carry an
\* assignment computed for an older membership.
OneHolderUntilSync ==
  /\ \A m \in MemberId : told[m] <= generation_id
  /\ state \in {"Empty", "PreparingRebalance"} =>
       \A m \in MemberId : told[m] # generation_id
  /\ state = "CompletingRebalance" =>
       \E m \in members : \A n \in MemberId : told[n] = generation_id <=> n = m

\* A generation stands for one membership and one leader: no handler changes
\* either without starting the next generation, and no handler skips one.
GenerationFixesMembership ==
  [][/\ members' # members \/ leader_id' # leader_id => generation_id' = generation_id + 1
     /\ generation_id' \in {generation_id, generation_id + 1}]_vars

\* sync_group moves the group to Stable only for a leader that was the last
\* member to join, so that the member list it was given is the current one.
StableByLastJoiner ==
  [][state # "Stable" /\ state' = "Stable" =>
       /\ state = "CompletingRebalance"
       /\ \A m \in MemberId : told[m] = generation_id <=> m = leader_id]_vars

\* A heartbeat is answered with error 0 only by a Stable group whose membership,
\* leader and generation the session sweep of that heartbeat left alone: a
\* member is never told to carry on in a group that is being rebalanced, be it
\* by a join, by a leave or by the expiry its own heartbeat found.
AliveMeansStable ==
  [][\A c \in Client :
       reply'[c] # reply[c] /\ reply'[c].api = "Heartbeat" /\ reply'[c].error = NONE =>
         /\ state' = "Stable"
         /\ UNCHANGED <<members, leader_id, generation_id>>]_vars

\* choose_protocol runs at every join: while a rebalance completes, the group's
\* protocol is one that every member supports whenever there is such a one.
CommonProtocol ==
  LET Common(p) == \A m \in members : Lists(protocols[m], p)
  IN  state = "CompletingRebalance" /\ (\E p \in Protocol : Common(p)) => Common(protocol_name)

=============================================================================
