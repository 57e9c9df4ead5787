---------------------------- MODULE GroupClients ----------------------------
(***************************************************************************)
(* The coordinator of ConsumerGroup together with consumers that follow    *)
(* the Kafka group protocol.  The consumers are external (librdkafka,      *)
(* kafka-python); they are modelled from the requests the coordinator      *)
(* decodes and the replies it returns:                                     *)
(*   join, then sync (the leader with an assignment for the member list it *)
(*   was given), then heartbeats; error 25 drops the member id, and any    *)
(*   error gives up the partitions and joins again.                        *)
(*                                                                         *)
(* A consumer has one request outstanding.  When its connection breaks it  *)
(* reconnects and sends its request again, possibly to another worker      *)
(* thread, while the broker may still process the old one ("late"); the    *)
(* reply to a late request is lost.  A consumer may crash and restart      *)
(* without its member id.                                                  *)
(***************************************************************************)
EXTENDS ConsumerGroup

CONSTANTS
  NoRequest,
  MaxLate         \* bound on the requests of broken connections still in flight

ASSUME MaxLateAssumption == MaxLate \in Nat /\ NoRequest \notin Client

VARIABLES
  phase,          \* what each consumer does next: "out", "joined" or "active"
  id,             \* the member id it was given
  gen,            \* the generation it was given
  roster,         \* the member list it was given as leader, else {}
  owned,          \* the assignment it consumes from
  req,            \* its outstanding request
  late            \* requests of broken connections

clientVars == <<phase, id, gen, roster, owned>>
allVars == <<vars, clientVars, req, late>>

\* The assignor of the consumers gives each member of a list a share of the
\* partitions, disjoint from the others'.  It is a function of the list, so a
\* share is represented by the list it was computed from.
ASSUME AssignmentsAreMemberLists ==
  Assignment = SUBSET MemberId /\ NoAssignment = {}

Assign(ms) == [m \in ms |-> ms]
Disjoint(a, b) == a = NoAssignment \/ b = NoAssignment \/ a = b

Idle(c) == req[c] = NoRequest /\ reply[c] = NoReply

ClientInit ==
  /\ Init
  /\ phase = [c \in Client |-> "out"]
  /\ id = [c \in Client |-> NoMember]
  /\ gen = [c \in Client |-> -1]
  /\ roster = [c \in Client |-> {}]
  /\ owned = [c \in Client |-> NoAssignment]
  /\ req = [c \in Client |-> NoRequest]
  /\ late = {}

-----------------------------------------------------------------------------
(***************************************************************************)
(* What a consumer sends                                                   *)
(***************************************************************************)

Send(c, r) ==
  /\ Idle(c)
  /\ req' = [req EXCEPT ![c] = r]
  /\ UNCHANGED <<vars, clientVars, late>>

SendJoin(c) ==
  \E ps \in ProtocolLists :
    phase[c] = "out" /\ Send(c, [api |-> "JoinGroup", id |-> id[c], protocols |-> ps])

SendSync(c) ==
  /\ phase[c] = "joined"
  /\ Send(c, [api |-> "SyncGroup", id |-> id[c], gen |-> gen[c],
              as |-> IF roster[c] = {} THEN <<>> ELSE Assign(roster[c])])

SendHeartbeat(c) ==
  phase[c] = "active" /\ Send(c, [api |-> "Heartbeat", id |-> id[c], gen |-> gen[c]])

SendLeave(c) ==
  phase[c] = "active" /\ Send(c, [api |-> "LeaveGroup", id |-> id[c]])

\* A consumer that is about to join again stops consuming.
GiveUp(c) ==
  /\ phase' = [phase EXCEPT ![c] = "out"]
  /\ gen' = [gen EXCEPT ![c] = -1]
  /\ roster' = [roster EXCEPT ![c] = {}]
  /\ owned' = [owned EXCEPT ![c] = NoAssignment]

\* A consumer whose subscription changes joins again on its own account.
Resubscribe(c) ==
  /\ Idle(c) /\ phase[c] = "active"
  /\ GiveUp(c)
  /\ UNCHANGED <<vars, id, req, late>>

-----------------------------------------------------------------------------
(***************************************************************************)
(* The broker processes a request; the consumer receives the reply         *)
(***************************************************************************)

Process(c, r) ==
  \/ r.api = "JoinGroup" /\ join_group(c, r.id, r.protocols)
  \/ r.api = "SyncGroup" /\ sync_group(c, r.id, r.gen, r.as)
  \/ r.api = "Heartbeat" /\ heartbeat(c, r.id, r.gen)
  \/ r.api = "LeaveGroup" /\ leave_group(c, r.id)

Handle(c) ==
  /\ req[c] # NoRequest
  /\ Process(c, req[c])
  /\ req' = [req EXCEPT ![c] = NoRequest]
  /\ UNCHANGED <<clientVars, late>>

HandleLate(r) ==
  /\ Process(NoRequest, r)
  /\ late' = late \ {r}
  /\ UNCHANGED <<clientVars, req>>

Expire(m) == SessionLapses(m) /\ UNCHANGED <<clientVars, req, late>>

\* The reply is consumed; the next five say what it does to the consumer.
Consume(c) ==
  /\ reply' = [reply EXCEPT ![c] = NoReply]
  /\ UNCHANGED <<exists, groupVars, used, committed, told, req, late>>

ReceiveJoined(c) ==
  /\ reply[c].api = "JoinGroup" /\ reply[c].error = NONE
  /\ Consume(c)
  /\ phase' = [phase EXCEPT ![c] = "joined"]
  /\ id' = [id EXCEPT ![c] = reply[c].member]
  /\ gen' = [gen EXCEPT ![c] = reply[c].generation]
  /\ roster' = [roster EXCEPT ![c] = reply[c].members]
  /\ UNCHANGED owned

ReceiveSynced(c) ==
  /\ reply[c].api = "SyncGroup" /\ reply[c].error = NONE
  /\ Consume(c)
  /\ phase' = [phase EXCEPT ![c] = "active"]
  /\ owned' = [owned EXCEPT ![c] = reply[c].assignment]
  /\ roster' = [roster EXCEPT ![c] = {}]
  /\ UNCHANGED <<id, gen>>

ReceiveAlive(c) ==
  /\ reply[c].api = "Heartbeat" /\ reply[c].error = NONE
  /\ Consume(c)
  /\ UNCHANGED clientVars

\* Errors, and a leave: the partitions are given up; error 25 and a leave also
\* give up the member id.
ReceiveRejoin(c) ==
  /\ \/ reply[c].api \in {"JoinGroup", "SyncGroup", "Heartbeat"} /\ reply[c].error # NONE
     \/ reply[c].api = "LeaveGroup"
  /\ Consume(c)
  /\ GiveUp(c)
  /\ id' = [id EXCEPT ![c] = IF reply[c].api = "LeaveGroup" \/ reply[c].error = UNKNOWN_MEMBER_ID
                             THEN NoMember ELSE @]

-----------------------------------------------------------------------------
(***************************************************************************)
(* Failures                                                                *)
(***************************************************************************)

\* The connection goes away with what is on it, or after the broker has read
\* the request.
DropConnection(c) ==
  /\ reply' = [reply EXCEPT ![c] = NoReply]
  /\ req' = [req EXCEPT ![c] = NoRequest]
  /\ \/ late' = late
     \/ /\ req[c] # NoRequest
        /\ Cardinality(late) < MaxLate
        /\ late' = late \cup {req[c]}
  /\ UNCHANGED <<exists, groupVars, used, committed, told>>

Disconnect(c) ==
  /\ ~Idle(c)
  /\ DropConnection(c)
  /\ UNCHANGED clientVars

Crash(c) ==
  /\ phase[c] # "out" \/ id[c] # NoMember
  /\ DropConnection(c)
  /\ GiveUp(c)
  /\ id' = [id EXCEPT ![c] = NoMember]

ClientNext ==
  \/ \E c \in Client :
       \/ SendJoin(c) \/ SendSync(c) \/ SendHeartbeat(c) \/ SendLeave(c) \/ Resubscribe(c)
       \/ Handle(c)
       \/ ReceiveJoined(c) \/ ReceiveSynced(c) \/ ReceiveAlive(c) \/ ReceiveRejoin(c)
       \/ Disconnect(c) \/ Crash(c)
  \/ \E r \in late : HandleLate(r)
  \/ \E m \in MemberId : Expire(m)

ClientSpec == ClientInit /\ [][ClientNext]_allVars

-----------------------------------------------------------------------------
(***************************************************************************)
(* Properties                                                              *)
(***************************************************************************)

\* A Stable group is fully assigned: each member's stored assignment is its
\* share of the current membership, never one computed for an earlier member
\* list, although sync_group stores what it is sent without looking at it and
\* requests may be delayed, repeated or overtaken.
StableIsAssigned ==
  state = "Stable" => \A m \in members : assignment[m] = Assign(members)[m]

\* Two consumers that believe they are in the same generation never consume
\* the same partition, whichever of the replies of sync_group each acted on:
\* they have different member ids, and no shares of different member lists.
SameGenerationExclusive ==
  \A c, d \in Client :
    c # d /\ phase[c] = "active" /\ phase[d] = "active" /\ gen[c] = gen[d] =>
      id[c] # id[d] /\ Disjoint(owned[c], owned[d])

\* A consumer that has synced in the generation in force of a Stable group
\* consumes exactly its share: the empty or outdated assignment that sync_group
\* returns with error 0 to a follower that overtakes its leader never outlives
\* that generation's rebalance.
CurrentConsumersOwnTheirShare ==
  state = "Stable" =>
    \A c \in Client : phase[c] = "active" /\ gen[c] = generation_id =>
      owned[c] = Assign(members)[id[c]]

=============================================================================
