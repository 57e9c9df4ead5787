---------------------------- MODULE GroupProofs ----------------------------
(***************************************************************************)
(* Proofs about the coordinator of ConsumerGroup, for any sets of clients, *)
(* member ids, protocols, assignments and partitions and any number of     *)
(* rebalances; and about the consumers of GroupClients that talk to it,    *)
(* for any number of delayed requests: no consumer of a Stable group works *)
(* with an assignment of an earlier membership, and no two consumers of a  *)
(* generation share a partition.                                           *)
(*                                                                         *)
(* The inductive invariant of the coordinator is IInv: the types, the      *)
(* shape of the group (LeaderIsMember) and who has been told the current   *)
(* generation (OneHolderUntilSync).  The shape is needed for the types     *)
(* (the new leader is taken from the members that remain) and for the      *)
(* holders (the caller of heartbeat survives the expiry it triggers).      *)
(***************************************************************************)
EXTENDS GroupClients, TLAPS

IInv == TypeOK /\ LeaderIsMember /\ OneHolderUntilSync

-----------------------------------------------------------------------------
(***************************************************************************)
(* Lemmas about the operators                                              *)
(***************************************************************************)

\* Sending a well-formed reply leaves well-formed replies on all connections.
LEMMA RespondType ==
  ASSUME NEW c, NEW r \in Reply, reply \in [Client -> Reply], Respond(c, r)
  PROVE  reply' \in [Client -> Reply]
<1>1. CASE c \in Client
  BY <1>1 DEF Respond
<1>2. CASE c \notin Client
  BY <1>2 DEF Respond
<1> QED BY <1>1, <1>2

\* choose_protocol returns the name of a protocol or the empty name.
LEMMA ChooseProtocolType ==
  ASSUME NEW ms \in SUBSET MemberId, NEW ps \in [MemberId -> ProtocolLists \cup {<<>>}]
  PROVE  choose_protocol(ms, ps) \subseteq Protocol \cup {NoProtocol}
<1>1. ASSUME NEW m \in ms, ps[m] # <<>>
      PROVE  ps[m][1] \in Protocol
  <2>1. ps[m] \in Seq(Protocol)
    BY <1>1, ConstantsAssumption
  <2>2. Len(ps[m]) \in Nat \ {0}
    BY <1>1, <2>1
  <2> QED BY <2>1, <2>2
<1> QED BY <1>1 DEF choose_protocol

-----------------------------------------------------------------------------
(***************************************************************************)
(* Each handler preserves the inductive invariant                          *)
(***************************************************************************)

\* The invariant holds of a group nobody has joined.
LEMMA InitIInv == Init => IInv
<1> SUFFICES ASSUME Init PROVE IInv
  OBVIOUS
<1>1. TypeOK
  BY ConstantsAssumption, Zenon DEF Init, TypeOK, GroupState, Reply
<1>2. LeaderIsMember
  BY DEF Init, LeaderIsMember
<1>3. OneHolderUntilSync
  BY DEF Init, OneHolderUntilSync
<1> QED BY <1>1, <1>2, <1>3 DEF IInv

\* A rejoin of a Stable group keeps the invariant.
LEMMA RejoinStableIInv ==
  ASSUME IInv, NEW c, NEW m \in MemberId \cup {NoMember}, NEW ps \in ProtocolLists,
         RejoinStable(c, m, ps)
  PROVE  IInv'
<1> USE DEF IInv, RejoinStable, Rejoined, IsKnown
<1>0. m \in MemberId /\ m \in members
  BY ConstantsAssumption DEF TypeOK
<1>1. TypeOK'
  <2>1. [api |-> "JoinGroup", error |-> NONE, generation |-> generation_id,
         leader |-> leader_id, member |-> m,
         members |-> IF m = leader_id THEN members ELSE {}] \in Reply
    BY <1>0 DEF Reply, JoinReply, TypeOK
  <2>2. reply' \in [Client -> Reply]
    BY <2>1, RespondType DEF TypeOK
  <2> QED BY <1>0, <2>2 DEF TypeOK, GroupState
<1>2. LeaderIsMember'
  BY DEF LeaderIsMember
<1>3. OneHolderUntilSync'
  BY <1>0 DEF OneHolderUntilSync, TypeOK
<1> QED BY <1>1, <1>2, <1>3

\* A refused join keeps the invariant.
LEMMA JoinRefusedIInv ==
  ASSUME IInv, NEW c, NEW m \in MemberId \cup {NoMember}, JoinRefused(c, m)
  PROVE  IInv'
<1> USE DEF IInv, JoinRefused, groupVars
<1>1. [api |-> "JoinGroup", error |-> UNKNOWN_MEMBER_ID, generation |-> -1,
       leader |-> NoMember, member |-> m, members |-> {}] \in Reply
  BY DEF Reply, JoinReply, RefusesJoin
<1>2. TypeOK'
  BY <1>1, RespondType DEF TypeOK
<1>3. LeaderIsMember' /\ OneHolderUntilSync'
  BY DEF LeaderIsMember, OneHolderUntilSync
<1> QED BY <1>2, <1>3

\* A join that starts a generation keeps the invariant: its sender is the only
\* one told the new generation, and the leader is a member.
LEMMA JoinRebalanceIInv ==
  ASSUME IInv, NEW c, NEW m \in MemberId \cup {NoMember}, NEW ps \in ProtocolLists,
         JoinRebalance(c, m, ps)
  PROVE  IInv'
<1> USE DEF IInv
<1>1. PICK n \in (IF m = NoMember THEN generate_member_id ELSE {m}) :
        /\ members' = members \cup {n}
        /\ protocols' = [protocols EXCEPT ![n] = ps]
        /\ lapsed' = lapsed \ {n}
        /\ used' = used \cup {n}
        /\ protocol_name' \in choose_protocol(members', protocols')
        /\ leader_id' = IF leader_id = NoMember \/ leader_id \notin members'
                        THEN n ELSE leader_id
        /\ told' = [told EXCEPT ![n] = generation_id']
        /\ Respond(c, [api |-> "JoinGroup", error |-> NONE, generation |-> generation_id',
                       leader |-> leader_id', member |-> n,
                       members |-> IF n = leader_id' THEN members' ELSE {}])
        /\ exists' = TRUE
        /\ generation_id' = generation_id + 1
        /\ state' = "CompletingRebalance"
        /\ UNCHANGED <<assignment, committed>>
  BY Zenon DEF JoinRebalance
<1>2. n \in MemberId
  BY ConstantsAssumption DEF generate_member_id
<1>3. /\ members' \subseteq MemberId /\ leader_id' \in MemberId /\ generation_id' \in Nat
      /\ protocols' \in [MemberId -> ProtocolLists \cup {<<>>}]
      /\ leader_id' \in members'
  BY <1>1, <1>2 DEF TypeOK
<1>4. TypeOK'
  <2>1. [api |-> "JoinGroup", error |-> NONE, generation |-> generation_id',
         leader |-> leader_id', member |-> n,
         members |-> IF n = leader_id' THEN members' ELSE {}] \in Reply
    BY <1>2, <1>3 DEF Reply, JoinReply
  <2>2. reply' \in [Client -> Reply]
    BY <1>1, <2>1, RespondType DEF TypeOK
  <2>3. protocol_name' \in Protocol \cup {NoProtocol}
    BY <1>1, <1>3, ChooseProtocolType, Zenon
  <2> QED BY <1>1, <1>2, <1>3, <2>2, <2>3 DEF TypeOK, GroupState
<1>5. LeaderIsMember'
  BY <1>1, <1>3 DEF LeaderIsMember
<1>6. OneHolderUntilSync'
  <2>1. \A k \in MemberId : told[k] \in Int /\ told[k] <= generation_id
    BY DEF TypeOK, OneHolderUntilSync
  <2>2. \A k \in MemberId : told'[k] = IF k = n THEN generation_id + 1 ELSE told[k]
    BY <1>1, <1>2 DEF TypeOK
  <2>3. \A k \in MemberId : told'[k] <= generation_id'
    BY <1>1, <2>1, <2>2 DEF TypeOK
  <2>4. n \in members' /\ \A k \in MemberId : told'[k] = generation_id' <=> k = n
    BY <1>1, <2>1, <2>2 DEF TypeOK
  <2> QED BY <1>1, <2>3, <2>4 DEF OneHolderUntilSync
<1> QED BY <1>4, <1>5, <1>6

\* A refused sync keeps the invariant.
LEMMA SyncRefusedIInv ==
  ASSUME IInv, NEW c, NEW m \in MemberId, NEW g, SyncRefused(c, m, g)
  PROVE  IInv'
<1> USE DEF IInv, SyncRefused, groupVars
<1>1. [api |-> "SyncGroup",
       error |-> IF IsKnown(m) THEN ILLEGAL_GENERATION ELSE UNKNOWN_MEMBER_ID,
       assignment |-> NoAssignment] \in Reply
  BY ConstantsAssumption DEF Reply, SyncReply
<1>2. TypeOK'
  BY <1>1, RespondType DEF TypeOK
<1>3. LeaderIsMember' /\ OneHolderUntilSync'
  BY DEF LeaderIsMember, OneHolderUntilSync
<1> QED BY <1>2, <1>3

\* An accepted sync keeps the invariant: Stable asks nothing of told.
LEMMA SyncAcceptedIInv ==
  ASSUME IInv, NEW c, NEW m \in MemberId, NEW g,
         NEW as \in AssignmentLists, SyncAccepted(c, m, g, as)
  PROVE  IInv'
<1> USE DEF IInv
<1>1. \A n \in DOMAIN as : as[n] \in Assignment
  BY Zenon DEF AssignmentLists
<1>2. assignment' \in [MemberId -> Assignment]
  <2>1. CASE m = leader_id /\ DOMAIN as # {}
    BY <1>1, <2>1, Zenon DEF SyncAccepted, Synced, TypeOK
  <2>2. CASE ~(m = leader_id /\ DOMAIN as # {})
    BY <2>2, Zenon DEF SyncAccepted, Synced, TypeOK
  <2> QED BY <2>1, <2>2, Zenon
<1>3. state' \in {state, "Stable"} /\ m \in members
  BY Zenon DEF SyncAccepted, Synced, IsKnown
<1>4. TypeOK'
  <2>1. [api |-> "SyncGroup", error |-> NONE, assignment |-> assignment'[m]] \in Reply
    BY <1>2 DEF Reply, SyncReply
  <2>2. reply' \in [Client -> Reply]
    BY <2>1, RespondType DEF SyncAccepted, Synced, TypeOK
  <2> QED BY <1>2, <1>3, <2>2 DEF SyncAccepted, Synced, TypeOK, GroupState
<1>5. LeaderIsMember'
  BY <1>3 DEF SyncAccepted, Synced, LeaderIsMember
<1>6. OneHolderUntilSync'
  BY <1>3 DEF SyncAccepted, Synced, OneHolderUntilSync
<1> QED BY <1>4, <1>5, <1>6

\* Members are erased: what is stored with the others keeps its type.
LEMMA EraseType ==
  ASSUME IInv, NEW gone \in SUBSET MemberId, Erase(gone)
  PROVE  /\ members' \subseteq used /\ members' \subseteq MemberId
         /\ protocols' \in [MemberId -> ProtocolLists \cup {<<>>}]
         /\ assignment' \in [MemberId -> Assignment]
  BY ConstantsAssumption DEF IInv, TypeOK, Erase

\* A refused heartbeat keeps the invariant.
LEMMA HeartbeatRefusedIInv ==
  ASSUME IInv, NEW c, NEW m \in MemberId, NEW g, HeartbeatRefused(c, m, g)
  PROVE  IInv'
<1> USE DEF IInv, HeartbeatRefused, groupVars
<1>1. [api |-> "Heartbeat",
       error |-> IF IsKnown(m) THEN ILLEGAL_GENERATION ELSE UNKNOWN_MEMBER_ID] \in Reply
  BY DEF Reply, ErrorReply
<1>2. TypeOK'
  BY <1>1, RespondType DEF TypeOK
<1>3. LeaderIsMember' /\ OneHolderUntilSync'
  BY DEF LeaderIsMember, OneHolderUntilSync
<1> QED BY <1>2, <1>3

\* The caller is never among the expired, so a heartbeat either changes nothing
\* but heartbeat times or leaves a non-empty group in PreparingRebalance.
LEMMA HeartbeatStep ==
  ASSUME IInv, NEW c, NEW m \in MemberId, NEW g, HeartbeatAccepted(c, m, g)
  PROVE  \/ UNCHANGED <<members, protocols, assignment, leader_id, generation_id, state>>
         \/ /\ Erase(lapsed \ {m})
            /\ members' # {}
            /\ leader_id' \in members'
            /\ leader_id \in members' => leader_id' = leader_id
            /\ generation_id' = generation_id + 1
            /\ state' = "PreparingRebalance"
<1> USE DEF IInv, HeartbeatAccepted, check_session_timeouts, IsKnown
<1>1. CASE lapsed \ {m} = {}
  BY <1>1
<1>2. CASE lapsed \ {m} # {}
  <2>1. Erase(lapsed \ {m}) /\ m \in members'
    BY <1>2 DEF Erase
  <2> QED BY <1>2, <2>1
<1> QED BY <1>1, <1>2

\* An accepted heartbeat, with the expiries it finds, keeps the invariant.
LEMMA HeartbeatAcceptedIInv ==
  ASSUME IInv, NEW c, NEW m \in MemberId, NEW g, HeartbeatAccepted(c, m, g)
  PROVE  IInv'
<1> USE DEF IInv
<1>1. reply' \in [Client -> Reply]
  <2>1. [api |-> "Heartbeat",
         error |-> IF state' \in {"PreparingRebalance", "CompletingRebalance"}
                   THEN REBALANCE_IN_PROGRESS ELSE NONE] \in Reply
    BY DEF Reply, ErrorReply
  <2> QED BY <2>1, RespondType DEF HeartbeatAccepted, TypeOK
<1>2. lapsed' = {} /\ UNCHANGED <<exists, protocol_name, used, committed, told>>
  BY DEF HeartbeatAccepted
<1>3. CASE UNCHANGED <<members, protocols, assignment, leader_id, generation_id, state>>
  <2>1. TypeOK'
    BY <1>1, <1>2, <1>3 DEF TypeOK
  <2>2. LeaderIsMember' /\ OneHolderUntilSync'
    BY <1>2, <1>3 DEF LeaderIsMember, OneHolderUntilSync
  <2> QED BY <2>1, <2>2
<1>4. ASSUME Erase(lapsed \ {m}), members' # {}, leader_id' \in members',
             generation_id' = generation_id + 1, state' = "PreparingRebalance"
      PROVE  IInv'
  <2>1. TypeOK'
    <3>1. lapsed \ {m} \in SUBSET MemberId
      BY DEF TypeOK
    <3> QED BY <1>1, <1>2, <1>4, <3>1, EraseType DEF TypeOK, GroupState
  <2>2. LeaderIsMember'
    BY <1>4 DEF LeaderIsMember
  <2>3. OneHolderUntilSync'
    BY <1>2, <1>4 DEF OneHolderUntilSync, TypeOK
  <2> QED BY <2>1, <2>2, <2>3
<1> QED BY <1>3, <1>4, HeartbeatStep

\* A refused leave keeps the invariant.
LEMMA LeaveRefusedIInv ==
  ASSUME IInv, NEW c, NEW m \in MemberId, LeaveRefused(c, m)
  PROVE  IInv'
<1> USE DEF IInv, LeaveRefused, groupVars
<1>1. [api |-> "LeaveGroup", error |-> IF exists THEN UNKNOWN_MEMBER_ID ELSE NONE] \in Reply
  BY DEF Reply, ErrorReply
<1>2. TypeOK'
  BY <1>1, RespondType DEF TypeOK
<1>3. LeaderIsMember' /\ OneHolderUntilSync'
  BY DEF LeaderIsMember, OneHolderUntilSync
<1> QED BY <1>2, <1>3

\* A leave keeps the invariant: nobody knows the generation it starts.
LEMMA LeaveAcceptedIInv ==
  ASSUME IInv, NEW c, NEW m \in MemberId, LeaveAccepted(c, m)
  PROVE  IInv'
<1> USE DEF IInv
<1>1. reply' \in [Client -> Reply]
  <2>1. [api |-> "LeaveGroup", error |-> NONE] \in Reply
    BY DEF Reply, ErrorReply
  <2> QED BY <2>1, RespondType DEF LeaveAccepted, TypeOK
<1>2. /\ Erase({m})
      /\ lapsed' = lapsed \ {m}
      /\ generation_id' = generation_id + 1
      /\ UNCHANGED <<exists, protocol_name, used, committed, told>>
      /\ m \in members
  BY DEF LeaveAccepted, IsKnown
<1>3. IF members' = {} THEN state' = "Empty" /\ leader_id' = NoMember
                       ELSE state' = "PreparingRebalance" /\ leader_id' \in members'
  BY <1>2 DEF LeaveAccepted, LeaderIsMember, Erase
<1>4. TypeOK'
  <2>1. lapsed' \subseteq members'
    BY <1>2 DEF TypeOK, Erase
  <2> QED BY <1>1, <1>2, <1>3, <2>1, EraseType DEF TypeOK, GroupState
<1>5. LeaderIsMember'
  BY <1>3 DEF LeaderIsMember
<1>6. OneHolderUntilSync'
  BY <1>2, <1>3 DEF OneHolderUntilSync, TypeOK
<1> QED BY <1>4, <1>5, <1>6

\* Commits and fetches of offsets keep the invariant.
LEMMA OffsetsIInv ==
  ASSUME IInv, NEW c, NEW p \in Partition,
         offset_fetch(c, p) \/ \E o \in Offset : offset_commit(c, p, o)
  PROVE  IInv'
<1> USE DEF IInv, groupVars
<1>1. CASE offset_fetch(c, p)
  <2>1. [api |-> "OffsetFetch", offset |-> committed[p]] \in Reply
    BY DEF Reply, OffsetReply, TypeOK
  <2>2. TypeOK'
    BY <1>1, <2>1, RespondType DEF offset_fetch, TypeOK
  <2> QED BY <1>1, <2>2 DEF offset_fetch, LeaderIsMember, OneHolderUntilSync
<1>2. ASSUME NEW o \in Offset, offset_commit(c, p, o)
      PROVE  IInv'
  <2>1. [api |-> "OffsetCommit", error |-> NONE] \in Reply
    BY DEF Reply, ErrorReply
  <2>2. TypeOK'
    BY <1>2, <2>1, RespondType DEF offset_commit, TypeOK
  <2> QED BY <1>2, <2>2 DEF offset_commit, LeaderIsMember, OneHolderUntilSync
<1> QED BY <1>1, <1>2

\* The passing of time keeps the invariant.
LEMMA SessionLapsesIInv ==
  ASSUME IInv, NEW m \in MemberId, SessionLapses(m)
  PROVE  IInv'
<1> USE DEF IInv, SessionLapses
<1>1. TypeOK'
  BY DEF TypeOK
<1>2. LeaderIsMember' /\ OneHolderUntilSync'
  BY DEF LeaderIsMember, OneHolderUntilSync
<1> QED BY <1>1, <1>2

-----------------------------------------------------------------------------
(***************************************************************************)
(* The invariance theorems                                                 *)
(***************************************************************************)

\* Every step keeps the invariant.
LEMMA NextIInv == IInv /\ [Next]_vars => IInv'
<1> SUFFICES ASSUME IInv, [Next]_vars PROVE IInv'
  OBVIOUS
<1>1. ASSUME NEW c \in Client, Join(c) PROVE IInv'
  BY <1>1, RejoinStableIInv, JoinRefusedIInv, JoinRebalanceIInv DEF Join, join_group
<1>2. ASSUME NEW c \in Client, Sync(c) PROVE IInv'
  <2>1. PICK m \in MemberId, g \in Generation :
          \E as \in (IF g = generation_id THEN AssignmentLists ELSE {<<>>}) :
            sync_group(c, m, g, as)
    BY <1>2, Zenon DEF Sync
  <2>2. PICK as \in (IF g = generation_id THEN AssignmentLists ELSE {<<>>}) :
          sync_group(c, m, g, as)
    BY <2>1, Zenon
  <2>3. CASE SyncRefused(c, m, g)
    BY <2>3, SyncRefusedIInv
  <2>4. CASE SyncAccepted(c, m, g, as)
    <3>1. as \in AssignmentLists
      BY <2>4, Zenon DEF SyncAccepted, Synced
    <3> QED BY <2>4, <3>1, SyncAcceptedIInv, Zenon
  <2> QED BY <2>2, <2>3, <2>4, Zenon DEF sync_group
<1>3. ASSUME NEW c \in Client, Heartbeat(c) PROVE IInv'
  BY <1>3, HeartbeatRefusedIInv, HeartbeatAcceptedIInv DEF Heartbeat, heartbeat
<1>4. ASSUME NEW c \in Client, Leave(c) PROVE IInv'
  BY <1>4, LeaveRefusedIInv, LeaveAcceptedIInv DEF Leave, leave_group
<1>5. ASSUME NEW c \in Client, Commit(c) \/ Fetch(c) PROVE IInv'
  BY <1>5, OffsetsIInv, Zenon DEF Commit, Fetch
<1>6. ASSUME NEW m \in MemberId, SessionLapses(m) PROVE IInv'
  BY <1>6, SessionLapsesIInv
<1>7. CASE UNCHANGED vars
  BY <1>7 DEF vars, groupVars, IInv, TypeOK, LeaderIsMember, OneHolderUntilSync
<1> QED BY <1>1, <1>2, <1>3, <1>4, <1>5, <1>6, <1>7 DEF Next

\* The inductive invariant holds in every state, for all values of the
\* constants.
THEOREM Invariance == Spec => []IInv
<1>1. Init => IInv
  BY InitIInv
<1>2. IInv /\ [Next]_vars => IInv'
  BY NextIInv
<1> QED BY <1>1, <1>2, PTL DEF Spec

\* The variables of ConsumerGroup keep their types.
THEOREM TypeCorrect == Spec => []TypeOK
<1>1. IInv => TypeOK
  BY DEF IInv
<1> QED BY <1>1, Invariance, PTL

\* Whatever the order of joins, leaves and expiries, a group is Empty exactly
\* when it has no members and otherwise is led by one of them.
THEOREM LeaderCorrect == Spec => []LeaderIsMember
<1>1. IInv => LeaderIsMember
  BY DEF IInv
<1> QED BY <1>1, Invariance, PTL

\* Until the leader has synced, nobody but the last member to join has been
\* told the generation in force.
THEOREM HolderCorrect == Spec => []OneHolderUntilSync
<1>1. IInv => OneHolderUntilSync
  BY DEF IInv
<1> QED BY <1>1, Invariance, PTL

-----------------------------------------------------------------------------
(***************************************************************************)
(* The action properties                                                   *)
(***************************************************************************)

\* What one step can do to the membership, the leader and the generation.
LEMMA MembershipStep ==
  ASSUME IInv, [Next]_vars
  PROVE  \/ UNCHANGED <<members, leader_id, generation_id>>
         \/ generation_id' = generation_id + 1
<1>1. ASSUME NEW c \in Client, Join(c) \/ Sync(c) \/ Leave(c) \/ Commit(c) \/ Fetch(c)
      PROVE  \/ UNCHANGED <<members, leader_id, generation_id>>
             \/ generation_id' = generation_id + 1
  BY <1>1, ZenonT(60) DEF Join, join_group, RejoinStable, Rejoined, JoinRefused, JoinRebalance, Sync, sync_group,
              SyncRefused, SyncAccepted, Synced, Leave, leave_group, LeaveRefused, LeaveAccepted,
              Commit, offset_commit, Fetch, offset_fetch, groupVars
<1>2. ASSUME NEW c \in Client, Heartbeat(c)
      PROVE  \/ UNCHANGED <<members, leader_id, generation_id>>
             \/ generation_id' = generation_id + 1
  <2>1. PICK m \in MemberId, g \in Generation : heartbeat(c, m, g)
    BY <1>2 DEF Heartbeat
  <2>2. CASE HeartbeatRefused(c, m, g)
    BY <2>2 DEF HeartbeatRefused, groupVars
  <2>3. CASE HeartbeatAccepted(c, m, g)
    BY <2>3, HeartbeatStep, Zenon
  <2> QED BY <2>1, <2>2, <2>3 DEF heartbeat
<1>3. CASE (\E m \in MemberId : SessionLapses(m)) \/ UNCHANGED vars
  BY <1>3 DEF SessionLapses, vars, groupVars
<1> QED BY <1>1, <1>2, <1>3 DEF Next

\* No handler changes the membership or the leader within a generation.
THEOREM MembershipCorrect == Spec => GenerationFixesMembership
<1>1. IInv /\ [Next]_vars =>
        [/\ members' # members \/ leader_id' # leader_id => generation_id' = generation_id + 1
         /\ generation_id' \in {generation_id, generation_id + 1}]_vars
  BY MembershipStep
<1> QED BY <1>1, Invariance, PTL DEF Spec, GenerationFixesMembership

\* Only the leader's sync makes a group Stable, and only if no member joined
\* after the leader.
THEOREM StableCorrect == Spec => StableByLastJoiner
<1> DEFINE Goal == state # "Stable" /\ state' = "Stable" =>
                     /\ state = "CompletingRebalance"
                     /\ \A m \in MemberId : told[m] = generation_id <=> m = leader_id
<1>1. ASSUME IInv, [Next]_vars, state # "Stable", state' = "Stable" PROVE Goal
  <2>1. ASSUME NEW c \in Client, Join(c) \/ Leave(c) \/ Commit(c) \/ Fetch(c) PROVE FALSE
    BY <1>1, <2>1, Zenon DEF Join, join_group, RejoinStable, Rejoined, JoinRefused, JoinRebalance, Leave,
                      leave_group, LeaveRefused, LeaveAccepted, Commit, offset_commit, Fetch,
                      offset_fetch, groupVars
  <2>2. ASSUME NEW c \in Client, Heartbeat(c) PROVE FALSE
    <3>1. PICK m \in MemberId, g \in Generation : heartbeat(c, m, g)
      BY <2>2 DEF Heartbeat
    <3>2. CASE HeartbeatRefused(c, m, g)
      BY <1>1, <3>2 DEF HeartbeatRefused, groupVars
    <3>3. CASE HeartbeatAccepted(c, m, g)
      BY <1>1, <3>3, HeartbeatStep
    <3> QED BY <3>1, <3>2, <3>3 DEF heartbeat
  <2>3. ~ ((\E m \in MemberId : SessionLapses(m)) \/ UNCHANGED vars)
    BY <1>1 DEF SessionLapses, vars, groupVars
  <2>4. PICK c \in Client : Sync(c)
    BY <1>1, <2>1, <2>2, <2>3 DEF Next
  <2>5. PICK m \in MemberId : m = leader_id /\ m \in members /\ told[m] = generation_id
    BY <1>1, <2>4, Zenon DEF Sync, sync_group, SyncRefused, SyncAccepted, Synced, Quotes, IsKnown, groupVars
  <2>6. state = "CompletingRebalance"
    BY <1>1, <2>5 DEF IInv, TypeOK, GroupState, OneHolderUntilSync
  <2> QED BY <2>5, <2>6, <1>1 DEF IInv, OneHolderUntilSync
<1>2. IInv /\ [Next]_vars => [Goal]_vars
  BY <1>1
<1> QED BY <1>2, Invariance, PTL DEF Spec, StableByLastJoiner

\* Respond changes the reply of one connection, to the one it is given.
LEMMA RespondChanges ==
  ASSUME NEW c \in Client, NEW d, NEW r, reply \in [Client -> Reply], Respond(d, r),
         reply'[c] # reply[c]
  PROVE  reply'[c] = r
  BY DEF Respond

\* The reply of another handler is no reply to a heartbeat.
LEMMA OtherReplies ==
  ASSUME IInv, NEW c \in Client, NEW d \in Client,
         Join(d) \/ Sync(d) \/ Leave(d) \/ Commit(d) \/ Fetch(d), reply'[c] # reply[c]
  PROVE  reply'[c].api # "Heartbeat"
<1> USE DEF IInv, TypeOK
<1>1. CASE Join(d)
  <2>1. PICK m \in MemberId \cup {NoMember}, ps \in ProtocolLists : join_group(d, m, ps)
    BY <1>1 DEF Join
  <2>2. CASE RejoinStable(d, m, ps)
    BY <2>2 DEF RejoinStable, Rejoined, Respond
  <2>3. CASE JoinRefused(d, m)
    BY <2>3 DEF JoinRefused, Respond
  <2>4. CASE JoinRebalance(d, m, ps)
    BY <2>4 DEF JoinRebalance, Respond
  <2> QED BY <2>1, <2>2, <2>3, <2>4 DEF join_group
<1>2. CASE Sync(d)
  <2>1. PICK m \in MemberId, g \in Generation :
          \E as \in (IF g = generation_id THEN AssignmentLists ELSE {<<>>}) : sync_group(d, m, g, as)
    BY <1>2, Zenon DEF Sync
  <2>2. PICK as \in (IF g = generation_id THEN AssignmentLists ELSE {<<>>}) : sync_group(d, m, g, as)
    BY <2>1, Zenon
  <2>3. CASE SyncRefused(d, m, g)
    BY <2>3 DEF SyncRefused, Respond
  <2>4. CASE SyncAccepted(d, m, g, as)
    BY <2>4 DEF SyncAccepted, Synced, Respond
  <2> QED BY <2>2, <2>3, <2>4, Zenon DEF sync_group
<1>3. CASE Leave(d)
  <2>1. PICK m \in MemberId : leave_group(d, m)
    BY <1>3 DEF Leave
  <2>2. CASE LeaveRefused(d, m)
    BY <2>2 DEF LeaveRefused, Respond
  <2>3. CASE LeaveAccepted(d, m)
    BY <2>3 DEF LeaveAccepted, Respond
  <2> QED BY <2>1, <2>2, <2>3 DEF leave_group
<1>4. CASE Commit(d)
  BY <1>4 DEF Commit, offset_commit, Respond
<1>5. CASE Fetch(d)
  BY <1>5 DEF Fetch, offset_fetch, Respond
<1> QED BY <1>1, <1>2, <1>3, <1>4, <1>5

\* A heartbeat answered with error 0 left the group Stable and as it was.
THEOREM AliveCorrect == Spec => AliveMeansStable
<1> DEFINE Goal == \A c \in Client :
                     reply'[c] # reply[c] /\ reply'[c].api = "Heartbeat" /\ reply'[c].error = NONE =>
                       /\ state' = "Stable"
                       /\ UNCHANGED <<members, leader_id, generation_id>>
<1>1. ASSUME IInv, [Next]_vars PROVE Goal
  <2> SUFFICES ASSUME NEW c \in Client, reply'[c] # reply[c], reply'[c].api = "Heartbeat",
                      reply'[c].error = NONE
               PROVE  state' = "Stable" /\ UNCHANGED <<members, leader_id, generation_id>>
    OBVIOUS
  <2>1. ~ ((\E m \in MemberId : SessionLapses(m)) \/ UNCHANGED vars)
    BY DEF SessionLapses, vars, groupVars
  <2>2. PICK d \in Client : Heartbeat(d)
    BY <1>1, <2>1, OtherReplies DEF Next
  <2>3. PICK m \in MemberId, g \in Generation : heartbeat(d, m, g)
    BY <2>2 DEF Heartbeat
  <2>4. reply \in [Client -> Reply] /\ state \in GroupState
    BY <1>1 DEF IInv, TypeOK
  <2>5. ~ HeartbeatRefused(d, m, g)
    BY <2>4, RespondChanges DEF HeartbeatRefused, NONE, ILLEGAL_GENERATION, UNKNOWN_MEMBER_ID
  <2>6. HeartbeatAccepted(d, m, g)
    BY <2>3, <2>5 DEF heartbeat
  <2>7. state' \notin {"PreparingRebalance", "CompletingRebalance"}
    BY <2>4, <2>6, RespondChanges DEF HeartbeatAccepted, NONE, REBALANCE_IN_PROGRESS
  <2>8. UNCHANGED <<members, leader_id, generation_id, state>>
    BY <1>1, <2>6, <2>7, HeartbeatStep, Zenon
  <2>9. state # "Empty"
    BY <1>1, <2>6 DEF IInv, LeaderIsMember, HeartbeatAccepted, IsKnown
  <2> QED BY <2>4, <2>7, <2>8, <2>9 DEF GroupState
<1>2. IInv /\ [Next]_vars => [Goal]_vars
  BY <1>1
<1> QED BY <1>2, Invariance, PTL DEF Spec, AliveMeansStable

-----------------------------------------------------------------------------
(***************************************************************************)
(* The choice of the protocol                                              *)
(***************************************************************************)

\* If some protocol is listed by every member, choose_protocol returns one
\* that is.
LEMMA ChooseCommonProtocol ==
  ASSUME NEW ms, NEW ps, NEW q \in choose_protocol(ms, ps),
         NEW p \in Protocol, \A m \in ms : Lists(ps[m], p)
  PROVE  \A m \in ms : Lists(ps[m], q)
  BY DEF choose_protocol

\* While a rebalance completes, the group's protocol is common to all members
\* whenever they have one in common.
THEOREM ProtocolCorrect == Spec => []CommonProtocol
<1>1. Init => CommonProtocol
  BY DEF Init, CommonProtocol
<1>2. IInv /\ CommonProtocol /\ [Next]_vars => CommonProtocol'
  <2> SUFFICES ASSUME IInv, CommonProtocol, [Next]_vars, state' = "CompletingRebalance"
               PROVE  CommonProtocol'
    BY DEF CommonProtocol
  <2>1. ASSUME NEW c \in Client, NEW m \in MemberId \cup {NoMember}, NEW ps \in ProtocolLists,
               JoinRebalance(c, m, ps)
        PROVE  CommonProtocol'
    <3>1. protocol_name' \in choose_protocol(members', protocols')
      BY <2>1 DEF JoinRebalance
    <3> QED BY <3>1, ChooseCommonProtocol DEF CommonProtocol
  <2>2. ASSUME UNCHANGED <<state, members, protocols, protocol_name>>
        PROVE  CommonProtocol'
    BY <2>2 DEF CommonProtocol
  <2>3. ASSUME NEW c \in Client, Sync(c) \/ Leave(c) \/ Commit(c) \/ Fetch(c)
        PROVE  UNCHANGED <<state, members, protocols, protocol_name>>
    BY <2>3, Zenon DEF Sync, sync_group, SyncRefused, SyncAccepted, Synced, Leave, leave_group, LeaveRefused,
                LeaveAccepted, Commit, offset_commit, Fetch, offset_fetch, groupVars
  <2>4. ASSUME NEW c \in Client, Heartbeat(c)
        PROVE  UNCHANGED <<state, members, protocols, protocol_name>>
    <3>1. PICK m \in MemberId, g \in Generation : heartbeat(c, m, g)
      BY <2>4 DEF Heartbeat
    <3>2. CASE HeartbeatRefused(c, m, g)
      BY <3>2 DEF HeartbeatRefused, groupVars
    <3>3. CASE HeartbeatAccepted(c, m, g)
      BY <3>3, HeartbeatStep DEF HeartbeatAccepted
    <3> QED BY <3>1, <3>2, <3>3 DEF heartbeat
  <2>5. CASE (\E m \in MemberId : SessionLapses(m)) \/ UNCHANGED vars
    BY <2>2, <2>5 DEF SessionLapses, vars, groupVars
  <2>6. ASSUME NEW c \in Client, Join(c)
        PROVE  CommonProtocol'
    BY <2>1, <2>2, <2>6 DEF Join, join_group, RejoinStable, Rejoined, JoinRefused, groupVars
  <2> QED BY <2>2, <2>3, <2>4, <2>5, <2>6 DEF Next
<1> QED BY <1>1, <1>2, Invariance, PTL DEF Spec

-----------------------------------------------------------------------------
(***************************************************************************)
(* The inductive invariant                                                 *)
(***************************************************************************)

\* The assignment list a leader sends for the member list ms; a follower's
\* member list is empty, and so is what it sends.
ListFor(ms) == IF ms = {} THEN <<>> ELSE Assign(ms)

JoinRequest == [api : {"JoinGroup"}, id : MemberId \cup {NoMember}, protocols : ProtocolLists]
SyncRequest == [api : {"SyncGroup"}, id : MemberId, gen : Nat, as : {ListFor(ms) : ms \in SUBSET MemberId}]
HeartbeatRequest == [api : {"Heartbeat"}, id : MemberId, gen : Nat]
LeaveRequest == [api : {"LeaveGroup"}, id : MemberId]
Request == JoinRequest \cup SyncRequest \cup HeartbeatRequest \cup LeaveRequest

\* What the variables of the consumers hold.
ClientTypeOK ==
  /\ phase \in [Client -> {"out", "joined", "active"}]
  /\ id \in [Client -> MemberId \cup {NoMember}]
  /\ gen \in [Client -> Nat \cup {-1}]
  /\ roster \in [Client -> SUBSET MemberId]
  /\ owned \in [Client -> Assignment]
  /\ req \in [Client -> Request \cup {NoRequest}]
  /\ late \subseteq Request

Asked(c, api) == req[c] # NoRequest /\ req[c].api = api
Granted(c, api) == reply[c].api = api /\ reply[c].error = NONE

\* A consumer has one request or one reply outstanding, and it belongs to the
\* phase the consumer is in, its member id and its generation.
Exchange(c) ==
  /\ req[c] # NoRequest => reply[c] = NoReply
  /\ phase[c] # "out" => id[c] \in MemberId /\ gen[c] \in Nat
  /\ Asked(c, "JoinGroup") => phase[c] = "out" /\ req[c].id = id[c]
  /\ Asked(c, "SyncGroup") => phase[c] = "joined" /\ req[c].id = id[c] /\ req[c].gen = gen[c]
  /\ Granted(c, "JoinGroup") => phase[c] = "out" /\ id[c] \in {NoMember, reply[c].member}
  /\ Granted(c, "SyncGroup") => phase[c] = "joined"
ExchangeInv == \A c \in Client : Exchange(c)

\* c has the member id m, or a reply on its way to c gives it that id.
Claims(c, m) == id[c] = m \/ (Granted(c, "JoinGroup") /\ reply[c].member = m)

\* A member id belongs to one consumer.
UniqueInv ==
  \A m \in MemberId : \A c \in Client : Claims(c, m) =>
    m \in used /\ \A d \in Client : Claims(d, m) => d = c

\* m was told the generation g, with the member list ms.  While g is in force,
\* m is a member, and ms is the membership if m leads the group, else empty.
Knows(m, g, ms) ==
  /\ g <= generation_id
  /\ g = generation_id => /\ m \in members /\ told[m] = g
                          /\ ms = IF m = leader_id THEN members ELSE {}

\* Whatever is said of a generation, in a reply, by a consumer that has joined
\* or in a request however late, is what the coordinator knows of it.
ClientKnows(c) ==
  /\ Granted(c, "JoinGroup") =>
       reply[c].generation \in Nat /\ Knows(reply[c].member, reply[c].generation, reply[c].members)
  /\ phase[c] = "joined" => Knows(id[c], gen[c], roster[c])
  /\ Asked(c, "SyncGroup") => Knows(req[c].id, req[c].gen, DOMAIN req[c].as)
LateKnows(q) == q.api = "SyncGroup" => Knows(q.id, q.gen, DOMAIN q.as)
KnowInv == (\A c \in Client : ClientKnows(c)) /\ (\A q \in late : LateKnows(q))

\* c consumes from a, or will when it receives the reply on its way to it.
Holds(c, a) ==
  \/ phase[c] = "active" /\ owned[c] = a
  \/ Granted(c, "SyncGroup") /\ reply[c].assignment = a

\* A consumer that holds an assignment of the generation in force holds the one
\* of a Stable group, or is a follower that overtook its leader.
Held(c, a) ==
  /\ gen[c] <= generation_id
  /\ gen[c] = generation_id =>
       /\ id[c] \in members /\ told[id[c]] = generation_id
       /\ IF state = "Stable" THEN a = members ELSE id[c] # leader_id

\* No two consumers hold assignments of one generation that overlap.
HoldInv ==
  /\ \A c \in Client, a \in Assignment : Holds(c, a) => Held(c, a)
  /\ \A c, d \in Client, a, b \in Assignment :
       c # d /\ Holds(c, a) /\ Holds(d, b) /\ gen[c] = gen[d] => Disjoint(a, b)

\* IInv is the inductive invariant of the coordinator.
GInv == IInv /\ ClientTypeOK /\ ExchangeInv /\ UniqueInv /\ KnowInv /\ HoldInv /\ StableIsAssigned

-----------------------------------------------------------------------------
(***************************************************************************)
(* What the handlers of the coordinator do and answer                      *)
(***************************************************************************)

\* The absent reply is none to any request.
LEMMA NoReplyApi == NoReply.api = "none" /\ NoReply.api # "JoinGroup" /\ NoReply.api # "SyncGroup"
  BY DEF NoReply

\* What any handler may do to the group: within a generation the membership and
\* the leader stay, and the group at most becomes Stable.
Evolves ==
  /\ used \subseteq used'
  /\ \/ /\ UNCHANGED <<generation_id, members, leader_id>>
        /\ state' \in {state, "Stable"}
        /\ \A m \in MemberId : told'[m] = told[m] \/ told'[m] = generation_id
     \/ generation_id' = generation_id + 1 /\ state' # "Stable"

\* Only sync_group assigns.
KeepsAssignment == state' = "Stable" => state = "Stable" /\ assignment' = assignment /\ members' = members

\* What was known of a generation stays true.
LEMMA KnowsKept ==
  ASSUME IInv, Evolves, NEW m \in MemberId, NEW g \in Nat, NEW ms, Knows(m, g, ms)
  PROVE  Knows(m, g, ms)'
<1>1. generation_id \in Nat
  BY Zenon DEF IInv, TypeOK
<1>2. CASE generation_id' = generation_id + 1
  BY <1>1, <1>2 DEF Knows
<1>3. CASE generation_id' # generation_id + 1
  BY <1>1, <1>3, Zenon DEF Knows, Evolves
<1> QED BY <1>2, <1>3, Zenon

\* The answer to a join that is granted tells the generation in force, and the
\* membership to the leader only.
JoinAnswer(a, m) ==
  /\ a \in JoinReply
  /\ a.error = NONE =>
       /\ a.generation \in Nat /\ a.member \in MemberId /\ a.member \in used'
       /\ Knows(a.member, a.generation, a.members)'
       /\ IF m = NoMember THEN a.member \notin used ELSE a.member = m

\* join_group.
LEMMA JoinStep ==
  ASSUME IInv, NEW c, NEW m \in MemberId \cup {NoMember}, NEW ps \in ProtocolLists, join_group(c, m, ps)
  PROVE  IInv' /\ Evolves /\ KeepsAssignment /\ \E a : JoinAnswer(a, m) /\ Respond(c, a)
<1>0. generation_id \in Nat /\ members \subseteq MemberId /\ members \subseteq used /\ used \subseteq MemberId
      /\ leader_id \in MemberId \cup {NoMember} /\ NoMember \notin MemberId
      /\ told \in [MemberId -> Nat \cup {-1}]
  BY ConstantsAssumption, Zenon DEF IInv, TypeOK
<1>1. CASE RejoinStable(c, m, ps)
  <2>1. IInv'
    BY <1>1, RejoinStableIInv, Zenon
  <2>2. /\ m # NoMember /\ m \in members /\ state = "Stable"
        /\ told' = [told EXCEPT ![m] = generation_id]
        /\ UNCHANGED <<state, generation_id, leader_id, members, assignment, used>>
    BY <1>1, Zenon DEF RejoinStable, Rejoined, IsKnown
  <2>3. Evolves /\ KeepsAssignment
    BY <1>0, <2>2, Zenon DEF Evolves, KeepsAssignment
  <2>4. PICK a : a = [api |-> "JoinGroup", error |-> NONE, generation |-> generation_id,
                      leader |-> leader_id, member |-> m, members |-> IF m = leader_id THEN members ELSE {}]
    BY Zenon
  <2>5. Respond(c, a)
    BY <1>1, <2>4, Zenon DEF RejoinStable, Rejoined
  <2>6. a \in JoinReply
    BY <1>0, <2>2, <2>4, Zenon DEF JoinReply
  <2>7. /\ a.generation = generation_id /\ a.member = m
        /\ a.members = (IF m = leader_id THEN members ELSE {})
    BY <2>4, Zenon
  <2>8. Knows(a.member, a.generation, a.members)'
    BY <1>0, <2>2, <2>7 DEF Knows
  <2>9. JoinAnswer(a, m)
    BY <1>0, <2>2, <2>6, <2>7, <2>8, Zenon DEF JoinAnswer
  <2> QED BY <2>1, <2>3, <2>5, <2>9, Zenon
<1>2. CASE JoinRefused(c, m)
  <2>1. IInv'
    BY <1>2, JoinRefusedIInv, Zenon
  <2>2. Evolves /\ KeepsAssignment
    BY <1>2, Zenon DEF JoinRefused, groupVars, Evolves, KeepsAssignment
  <2> DEFINE a == [api |-> "JoinGroup", error |-> UNKNOWN_MEMBER_ID, generation |-> -1,
                   leader |-> NoMember, member |-> m, members |-> {}]
  <2>3. Respond(c, a)
    BY <1>2, Zenon DEF JoinRefused
  <2>4. JoinAnswer(a, m)
    <3>1. m \in MemberId
      BY <1>2, Zenon DEF JoinRefused, RefusesJoin
    <3>2. a \in JoinReply
      BY <3>1 DEF JoinReply
    <3>3. a.error # NONE
      BY DEF NONE, UNKNOWN_MEMBER_ID
    <3> HIDE DEF a
    <3> QED BY <3>2, <3>3, Zenon DEF JoinAnswer
  <2> QED BY <2>1, <2>2, <2>3, <2>4, Zenon
<1>3. CASE JoinRebalance(c, m, ps)
  <2>1. IInv'
    BY <1>3, JoinRebalanceIInv, Zenon
  <2>2. PICK n \in (IF m = NoMember THEN generate_member_id ELSE {m}) :
          /\ members' = members \cup {n} /\ used' = used \cup {n}
          /\ generation_id' = generation_id + 1
          /\ leader_id' = IF leader_id = NoMember \/ leader_id \notin members' THEN n ELSE leader_id
          /\ state' = "CompletingRebalance" /\ told' = [told EXCEPT ![n] = generation_id']
          /\ Respond(c, [api |-> "JoinGroup", error |-> NONE, generation |-> generation_id',
                         leader |-> leader_id', member |-> n,
                         members |-> IF n = leader_id' THEN members' ELSE {}])
    BY <1>3, Zenon DEF JoinRebalance
  <2>3. n \in MemberId /\ IF m = NoMember THEN n \notin used ELSE n = m
    BY Zenon DEF generate_member_id
  <2>4. Evolves /\ KeepsAssignment
    BY <2>2, Zenon DEF Evolves, KeepsAssignment
  <2>5. PICK a : a = [api |-> "JoinGroup", error |-> NONE, generation |-> generation_id',
                      leader |-> leader_id', member |-> n,
                      members |-> IF n = leader_id' THEN members' ELSE {}]
    BY Zenon
  <2>6. /\ a.generation = generation_id' /\ a.member = n
        /\ a.members = (IF n = leader_id' THEN members' ELSE {})
    BY <2>5, Zenon
  <2>7. a \in JoinReply
    BY <1>0, <2>2, <2>3, <2>5 DEF JoinReply
  <2>8. Knows(a.member, a.generation, a.members)'
    <3>1. generation_id' <= generation_id' /\ n \in members' /\ told'[n] = generation_id'
      BY <1>0, <2>2, <2>3
    <3> QED BY <2>6, <3>1, Zenon DEF Knows
  <2>9. JoinAnswer(a, m)
    <3>1. generation_id' \in Nat /\ n \in used'
      BY <1>0, <2>2
    <3> QED BY <2>3, <2>6, <2>7, <2>8, <3>1, Zenon DEF JoinAnswer
  <2> QED BY <2>1, <2>2, <2>4, <2>5, <2>9, Zenon
<1> QED BY <1>1, <1>2, <1>3, Zenon DEF join_group

\* What a consumer sends with its sync is an assignment list of its member list.
LEMMA ListForFacts ==
  ASSUME NEW ms \in SUBSET MemberId
  PROVE  ListFor(ms) \in AssignmentLists /\ DOMAIN ListFor(ms) = ms
         /\ \A m \in ms : ListFor(ms)[m] = ms
<1>1. CASE ms = {}
  <2>1. <<>> = [x \in {} |-> x]
    BY SMT
  <2>2. <<>> \in [{} -> Assignment] /\ DOMAIN <<>> = {}
    BY <2>1, Zenon
  <2> QED BY <1>1, <2>2, Zenon DEF ListFor, AssignmentLists
<1>2. CASE ms # {}
  <2>1. ListFor(ms) = [m \in ms |-> ms]
    BY <1>2, Zenon DEF ListFor, Assign
  <2>2. ListFor(ms) \in [ms -> Assignment]
    BY <2>1, AssignmentsAreMemberLists, Zenon
  <2> QED BY <2>1, <2>2, Zenon DEF AssignmentLists
<1> QED BY <1>1, <1>2, Zenon

\* The answer to a sync that is granted is the sender's share of a Stable group,
\* or what a follower gets that overtakes its leader.
SyncAnswer(a, m, g) ==
  /\ a \in SyncReply
  /\ a.error = NONE =>
       /\ a.assignment \in Assignment
       /\ g = generation_id' /\ m \in members'
       /\ IF state' = "Stable" THEN a.assignment = members' ELSE m # leader_id'

\* The group becomes Stable only by the sync of its leader, the one member that
\* was told its generation.
StableByLeader ==
  state' = "Stable" /\ state # "Stable" =>
    \A m \in MemberId : told[m] = generation_id => m = leader_id

\* sync_group, of a request that says what its generation was.
LEMMA SyncStep ==
  ASSUME IInv, StableIsAssigned, NEW c, NEW m \in MemberId, NEW g \in Nat, NEW ms \in SUBSET MemberId,
         Knows(m, g, ms), sync_group(c, m, g, ListFor(ms))
  PROVE  /\ IInv' /\ Evolves /\ StableByLeader /\ StableIsAssigned'
         /\ \E a : SyncAnswer(a, m, g) /\ Respond(c, a)
<1>0. generation_id \in Nat /\ members \subseteq MemberId /\ leader_id \in MemberId \cup {NoMember}
      /\ assignment \in [MemberId -> Assignment] /\ state \in GroupState
  BY Zenon DEF IInv, TypeOK
<1>1. CASE SyncRefused(c, m, g)
  <2>1. IInv'
    BY <1>1, SyncRefusedIInv, Zenon
  <2>2. Evolves /\ StableByLeader /\ StableIsAssigned'
    BY <1>1, Zenon DEF SyncRefused, groupVars, Evolves, StableByLeader, StableIsAssigned, Assign
  <2>3. PICK a : a = [api |-> "SyncGroup",
                      error |-> IF IsKnown(m) THEN ILLEGAL_GENERATION ELSE UNKNOWN_MEMBER_ID,
                      assignment |-> NoAssignment]
    BY Zenon
  <2>4. SyncAnswer(a, m, g)
    BY <2>3, AssignmentsAreMemberLists
       DEF SyncAnswer, SyncReply, ILLEGAL_GENERATION, UNKNOWN_MEMBER_ID, NONE
  <2> QED BY <1>1, <2>1, <2>2, <2>3, <2>4, Zenon DEF SyncRefused
<1>2. CASE SyncAccepted(c, m, g, ListFor(ms))
  <2>0. /\ ListFor(ms) \in AssignmentLists /\ DOMAIN ListFor(ms) = ms
        /\ \A n \in ms : ListFor(ms)[n] = ms
    BY ListForFacts, Zenon
  <2>1. IInv'
    BY <1>2, <2>0, SyncAcceptedIInv, Zenon
  <2>a. PICK as : as = ListFor(ms)
    BY Zenon
  <2>b. SyncAccepted(c, m, g, as) /\ DOMAIN as = ms
    BY <1>2, <2>0, <2>a, Zenon
  <2>2. /\ m \in members /\ g = generation_id
        /\ UNCHANGED <<generation_id, leader_id, members, used, told>>
        /\ IF m = leader_id /\ ms # {}
           THEN /\ assignment' = [n \in MemberId |->
                       IF n \in ms /\ IsKnown(n) THEN as[n] ELSE assignment[n]]
                /\ state' = "Stable"
           ELSE UNCHANGED <<assignment, state>>
        /\ Respond(c, [api |-> "SyncGroup", error |-> NONE, assignment |-> assignment'[m]])
    <3>1. m \in members /\ g = generation_id /\ Synced(c, m, as)
      BY <2>b, Zenon DEF SyncAccepted, IsKnown
    <3>2. UNCHANGED <<generation_id, leader_id, members, used, told>>
      BY <3>1, Zenon DEF Synced
    <3>3. Respond(c, [api |-> "SyncGroup", error |-> NONE, assignment |-> assignment'[m]])
      BY <3>1, Zenon DEF Synced
    <3>4. IF m = leader_id /\ DOMAIN as # {}
          THEN /\ assignment' = [n \in MemberId |->
                      IF n \in DOMAIN as /\ IsKnown(n) THEN as[n] ELSE assignment[n]]
               /\ state' = "Stable"
          ELSE UNCHANGED <<assignment, state>>
      BY <3>1, Zenon DEF Synced
    <3>5. DOMAIN as = ms
      BY <2>b, Zenon
    <3>6. IF m = leader_id /\ ms # {}
          THEN /\ assignment' = [n \in MemberId |->
                      IF n \in ms /\ IsKnown(n) THEN as[n] ELSE assignment[n]]
               /\ state' = "Stable"
          ELSE UNCHANGED <<assignment, state>>
      BY <3>4, <3>5, Zenon
    <3> QED BY <3>1, <3>2, <3>3, <3>6, Zenon
  <2>3. ms = (IF m = leader_id THEN members ELSE {}) /\ told[m] = generation_id
    BY <2>2, Zenon DEF Knows
  <2>4. CASE m = leader_id
    <3>1. ms = members /\ ms # {}
      BY <2>2, <2>3, <2>4, Zenon
    <3>2. state' = "Stable" /\ \A n \in members : assignment'[n] = members
      BY <1>0, <2>0, <2>a, <2>2, <2>4, <3>1, Zenon DEF IsKnown
    <3>3. StableIsAssigned'
      BY <2>2, <3>2, Zenon DEF StableIsAssigned, Assign
    <3>4. Evolves
      BY <2>2, <3>2, Zenon DEF Evolves
    <3>5. StableByLeader
      <4> SUFFICES ASSUME state # "Stable", NEW n \in MemberId, told[n] = generation_id
                   PROVE  n = leader_id
        BY Zenon DEF StableByLeader
      <4>1. state = "CompletingRebalance"
        BY <1>0, <2>3, Zenon DEF IInv, OneHolderUntilSync, GroupState
      <4> QED BY <2>3, <2>4, <4>1, Zenon DEF IInv, OneHolderUntilSync
    <3>6. PICK a : a = [api |-> "SyncGroup", error |-> NONE, assignment |-> assignment'[m]]
      BY Zenon
    <3>7. SyncAnswer(a, m, g)
      BY <1>0, <2>2, <3>2, <3>6, AssignmentsAreMemberLists, Zenon DEF SyncAnswer, SyncReply, NONE
    <3> QED BY <2>1, <2>2, <3>3, <3>4, <3>5, <3>6, <3>7, Zenon
  <2>5. CASE m # leader_id
    <3>1. UNCHANGED <<assignment, state>>
      BY <2>2, <2>5, Zenon
    <3>2. StableIsAssigned'
      BY <2>2, <3>1, Zenon DEF StableIsAssigned, Assign
    <3>3. Evolves /\ StableByLeader
      BY <2>2, <3>1, Zenon DEF Evolves, StableByLeader
    <3>4. PICK a : a = [api |-> "SyncGroup", error |-> NONE, assignment |-> assignment'[m]]
      BY Zenon
    <3>5. state = "Stable" => assignment[m] = members
      BY <2>2, Zenon DEF StableIsAssigned, Assign
    <3>6. SyncAnswer(a, m, g)
      BY <1>0, <2>2, <2>5, <3>1, <3>4, <3>5, AssignmentsAreMemberLists, Zenon DEF SyncAnswer, SyncReply, NONE
    <3> QED BY <2>1, <2>2, <3>2, <3>3, <3>4, <3>6, Zenon
  <2> QED BY <2>4, <2>5, Zenon
<1> QED BY <1>1, <1>2, Zenon DEF sync_group

\* heartbeat and leave_group.
LEMMA OtherStep ==
  ASSUME IInv, NEW c, NEW m \in MemberId,
         (\E g \in Nat : heartbeat(c, m, g)) \/ leave_group(c, m)
  PROVE  IInv' /\ Evolves /\ KeepsAssignment /\ \E a \in ErrorReply : Respond(c, a)
<1>1. CASE \E g \in Nat : heartbeat(c, m, g)
  <2>1. PICK g \in Nat : heartbeat(c, m, g)
    BY <1>1, Zenon
  <2>2. CASE HeartbeatRefused(c, m, g)
    <3>1. IInv'
      BY <2>2, HeartbeatRefusedIInv, Zenon
    <3>2. Evolves /\ KeepsAssignment
      BY <2>2, Zenon DEF HeartbeatRefused, groupVars, Evolves, KeepsAssignment
    <3>3. \E a \in ErrorReply : Respond(c, a)
      BY <2>2, Zenon DEF HeartbeatRefused, ErrorReply
    <3> QED BY <3>1, <3>2, <3>3, Zenon
  <2>3. CASE HeartbeatAccepted(c, m, g)
    <3>1. IInv'
      BY <2>3, HeartbeatAcceptedIInv, Zenon
    <3>2. used' = used /\ told' = told
      BY <2>3, Zenon DEF HeartbeatAccepted
    <3>3. Evolves /\ KeepsAssignment
      BY <2>3, <3>2, HeartbeatStep, Zenon DEF Evolves, KeepsAssignment
    <3>4. \E a \in ErrorReply : Respond(c, a)
      BY <2>3, Zenon DEF HeartbeatAccepted, ErrorReply
    <3> QED BY <3>1, <3>3, <3>4, Zenon
  <2> QED BY <2>1, <2>2, <2>3, Zenon DEF heartbeat
<1>2. CASE leave_group(c, m)
  <2>1. IInv'
    BY <1>2, LeaveRefusedIInv, LeaveAcceptedIInv, Zenon DEF leave_group
  <2>2. Evolves /\ KeepsAssignment
    BY <1>2, Zenon DEF leave_group, LeaveRefused, LeaveAccepted, groupVars, Evolves, KeepsAssignment
  <2>3. \E a \in ErrorReply : Respond(c, a)
    BY <1>2, Zenon DEF leave_group, LeaveRefused, LeaveAccepted, ErrorReply
  <2> QED BY <2>1, <2>2, <2>3, Zenon
<1> QED BY <1>1, <1>2, Zenon

-----------------------------------------------------------------------------
(***************************************************************************)
(* A step of the coordinator, of a consumer or of the network concerns one *)
(* consumer at most; what is known of the others stays                     *)
(***************************************************************************)

CoordinatorStep == IInv' /\ Evolves /\ StableByLeader /\ StableIsAssigned'

Untouched(d) ==
  /\ phase'[d] = phase[d] /\ id'[d] = id[d] /\ gen'[d] = gen[d]
  /\ roster'[d] = roster[d] /\ owned'[d] = owned[d]
  /\ reply'[d] = reply[d] /\ req'[d] \in {req[d], NoRequest}

\* What a reply is made of.
LEMMA GrantedTypes ==
  ASSUME reply \in [Client -> Reply], NEW d \in Client
  PROVE  /\ Granted(d, "JoinGroup") => reply[d] \in JoinReply /\ reply[d].member \in MemberId
                                       /\ reply[d].members \subseteq MemberId
         /\ Granted(d, "SyncGroup") => reply[d] \in SyncReply /\ reply[d].assignment \in Assignment
<1>1. reply[d] \in Reply
  BY Zenon
<1>2. reply[d].api = "JoinGroup" => reply[d] \in JoinReply
  BY <1>1, SMTT(30) DEF Reply, JoinReply, SyncReply, ErrorReply, OffsetReply, NoReply
<1>3. reply[d].api = "SyncGroup" => reply[d] \in SyncReply
  BY <1>1 DEF Reply, JoinReply, SyncReply, ErrorReply, OffsetReply, NoReply
<1>4. \A r \in JoinReply : r.member \in MemberId /\ r.members \subseteq MemberId
  BY Zenon DEF JoinReply
<1>5. \A r \in SyncReply : r.assignment \in Assignment
  BY Zenon DEF SyncReply
<1> QED BY <1>2, <1>3, <1>4, <1>5, Zenon DEF Granted

\* What a request is made of.
LEMMA RequestTypes ==
  ASSUME NEW q \in Request
  PROVE  /\ q.api = "JoinGroup" => q.id \in MemberId \cup {NoMember} /\ q.protocols \in ProtocolLists
         /\ q.api = "SyncGroup" => q.id \in MemberId /\ q.gen \in Nat
                                   /\ \E ms \in SUBSET MemberId : q.as = ListFor(ms)
         /\ q.api = "Heartbeat" => q.id \in MemberId /\ q.gen \in Nat
         /\ q.api = "LeaveGroup" => q.id \in MemberId
<1>1. CASE q \in JoinRequest
  BY <1>1, Zenon DEF JoinRequest
<1>2. CASE q \in SyncRequest
  BY <1>2, Zenon DEF SyncRequest
<1>3. CASE q \in HeartbeatRequest
  BY <1>3, Zenon DEF HeartbeatRequest
<1>4. CASE q \in LeaveRequest
  BY <1>4, Zenon DEF LeaveRequest
<1> QED BY <1>1, <1>2, <1>3, <1>4, Zenon DEF Request

\* A request keeps saying what is known of its generation.
LEMMA LateKnowsKept ==
  ASSUME IInv, Evolves, NEW q \in Request, LateKnows(q)
  PROVE  LateKnows(q)'
<1> SUFFICES ASSUME q.api = "SyncGroup" PROVE Knows(q.id, q.gen, DOMAIN q.as)'
  BY Zenon DEF LateKnows
<1>1. q.id \in MemberId /\ q.gen \in Nat /\ Knows(q.id, q.gen, DOMAIN q.as)
  BY RequestTypes, Zenon DEF LateKnows
<1> QED BY <1>1, KnowsKept, Zenon

\* A consumer that is not concerned keeps its exchange and what it knows.
LEMMA ExchangeKept ==
  ASSUME NEW d \in Client, Exchange(d), Untouched(d)
  PROVE  Exchange(d)'
  BY Zenon DEF Exchange, Untouched, Asked, Granted

\* A consumer that is not concerned keeps knowing what it knew.
LEMMA ClientKnowsKept ==
  ASSUME IInv, ClientTypeOK, Evolves, NEW d \in Client, Exchange(d), ClientKnows(d), Untouched(d)
  PROVE  ClientKnows(d)'
<1>1. ASSUME Granted(d, "JoinGroup")'
      PROVE  /\ reply'[d].generation \in Nat
             /\ Knows(reply[d].member, reply[d].generation, reply[d].members)'
  <2>1. Granted(d, "JoinGroup") /\ reply'[d] = reply[d]
    BY <1>1, Zenon DEF Granted, Untouched
  <2>2. reply[d].member \in MemberId
    BY <2>1, GrantedTypes, Zenon DEF IInv, TypeOK
  <2>3. reply[d].generation \in Nat /\ Knows(reply[d].member, reply[d].generation, reply[d].members)
    BY <2>1, Zenon DEF ClientKnows
  <2>4. PICK r : r = reply[d]
    BY Zenon
  <2>5. Knows(r.member, r.generation, r.members)'
    BY <2>2, <2>3, <2>4, KnowsKept, Zenon
  <2>6. reply'[d] = r
    BY <2>1, <2>4, Zenon
  <2> QED BY <2>3, <2>4, <2>5, <2>6, Zenon DEF Knows
<1>2. ASSUME phase'[d] = "joined"
      PROVE  Knows(id[d], gen[d], roster[d])'
  <2>1. phase[d] = "joined" /\ id'[d] = id[d] /\ gen'[d] = gen[d] /\ roster'[d] = roster[d]
    BY <1>2, Zenon DEF Untouched
  <2>2. id[d] \in MemberId /\ gen[d] \in Nat /\ Knows(id[d], gen[d], roster[d])
    BY <2>1, Zenon DEF Exchange, ClientKnows
  <2>3. PICK m \in MemberId, g \in Nat, ms \in SUBSET MemberId :
          m = id[d] /\ g = gen[d] /\ ms = roster[d]
    BY <2>2, Zenon DEF ClientTypeOK
  <2>4. Knows(m, g, ms)'
    BY <2>2, <2>3, KnowsKept, Zenon
  <2> QED BY <2>1, <2>3, <2>4, Zenon DEF Knows
<1>3. ASSUME Asked(d, "SyncGroup")'
      PROVE  Knows(req[d].id, req[d].gen, DOMAIN req[d].as)'
  <2>1. Asked(d, "SyncGroup") /\ req'[d] = req[d]
    BY <1>3, Zenon DEF Asked, Untouched
  <2>2. PICK q : q = req[d]
    BY Zenon
  <2>3. q \in Request /\ q.api = "SyncGroup" /\ Knows(q.id, q.gen, DOMAIN q.as)
    BY <2>1, <2>2, Zenon DEF ClientTypeOK, Asked, ClientKnows
  <2>4. Knows(q.id, q.gen, DOMAIN q.as)'
    BY <2>3, LateKnowsKept, Zenon DEF LateKnows
  <2>5. req'[d] = q
    BY <2>1, <2>2, Zenon
  <2> QED BY <2>4, <2>5, Zenon DEF Knows
<1> QED BY <1>1, <1>2, <1>3, Zenon DEF ClientKnows

\* A consumer that is not concerned keeps what it holds, by right.
LEMMA HoldsBack ==
  ASSUME NEW d \in Client, NEW b, Untouched(d), Holds(d, b)'
  PROVE  Holds(d, b)
  BY Zenon DEF Holds, Untouched, Granted

\* What a consumer holds by right it keeps by right, whatever the coordinator
\* does: the group cannot become Stable behind the back of a follower that
\* overtook its leader.
LEMMA HeldKept ==
  ASSUME IInv, Evolves, StableByLeader, NEW d \in Client, NEW b \in Assignment, Exchange(d),
         Held(d, b), Holds(d, b), gen'[d] = gen[d], id'[d] = id[d]
  PROVE  Held(d, b)'
<1>0. generation_id \in Nat /\ gen[d] \in Nat /\ id[d] \in MemberId
  BY Zenon DEF IInv, TypeOK, Exchange, Holds
<1>1. CASE generation_id' = generation_id + 1
  <2>1. gen[d] <= generation_id
    BY Zenon DEF Held
  <2>2. gen[d] <= generation_id' /\ gen[d] # generation_id'
    BY <1>0, <1>1, <2>1
  <2> QED BY <2>2, Zenon DEF Held
<1>2. CASE generation_id' # generation_id + 1
  <2>1. /\ UNCHANGED <<generation_id, members, leader_id>> /\ state' \in {state, "Stable"}
        /\ told'[id[d]] = told[id[d]] \/ told'[id[d]] = generation_id
    BY <1>0, <1>2, Zenon DEF Evolves
  <2>2. CASE gen[d] # generation_id
    BY <1>0, <2>1, <2>2, Zenon DEF Held
  <2>3. CASE gen[d] = generation_id
    <3>1. id[d] \in members /\ told[id[d]] = generation_id
      BY <2>3, Zenon DEF Held
    <3>2. CASE state = "Stable" \/ state' # "Stable"
      BY <1>0, <2>1, <2>3, <3>1, <3>2, Zenon DEF Held
    <3>3. CASE state # "Stable" /\ state' = "Stable"
      <4>1. id[d] = leader_id
        BY <1>0, <3>1, <3>3, Zenon DEF StableByLeader
      <4>2. id[d] # leader_id
        BY <2>3, <3>3, Zenon DEF Held
      <4> QED BY <4>1, <4>2, Zenon
    <3> QED BY <3>2, <3>3, Zenon
  <2> QED BY <2>2, <2>3, Zenon
<1> QED BY <1>1, <1>2, Zenon

\* Two consumers with different ids that hold assignments of the generation in
\* force hold the shares of one membership.
LEMMA CurrentHoldersDisjoint ==
  ASSUME IInv', NEW c \in Client, NEW d \in Client, NEW a, NEW b,
         id'[c] \in MemberId, id'[d] \in MemberId, id'[c] # id'[d],
         Held(c, a)', Held(d, b)', gen'[c] = generation_id', gen'[d] = generation_id'
  PROVE  Disjoint(a, b)
<1>1. CASE state' = "Stable"
  BY <1>1, Zenon DEF Held, Disjoint
<1>2. CASE state' # "Stable"
  <2>1. told'[id'[c]] = generation_id' /\ told'[id'[d]] = generation_id'
    BY Zenon DEF Held
  <2>2. state' = "CompletingRebalance"
    BY <1>2, <2>1, Zenon DEF IInv, TypeOK, GroupState, OneHolderUntilSync
  <2> QED BY <2>1, <2>2, Zenon DEF IInv, OneHolderUntilSync
<1> QED BY <1>1, <1>2, Zenon

\* The consumer that is concerned claims no id of another consumer, and holds
\* what it held or what it is given in the generation in force.
ClaimsFresh(c) == \A m \in MemberId : Claims(c, m)' => m \in used' /\ (Claims(c, m) \/ m \notin used)
HoldsCurrent(c) ==
  \A a \in Assignment : Holds(c, a)' =>
    Held(c, a)' /\ (gen'[c] = generation_id' \/ (Holds(c, a) /\ gen'[c] = gen[c]))

\* The step of one consumer, or of none.
LEMMA OneStep ==
  ASSUME GInv, CoordinatorStep, ClientTypeOK', NEW c,
         \A d \in Client : d # c => Untouched(d),
         c \in Client => Exchange(c)' /\ ClientKnows(c)' /\ ClaimsFresh(c) /\ HoldsCurrent(c),
         \A q \in late' : q \in late \/ \E d \in Client : req[d] # NoRequest /\ q = req[d]
  PROVE  GInv'
<1> USE DEF GInv, CoordinatorStep
<1>1. ExchangeInv'
  <2>1. \A d \in Client : Exchange(d)'
    BY ExchangeKept, Zenon DEF ExchangeInv
  <2> QED BY <2>1, Zenon DEF ExchangeInv
<1>2. KnowInv'
  <2>1. \A d \in Client : ClientKnows(d)'
    <3> SUFFICES ASSUME NEW d \in Client PROVE ClientKnows(d)'
      BY Zenon
    <3>1. CASE d = c
      BY <3>1, Zenon
    <3>2. CASE d # c
      BY <3>2, ClientKnowsKept, Zenon DEF ExchangeInv, KnowInv
    <3> QED BY <3>1, <3>2, Zenon
  <2>2. ASSUME NEW q \in late' PROVE LateKnows(q)'
    <3>1. q \in Request /\ LateKnows(q)
      <4>1. CASE q \in late
        BY <4>1, Zenon DEF ClientTypeOK, KnowInv
      <4>2. ASSUME NEW d \in Client, req[d] # NoRequest, q = req[d]
            PROVE  q \in Request /\ LateKnows(q)
        BY <4>2, Zenon DEF ClientTypeOK, KnowInv, ClientKnows, LateKnows, Asked
      <4> QED BY <4>1, <4>2, Zenon
    <3> QED BY <3>1, LateKnowsKept, Zenon
  <2> QED BY <2>1, <2>2, Zenon DEF KnowInv
<1>3. UniqueInv'
  <2>1. ASSUME NEW m \in MemberId, NEW d \in Client, Claims(d, m)'
        PROVE  m \in used' /\ (Claims(d, m) \/ (d = c /\ m \notin used))
    <3>1. CASE d = c
      BY <2>1, <3>1, Zenon DEF ClaimsFresh
    <3>2. CASE d # c
      <4>1. Claims(d, m)
        BY <2>1, <3>2, Zenon DEF Claims, Untouched, Granted
      <4> QED BY <4>1, Zenon DEF UniqueInv, Evolves
    <3> QED BY <3>1, <3>2, Zenon
  <2>2. ASSUME NEW m \in MemberId, NEW d \in Client, NEW e \in Client, Claims(d, m)', Claims(e, m)'
        PROVE  e = d
    <3>1. CASE Claims(d, m) /\ Claims(e, m)
      BY <3>1, Zenon DEF UniqueInv
    <3>2. CASE ~Claims(d, m)
      BY <2>1, <2>2, <3>2, Zenon DEF UniqueInv
    <3>3. CASE ~Claims(e, m)
      BY <2>1, <2>2, <3>3, Zenon DEF UniqueInv
    <3> QED BY <3>1, <3>2, <3>3, Zenon
  <2> QED BY <2>1, <2>2, Zenon DEF UniqueInv
<1>4. HoldInv'
  <2>1. ASSUME NEW d \in Client, NEW b \in Assignment, Holds(d, b)'
        PROVE  Held(d, b)' /\ (gen'[d] = generation_id' \/ (Holds(d, b) /\ gen'[d] = gen[d]))
    <3>1. CASE d = c
      BY <2>1, <3>1, Zenon DEF HoldsCurrent
    <3>2. CASE d # c
      <4>1. Untouched(d) /\ Holds(d, b)
        BY <2>1, <3>2, HoldsBack, Zenon
      <4>2. Held(d, b)'
        BY <4>1, HeldKept, Zenon DEF HoldInv, ExchangeInv, Untouched
      <4> QED BY <4>1, <4>2, Zenon DEF Untouched
    <3> QED BY <3>1, <3>2, Zenon
  <2>2. ASSUME NEW d \in Client, NEW e \in Client, NEW a \in Assignment, NEW b \in Assignment,
               d # e, Holds(d, a)', Holds(e, b)', gen'[d] = gen'[e]
        PROVE  Disjoint(a, b)
    <3>1. CASE gen'[d] = generation_id'
      <4>1. Held(d, a)' /\ Held(e, b)'
        BY <2>1, <2>2, Zenon
      <4>2. id'[d] \in MemberId /\ id'[e] \in MemberId
        BY <1>1, <2>2, Zenon DEF ExchangeInv, Exchange, Holds
      <4>3. id'[d] # id'[e]
        BY <1>3, <2>2, <4>2, Zenon DEF UniqueInv, Claims
      <4> QED BY <2>2, <3>1, <4>1, <4>2, <4>3, CurrentHoldersDisjoint, Zenon
    <3>2. CASE gen'[d] # generation_id'
      <4>1. gen'[e] # generation_id'
        BY <2>2, <3>2, Zenon
      <4>2. Holds(d, a) /\ gen'[d] = gen[d] /\ Holds(e, b) /\ gen'[e] = gen[e]
        BY <2>1, <2>2, <3>2, <4>1, Zenon
      <4>3. gen[d] = gen[e]
        BY <2>2, <4>2, Zenon
      <4> QED BY <2>2, <4>2, <4>3, Zenon DEF GInv, HoldInv
    <3> QED BY <3>1, <3>2, Zenon
  <2> QED BY <2>1, <2>2, Zenon DEF HoldInv, Disjoint
<1> QED BY <1>1, <1>2, <1>3, <1>4, Zenon

-----------------------------------------------------------------------------
(***************************************************************************)
(* The steps of the coordinator                                            *)
(***************************************************************************)

\* The answer to the request q.
Answer(a, q) ==
  \/ q.api = "JoinGroup" /\ JoinAnswer(a, q.id)
  \/ q.api = "SyncGroup" /\ SyncAnswer(a, q.id, q.gen)
  \/ q.api \in {"Heartbeat", "LeaveGroup"} /\ a \in ErrorReply

\* A handler that does not assign keeps a Stable group assigned.
LEMMA AssignmentKept ==
  ASSUME StableIsAssigned, KeepsAssignment
  PROVE  StableByLeader /\ StableIsAssigned'
  BY Zenon DEF StableIsAssigned, KeepsAssignment, StableByLeader, Assign

\* Processing a request, from wherever it comes.
LEMMA Processed ==
  ASSUME IInv, StableIsAssigned, NEW c, NEW q \in Request, LateKnows(q), Process(c, q)
  PROVE  CoordinatorStep /\ \E a : Answer(a, q) /\ Respond(c, a)
<1>1. CASE q.api = "JoinGroup" /\ join_group(c, q.id, q.protocols)
  <2>1. q.id \in MemberId \cup {NoMember} /\ q.protocols \in ProtocolLists
    BY <1>1, RequestTypes, Zenon
  <2>2. IInv' /\ Evolves /\ KeepsAssignment /\ \E a : JoinAnswer(a, q.id) /\ Respond(c, a)
    BY <1>1, <2>1, JoinStep, Zenon
  <2> QED BY <1>1, <2>2, AssignmentKept, Zenon DEF CoordinatorStep, Answer
<1>2. CASE q.api = "SyncGroup" /\ sync_group(c, q.id, q.gen, q.as)
  <2>1. PICK ms \in SUBSET MemberId : q.as = ListFor(ms)
    BY <1>2, RequestTypes, Zenon
  <2>2. q.id \in MemberId /\ q.gen \in Nat
    BY <1>2, RequestTypes, Zenon
  <2>3. DOMAIN q.as = ms
    BY <2>1, ListForFacts, Zenon
  <2>4. Knows(q.id, q.gen, ms)
    BY <1>2, <2>3, Zenon DEF LateKnows
  <2>5. sync_group(c, q.id, q.gen, ListFor(ms))
    BY <1>2, <2>1, Zenon
  <2>6. /\ IInv' /\ Evolves /\ StableByLeader /\ StableIsAssigned'
        /\ \E a : SyncAnswer(a, q.id, q.gen) /\ Respond(c, a)
    BY <2>2, <2>4, <2>5, SyncStep, Zenon
  <2> QED BY <1>2, <2>6, Zenon DEF CoordinatorStep, Answer
<1>3. CASE q.api = "Heartbeat" /\ heartbeat(c, q.id, q.gen)
  <2>1. q.id \in MemberId /\ q.gen \in Nat
    BY <1>3, RequestTypes, Zenon
  <2>2. IInv' /\ Evolves /\ KeepsAssignment /\ \E a \in ErrorReply : Respond(c, a)
    BY <1>3, <2>1, OtherStep, Zenon
  <2> QED BY <1>3, <2>2, AssignmentKept, Zenon DEF CoordinatorStep, Answer
<1>4. CASE q.api = "LeaveGroup" /\ leave_group(c, q.id)
  <2>1. q.id \in MemberId
    BY <1>4, RequestTypes, Zenon
  <2>2. IInv' /\ Evolves /\ KeepsAssignment /\ \E a \in ErrorReply : Respond(c, a)
    BY <1>4, <2>1, OtherStep, Zenon
  <2> QED BY <1>4, <2>2, AssignmentKept, Zenon DEF CoordinatorStep, Answer
<1> QED BY <1>1, <1>2, <1>3, <1>4, Zenon DEF Process

\* The consumer whose request is answered.
LEMMA AnsweredJoin ==
  ASSUME GInv, Evolves, NEW c \in Client, Asked(c, "JoinGroup"), NEW a, JoinAnswer(a, req[c].id),
         reply'[c] = a, req'[c] = NoRequest, UNCHANGED clientVars
  PROVE  Exchange(c)' /\ ClientKnows(c)' /\ ClaimsFresh(c) /\ HoldsCurrent(c)
<1>0. /\ phase'[c] = "out" /\ phase[c] = "out" /\ id'[c] = id[c] /\ gen'[c] = gen[c]
      /\ req[c].id = id[c] /\ id[c] \in MemberId \cup {NoMember}
  BY Zenon DEF GInv, ExchangeInv, Exchange, clientVars, ClientTypeOK
<1>1. a.api = "JoinGroup"
  BY Zenon DEF JoinAnswer, JoinReply
<1>2. Exchange(c)'
  BY <1>0, <1>1, ConstantsAssumption, Zenon DEF Exchange, Granted, Asked, JoinAnswer
<1>3. ClientKnows(c)'
  BY <1>0, <1>1, Zenon DEF ClientKnows, Granted, Asked, JoinAnswer, Knows
<1>4. ClaimsFresh(c)
  <2> SUFFICES ASSUME NEW m \in MemberId, Claims(c, m)'
               PROVE  m \in used' /\ (Claims(c, m) \/ m \notin used)
    BY Zenon DEF ClaimsFresh
  <2>1. CASE id'[c] = m
    BY <1>0, <2>1, Zenon DEF Claims, GInv, UniqueInv, Evolves
  <2>2. CASE id'[c] # m
    <3>1. a.error = NONE /\ a.member = m
      BY <2>2, Zenon DEF Claims, Granted
    <3> QED BY <1>0, <3>1, Zenon DEF JoinAnswer, Claims
  <2> QED BY <2>1, <2>2, Zenon
<1>5. HoldsCurrent(c)
  BY <1>0, <1>1, Zenon DEF HoldsCurrent, Holds, Granted
<1> QED BY <1>2, <1>3, <1>4, <1>5, Zenon

\* What a consumer that has joined knows stays true when its reply changes.
LEMMA JoinedKnows ==
  ASSUME GInv, Evolves, NEW c \in Client, phase[c] = "joined", UNCHANGED clientVars
  PROVE  Knows(id[c], gen[c], roster[c])'
<1>1. id[c] \in MemberId /\ gen[c] \in Nat /\ Knows(id[c], gen[c], roster[c]) /\ roster[c] \in SUBSET MemberId
  BY Zenon DEF GInv, ExchangeInv, Exchange, KnowInv, ClientKnows, ClientTypeOK
<1>2. PICK m \in MemberId, g \in Nat, ms \in SUBSET MemberId : m = id[c] /\ g = gen[c] /\ ms = roster[c]
  BY <1>1, Zenon
<1>3. Knows(m, g, ms)'
  BY <1>1, <1>2, KnowsKept, Zenon DEF GInv
<1>4. id'[c] = m /\ gen'[c] = g /\ roster'[c] = ms
  BY <1>2, Zenon DEF clientVars
<1> QED BY <1>3, <1>4, Zenon DEF Knows

\* The same for a sync,
LEMMA AnsweredSync ==
  ASSUME GInv, CoordinatorStep, NEW c \in Client, Asked(c, "SyncGroup"), NEW a,
         SyncAnswer(a, req[c].id, req[c].gen),
         reply'[c] = a, req'[c] = NoRequest, UNCHANGED clientVars
  PROVE  Exchange(c)' /\ ClientKnows(c)' /\ ClaimsFresh(c) /\ HoldsCurrent(c)
<1>0. /\ phase'[c] = "joined" /\ phase[c] = "joined" /\ id'[c] = id[c] /\ gen'[c] = gen[c]
      /\ req[c].id = id[c] /\ req[c].gen = gen[c] /\ id[c] \in MemberId /\ gen[c] \in Nat
  BY Zenon DEF GInv, ExchangeInv, Exchange, clientVars
<1>1. a.api = "SyncGroup"
  BY Zenon DEF SyncAnswer, SyncReply
<1>2. Exchange(c)'
  BY <1>0, <1>1, Zenon DEF Exchange, Granted, Asked
<1>3. Knows(id[c], gen[c], roster[c])'
  BY <1>0, JoinedKnows, Zenon DEF CoordinatorStep
<1>4. ClientKnows(c)'
  BY <1>0, <1>1, <1>3, Zenon DEF ClientKnows, Granted, Asked
<1>5. ClaimsFresh(c)
  BY <1>0, <1>1, Zenon DEF ClaimsFresh, Claims, Granted, GInv, UniqueInv, CoordinatorStep, Evolves
<1>6. HoldsCurrent(c)
  <2> SUFFICES ASSUME NEW b \in Assignment, Holds(c, b)'
               PROVE  Held(c, b)' /\ gen'[c] = generation_id'
    BY Zenon DEF HoldsCurrent
  <2>1. a.error = NONE /\ a.assignment = b
    BY <1>0, Zenon DEF Holds, Granted
  <2>2. /\ gen[c] = generation_id' /\ id[c] \in members'
        /\ IF state' = "Stable" THEN b = members' ELSE id[c] # leader_id'
    BY <1>0, <2>1, Zenon DEF SyncAnswer
  <2>3. generation_id' \in Nat
    BY Zenon DEF CoordinatorStep, IInv, TypeOK
  <2> QED BY <1>0, <1>3, <2>2, <2>3, Zenon DEF Held, Knows
<1> QED BY <1>2, <1>4, <1>5, <1>6, Zenon

\* and for a heartbeat or a leave.
LEMMA AnsweredOther ==
  ASSUME GInv, CoordinatorStep, NEW c \in Client, NEW a \in ErrorReply,
         reply'[c] = a, req'[c] = NoRequest, UNCHANGED clientVars
  PROVE  Exchange(c)' /\ ClientKnows(c)' /\ ClaimsFresh(c) /\ HoldsCurrent(c)
<1>0. /\ phase'[c] = phase[c] /\ id'[c] = id[c] /\ gen'[c] = gen[c] /\ owned'[c] = owned[c]
      /\ phase[c] # "out" => id[c] \in MemberId /\ gen[c] \in Nat
  BY Zenon DEF GInv, ExchangeInv, Exchange, clientVars
<1>1. a.api # "SyncGroup" /\ a.api # "JoinGroup"
  BY Zenon DEF ErrorReply
<1>2. Exchange(c)'
  BY <1>0, <1>1, Zenon DEF Exchange, Granted, Asked
<1>3. phase[c] = "joined" => Knows(id[c], gen[c], roster[c])'
  BY JoinedKnows, Zenon DEF CoordinatorStep
<1>4. ClientKnows(c)'
  BY <1>0, <1>1, <1>3, Zenon DEF ClientKnows, Granted, Asked
<1>5. ClaimsFresh(c)
  BY <1>0, <1>1, Zenon DEF ClaimsFresh, Claims, Granted, GInv, UniqueInv, CoordinatorStep, Evolves
<1>6. HoldsCurrent(c)
  <2> SUFFICES ASSUME NEW b \in Assignment, Holds(c, b)'
               PROVE  Held(c, b)' /\ Holds(c, b) /\ gen'[c] = gen[c]
    BY Zenon DEF HoldsCurrent
  <2>1. Holds(c, b)
    BY <1>0, <1>1, Zenon DEF Holds, Granted
  <2> QED BY <1>0, <2>1, HeldKept, Zenon DEF GInv, HoldInv, ExchangeInv, CoordinatorStep
<1> QED BY <1>2, <1>4, <1>5, <1>6, Zenon

\* The broker answers the request of a consumer.
LEMMA HandleGInv ==
  ASSUME GInv, NEW c \in Client, Handle(c)
  PROVE  GInv'
<1>1. req[c] \in Request /\ LateKnows(req[c])
  BY Zenon DEF Handle, GInv, ClientTypeOK, KnowInv, ClientKnows, LateKnows, Asked
<1>2. CoordinatorStep /\ \E a : Answer(a, req[c]) /\ Respond(c, a)
  BY <1>1, Processed, Zenon DEF Handle, GInv
<1>3. PICK a : Answer(a, req[c]) /\ Respond(c, a)
  BY <1>2, Zenon
<1>4. reply \in [Client -> Reply] /\ req \in [Client -> Request \cup {NoRequest}]
  BY Zenon DEF GInv, IInv, TypeOK, ClientTypeOK
<1>5. /\ reply'[c] = a /\ req'[c] = NoRequest /\ UNCHANGED clientVars /\ late' = late
      /\ \A d \in Client : d # c => reply'[d] = reply[d] /\ req'[d] = req[d]
  BY <1>3, <1>4, Zenon DEF Handle, Respond
<1>6. ClientTypeOK'
  BY <1>4, Zenon DEF GInv, ClientTypeOK, Handle, clientVars
<1>7. \A d \in Client : d # c => Untouched(d)
  BY <1>5, Zenon DEF Untouched, clientVars
<1>8. Exchange(c)' /\ ClientKnows(c)' /\ ClaimsFresh(c) /\ HoldsCurrent(c)
  <2>1. CASE req[c].api = "JoinGroup" /\ JoinAnswer(a, req[c].id)
    BY <1>2, <1>5, <2>1, AnsweredJoin, Zenon DEF Asked, Handle, CoordinatorStep
  <2>2. CASE req[c].api = "SyncGroup" /\ SyncAnswer(a, req[c].id, req[c].gen)
    BY <1>2, <1>5, <2>2, AnsweredSync, Zenon DEF Asked, Handle
  <2>3. CASE a \in ErrorReply
    BY <1>2, <1>5, <2>3, AnsweredOther, Zenon
  <2> QED BY <1>3, <2>1, <2>2, <2>3, Zenon DEF Answer
<1> QED BY <1>2, <1>5, <1>6, <1>7, <1>8, OneStep, Zenon

\* The broker processes the request of a broken connection: nobody is answered.
LEMMA HandleLateGInv ==
  ASSUME GInv, NEW q \in late, HandleLate(q)
  PROVE  GInv'
<1>1. q \in Request /\ LateKnows(q)
  BY Zenon DEF GInv, ClientTypeOK, KnowInv
<1>2. CoordinatorStep /\ \E a : Answer(a, q) /\ Respond(NoRequest, a)
  BY <1>1, Processed, Zenon DEF HandleLate, GInv
<1>3. reply' = reply /\ UNCHANGED <<clientVars, req>> /\ late' \subseteq late
  BY <1>2, MaxLateAssumption, Zenon DEF Respond, HandleLate
<1>4. ClientTypeOK'
  BY <1>3, Zenon DEF GInv, ClientTypeOK, clientVars
<1>5. \A d \in Client : Untouched(d)
  BY <1>3, Zenon DEF Untouched, clientVars
<1> QED BY <1>2, <1>3, <1>4, <1>5, MaxLateAssumption, OneStep, Zenon

\* A session lapses.
LEMMA ExpireGInv ==
  ASSUME GInv, NEW m \in MemberId, Expire(m)
  PROVE  GInv'
<1>1. IInv'
  BY SessionLapsesIInv, Zenon DEF Expire, GInv
<1>2. /\ UNCHANGED <<state, generation_id, leader_id, members, assignment, used, told, reply>>
      /\ UNCHANGED <<clientVars, req, late>>
  BY Zenon DEF Expire, SessionLapses
<1>3. CoordinatorStep
  BY <1>1, <1>2, Zenon DEF CoordinatorStep, Evolves, StableByLeader, StableIsAssigned, GInv, Assign
<1>4. ClientTypeOK'
  BY <1>2, Zenon DEF GInv, ClientTypeOK, clientVars
<1>5. \A d \in Client : Untouched(d)
  BY <1>2, Zenon DEF Untouched, clientVars
<1> QED BY <1>2, <1>3, <1>4, <1>5, MaxLateAssumption, OneStep, Zenon

-----------------------------------------------------------------------------
(***************************************************************************)
(* The steps of the consumers and of the network                           *)
(***************************************************************************)

\* They leave the coordinator alone.
LEMMA CoordinatorIdle ==
  ASSUME IInv, StableIsAssigned, UNCHANGED <<exists, groupVars, used, committed, told>>,
         reply' \in [Client -> Reply]
  PROVE  CoordinatorStep
<1>1. IInv'
  BY Zenon DEF IInv, TypeOK, LeaderIsMember, OneHolderUntilSync, groupVars
<1> QED BY <1>1, Zenon DEF CoordinatorStep, Evolves, StableByLeader, StableIsAssigned, groupVars, Assign

\* A consumer sends a request that says what it knows.
LEMMA SendGInv ==
  ASSUME GInv, NEW c \in Client, NEW q \in Request, Send(c, q), LateKnows(q),
         q.api = "JoinGroup" => phase[c] = "out" /\ q.id = id[c],
         q.api = "SyncGroup" => phase[c] = "joined" /\ q.id = id[c] /\ q.gen = gen[c]
  PROVE  GInv'
<1>1. /\ UNCHANGED <<vars, clientVars, late>> /\ req[c] = NoRequest /\ reply[c] = NoReply
      /\ req' = [req EXCEPT ![c] = q] /\ req \in [Client -> Request \cup {NoRequest}]
      /\ reply \in [Client -> Reply]
  BY Zenon DEF Send, Idle, GInv, ClientTypeOK, IInv, TypeOK
<1>2. CoordinatorStep
  BY <1>1, CoordinatorIdle, Zenon DEF vars, GInv
<1>3. ClientTypeOK'
  BY <1>1, Zenon DEF GInv, ClientTypeOK, clientVars
<1>4. \A d \in Client : d # c => Untouched(d)
  BY <1>1, Zenon DEF Untouched, clientVars, vars
<1>5. /\ reply'[c] = NoReply /\ req'[c] = q
      /\ phase'[c] = phase[c] /\ id'[c] = id[c] /\ gen'[c] = gen[c] /\ owned'[c] = owned[c]
      /\ roster'[c] = roster[c]
      /\ UNCHANGED <<state, generation_id, leader_id, members, used, told>>
  BY <1>1, Zenon DEF clientVars, vars, groupVars
<1>6. ~Granted(c, "JoinGroup")' /\ ~Granted(c, "SyncGroup")'
  BY <1>5, NoReplyApi, Zenon DEF Granted
<1>7. Exchange(c)'
  BY <1>5, <1>6, Zenon DEF Exchange, Asked, GInv, ExchangeInv
<1>8. ClientKnows(c)'
  BY <1>5, <1>6 DEF ClientKnows, Asked, GInv, KnowInv, LateKnows, Knows
<1>9. ClaimsFresh(c)
  BY <1>5, <1>6, Zenon DEF ClaimsFresh, Claims, GInv, UniqueInv
<1>10. HoldsCurrent(c)
  BY <1>5, <1>6, Zenon DEF HoldsCurrent, Holds, Held, GInv, HoldInv
<1> QED BY <1>1, <1>2, <1>3, <1>4, <1>7, <1>8, <1>9, <1>10, OneStep, Zenon

\* The four requests a consumer sends.
LEMMA SendsGInv ==
  ASSUME GInv, NEW c \in Client, SendJoin(c) \/ SendSync(c) \/ SendHeartbeat(c) \/ SendLeave(c)
  PROVE  GInv'
<1>0. /\ id[c] \in MemberId \cup {NoMember} /\ roster[c] \in SUBSET MemberId
      /\ phase[c] # "out" => id[c] \in MemberId /\ gen[c] \in Nat
      /\ phase[c] = "joined" => Knows(id[c], gen[c], roster[c])
  BY Zenon DEF GInv, ClientTypeOK, ExchangeInv, Exchange, KnowInv, ClientKnows
<1>1. CASE SendJoin(c)
  <2>1. PICK ps \in ProtocolLists :
          phase[c] = "out" /\ Send(c, [api |-> "JoinGroup", id |-> id[c], protocols |-> ps])
    BY <1>1, Zenon DEF SendJoin
  <2>2. PICK q : q = [api |-> "JoinGroup", id |-> id[c], protocols |-> ps]
    BY Zenon
  <2>3. q \in Request /\ q.api = "JoinGroup" /\ q.id = id[c] /\ Send(c, q)
    BY <1>0, <2>1, <2>2, Zenon DEF Request, JoinRequest
  <2> QED BY <2>1, <2>3, SendGInv, Zenon DEF LateKnows
<1>2. CASE SendSync(c)
  <2>1. PICK q : q = [api |-> "SyncGroup", id |-> id[c], gen |-> gen[c], as |-> ListFor(roster[c])]
    BY Zenon
  <2>2. phase[c] = "joined" /\ Send(c, q)
    BY <1>2, <2>1, Zenon DEF SendSync, ListFor
  <2>3. q.api = "SyncGroup" /\ q.id = id[c] /\ q.gen = gen[c] /\ q.as = ListFor(roster[c])
    BY <2>1, Zenon
  <2>4. q \in SyncRequest
    BY <1>0, <2>1, <2>2, Zenon DEF SyncRequest
  <2>5. LateKnows(q)
    BY <1>0, <2>2, <2>3, ListForFacts, Zenon DEF LateKnows
  <2> QED BY <2>2, <2>3, <2>4, <2>5, SendGInv, Zenon DEF Request
<1>3. CASE SendHeartbeat(c)
  <2>1. PICK q : q = [api |-> "Heartbeat", id |-> id[c], gen |-> gen[c]]
    BY Zenon
  <2>2. phase[c] = "active" /\ Send(c, q)
    BY <1>3, <2>1, Zenon DEF SendHeartbeat
  <2>3. q \in Request /\ q.api = "Heartbeat"
    BY <1>0, <2>1, <2>2, Zenon DEF Request, HeartbeatRequest
  <2> QED BY <2>2, <2>3, SendGInv, Zenon DEF LateKnows
<1>4. CASE SendLeave(c)
  <2>1. PICK q : q = [api |-> "LeaveGroup", id |-> id[c]]
    BY Zenon
  <2>2. phase[c] = "active" /\ Send(c, q)
    BY <1>4, <2>1, Zenon DEF SendLeave
  <2>3. q \in Request /\ q.api = "LeaveGroup"
    BY <1>0, <2>1, <2>2, Zenon DEF Request, LeaveRequest
  <2> QED BY <2>2, <2>3, SendGInv, Zenon DEF LateKnows
<1> QED BY <1>1, <1>2, <1>3, <1>4, Zenon

\* The requests of broken connections are those of consumers.
OnlyOldRequests ==
  /\ late' \subseteq Request
  /\ \A q \in late' : q \in late \/ \E d \in Client : req[d] # NoRequest /\ q = req[d]

\* Nothing is left on the connection of c, and c gives up what it consumes, and
\* perhaps its member id.
LEMMA GivesUpGInv ==
  ASSUME GInv, NEW c \in Client, GiveUp(c), UNCHANGED <<exists, groupVars, used, committed, told>>,
         reply' = [reply EXCEPT ![c] = NoReply], req' = [req EXCEPT ![c] = NoRequest],
         NEW n \in {id[c], NoMember}, id' = [id EXCEPT ![c] = n], OnlyOldRequests
  PROVE  GInv'
<1>0. reply \in [Client -> Reply] /\ NoReply \in Reply /\ ClientTypeOK
  BY Zenon DEF GInv, IInv, TypeOK, Reply
<1>1. CoordinatorStep
  BY <1>0, CoordinatorIdle, Zenon DEF GInv
<1>2. ClientTypeOK'
  BY <1>0, AssignmentsAreMemberLists, Zenon DEF ClientTypeOK, GiveUp, OnlyOldRequests
<1>3. \A d \in Client : d # c => Untouched(d)
  BY <1>0, Zenon DEF Untouched, GiveUp, ClientTypeOK
<1>4. /\ reply'[c] = NoReply /\ req'[c] = NoRequest /\ phase'[c] = "out"
      /\ id'[c] = n /\ used' = used
  BY <1>0, Zenon DEF GiveUp, ClientTypeOK
<1>5. ~Granted(c, "JoinGroup")' /\ ~Granted(c, "SyncGroup")'
  BY <1>4 DEF Granted, NoReply
<1>6. Exchange(c)' /\ ClientKnows(c)'
  BY <1>4, <1>5, Zenon DEF Exchange, ClientKnows, Asked
<1>7. ClaimsFresh(c)
  BY <1>4, <1>5, ConstantsAssumption, Zenon DEF ClaimsFresh, Claims, GInv, UniqueInv
<1>8. HoldsCurrent(c)
  BY <1>4, <1>5, Zenon DEF HoldsCurrent, Holds
<1> QED BY <1>1, <1>2, <1>3, <1>6, <1>7, <1>8, OneStep, Zenon DEF OnlyOldRequests

\* Nothing is left on the connection of c, and c carries on.
LEMMA CarriesOnGInv ==
  ASSUME GInv, NEW c \in Client, UNCHANGED <<exists, groupVars, used, committed, told, clientVars>>,
         reply' = [reply EXCEPT ![c] = NoReply], req' = [req EXCEPT ![c] = NoRequest],
         OnlyOldRequests
  PROVE  GInv'
<1>0. reply \in [Client -> Reply] /\ NoReply \in Reply /\ ClientTypeOK
  BY Zenon DEF GInv, IInv, TypeOK, Reply
<1>1. CoordinatorStep
  BY <1>0, CoordinatorIdle, Zenon DEF GInv
<1>2. ClientTypeOK'
  BY <1>0, Zenon DEF ClientTypeOK, clientVars, OnlyOldRequests
<1>3. \A d \in Client : d # c => Untouched(d)
  BY <1>0, Zenon DEF Untouched, clientVars, ClientTypeOK
<1>4. /\ reply'[c] = NoReply /\ req'[c] = NoRequest
      /\ phase'[c] = phase[c] /\ id'[c] = id[c] /\ gen'[c] = gen[c] /\ owned'[c] = owned[c]
      /\ roster'[c] = roster[c]
      /\ UNCHANGED <<state, generation_id, leader_id, members, used, told>>
  BY <1>0, Zenon DEF clientVars, groupVars, ClientTypeOK
<1>5. ~Granted(c, "JoinGroup")' /\ ~Granted(c, "SyncGroup")'
  BY <1>4, NoReplyApi, Zenon DEF Granted
<1>6. Exchange(c)' /\ ClientKnows(c)'
  BY <1>4, <1>5 DEF Exchange, ClientKnows, Asked, GInv, ExchangeInv, KnowInv, Knows
<1>7. ClaimsFresh(c)
  BY <1>4, <1>5, Zenon DEF ClaimsFresh, Claims, GInv, UniqueInv
<1>8. HoldsCurrent(c)
  BY <1>4, <1>5, Zenon DEF HoldsCurrent, Holds, Held, GInv, HoldInv
<1> QED BY <1>1, <1>2, <1>3, <1>6, <1>7, <1>8, OneStep, Zenon DEF OnlyOldRequests

\* A consumer that has a reply has no request outstanding.
LEMMA ReplyMeansNoRequest ==
  ASSUME GInv, NEW c \in Client, reply[c].api # "none"
  PROVE  req[c] = NoRequest /\ req = [req EXCEPT ![c] = NoRequest]
<1>1. req[c] = NoRequest
  BY NoReplyApi, Zenon DEF GInv, ExchangeInv, Exchange
<1> QED BY <1>1, Zenon DEF GInv, ClientTypeOK

\* Dropping a connection makes a request late at most.
LEMMA DropKeepsRequests ==
  ASSUME GInv, NEW c \in Client, DropConnection(c)
  PROVE  OnlyOldRequests
  BY Zenon DEF GInv, ClientTypeOK, DropConnection, OnlyOldRequests

\* The steps in which a consumer gives up its partitions.
LEMMA LeavingGInv ==
  ASSUME GInv, NEW c \in Client, Resubscribe(c) \/ ReceiveRejoin(c) \/ Crash(c)
  PROVE  GInv'
<1>0. /\ reply \in [Client -> Reply] /\ req \in [Client -> Request \cup {NoRequest}]
      /\ id \in [Client -> MemberId \cup {NoMember}] /\ late \subseteq Request
  BY Zenon DEF GInv, IInv, TypeOK, ClientTypeOK
<1>1. CASE Resubscribe(c)
  <2>1. /\ reply' = [reply EXCEPT ![c] = NoReply] /\ req' = [req EXCEPT ![c] = NoRequest]
        /\ id' = [id EXCEPT ![c] = id[c]] /\ OnlyOldRequests
    BY <1>0, <1>1, Zenon DEF Resubscribe, Idle, vars, OnlyOldRequests
  <2> QED BY <1>1, <2>1, GivesUpGInv, Zenon DEF Resubscribe, vars
<1>2. CASE ReceiveRejoin(c)
  <2>1. req' = [req EXCEPT ![c] = NoRequest]
    BY <1>2, ReplyMeansNoRequest, Zenon DEF ReceiveRejoin, Consume
  <2>2. PICK n \in {id[c], NoMember} : id' = [id EXCEPT ![c] = n]
    BY <1>2, Zenon DEF ReceiveRejoin
  <2>3. OnlyOldRequests
    BY <1>0, <1>2, Zenon DEF ReceiveRejoin, Consume, OnlyOldRequests
  <2> QED BY <1>2, <2>1, <2>2, <2>3, GivesUpGInv, Zenon DEF ReceiveRejoin, Consume
<1>3. CASE Crash(c)
  <2>1. OnlyOldRequests
    BY <1>3, DropKeepsRequests, Zenon DEF Crash
  <2> QED BY <1>3, <2>1, GivesUpGInv, Zenon DEF Crash, DropConnection
<1> QED BY <1>1, <1>2, <1>3, Zenon

\* The steps in which a consumer loses a reply or reads one that changes nothing.
LEMMA StayingGInv ==
  ASSUME GInv, NEW c \in Client, ReceiveAlive(c) \/ Disconnect(c)
  PROVE  GInv'
<1>1. CASE ReceiveAlive(c)
  <2>1. req' = [req EXCEPT ![c] = NoRequest]
    BY <1>1, ReplyMeansNoRequest, Zenon DEF ReceiveAlive, Consume
  <2>2. OnlyOldRequests
    BY <1>1, Zenon DEF ReceiveAlive, Consume, OnlyOldRequests, GInv, ClientTypeOK
  <2> QED BY <1>1, <2>1, <2>2, CarriesOnGInv, Zenon DEF ReceiveAlive, Consume
<1>2. CASE Disconnect(c)
  <2>1. OnlyOldRequests
    BY <1>2, DropKeepsRequests, Zenon DEF Disconnect
  <2> QED BY <1>2, <2>1, CarriesOnGInv, Zenon DEF Disconnect, DropConnection
<1> QED BY <1>1, <1>2, Zenon

\* A consumer learns its member id and generation.
LEMMA ReceiveJoinedGInv ==
  ASSUME GInv, NEW c \in Client, ReceiveJoined(c)
  PROVE  GInv'
<1>0. reply \in [Client -> Reply] /\ NoReply \in Reply /\ ClientTypeOK
  BY Zenon DEF GInv, IInv, TypeOK, Reply
<1>1. Granted(c, "JoinGroup")
  BY Zenon DEF ReceiveJoined, Granted
<1>2. /\ reply[c].member \in MemberId /\ reply[c].members \subseteq MemberId
      /\ reply[c].generation \in Nat
      /\ Knows(reply[c].member, reply[c].generation, reply[c].members)
  BY <1>0, <1>1, GrantedTypes, Zenon DEF GInv, KnowInv, ClientKnows
<1>3. req[c] = NoRequest
  BY ReplyMeansNoRequest, Zenon DEF ReceiveJoined
<1>4. CoordinatorStep
  BY <1>0, CoordinatorIdle, Zenon DEF GInv, ReceiveJoined, Consume
<1>5. ClientTypeOK'
  BY <1>0, <1>2, Zenon DEF ClientTypeOK, ReceiveJoined, Consume
<1>6. \A d \in Client : d # c => Untouched(d)
  BY <1>0, Zenon DEF Untouched, ReceiveJoined, Consume, ClientTypeOK
<1>7. /\ reply'[c] = NoReply /\ req'[c] = NoRequest /\ phase'[c] = "joined"
      /\ id'[c] = reply[c].member /\ gen'[c] = reply[c].generation /\ roster'[c] = reply[c].members
      /\ UNCHANGED <<generation_id, leader_id, members, used, told, late>>
  BY <1>0, <1>3, Zenon DEF ReceiveJoined, Consume, ClientTypeOK, groupVars
<1>8. ~Granted(c, "JoinGroup")' /\ ~Granted(c, "SyncGroup")'
  BY <1>7, NoReplyApi, Zenon DEF Granted
<1>9. Exchange(c)'
  BY <1>2, <1>7, <1>8, Zenon DEF Exchange, Asked
<1>10. ClientKnows(c)'
  BY <1>2, <1>7, <1>8, Zenon DEF ClientKnows, Asked, Knows
<1>11. ClaimsFresh(c)
  BY <1>1, <1>7, <1>8, Zenon DEF ClaimsFresh, Claims, GInv, UniqueInv
<1>12. HoldsCurrent(c)
  BY <1>7, <1>8, Zenon DEF HoldsCurrent, Holds
<1> QED BY <1>4, <1>5, <1>6, <1>7, <1>9, <1>10, <1>11, <1>12, OneStep, Zenon

\* A consumer begins to consume what it was given.
LEMMA ReceiveSyncedGInv ==
  ASSUME GInv, NEW c \in Client, ReceiveSynced(c)
  PROVE  GInv'
<1>0. reply \in [Client -> Reply] /\ NoReply \in Reply /\ ClientTypeOK
  BY Zenon DEF GInv, IInv, TypeOK, Reply
<1>1. Granted(c, "SyncGroup")
  BY Zenon DEF ReceiveSynced, Granted
<1>2. reply[c].assignment \in Assignment /\ id[c] \in MemberId /\ gen[c] \in Nat
  BY <1>0, <1>1, GrantedTypes, Zenon DEF GInv, ExchangeInv, Exchange
<1>3. req[c] = NoRequest
  BY ReplyMeansNoRequest, Zenon DEF ReceiveSynced
<1>4. CoordinatorStep
  BY <1>0, CoordinatorIdle, Zenon DEF GInv, ReceiveSynced, Consume
<1>5. ClientTypeOK'
  BY <1>0, <1>2, Zenon DEF ClientTypeOK, ReceiveSynced, Consume
<1>6. \A d \in Client : d # c => Untouched(d)
  BY <1>0, Zenon DEF Untouched, ReceiveSynced, Consume, ClientTypeOK
<1>7. /\ reply'[c] = NoReply /\ req'[c] = NoRequest /\ phase'[c] = "active"
      /\ id'[c] = id[c] /\ gen'[c] = gen[c] /\ owned'[c] = reply[c].assignment
      /\ UNCHANGED <<state, generation_id, leader_id, members, used, told, late>>
  BY <1>0, <1>3, Zenon DEF ReceiveSynced, Consume, ClientTypeOK, groupVars
<1>8. ~Granted(c, "JoinGroup")' /\ ~Granted(c, "SyncGroup")'
  BY <1>7, NoReplyApi, Zenon DEF Granted
<1>9. Exchange(c)' /\ ClientKnows(c)'
  BY <1>2, <1>7, <1>8, Zenon DEF Exchange, ClientKnows, Asked
<1>10. ClaimsFresh(c)
  BY <1>7, <1>8, Zenon DEF ClaimsFresh, Claims, GInv, UniqueInv
<1>11. HoldsCurrent(c)
  <2> SUFFICES ASSUME NEW b \in Assignment, Holds(c, b)'
               PROVE  Held(c, b)' /\ Holds(c, b) /\ gen'[c] = gen[c]
    BY Zenon DEF HoldsCurrent
  <2>1. Holds(c, b)
    BY <1>1, <1>7, <1>8, Zenon DEF Holds
  <2>2. Held(c, b)
    BY <2>1, Zenon DEF GInv, HoldInv
  <2> QED BY <1>7, <2>1, <2>2, Zenon DEF Held
<1> QED BY <1>4, <1>5, <1>6, <1>7, <1>9, <1>10, <1>11, OneStep, Zenon

-----------------------------------------------------------------------------
(***************************************************************************)
(* The theorems                                                            *)
(***************************************************************************)

\* Nobody has joined, asked or been answered at the start.
LEMMA ClientInitGInv == ClientInit => GInv
<1> SUFFICES ASSUME ClientInit PROVE GInv
  BY Zenon
<1>1. IInv /\ state = "Empty" /\ reply = [c \in Client |-> NoReply]
  BY InitIInv, Zenon DEF ClientInit, Init
<1>2. ClientTypeOK
  BY AssignmentsAreMemberLists, Zenon DEF ClientInit, ClientTypeOK
<1>3. \A c \in Client : ~Granted(c, "JoinGroup") /\ ~Granted(c, "SyncGroup")
  BY <1>1, Zenon DEF Granted, NoReply
<1>4. \A c \in Client : phase[c] = "out" /\ req[c] = NoRequest /\ id[c] = NoMember
  BY Zenon DEF ClientInit
<1>5. ExchangeInv /\ KnowInv
  BY <1>3, <1>4, Zenon DEF ExchangeInv, Exchange, KnowInv, ClientKnows, Asked, ClientInit
<1>6. UniqueInv
  BY <1>3, <1>4, ConstantsAssumption, Zenon DEF UniqueInv, Claims
<1>7. HoldInv
  BY <1>3, <1>4, Zenon DEF HoldInv, Holds
<1>8. StableIsAssigned
  BY <1>1, Zenon DEF StableIsAssigned
<1> QED BY <1>1, <1>2, <1>5, <1>6, <1>7, <1>8, Zenon DEF GInv

\* Every step keeps the invariant,
LEMMA ClientNextGInv == GInv /\ [ClientNext]_allVars => GInv'
<1> SUFFICES ASSUME GInv, [ClientNext]_allVars PROVE GInv'
  BY Zenon
<1>1. CASE UNCHANGED allVars
  <2>1. reply' \in [Client -> Reply]
    BY <1>1, Zenon DEF allVars, vars, GInv, IInv, TypeOK
  <2>2. CoordinatorStep
    BY <1>1, <2>1, CoordinatorIdle, Zenon DEF allVars, vars, GInv
  <2>3. ClientTypeOK' /\ \A d \in Client : Untouched(d)
    BY <1>1, Zenon DEF allVars, vars, clientVars, GInv, ClientTypeOK, Untouched
  <2> QED BY <1>1, <2>2, <2>3, MaxLateAssumption, OneStep, Zenon DEF allVars
<1>2. ASSUME NEW c \in Client,
             \/ SendJoin(c) \/ SendSync(c) \/ SendHeartbeat(c) \/ SendLeave(c) \/ Resubscribe(c)
             \/ Handle(c)
             \/ ReceiveJoined(c) \/ ReceiveSynced(c) \/ ReceiveAlive(c) \/ ReceiveRejoin(c)
             \/ Disconnect(c) \/ Crash(c)
      PROVE  GInv'
  BY <1>2, SendsGInv, HandleGInv, ReceiveJoinedGInv, ReceiveSyncedGInv, StayingGInv, LeavingGInv, Zenon
<1>3. ASSUME NEW q \in late, HandleLate(q) PROVE GInv'
  BY <1>3, HandleLateGInv, Zenon
<1>4. ASSUME NEW m \in MemberId, Expire(m) PROVE GInv'
  BY <1>4, ExpireGInv, Zenon
<1> QED BY <1>1, <1>2, <1>3, <1>4, Zenon DEF ClientNext

\* so it always holds.
LEMMA GInvariance == ClientSpec => []GInv
  BY ClientInitGInv, ClientNextGInv, PTL DEF ClientSpec

\* A Stable group is fully assigned for its current membership, whatever number
\* of consumers joins, crashes, times out or has requests in flight: sync_group
\* never stores a list computed for an earlier membership.
THEOREM AssignedCorrect == ClientSpec => []StableIsAssigned
<1>1. GInv => StableIsAssigned
  BY Zenon DEF GInv
<1> QED BY <1>1, GInvariance, PTL

\* Two consumers of one generation have different member ids and never consume
\* the same partition, whichever replies of sync_group each acted on.
THEOREM ExclusiveCorrect == ClientSpec => []SameGenerationExclusive
<1>1. GInv => SameGenerationExclusive
  <2> SUFFICES ASSUME GInv, NEW c \in Client, NEW d \in Client, c # d,
                      phase[c] = "active", phase[d] = "active", gen[c] = gen[d]
               PROVE  id[c] # id[d] /\ Disjoint(owned[c], owned[d])
    BY Zenon DEF SameGenerationExclusive
  <2>1. id[c] \in MemberId /\ owned[c] \in Assignment /\ owned[d] \in Assignment
    BY Zenon DEF GInv, ExchangeInv, Exchange, ClientTypeOK
  <2>2. id[c] # id[d]
    BY <2>1, Zenon DEF GInv, UniqueInv, Claims
  <2>3. Holds(c, owned[c]) /\ Holds(d, owned[d])
    BY Zenon DEF Holds
  <2> QED BY <2>1, <2>2, <2>3, Zenon DEF GInv, HoldInv
<1> QED BY <1>1, GInvariance, PTL

\* In a Stable group, a consumer that synced in the generation in force consumes
\* exactly its share: the outdated assignment that sync_group returns to a
\* follower that overtakes its leader does not outlive the rebalance.
THEOREM ShareCorrect == ClientSpec => []CurrentConsumersOwnTheirShare
<1>1. GInv => CurrentConsumersOwnTheirShare
  <2> SUFFICES ASSUME GInv, state = "Stable", NEW c \in Client, phase[c] = "active",
                      gen[c] = generation_id
               PROVE  owned[c] = Assign(members)[id[c]]
    BY Zenon DEF CurrentConsumersOwnTheirShare
  <2>1. owned[c] \in Assignment /\ Holds(c, owned[c])
    BY Zenon DEF GInv, ClientTypeOK, Holds
  <2>2. Held(c, owned[c])
    BY <2>1, Zenon DEF GInv, HoldInv
  <2> QED BY <2>2, Zenon DEF Held, Assign
<1> QED BY <1>1, GInvariance, PTL

=============================================================================
