--------------------------- MODULE MCGroupClients ---------------------------
(***************************************************************************)
(* Small instances of GroupClients for TLC.  The consumers all offer one   *)
(* protocol; the choice of a protocol is checked in MCConsumerGroup.       *)
(***************************************************************************)
EXTENDS GroupClients, TLC

CONSTANT range

MCProtocolLists == {<<range>>}
MCAssignment == SUBSET MemberId

\* told is a history variable that no action and no property here reads.
NoHistory == <<exists, groupVars, used, committed, reply, clientVars, req, late>>

Symmetry == Permutations(Client) \cup Permutations(MemberId)
=============================================================================
