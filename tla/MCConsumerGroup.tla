-------------------------- MODULE MCConsumerGroup --------------------------
(***************************************************************************)
(* Small instances of ConsumerGroup for TLC.                               *)
(***************************************************************************)
EXTENDS ConsumerGroup, TLC

CONSTANTS range, sticky

MCProtocol == {range, sticky}
MCProtocolLists == {<<range>>, <<sticky, range>>}

\* Generated ids are interchangeable.
MemberSymmetry == Permutations(MemberId)
=============================================================================
