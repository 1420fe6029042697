------------------------ MODULE MCCommitteeGovernance ------------------------
(***************************************************************************)
(* Small instances of CommitteeGovernance.                                 *)
(***************************************************************************)
EXTENDS CommitteeGovernance

CONSTANTS k1, k2, k3

Pair == <<k1, k2>>

=============================================================================
