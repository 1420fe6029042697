------------------------------ MODULE MCOracle ------------------------------
(***************************************************************************)
(* A small instance of Oracle: two honest attestors and one that signs     *)
(* anything, one step of price per slot.                                   *)
(***************************************************************************)
EXTENDS Oracle

CONSTANTS h1, h2, x

\* The two see a price one apart, that moves with the slot.
Moving ==
  [v \in Honest \X Slots |-> 10 * v[2] + IF v[1] = h1 THEN 1 ELSE 2]

=============================================================================
