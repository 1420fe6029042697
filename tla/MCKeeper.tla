------------------------------ MODULE MCKeeper ------------------------------
(***************************************************************************)
(* A small instance of Keeper: one claim, so that every interleaving of    *)
(* its payout, its requests and the bond sweep with the chain is covered.  *)
(***************************************************************************)
EXTENDS Keeper

CONSTANTS c1

=============================================================================
