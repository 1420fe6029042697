----------------------------- MODULE BondEscrow -----------------------------
(***************************************************************************)
(* What the settlement bonds promise.  At most one bond stands behind a    *)
(* claim.  It came out of its owner's wallet in full; it goes back there   *)
(* in full, or, only while the claim is unsettled, to a watcher and the    *)
(* treasury in full.  Claims settle once, and a bond outlives settlement   *)
(* only to go back to its owner.                                           *)
(***************************************************************************)
EXTENDS Integers, FiniteSets, Maps

CONSTANTS
  ClaimIds, Holders, Treasury,
  Amounts     \* what a bond may be

VARIABLES
  wallet,     \* what each holder can spend
  escrow,     \* claims to their bonds, a map of [owner, amount]
  settled     \* claims settled

escrowVars == <<wallet, escrow, settled>>

Init ==
  /\ wallet \in [Holders -> Nat]
  /\ escrow = NoRows
  /\ settled = {}

Owed(cs, h) ==
  SumFunction([c \in {d \in cs \cap DOMAIN escrow : escrow[d].owner = h} |-> escrow[c].amount])

\* New bonds of one owner, any they replace given back in the same step.
Post(who, cs, amount) ==
  LET out == [h \in Holders |-> IF h = who THEN amount * Cardinality(cs) ELSE 0]
  IN  /\ cs # {} /\ amount > 0
      /\ escrow' = Put(escrow, [c \in cs |-> [owner |-> who, amount |-> amount]])
      /\ wallet[who] + Owed(cs, who) >= out[who]
      /\ wallet' = [h \in Holders |-> wallet[h] + Owed(cs, h) - out[h]]
      /\ UNCHANGED settled

Return(c) ==
  /\ c \in DOMAIN escrow
  /\ wallet' = [wallet EXCEPT ![escrow[c].owner] = @ + escrow[c].amount]
  /\ escrow' = Remove(escrow, {c})

\* The bond is given up to the watcher and the treasury.
Forfeit(c, watcher, share) ==
  LET amount == escrow[c].amount
  IN  /\ c \in DOMAIN escrow \ settled
      /\ share \in 0 .. amount
      /\ escrow' = Remove(escrow, {c})
      /\ wallet' = [h \in Holders |-> wallet[h] + (IF h = watcher THEN share ELSE 0)
                                   + (IF h = Treasury THEN amount - share ELSE 0)]
      /\ UNCHANGED settled

\* Settlement keeps the bonds, or gives back the bond of a claim settled on
\* other evidence than its owner's.
Settle(cs) ==
  /\ cs # {} /\ cs \cap settled = {}
  /\ settled' = settled \cup cs
  /\ UNCHANGED <<wallet, escrow>>

SettleOtherwise(c) ==
  /\ c \notin settled
  /\ settled' = settled \cup {c}
  /\ Return(c)

Next ==
  \/ \E who \in Holders, cs \in SUBSET (ClaimIds \ settled), amount \in Amounts :
       Post(who, cs, amount)
  \/ \E c \in ClaimIds : SettleOtherwise(c) \/ (Return(c) /\ UNCHANGED settled)
  \/ \E c \in DOMAIN escrow \ settled, watcher \in Holders :
       \E share \in 0 .. escrow[c].amount : Forfeit(c, watcher, share)
  \/ \E cs \in SUBSET ClaimIds : Settle(cs)

Spec == Init /\ [][Next]_escrowVars

=============================================================================
