-------------------------- MODULE MCIntentPipeline --------------------------
(***************************************************************************)
(* Small instances of IntentPipeline.                                      *)
(***************************************************************************)
EXTENDS IntentPipeline

CONSTANTS k1, k2, k3, t1, t2

K(type, ada) == [type |-> type, ada |-> ada]

SmallKinds == {K("BuyPolicy", 2), K("RefundCredit", 1), K("RequestPayout", 0)}

SmallDepositAda == [t \in DepositTxs |-> 3]

OneKind == {K("BuyPolicy", 2)}

EmptyPool == [capBps |-> 7, nav |-> 0, outstanding |-> 0]

\* Root restates the counters: some coverage on a small pool.
RootPool == {[capBps |-> 7, nav |-> 2, outstanding |-> 6]}

\* Two signers, both needed.
Pair == [members |-> {k1, k2}, threshold |-> 2]

\* Rotations: a member in, one out, the threshold down and up again, one key
\* in both seats.
Trio == [members |-> {k1, k2, k3}, threshold |-> 2]
Lax == [members |-> {k2, k3}, threshold |-> 1]
Twin == [members |-> {k3}, threshold |-> 2]

OnlyPair == {Pair}
Rotating == {Pair, Trio, Lax, Twin}

=============================================================================
