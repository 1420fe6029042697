--------------------------- MODULE MCLegacyCutover --------------------------
(***************************************************************************)
(* Small instances of LegacyCutover: chains of three ages.                 *)
(***************************************************************************)
EXTENDS LegacyCutover

CONSTANTS a1, k1, k2, k3, r1, vault, c1, c2

K(type, ada) == [type |-> type, ada |-> ada]
TwoKinds == {K("RequestPayout", 0), K("RefundCredit", 0)}
NoDeposits == [t \in {} |-> 0]
SmallPool == [capBps |-> 7, nav |-> 4, outstanding |-> 0]

\* Three keys, two signatures, one key that signs anything.
Trio == [members |-> {k1, k2, k3}, threshold |-> 2]
OnlyTrio == {Trio}

SmallFree == [h \in Holders |-> IF h = r1 THEN 4 ELSE 1]

\* Evidence, and the bare transactions that legacy calls name.
Paid == [tx |-> "paid", depth |-> 2, ada |-> 1]
Forged == [tx |-> "forged", depth |-> 2, ada |-> 1]
PaidTx == [tx |-> "paid", depth |-> 0, ada |-> 0]
ForgedTx == [tx |-> "forged", depth |-> 0, ada |-> 0]
Named == {Paid, Forged, PaidTx, ForgedTx}
BorneOut == {<<c, e>> : c \in ClaimIds, e \in {Paid, PaidTx}}

TestNetwork == {[mainnet |-> FALSE, bound |-> FALSE]}
NewMainnet == {[mainnet |-> TRUE, bound |-> FALSE]}

Old == {<<a1, 0>>, <<a1, 1>>}
Row(kind, status) == [kind |-> kind, ttlBlock |-> 3, status |-> status]
Bound(i, isSettled) == [intent |-> i, ada |-> 1, settled |-> isSettled]

\* What the three have in common: both intents have a claim, c1 is unsettled.
OldChain(now, first, second) ==
  /\ block = now
  /\ nonces = [a \in Accounts |-> 2]
  /\ intents = [i \in Old |-> IF i[2] = 0 THEN Row(K("RequestPayout", 0), first)
                                          ELSE Row(K("RefundCredit", 0), second)]
  /\ pendingBatches = {}
  /\ expiryQueue = [b \in Blocks |-> IF b = 3 /\ now < 3 THEN Old ELSE {}]
  /\ pendingAttestations = [i \in IntentIds |-> {}]
  /\ attestationSigs = [i \in IntentIds |-> {k1, k2}]
  /\ credits = [a \in Accounts |-> 0]
  /\ deposits = {}
  /\ claims = [c \in {c1, c2} |-> IF c = c1 THEN Bound(<<a1, 0>>, FALSE)
                                            ELSE Bound(<<a1, 1>>, second = "Settled")]
  /\ expireRequests = NoRows
  /\ members = FirstCommittee.members
  /\ threshold = FirstCommittee.threshold
  /\ minSignerThreshold = DefaultMinSignerThreshold
  /\ slashedRequests = {}
  /\ reserved = [h \in Holders |-> 0]

Migrations(v, cutover, reserves, ids) ==
  /\ version = v
  /\ stcaCutover = cutover
  /\ expireCutover = cutover
  /\ preAuditSettlement = {}
  /\ preAuditExpiry = {}
  /\ bondProgress = {}
  /\ anonymous = reserves
  /\ cardanoIds = ids
  /\ upgrades = 0

Nothing == [h \in Holders |-> 0]

\* Never upgraded: c2 settled, and the intent of c1 expired, on the
\* committee's word.
BeforeAudit ==
  /\ OldChain(2, "Expired", "Settled")
  /\ pool = [SmallPool EXCEPT !.outstanding = 1]
  /\ requests = NoRows
  /\ settlements = Entry(c2, [evidence |-> PaidTx, direct |-> FALSE])
  /\ bondedAttestedAt = NoRows
  /\ bondedRequester = NoRows
  /\ free = GenesisFree
  /\ Migrations(0, 0, Nothing, {})

\* Version 3: the bonds still in the anonymous reserve, that of c1 pending
\* and that of c2 attested in the last block.
BeforeNamedReserve ==
  /\ OldChain(3, "Vouchered", "Settled")
  /\ pool = [SmallPool EXCEPT !.outstanding = 1]
  /\ requests = Entry(c1, [requester |-> r1, evidence |-> Paid, direct |-> TRUE,
                           submitted |-> 3, bond |-> 2])
  /\ settlements = Entry(c2, [evidence |-> Paid, direct |-> FALSE])
  /\ bondedAttestedAt = Entry(c2, 3)
  /\ bondedRequester = Entry(c2, [requester |-> r1, bond |-> 2])
  /\ free = [GenesisFree EXCEPT ![r1] = @ - 4]
  /\ Migrations(3, 1, [Nothing EXCEPT ![r1] = 4], {})

\* The current version from genesis, on Cardano mainnet with no policy bound,
\* and a request stored before requests were bonded.
Current ==
  /\ OldChain(4, "Vouchered", "Vouchered")
  /\ pool = [SmallPool EXCEPT !.outstanding = 2]
  /\ requests = Entry(c1, [requester |-> r1, evidence |-> Paid, direct |-> TRUE,
                           submitted |-> 4, bond |-> 0])
  /\ settlements = NoRows
  /\ bondedAttestedAt = NoRows
  /\ bondedRequester = NoRows
  /\ free = GenesisFree
  /\ GenesisBuild(NewMainnet)

OlderChains == (BeforeAudit \/ BeforeNamedReserve \/ Current) /\ OlderChain

ThreeChains == OlderChains /\ [][LegacyNext]_chainVars

=============================================================================
