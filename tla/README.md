# Materios intent settlement in TLA+

TLA+ specifications of the pallets and services in this repository, the TLC
configurations that check them on small instances, and TLAPS proofs of theorems
that hold for every value of the constants. Source paths are relative to the
repository; `lib.rs` alone is `pallets/intent-settlement/src/lib.rs`.

Run, inside this directory:

    tlc -workers 2 -config pipeline_core.cfg MCIntentPipeline
    tlapm IntentPipelineProofs.tla

`PROJECT.json` holds the machine-readable index: the components, the runs, which
source lines each definition stands for, a faulty variant of the code for every
checked property, the hazards, the findings and the theorems.

## The system

A user deposits ADA on Cardano, which a committee credits on Materios. The user
spends the credit on an *intent*. The committee attests the intent, then mints a
*voucher*, which creates a *claim*. A keeper pays the claim on Cardano, posts
bonded evidence of the payment on Materios, and the committee attests the
evidence, which settles the claim and its intent. An intent nobody attests in
time is swept and its debit returned. Beside this stand a price oracle fed by
attestors and a perpetuals engine that reads its prices.

| component | source | state it keeps | operations |
|---|---|---|---|
| intent pipeline | `lib.rs`, `types.rs` | `Intents`, `Nonces`, `Credits`, `ProcessedDeposits`, `PendingBatches` index, `ExpiryQueue`, `PendingAttestations`, `AttestationSigs`, `Claims`/`Vouchers`, `PoolUtilization`, `MinSignerThreshold`, `PolicyExpireRequests` | submit (single, batch, credit refund), attest (one signature, batch bundle), voucher (single, batch), credit deposit, expiry on Cardano evidence, TTL sweep in `on_initialize`, Root's knobs |
| claim settlement, bonds | `lib.rs` | `ClaimSettlementRequests`, `BondedClaimAttestedAt`, `BondedClaimRequester`, `SlashedSettlementRequests`, named reserves of `pallet_balances` | request, attest (single, batch), supersede, slash, release, post a late bond |
| legacy settle and expire, migrations, network identity | `lib.rs`, `migrations.rs` | storage version, cutover blocks, audit flags, progress of the bond migration, `CardanoIds` | the old direct calls, closed after the cutover; migrations 0 to 5, bounded per upgrade; one-shot policy binding |
| committee governance | `pallets/committee-governance` | seats, threshold, timelock, pending schedule of rotation events, mirror | propose, execute, cancel, set timelock, mirror |
| price oracle | `pallets/oracle` | roster, partial bundles per (pair, slot), idempotency rows, prices | submit price, register attestor, freshness |
| perp engine | `pallets/perp-engine` | markets, positions, margin accounts, keeper bonds, bad debt | ten calls and the mark price hook |
| keeper | `keeper/src` | state file (cursor, submissions, settled claims, held bonds), halt detector | tick: fetch, pay on Cardano, reconcile, settle, release bonds |
| committee daemon | `keeper/src/daemon` | cursor, intents already signed | tick: fetch, sign; publish an extension after a halt |
| SDK | `sdk/src` | nonce chain, connection | submit extrinsic, multisig bundles, encodings |

How they interact. The pipeline asks the governance pallet, through a runtime
trait (`lib.rs:904-917`), who is a member and what the threshold is: a rotation
changes both under whatever is pending, with no callback. Settlement reads the
claims the pipeline made and writes intent, claim, pool and bonds in one call
(`settle_attested_claim`). The perp engine reads the oracle's prices with their
age, in each call and in its hook. Keepers and daemons read the pallets through
runtime APIs and act by sending extrinsics, so their reads are stale by the time
their calls run. Cardano is outside: what happened there enters as evidence that
the committee signs.

What is hard. FRAME runs calls one at a time and rolls back a failed one, so
inside a pallet the difficulty is not threads but the *order* of calls by
independent origins, the hook between them, bookkeeping that several calls keep
by hand (the index, the queue, the coverage counter, two records per bond, one
reserve behind several bonds), bounded queues, upgrades cut short, and a
committee that changes under partial bundles. Off chain it is crashes between a
Cardano submission and the state file, cursors, outcomes that never arrive,
reorganisations, and reads that are stale when used. `PROJECT.json` lists each
hazard at its line.

What makes each component correct:

* pipeline: an intent moves forward only, is served while it waits and only then,
  always stops waiting, backs at most one claim; credit and coverage add up;
* settlement: a claim settles once, on evidence Cardano bears out if every bundle
  needs an honest signer; every bond is backed by the reserve, comes back to its owner
  or is slashed in full, and none is stranded;
* legacy and migrations: a closed path stays closed, the audit flags are exact
  however an upgrade was cut short, and no bond is lost between two reserves;
* governance: the threshold always fits the seats, and what was announced is
  what takes effect, after its timelock;
* oracle: a price comes from a quorum of distinct attestors of one slot, lies
  between honest ones, and slots only go up;
* perp engine: margin moves only by gains, losses, fees and transfers, keepers are
  paid only for positions that are under water, and bad debt stops a market;
* keeper: only the visit that retries a payout hands it to Cardano again, every payout
  it has confirmed is settled, every bond it posted comes back, and restarts lose none of this;
* SDK: no two extrinsics of one account use one nonce.

## Modules

| module | models |
|---|---|
| `Maps` | storage maps as functions whose domain grows and shrinks: `Put`, `Remove`, `Entry` |
| `IntentPipeline` | the intent pipeline: one action per call or hook, and its properties |
| `IntentSettlement` | EXTENDS `IntentPipeline` with the settlement calls and the balances reserves |
| `BondEscrow` | abstract: what the bonds promise, without reserves or records |
| `LegacyCutover` | EXTENDS `IntentSettlement` with the old calls, the chunked migrations and the network identity |
| `CommitteeGovernance` | the governance pallet |
| `Oracle` | the oracle pallet: bundles per slot, median, roster |
| `PerpEngine` | the perp engine and the formulas of `math.rs`, over small integers |
| `Keeper` | the keeper process between its awaits, its state file, and the chain and Cardano as it sees them |
| `MC...` | the values of the constants for TLC, one per specification |
| `DataLemmas` | lemmas about maps, least elements, products and divisions, and sums, for the proofs |
| `IntentPipelineProofs`, `IntentSettlementProofs`, `LegacyCutoverProofs`, `CommitteeGovernanceProofs`, `OracleProofs`, `PerpEngineProofs`, `KeeperProofs` | the theorems about each specification and their proofs |

**Correspondence.** A variable is a storage item, named in a comment beside it; an
action is a whole dispatched call, its guard the call's `ensure!`s and early
returns, its primed variables all the writes of the call and its helpers. A call
that fails changes nothing and is no step. Single and batch forms of a call
share one operator where the code's effects agree (`SubmitIntent` is the batch of one);
where they differ (a single attestation collects signatures one by one, a batch
brings its bundle) they are separate actions. Ids are the tuples they
are hashed from, which are distinct where the hashes are. Signatures are the set of keys that signed:
`ThresholdSignatures` keeps the rules about the caller, members,
duplicates and both thresholds. Integers keep their
saturation at `MaxAda` (u64) and the truncation `% U32Modulus` (u32) where the
code casts. Beneficiary, genesis hash and amount of an evidence are one field
that must agree with the voucher.

**Composition.** `IntentSettlement!SettlementNext` runs every pipeline step
beside the settlement steps, so attestations race sweeps, expiries and
rotations. `LegacyCutover!LegacyNext` runs all of that beside the old calls and
the upgrades. Inside `IntentPipeline` alone, `SettleAttestedClaims` may happen to
any unsettled claim at any time: an over-approximation that
`IntentSettlement` replaces by the calls that lead there. `RotateCommittee`
installs any committee of `Committees`; `CommitteeGovernance` is where they come from. In
particular `propose_rotate_pubkey` may rotate a key into one that already has a seat,
so a committee may have fewer keys than its threshold; the committee
`Twin` of the rotation run is one. `PerpEngine` sees a feed as a price and
whether it is fresh, which is all it asks of `Oracle`.

**Refinement.** `BondEscrow` knows only wallets, at most one bond per claim and
the settled claims. `IntentSettlement!Escrow` maps it with `INSTANCE ... WITH`:
the escrow of a claim is the bond of its pending request or of its attested
bond record. `BondsAreEscrowed` is that every settlement step is a step of
`BondEscrow` or a stutter, so replaced, superseded, slashed,
released and late bonds are each paid out once and in full. The abstract `Post` allows the bond a step
replaces to pay for the new one, which is what a batch of the same
requester does.

**LegacyCutover.** A runtime upgrade is one action, `UpgradeBlock`: the
migration runs before the first block of the new code does its own work. Every
migration step is a function of the storage record, so `Migrated` is their
composition in the order of `on_runtime_upgrade`; `Walks` is the choice of rows a
bounded step reaches, and a step cut short leaves the version below its own, so
calls run until the next upgrade. Evidence calls compute a voucher digest, and
that needs `CardanoIds`, which only version 5 stores: until then no claim can be
settled on evidence by the new code, and this is what keeps a resumed walk of
version 1 from flagging a settlement that had evidence.

**Keeper.** A tick is a walk over the places where `runOnce` awaits something:
what the chain, the committee and other requesters do happens between any two of
them. Each call of the keeper goes into `pool` and may be included, refused or
dropped, and the keeper may stop waiting before it learns which; it acts on the
block it read. A payout has both retry loops of the code: a `Paying` tick submits up to
`FeeSpikeMaxAttempts` times, each attempt reads the tip anew up to `SlotDriftMaxRetries`
times, and an attempt that fails, or a process that dies in it, may have reached Cardano
all the same. Such a payout is a stray (`strays`): the keeper never learns its hash, but
others may request a settlement for it. `payout` is the stage of the one it knows.
`mem` and `disk` are the state file before and after a flush, and
`Crash` may happen anywhere. Abstractions: requests and bonds carry ages instead of block
numbers, depths on Cardano are the stages Landed, Confirmed and Final, of the
chain's reorganisations only those that undo a settlement are modelled, and the
staleness of the tip the keeper read is part of the race between a read and the
inclusion of a call. Ticks paused by the halt detector are left out, and so is slashing of the keeper's true
evidence (`HonestIsNeverSlashed` is the pallet's side of that). One branch is unreachable in
the instance: releasing the bond of a request given up as expired while its
submission is gone from an intact state file.

## What is model-checked

Bounds are constants named in the modules: `Horizon` (last block), `MaxNonce`
(intents per account), `MaxBatch` (entries of one call), `LastRequestBlock` (so
that the release of the last bond lies before the horizon), `MaxUpgrades`,
`MaxOpened` (positions ever opened), `MaxFaults`. TTLs are one
to three blocks, so that every call can run before, at and after an expiry
inside the horizon. Deadlock checking is off where
the last block ends every run by design; the keeper's runs have no horizon and check for deadlock.

| run | instance | shows |
|---|---|---|
| `pipeline_core` | 1 account, 2 intents of 3 kinds, 2 claims, 2 deposits, 2 keys, 5 blocks; 288k states | types; the index holds exactly the live intents, each queued for its sweep; claims, statuses and bundles agree; a Pending intent never has a full bundle; coverage is the sum of unsettled claims; credit is never more than deposits; statuses go forward |
| `pipeline_rotation` | 1 intent, committees of two, three, a lowered threshold and one with two seats of one key, Root calls | every intent leaves the index, whatever rotations, evidence and Root calls do meanwhile |
| `settlement_core` | a chain upgraded with an unbonded request pending: from its first block with 1 claim, and in the last block for requests with 2 claims and batches, the request expired; 2 requesters of which one is a member, true, false and shallow evidence, an honest pair and one key that signs anything; 44k states | one stage per claim, reserves back the bonds exactly, the escrow refinement, every bond comes back |
| `legacy` | 2 claims on chains of three ages: never audited, with bonds in the anonymous reserve, and current on a mainnet without a bound policy; each starts as `OlderChain` says; every cap of a migration is one row; 4 upgrades, batches, late bonds; 47k states | versions, cutovers, progress and both reserves agree after every chunk; audit flags are exact; closed paths stay closed; no slashed request returns; on these chains too a claim settles on confirmed evidence only (or by a legacy call), an honest request is never slashed and what settled a claim is final |
| `governance` | 3 keys, 3 events, a committee of at most 2; 1.1M states | the threshold fits the seats whatever bundle is executed, and the last announced threshold is the one in force; a bundle without one leaves it as it was |
| `oracle` | 3 attestors of which one signs anything, quorum of 3, 3 blocks, 5 slots, three values of decimals; 340k states | rows, bundles and witnesses agree; a price has a quorum, lies between honest prices of its own slot in their decimals; fresh means recent; a feed never rewinds |
| `perp` | 2 accounts that trade and liquidate each other in one market, two prices per feed, leverage 1 and 2, full and partial closes, a withdrawal that the rates round, 2 positions opened, 2 blocks; 274k states | types; reserves back the keepers' bonds; margin is accounted for; gains are paid at the live rate; only unhealthy positions are liquidated; a paused market winds down |
| `keeper` | 1 claim, a TTL of 2, two faults among crashes, lost outcomes, refused calls, provider gaps, reorganisations and false requests of others; two attempts at a payout with two slot drifts each, so that the faults use them up; 274k states | a payout is handed over again in the visit that retries it only; a claim marked as settled stays settled; a confirmed payout on disk is settled; every bond comes back |

Two intents and two claims are enough for each pairwise interaction the code
has (two entries of one batch, two intents in one queue, two claims on one
intent); a third signer only repeats the second's role, except for
duplicates and outsiders, which the rotation, settlement and oracle runs have. A request
TTL of one and a release delay of one put every boundary (`<`, `<=`) inside the horizon.
Chunks of one row over two rows make every migration step stop and resume.
Two prices, either of which ruins a position opened at the other, give gains, losses, bad
debt and healthy targets within two blocks. Two
faults let a crash follow a lost outcome or a reorganisation follow a crash; one claim
suffices because the keeper treats claims one after the other and the pallet
keeps nothing in common between them except balances, which `settlement_core` has.
A fault of each property, the one its mutant in `PROJECT.json` describes, is found within the same
instance, so the bounds reach the cases the properties are about.

### Fairness

`FairSpec` of the pipeline assumes only `WF(NextBlock)`: blocks are produced. No call is fair:
users, keepers and committee members may stop. `EveryIntentLeavesTheIndex` rests on the
hook alone. `SettlementFairness` adds `WF(ReleaseSettlementBond(c))`:
`release_settlement_bond` is open to anyone, costs nothing but the fee, and the
bond's owner has the incentive; the keeper's sweep
(`keeper/src/keeper.ts:609`) does it each tick. `EveryBondComesBack` needs no
committee member to act.

`Keeper!FairSpec` assumes that blocks are produced, become final and take what
is in the pool, that a payout on Cardano gets deeper, and that the process ticks or
is restarted after a crash (`TickStep`), which its loop and its supervisor do. The committee is given
strong fairness in `CommitteeAttests`: its members need not catch every request,
but a request that is retried forever is attested once; with less, nobody settles anything.
Other requesters, their releases and every fault are not fair. Crashes and lost outcomes
are bounded by `MaxFaults`: a process that crashes in every tick settles nothing.

### Where the code and its documentation differ

Each is a run that TLC ends with a counterexample; the property states the
documentation, the model the code.

* `settle_or_expire`: a comment asks for a settle-or-expire dichotomy at the pallet
  boundary (`lib.rs:4223`). `settle_attested_claim` (`lib.rs:5252`) does not
  look at the intent's status, so a claim open when its intent was expired on
  evidence still settles it.
* `premium_refund`: `attest_expire_policy` says it refunds as the sweep does
  (`lib.rs:4289`); no credit is written.
* `margin_release`: `adjust_leverage` says it cannot push the user into immediate
  liquidation territory (`pallets/perp-engine/src/lib.rs:2025-2029`). It does not count the loss
  the position has made (2118), so it releases the margin that covered it.
* `keeper_orphan`: every payout confirmed to depth is driven to a settlement
  (`keeper/src/keeper.ts:435`). A payout still in the mempool looks like an
  orphan in the tick that sent it (461): its hash is forgotten, its batch is
  never served again, and nobody settles it. `ConfirmedIsSettled` is what holds instead:
  once the confirmation is on disk, the settlement follows.

### What the models have and no run claims

Behaviours of the code that a reader of the properties should know. Most are in
the models; a property against them could only fail, and nothing in the
repository promises it.

Intent pipeline and settlement:

* A full `ExpiryQueue` entry drops the id (`lib.rs:4808`) and nothing sweeps it later;
  `LiveIntentIsQueued` is about instances whose queue does not overflow.
* `PendingIsBelowThreshold` holds only while no rotation lowers the threshold: an
  intent that already has enough signatures then waits for one more new signer.
* The utilisation is cast to u32 before it is compared with the cap
  (`lib.rs:4753`); it takes a fund of almost nothing for that to matter.
* `set_min_signer_threshold` keeps the floor below the committee threshold when it is
  called (`lib.rs:2873`); a later rotation to a smaller committee does not, and no
  bundle is large enough until Root lowers the floor.
* `set_pool_utilization` (`lib.rs:2861`) replaces the running counters with what Root read earlier.

Migrations:

* `BondMigrationProgress` holds 256 ids and a chunk may rewrite 1024 requests
  (`lib.rs:1172`, 2220): with more than 1280 pending requests that step would not finish.
  The model's capacity, `MaxSettleBatch`, is large enough for its rows.
* Step 3 to 4 takes what the bonds need out of the account's anonymous reserve, whoever
  reserved it; the model's anonymous reserve holds bonds only.

Governance: an event appended to a pending schedule takes the schedule's
effective block (`pallets/committee-governance/src/lib.rs:449`), while
`docs/spec-v1.md:433` says it starts or extends the timelock.

Oracle: the first submitter of a slot fixes its decimals, so others must agree or
wait for the next slot; a price for a future slot closes the earlier ones; stale bundles
are not removed by a hook (the comment at `pallets/oracle/src/lib.rs:218-220`
announces one).

Perp engine:

* The average rate of a deposit is weighted with the free margin only (2625-2638), while
  `types.rs:210` speaks of all outstanding deposits; the payout uses the account's rate, not the larger
  of that and the live rate.
* Gains are credited without a counterparty's debit and a loss beyond the margin is
  dropped at a voluntary close (1189-1194), so `MarginIsAccountedFor` speaks of one
  account at a time.
* A liquidation fee is paid with a floor of one unit of MOTRA that is not deducted from
  the position (1652).
* No call unpauses a market: `governance_set_market` registers one once and never changes it.
* The funding index is 0 throughout (no call moves it), so funding payments are modelled as
  the formulas they are and are always 0.

Keeper:

* The cursor moves to the tip after every tick (`keeper/src/keeper.ts:193`), and the pallet serves
  only Pending and Attested intents. A batch is therefore paid only if its voucher
  appears between the query and `getVoucher` of one tick; otherwise it is passed
  over. Paying every vouchered claim is not claimed.
* That a claim is paid once is not claimed. A submission whose outcome is lost
  (`submitTx` throws also when only the tip query after it fails,
  `keeper/src/cardano.ts:136-140`) is built anew and handed over again, three times at most
  (`keeper/src/keeper.ts:381-407`, `feeSpikeMaxAttempts` in `cli/keeper.ts:118`). Whether two
  of them can land is up to their inputs, and the builder that chooses them is a placeholder
  (`policyUtxoRefs` is empty). `PaidInOneVisit` says what the keeper itself ensures.
* An exhausted slot drift is retried like any failure: `retryWithBackoff` has no case for
  `SlotDriftExhaustedError`, which the comment at `keeper/src/keeper.ts:409` calls terminal, and
  each one takes an attempt, though the comment at line 379 says that drift takes none.
* The hash of a payout is in memory until the flush at the end of the tick, though
  `keeper/src/state.ts:3-5` calls every in-flight submission resumable.
* The claim id is taken to be the intent id, and the command line passes no
  `fetchFairnessProof`, without which no batch is paid.
* The halt detector counts ticks, not blocks: one without a fresh block resets the
  recovery count (`keeper/src/halt.ts:97`), so polling faster than Cardano makes
  blocks may not leave a halt.
* The daemon's cursor moves to the tip although at most 32 batches were
  fetched, or none because the query failed (`keeper/src/daemon/index.ts:208`).

## What is proved

Every safety invariant and every action property that a passing run checks is
also proved by TLAPS, for every number of accounts, keys, claims, kinds, markets and
committees, every amount and every horizon. The assumptions are those that the modules name
with their constants (`ConstantsAssumption`, `BoundsAssumption`, `SettlementAssumption`,
`CutoverAssumption`, `GenesisAssumption`, `RangesAssumption`, `OracleAssumption`,
`PerpAssumption`, `KeeperAssumption`): the types of the constants, finite sets of claim and transaction
ids (hashes of fixed width) and of markets, and a positive value where the runtime has one. TLC
evaluates them in the runs. A hypothesis beyond these is in the table.

| theorem | property | beyond the specification it needs |
|---|---|---|
| `TypeCorrect`, `IndexCorrect`, `BundleCorrect`, `ClaimsCorrect`, `StatusCorrect`, `CreditCorrect` | `TypeOK`, `IndexIsLive`, `BundleFollowsStatus`, `ClaimsMatchIntents`, `StatusAdvances`, `CreditIsDeposited` | |
| `NonceCorrect` | an account's nonce is above every id it was given | |
| `CoverageCorrect` | `CoverageIsUnsettledClaims` | a genesis without coverage, `RootKeepsCoverage`: Root's `set_pool_utilization` restates the counter as it is |
| `PartialCorrect` | `PendingIsBelowThreshold` | no rotation lowers the threshold |
| `QueueCorrect` | `LiveIntentIsQueued` | `QueueHasRoom`: a submission finds room in the queue of its expiry block |
| `SettlementExtendsPipeline` | `SettlementSpec => Spec`, so all of the above holds with the settlement calls | |
| `SettlementTypes`, `StagesAreOne`, `SlashedStayAway`, `SettlementsAreFinal`, `ReservesBackBonds`, `BondsImplementEscrow` | `SettlementTypeOK`, `OneStagePerClaim`, `NoSlashedRequestReturns`, `SettlementIsFinal`, `ReserveBacksBonds`, `BondsAreEscrowed` | |
| `SettlementsAreConfirmed`, `HonestKeepTheirBonds` | `SettledOnConfirmedEvidence`, `HonestIsNeverSlashed` | `FewSignAnything`: in each committee the keys that sign anything are fewer than the floor under every bundle |
| `UpgradesKeepTryState`, `FlagsAreExact`, `ClosedPathsStayClosed`, `ChainSettlementsAreFinal` | `TryState`, `AuditFlagsAreExact`, `LegacyStaysClosed`, `SettlementIsFinal` | `LegacySpec` starts on any `OlderChain` |
| `ChainSlashedStayAway` | `NoSlashedRequestReturns` | it holds at the start |
| `ChainSettlementsAreConfirmed`, `ChainHonestKeepTheirBonds` | `SettledOnConfirmedEvidence`, `HonestIsNeverSlashed` | `FewSignAnything`; both hold at the start, with one of `Committees` in place (`CommitteeInPlace`) |
| `GovernanceTypes`, `ThresholdFitsSeatsAlways`, `AnnouncedThresholds` | `TypeOK`, `ThresholdFitsSeats`, `AnnouncedThresholdTakesEffect` | |
| `OracleTypes`, `BundlesAccounted`, `QuorumBehindPrices`, `PricesBracketed`, `FreshFeedsAreRecent`, `FeedsNeverRewind` | `TypeOK` of the oracle, `BundlesAreAccountedFor`, `PriceHasQuorum`, `PriceIsBracketed`, `FreshIsRecent`, `FeedNeverRewinds` | |
| `PerpTypes`, `ReservesBackKeeperBonds`, `MarginAccounted`, `GainsPaid`, `LiquidationsAreFair`, `PausedMarketsOnlyWindDown` | `PerpTypeOK`, `ReserveBacksKeeperBonds`, `MarginIsAccountedFor`, `GainsArePaidAtLiveRate`, `OnlyUnhealthyAreLiquidated`, `PausedMarketsWindDown` | |
| `PaymentsAreInOneVisit`, `MarkedClaimsStaySettled` | `PaidInOneVisit`, `MarkedStaysSettled` | for any number of attempts |

The hypotheses are needed: the section above says what the code does without them
(Root may overwrite the counter, the queue may be full, a rotation may lower the
threshold). The first three are stated as properties of the steps taken, so they exclude only
the behaviours in which that happens, and the runs have behaviours that satisfy them.
`OlderChain` is what `TryState` and the versions' own migrations leave behind; the three chains of
the `legacy` run satisfy it, which TLC evaluates since `OlderChains`, their initial predicate, conjoins it.
`settlement_core` starts in a chain upgraded in flight with an unbonded
request; its theorems start at genesis, and what they say of older chains is in `LegacySpec`.
`OneStagePerClaim` is not among that: a legacy settlement leaves a request behind, so
`LegacyCutover` keeps `OneBond` and the reserve, and not that a settled claim has no request.

### The arguments

*Sums and recursive functions.* The coverage, the credit, what an account stands behind, a
keeper's reserve and the committee after n events are recursive functions
(`SumFunction`, `CommitteeAfter`), and the library's induction theorems take an operator that
these provers cannot instantiate. `DataLemmas` argues with a least counterexample
instead: a set of numbers, or of finite sets ordered by inclusion, on which a
fact fails has a least member, and one unfolding refutes it there. From that come the
equation of a sum, that it is a natural number, that a sum whose terms change at
one key changes by as much there, and that sums of equal functions are equal.

*Pipeline.* `TypeOK` is inductive by one lemma per action and the rest builds on it.
`IndexIsLive` is inductive given the types: each action either moves ids out of
`Live` and out of the index together, or adds new ids to both; it needs `LiveAfter`,
what a change of statuses does to the set of live intents.
`BundleFollowsStatus` and `ClaimsMatchIntents` are not inductive alone: a submission could
reuse the id of a vouchered intent. `IdsAreUsed` (ids in every map lie below the
nonce) excludes it, and `BundleInv` adds `ClaimsHaveBundles`, that an intent with a claim has its
frozen bundle: an Expired intent may still be settled, and `BundleFollowsStatus`
by itself has forgotten the bundle of an Expired intent.
`ClaimsMatchIntents` then follows with `LiveHasNoClaim`:
only a live intent gets a claim, and it had none. `StatusAdvances` follows step by step: the one
way out of Expired is through `HasClaim`. Coverage and credit compare two sums, step by step; a
saturating subtraction never saturates, because what it takes off is part of the sum.
`QueueInv` adds to `LiveIntentIsQueued` that queues are finite sets; a live
intent is queued at its TTL, which is ahead, and the hook of that block ends it.

*Settlement.* `SettlementNext` implies `Next` of the pipeline, action by action, so its
invariants carry over. `OneBond` is what `OneStagePerClaim` and the migrations share.
`ReserveBacksBonds` is inductive with the types and `OneBond`: per account, `Backing`
lists its bond on each claim, every call changes it on the claims it
touches, and the sum moves with the reserve. The finality, tombstone and evidence properties then look at
the few calls that write settlements or tombstones; for evidence, a bundle that
reaches the floor has an honest signer, since the others are too few.
`BondsImplementEscrow` maps each step: a batch of requests to one `Post` with the bonds it
replaces, an attestation to `Settle` (the bond moves from the request to its
record and stays in escrow), a supersede to `SettleOtherwise`, a slash to `Forfeit`, a
release to `Return`, every call of the pipeline to a stutter. It uses
`OneBond`, without which a bond could sit in both records and be counted once.

*Older chains.* `ChainInv` says for each version what the migrations owe it: which
cutovers are set (`Agree`), which flags may exist while a walk is unfinished
(`FlagsMatch`), where the bonds are reserved (`BondsReserved`), that the network
is stored at version 5 only. `UpgradeBlock` composes the phases, and each
phase has its lemma; the walk of version 1 is exact because no claim can settle on evidence before
version 5 stores the network.

*Governance.* That the announced threshold takes effect is about what the recursion over the events
computes. The invariant is `BundleIsAnnounced`: every
threshold in a schedule fits the seats there are after the events before it. By
induction on the number of applied events the committee has exactly those seats and the last
announced threshold (`AppliedAsAnnounced`), so nothing clamps it.

*Oracle.* `OracleInv` joins the accounting of rows and bundles with who signed what:
signers are attestors, honest ones signed what they saw, no feed is dated ahead. A
bundle is a sequence without repeated signers, so its length is the number of
signers; the median has half of the prices on each side, so an honest price on each
side when the others are fewer than half.

*Perp engine.* The types and the reserve are one induction (a slash or a release never takes more
than the reserve because the reserve is the sum of the bonds). The action
properties follow step by step with `FundingSettled` (the funding index is 0
throughout) and the facts about truncating divisions. `GainsPaid` rests on one inequality: an account
with free margin f at rate r that gains g at rate l, and takes the weighted average
of both rates or more, claims no more MOTRA than f/r + g/l, and the floor of the average costs
one unit of rate.

*Keeper.* A claim leaves the loop over the batches when its visit starts, a visit ends with
the first submission that returns, and only intents that are not vouchered are served again.
So when an attempt starts, what Cardano was handed before are strays of earlier attempts of that
visit, one each at most: this is `PayInv`, with `Visit` for the state during one. A claim is marked only after it was read as settled in a final block (`MarkInv`),
and final settlements survive every reorganisation.

### Only model-checked

* Liveness: `EveryIntentLeavesTheIndex`, `EveryBondComesBack`, `ConfirmedIsSettled`,
  `BondsComeBack`. Fairness is ENABLED, which is beyond the prover.
* The four properties of the documentation that the code violates, which are false.

## What is not modelled, and why

* Encodings, hashes and address formats (`voucher_canonicalize.rs`,
  `sdk/src/hashing.ts`, `cardano-address.ts`, `keeper/src/script-hash.ts`): pure functions with test
  vectors; a digest stands for what it commits to.
* `weights.rs`, `signature_weights.rs`, `benchmarking.rs`: cost tables.
* Of the keeper: the halt detector, what makes a fairness proof valid, the fee bump of a retry,
  the dry run and the transaction builder.
* The committee daemon: one pass over the pending batches per tick, without a dialogue with the
  chain; the pallet's runs have its members sign in any order.
* The SDK: encodings and RPC calls. `Keeper` has what `submitExtrinsic` reports (an
  outcome, a refusal or nothing); its nonce queue is left out, because the keeper
  sends one extrinsic at a time.
* Overflow of the perp engine's 128-bit arithmetic, which every call answers with an
  error that changes nothing.
* `e2e/`, `runtime-upgrades/`: scripts.
* The Cardano validators, which are not in this repository.

## Plan

The modules planned are written, and their safety is proved. What is left:

1. Older chains: from `ChainInv`, the refinement of `BondEscrow` by the evidence calls
   on chains that have reached version 4, and `ClaimsMatchIntents` with the legacy calls.
2. The steps on which the liveness properties rest, as action properties that can be proved: that
   the hook ends what is queued for its block, that a due bond's release is
   blocked by nothing that another call does, and that a keeper's record of a
   confirmed payout is dropped only with its mark.
3. The committee daemon and the SDK's nonce queue as modules, for the hazards that have no
   property yet.
