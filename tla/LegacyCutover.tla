--------------------------- MODULE LegacyCutover ---------------------------
(***************************************************************************)
(* pallet-intent-settlement on a chain that ran before Cardano evidence    *)
(* was required: the calls that settle and expire on the committee's word  *)
(* alone, the migration that flags what they did and closes them, and the  *)
(* network identity a chain must hold before it settles.                   *)
(*                                                                         *)
(* A runtime upgrade runs its migration in the first block of the new      *)
(* code, before that block's own work and while the block number is still  *)
(* the last one, so no call meets an older chain before its first upgrade. *)
(* A migration step that meets its cap stops there, and goes on at the     *)
(* next upgrade only: calls run in between.                                *)
(***************************************************************************)
EXTENDS IntentSettlement

CONSTANTS
  CutoverGrace,         \* STCA_CUTOVER_GRACE and EXPP_CUTOVER_GRACE, 50 blocks
  MaxMigrateClaims,
  MaxMigrateIntents,
  MaxMigrateRequests,
  MaxSettleBatch,       \* capacity of BondMigrationProgress
  CardanoIdsToSeed,     \* what the runtime knows of the chain's network
  MaxUpgrades           \* bound: runtime upgrades

\* A CardanoIdentity, down to what the gates tell apart: whether it names
\* Cardano mainnet, and whether it binds an aegis_policy_v1 script.  An
\* optional one is a set of at most one.
CardanoIdentity == [mainnet : BOOLEAN, bound : BOOLEAN]

ASSUME CutoverAssumption ==
  /\ {CutoverGrace, MaxMigrateClaims, MaxMigrateIntents, MaxMigrateRequests}
       \subseteq Nat \ {0}
  /\ {MaxSettleBatch, MaxUpgrades} \subseteq Nat
  /\ MinFinalityDepth > 0        \* a depth of 0 stands for no evidence
  /\ CardanoIdsToSeed \in {{}} \cup {{ids} : ids \in CardanoIdentity}

VARIABLES
  version,              \* SettlementStorageVersion
  stcaCutover,          \* StcaCutoverBlock, 0 when it is not set
  expireCutover,        \* PolicyExpireCutoverBlock, 0 when it is not set
  preAuditSettlement,   \* PreAuditSettlement, the claims flagged
  preAuditExpiry,       \* PreAuditExpiry, the intents flagged
  bondProgress,         \* BondMigrationProgress
  anonymous,            \* balances: reserved under no name
  cardanoIds,           \* CardanoIds
  upgrades              \* bound: upgrades so far

migrationVars == <<version, stcaCutover, expireCutover, bondProgress, anonymous, upgrades>>
legacyVars == <<migrationVars, preAuditSettlement, preAuditExpiry, cardanoIds>>
chainVars == <<allVars, legacyVars>>

CutoverTypeOK ==
  /\ version \in 0 .. 5
  /\ stcaCutover \in Nat /\ expireCutover \in Nat
  /\ preAuditSettlement \subseteq ClaimIds
  /\ preAuditExpiry \subseteq IntentIds
  /\ bondProgress \subseteq ClaimIds
  /\ anonymous \in [Holders -> Nat]
  /\ cardanoIds \in SUBSET CardanoIdentity
  /\ upgrades \in Nat

SETTLEMENT_STORAGE_VERSION == 5
NAMED_RESERVE_VERSION == 4

\* The genesis of a new chain: both legacy paths closed from the start.
GenesisBuild(ids) ==
  /\ version = SETTLEMENT_STORAGE_VERSION
  /\ stcaCutover = 0
  /\ expireCutover = 0
  /\ preAuditSettlement = {}
  /\ preAuditExpiry = {}
  /\ bondProgress = {}
  /\ anonymous = [h \in Holders |-> 0]
  /\ cardanoIds = ids
  /\ upgrades = 0

(***************************************************************************)
(* The gates of the legacy calls.  A cutover of 0 means "not scheduled" on *)
(* an old chain and "closed" on a chain that has the step behind it.       *)
(***************************************************************************)
LegacyOpen(cutover, step) == IF cutover = 0 THEN version < step ELSE block < cutover

SettlePathOpen == LegacyOpen(stcaCutover, 1)

ExpirePathOpen == LegacyOpen(expireCutover, 2)

\* What a legacy call says of a settlement: a transaction, and nothing that
\* could be checked against it.
LegacyTerms == {t \in Terms : t.evidence.depth = 0}

FlaggedAs(cs) == preAuditSettlement \cup cs

\* settle_batch_atomic, of which settle_claim is the batch of one.  A request
\* pending on the claim stays.
SettleBatchAtomic(who, entries) ==
  LET cs == DOMAIN entries
  IN  /\ SettlePathOpen
      /\ who \in members
      /\ cs # {}
      /\ cs \subseteq UnsettledClaims
      /\ BundleFor(who, \A c \in cs : <<c, entries[c].evidence>> \in Confirmed)
      /\ SettleAttestedClaims(cs)
      /\ settlements' = Put(settlements, entries)
      /\ preAuditSettlement' = FlaggedAs(cs)
      /\ UNCHANGED <<requests, bondVars, balanceVars, migrationVars, preAuditExpiry,
                     cardanoIds>>

SettleClaim(who, c, terms) == SettleBatchAtomic(who, Entry(c, terms))

\* expire_policy_mirror: one member's word, of an intent of any kind.
ExpirePolicyMirror(who, i) ==
  /\ ExpirePathOpen
  /\ who \in members
  /\ i \in DOMAIN intents
  /\ Expirable(i)
  /\ intents' = SetStatus({i}, "Expired")
  /\ RemoveFromPendingBatches({i})
  /\ preAuditExpiry' = preAuditExpiry \cup {i}
  /\ UNCHANGED <<block, nonces, expiryQueue, attestVars, moneyVars, claims, expireRequests,
                 committeeVars, settlementVars, migrationVars, preAuditSettlement, cardanoIds>>

(***************************************************************************)
(* cardano_ids: the calls that compute a voucher digest or check evidence  *)
(* are refused while the chain names no network, and on Cardano mainnet    *)
(* until a policy is bound.  They are the calls that issue a voucher, post *)
(* a request or an expiry, or settle or expire on one.                     *)
(***************************************************************************)
\* Faulty variant: no gate, as before the network was stored.
IdsKnown_Always == TRUE

IdsKnown == \E ids \in cardanoIds : ids.mainnet => ids.bound

NeedsNoIds ==
  /\ DOMAIN claims' = DOMAIN claims
  /\ settlements' = settlements
  /\ \A c \in DOMAIN requests' :
        c \in DOMAIN requests /\ RequestId(requests'[c]) = RequestId(requests[c])
  /\ \A i \in DOMAIN expireRequests' : i \in DOMAIN expireRequests
  /\ expireRequests' = expireRequests \/ intents' = intents

\* bind_aegis_policy_v1, by Root, once.
BindAegisPolicyV1 ==
  /\ \E ids \in cardanoIds :
        /\ ~ids.bound
        /\ cardanoIds' = {[ids EXCEPT !.bound = TRUE]}
  /\ UNCHANGED <<allVars, migrationVars, preAuditSettlement, preAuditExpiry>>

(***************************************************************************)
(* on_runtime_upgrade.  A walk over a storage map handles the rows still   *)
(* to do in the order of their hashed keys and stops at the first row      *)
(* after max of them, whatever that row holds.                             *)
(***************************************************************************)
Walks(todo, rows, max) ==
  {w \in [done : SUBSET todo, truncated : BOOLEAN] :
     IF w.truncated THEN Cardinality(w.done) = max /\ w.done # rows
                    ELSE w.done = todo /\ Cardinality(w.done) <= max}

Storage == [version |-> version, stca |-> stcaCutover, expire |-> expireCutover,
            settledFlags |-> preAuditSettlement, expiredFlags |-> preAuditExpiry,
            progress |-> bondProgress, ids |-> cardanoIds]

\* migrations::SeedCardanoIds, which runs before the pallet's own hook.
SeedCardanoIds(s) ==
  IF s.version = NAMED_RESERVE_VERSION /\ CardanoIdsToSeed # {}
  THEN [s EXCEPT !.ids = CardanoIdsToSeed, !.version = SETTLEMENT_STORAGE_VERSION]
  ELSE s

\* Faulty variant: a walk that goes on schedules the cutover again.
Scheduled_Again(cutover) == block + CutoverGrace

Scheduled(cutover) == IF cutover = 0 THEN block + CutoverGrace ELSE cutover

\* A walk that was cut short holds the version for the next upgrade.
ReachedVersion(step, truncated) == IF truncated THEN step - 1 ELSE step

FlagSettlements(s) ==
  LET todo == (DOMAIN claims \ UnsettledClaims) \ s.settledFlags
  IN  IF s.version # 0 THEN {s}
      ELSE {[s EXCEPT !.settledFlags = @ \cup w.done, !.stca = Scheduled(@),
                      !.version = ReachedVersion(1, w.truncated)] :
              w \in Walks(todo, DOMAIN claims, MaxMigrateClaims)}

FlagExpiries(s) ==
  LET todo == {i \in DOMAIN intents : intents[i].status = "Expired"} \ s.expiredFlags
  IN  IF s.version # 1 THEN {s}
      ELSE {[s EXCEPT !.expiredFlags = @ \cup w.done, !.expire = Scheduled(@),
                      !.version = ReachedVersion(2, w.truncated)] :
              w \in Walks(todo, DOMAIN intents, MaxMigrateIntents)}

\* The rows keep their bonds; a full progress list takes no more of them.
RewriteRequests(s) ==
  LET listed(done) == {p \in SUBSET done :
                         Cardinality(p) = AtMost(Cardinality(done),
                                                 MaxSettleBatch - Cardinality(s.progress))}
  IN  IF s.version # 2 THEN {s}
      ELSE UNION {{[s EXCEPT !.progress = IF w.truncated THEN @ \cup p ELSE {},
                             !.version = ReachedVersion(3, w.truncated)] :
                     p \in listed(w.done)} :
                    w \in Walks(DOMAIN requests \ s.progress, DOMAIN requests,
                                MaxMigrateRequests)}

Migrated ==
  UNION {UNION {RewriteRequests(u) : u \in FlagExpiries(t)} :
           t \in FlagSettlements(SeedCardanoIds(Storage))}

\* The bonds an account stands behind, pending or attested.
Owed(h) == SumFunction([c \in ClaimIds |-> PendingBond(c, h) + AttestedBond(c, h)])

\* Faulty variant: the bonds of the attested claims are not walked.
MovedBonds_Pending(h) == AtMost(SumFunction([c \in ClaimIds |-> PendingBond(c, h)]), anonymous[h])

MovedBonds(h) == AtMost(Owed(h), anonymous[h])

\* The bonds leave the anonymous reserve, as far as it holds them, for the
\* named one: in the same upgrade, and in one pass.
MoveBonds(moves) ==
  \/ /\ moves
     /\ anonymous' = [h \in Holders |-> anonymous[h] - MovedBonds(h)]
     /\ reserved' = [h \in Holders |-> reserved[h] + MovedBonds(h)]
  \/ ~moves /\ UNCHANGED <<anonymous, reserved>>

UpgradeBlock ==
  /\ upgrades < MaxUpgrades
  /\ upgrades' = upgrades + 1
  /\ NextBlock
  /\ \E s \in Migrated :
        /\ MoveBonds(s.version = 3)
        /\ version' = IF s.version = 3 THEN NAMED_RESERVE_VERSION ELSE s.version
        /\ stcaCutover' = s.stca
        /\ expireCutover' = s.expire
        /\ preAuditSettlement' = s.settledFlags
        /\ preAuditExpiry' = s.expiredFlags
        /\ bondProgress' = s.progress
        /\ cardanoIds' = s.ids
  /\ UNCHANGED <<requests, settlements, bondVars, free>>

EvidenceStep ==
  \/ PipelineStep
  \/ \E who \in Requesters : RequesterCall(who)
  \/ \E who \in members : CommitteeSettleCall(who)
  \/ \E c \in ClaimIds : ReleaseSettlementBond(c)

LegacyCall(who) ==
  \/ \E c \in UnsettledClaims, terms \in LegacyTerms : SettleClaim(who, c, terms)
  \/ \E cs \in SUBSET UnsettledClaims : \E entries \in [cs -> LegacyTerms] :
       Cardinality(cs) \in 2 .. MaxBatch /\ SettleBatchAtomic(who, entries)
  \/ \E i \in DOMAIN intents : ExpirePolicyMirror(who, i)

\* This code runs from the genesis or from its first upgrade on.
Running == version = SETTLEMENT_STORAGE_VERSION \/ upgrades > 0

LegacyNext ==
  \/ Running /\ EvidenceStep /\ (IdsKnown \/ NeedsNoIds) /\ UNCHANGED legacyVars
  \/ Running /\ \E who \in members : LegacyCall(who)
  \/ BindAegisPolicyV1
  \/ UpgradeBlock

-----------------------------------------------------------------------------
(***************************************************************************)
(* Properties.                                                             *)
(***************************************************************************)
\* What try_state expects after every step of every upgrade, cut short or
\* not: the cutovers agree with the version, the progress list exists only
\* while the requests are rewritten, a chain at the last version names its
\* network, and from version 4 the named reserve holds every bond and the
\* anonymous one none.
TryState ==
  /\ CASE version = 0 -> expireCutover = 0
       [] version = 1 -> stcaCutover # 0
       [] version = 2 -> stcaCutover # 0 /\ expireCutover # 0
       [] OTHER -> stcaCutover = 0 <=> expireCutover = 0
  /\ version = 2 \/ bondProgress = {}
  /\ version = SETTLEMENT_STORAGE_VERSION => cardanoIds # {}
  /\ version >= NAMED_RESERVE_VERSION =>
       ReserveBacksBonds /\ \A h \in Holders : anonymous[h] = 0

\* Once the flags have been written, a settled claim is flagged exactly when
\* no evidence stood behind its settlement, whether it settled before the
\* upgrade, in the grace window, or since: the absence of the flag is what
\* explorers read as "settled on evidence".
AuditFlagsAreExact ==
  version >= 1 =>
    \A c \in ClaimIds : c \in preAuditSettlement <=>
      c \in DOMAIN settlements /\ settlements[c].evidence.depth = 0

\* Where this code may start: on a chain that passes try_state, as of its
\* genesis or as an older version left it.  Claims settled without evidence
\* until version 0 ends, bonds came with version 3 and were reserved under no
\* name until version 4, and no chain before version 5 has its network.
OlderChain ==
  /\ TypeOK /\ SettlementTypeOK /\ CutoverTypeOK
  /\ OneBond
  /\ TryState /\ AuditFlagsAreExact
  /\ upgrades = 0
  /\ \A c \in DOMAIN requests : requests[c].evidence.depth > 0
  /\ version = 0 =>
       /\ stcaCutover = 0 /\ preAuditSettlement = {}
       /\ \A c \in DOMAIN settlements : settlements[c].evidence.depth = 0
  /\ version < SETTLEMENT_STORAGE_VERSION => cardanoIds = {}
  /\ version < 3 => \A h \in Holders : Owed(h) = 0 /\ reserved[h] = 0 /\ anonymous[h] = 0
  /\ version = 3 => \A h \in Holders : reserved[h] = 0 /\ anonymous[h] = Owed(h)

LegacySpec == OlderChain /\ [][LegacyNext]_chainVars

\* A legacy path that has closed never opens again, upgrade or no upgrade.
LegacyStaysClosed ==
  [][/\ ~SettlePathOpen => ~SettlePathOpen'
     /\ ~ExpirePathOpen => ~ExpirePathOpen']_chainVars

=============================================================================
