------------------------------- MODULE Storage -------------------------------
(***************************************************************************)
(* The contract's storage (storage.rs, types.rs) and the clock it runs     *)
(* under.  Every contract call is one atomic step: an Err or a host trap   *)
(* rolls the whole invocation back, so only calls that succeed are steps.  *)
(*                                                                         *)
(* Data are abstracted to what the contract tells apart.  sha256 of an     *)
(* address or of an approval payload is only ever compared for equality,   *)
(* so the hash is represented by the hashed value (no collisions), and a   *)
(* claim id, the hash of (wallet, tx_hash), by that pair.  An absent stake *)
(* is the record with amount 0, an absent claim the one with status        *)
(* "Unused": no guard of the contract distinguishes them.  A persistent    *)
(* entry that archives is restored before use, so only the temporary       *)
(* revocation entries carry a lifetime.                                    *)
(***************************************************************************)
EXTENDS PoolMath, FiniteSets

CONSTANTS
    None,                           \* Option::None
    Addresses,                      \* accounts that can hold a role or be paid
    Wallets,                        \* the accounts that stake
    TxHashes,                       \* hack transactions
    Pubkeys,                        \* Ed25519 attestation keys
    Verdicts,                       \* oracle verdicts, see Verdict
    Deadlines                       \* approval deadlines, Unix seconds

\* The durations of types.rs, scaled down for model checking.
CONSTANTS
    LEDGERS_PER_DAY, SECONDS_PER_DAY, CLAIM_WINDOW_SECONDS,
    TIME_GATE_LEDGERS, COOLDOWN_LEDGERS, VESTING_LEDGERS, PENALTY_LOCK_LEDGERS,
    MAX_APPROVAL_WINDOW_SECONDS, REVOCATION_TTL_LEDGERS,
    APPROVE_WINDOW_LEDGERS, COLLECTION_INACTIVITY_LEDGERS

\* The environment: how many seconds one ledger may take, and the horizon.
CONSTANTS LedgerSeconds, MaxLedger

ClaimIds == Wallets \X TxHashes

\* What the oracle's scanner concludes about one incident.
Verdict == [wallet : Wallets, tx_hash : TxHashes, entitlement : Nat \ {0},
            tier : Tiers, hack_timestamp : Nat]

compute_claim_id(v) == <<v.wallet, v.tx_hash>>

ASSUME DurationsAssumption ==
    /\ LEDGERS_PER_DAY \in Nat \ {0} /\ SECONDS_PER_DAY \in Nat \ {0}
    /\ VESTING_LEDGERS \in Nat \ {0}
    /\ {CLAIM_WINDOW_SECONDS, TIME_GATE_LEDGERS, COOLDOWN_LEDGERS,
        PENALTY_LOCK_LEDGERS, MAX_APPROVAL_WINDOW_SECONDS,
        REVOCATION_TTL_LEDGERS, APPROVE_WINDOW_LEDGERS,
        COLLECTION_INACTIVITY_LEDGERS} \subseteq Nat

\* The const-assert of types.rs: the revocation entry outlives the longest
\* legal approval at the pathological rate of one second per ledger.
ASSUME RevocationTtlAssumption ==
    REVOCATION_TTL_LEDGERS >= MAX_APPROVAL_WINDOW_SECONDS

\* Ledger close times are at least a second apart.
ASSUME LedgerSecondsAssumption == LedgerSeconds \subseteq Nat \ {0}

ASSUME InputsAssumption ==
    /\ Wallets \subseteq Addresses
    /\ None \notin Addresses \cup ClaimIds \cup Pubkeys
    /\ Verdicts \subseteq Verdict
    /\ Deadlines \subseteq Nat
    /\ MaxLedger \in Nat

\* At any time only finitely many accounts and transactions exist.
ASSUME FinitenessAssumption == IsFiniteSet(Wallets) /\ IsFiniteSet(TxHashes)

-----------------------------------------------------------------------------
VARIABLES
    admin, oracle, oracle_pubkey, co_signer,        \* the roles
    pool_cap, paused,
    total_staked, total_allocated, total_stakers,   \* pool-wide totals
    daily_outflow,          \* [day, amount]: LastOutflowDay, DailyOutflow
    daily_entitlement,      \* [day, total, count]: LastEntitlementDay, ...
    stakes, points_balance, \* per wallet
    claims, overrides,      \* per claim id
    revoked,                \* last live ledger of a revocation entry, 0 = none
    vault, treasury, deploy_bps, deployed_shares, deployed_xlm, extracted_yield,
    liquid,                 \* the token's balance of the contract
    ledger, timestamp       \* env.ledger().sequence() and .timestamp()

roles == <<admin, oracle, oracle_pubkey, co_signer>>
config == <<pool_cap, paused>>
totals == <<total_staked, total_allocated, total_stakers>>
daily == <<daily_outflow, daily_entitlement>>
yield == <<vault, treasury, deploy_bps, deployed_shares, deployed_xlm, extracted_yield>>
clock == <<ledger, timestamp>>
vars == <<roles, config, totals, daily, stakes, points_balance, claims, overrides,
          revoked, yield, liquid, clock>>

-----------------------------------------------------------------------------
ClaimStatus == {"Unused", "Active", "Completed", "Cancelled", "Reserved",
                "PendingTime", "AwaitingApproval", "Expired"}

StakeRecord ==
    [beneficiary_hash : Addresses \cup {None}, amount : Nat,
     staked_at_ledger : Nat, staked_at_timestamp : Nat,
     penalty_locked_until_ledger : Nat, withdrawn : BOOLEAN, suspended : BOOLEAN,
     active_claim_id : ClaimIds \cup {None}, reserved_claim_id : ClaimIds \cup {None}]

EmptyStake ==
    [beneficiary_hash |-> None, amount |-> 0,
     staked_at_ledger |-> 0, staked_at_timestamp |-> 0,
     penalty_locked_until_ledger |-> 0, withdrawn |-> FALSE, suspended |-> FALSE,
     active_claim_id |-> None, reserved_claim_id |-> None]

\* wallet and tx_hash are the claim id's two components.
Claim ==
    [hack_timestamp : Nat, entitlement : Nat, streamed : Nat, stake : Nat,
     cooldown_ends_ledger : Nat, vesting_ends_ledger : Nat,
     total_staked_snapshot : Int, tier : Tiers \cup {0}, status : ClaimStatus,
     approve_deadline_ledger : Nat, last_collected_ledger : Nat]

\* A claim record as it is first written, before any clock is set.
new_claim(hack_timestamp, entitlement, tier, stake_amount, status) ==
    [hack_timestamp |-> hack_timestamp, entitlement |-> entitlement,
     streamed |-> 0, stake |-> stake_amount,
     cooldown_ends_ledger |-> 0, vesting_ends_ledger |-> 0,
     total_staked_snapshot |-> 0, tier |-> tier, status |-> status,
     approve_deadline_ledger |-> 0, last_collected_ledger |-> 0]

UnusedClaim == new_claim(0, 0, 0, 0, "Unused")

OverrideRequest ==
    [entitlement : Nat, tier : Tiers,
     owner_approver : Addresses \cup {None},
     co_signer_approver : Addresses \cup {None}]

\* An approval payload: what the oracle key signs and a revocation names.
Payloads == Verdicts \X Deadlines

-----------------------------------------------------------------------------
\* Mutant: no circuit breaker.
require_not_paused_dropped == TRUE
require_not_paused == ~paused

current_day == timestamp \div SECONDS_PER_DAY

\* The daily counters roll over by comparison with the stored day.
get_daily_outflow == IF daily_outflow.day = current_day THEN daily_outflow.amount ELSE 0
get_daily_total == IF daily_entitlement.day = current_day THEN daily_entitlement.total ELSE 0
get_daily_count == IF daily_entitlement.day = current_day THEN daily_entitlement.count ELSE 0

\* A temporary entry is live up to and including its last ledger.
\* Mutant: the last ledger taken as dead already.
is_approval_revoked_early(p) == ledger < revoked[p]
is_approval_revoked(p) == ledger <= revoked[p] /\ revoked[p] # 0

\* Mutant: a lifetime one ledger short of the approval window.
set_approval_revoked_short(p) ==
    revoked' = [revoked EXCEPT ![p] = MaxOf(@, ledger + REVOCATION_TTL_LEDGERS - 1)]

set_approval_revoked(p) ==
    revoked' = [revoked EXCEPT ![p] = MaxOf(@, ledger + REVOCATION_TTL_LEDGERS)]

-----------------------------------------------------------------------------
\* The next ledger closes.
Tick ==
    /\ ledger < MaxLedger
    /\ ledger' = ledger + 1
    /\ \E dt \in LedgerSeconds : timestamp' = timestamp + dt
    /\ UNCHANGED <<roles, config, totals, daily, stakes, points_balance, claims,
                   overrides, revoked, yield, liquid>>
=============================================================================
