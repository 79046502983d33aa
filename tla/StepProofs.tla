------------------------------ MODULE StepProofs ------------------------------
(***************************************************************************)
(* Theorems about single steps and about the slots of a stake record: what *)
(* no call may do to a claim, a record, the points or the daily counters.  *)
(*                                                                         *)
(* Most calls leave the claims and the records alone.  Steps states that   *)
(* once, so that each proof below has one case for each call that does     *)
(* not.                                                                    *)
(***************************************************************************)
EXTENDS AccountingProofs

USE DEF roles, config, totals, daily, yield, clock

-----------------------------------------------------------------------------
(* The calls that move a claim, a record or the points.                    *)

\* A call that moves none of them: at most a vault call moves the funds.
Quiet ==
    /\ UNCHANGED <<stakes, points_balance, claims, daily, total_allocated>>
    /\ \/ VaultCall /\ pool_cap' = pool_cap
       \/ /\ UNCHANGED <<total_staked, deployed_xlm, deploy_bps>> /\ liquid' >= liquid
          /\ pool_cap' = pool_cap \/ total_staked' <= pool_cap'

\* A wallet stakes.
Deposits(w) ==
    \E a \in StakeAmounts, b \in Beneficiaries : may_stake(w) /\ stake(w, a, b)

\* A wallet leaves, at leisure or in an emergency.
Exits(w) == emergency_exit(w) \/ \E b \in Beneficiaries : withdraw(w, b)

\* A record is marked and nothing else: its beneficiary, a suspension.
Marks(w) ==
    \/ \E b \in Beneficiaries : set_beneficiary(w, b)
    \/ /\ "suspend_stake" \in Calls
       /\ \/ suspend_stake(w)
          \/ \E id \in ClaimIds \cup {None} : unsuspend_stake(w, id)

\* A verdict is submitted, by the oracle, the admin or on a signed approval.
Submits(v) ==
    \E caller \in Addresses, d \in Deadlines \cup {0}, k \in Pubkeys \cup {None} :
        submit_claim(caller, v, d, k)

\* The sweeps, the staker's decision and the admin's cancellation.
Settles(id) ==
    \/ try_release_queued_claim(id) \/ expire_queued_claim(id)
    \/ unlock_pending_claim(id) \/ approve_claim(id)
    \/ expire_pending_approval(id) \/ expire_stale_claim(id) \/ cancel_claim(id)

\* A claim is paid.
Streams(id) == \E b \in Beneficiaries : claim_stream(id, b)

\* The call that completes a pair of approvals.
Executes(id) ==
    /\ require_not_paused
    /\ \E req \in OverrideRequest : execute_override(id, req)
    /\ overrides' = [overrides EXCEPT ![id] = None]
    /\ UNCHANGED <<roles, config, daily, revoked, yield, liquid, clock>>
    /\ RoleSeparation => overrides[id] # None

\* An override that completes its pair.
LEMMA OverrideExecutes ==
    ASSUME TypeOK, OverrideCall
    PROVE  Quiet \/ \E id \in ClaimIds : Executes(id)
<1>1. ASSUME NEW id \in ClaimIds, cancel_pending_override(id)
      PROVE  Quiet
    BY <1>1 DEF cancel_pending_override, Quiet, TypeOK
<1>2. ASSUME NEW caller \in {admin, co_signer}, NEW t \in OverrideTerms,
             approve_override_pending(caller, t)
      PROVE  Quiet
    BY <1>2 DEF approve_override_pending, Quiet, TypeOK
<1>3. ASSUME NEW caller \in {admin, co_signer}, NEW t \in OverrideTerms,
             approve_override_executed(caller, t)
      PROVE  \E id \in ClaimIds : Executes(id)
    <2> DEFINE tid == compute_claim_id(t)
               req == approved_by(caller, tid, t)
    <2>1. tid \in ClaimIds /\ t.entitlement \in Nat /\ t.tier \in Tiers
        BY CallInputsAssumption DEF compute_claim_id, ClaimIds
    <2>2. req \in OverrideRequest
        BY <2>1, ApprovedByType
    <2>3. /\ override_ready(req) /\ execute_override(tid, req) /\ require_not_paused
          /\ overrides' = [overrides EXCEPT ![tid] = None]
          /\ UNCHANGED <<roles, config, daily, revoked, yield, liquid, clock>>
        BY <1>3 DEF approve_override_executed, approve_override_checks
    <2>4. RoleSeparation => overrides[tid] # None
        BY <2>1, <2>3, PairWasRecorded
    <2> HIDE DEF tid, req
    <2> QED
        BY <2>1, <2>2, <2>3, <2>4 DEF Executes
<1> QED
    BY <1>1, <1>2, <1>3 DEF OverrideCall, approve_override

\* Administration that moves neither claim nor record.
LEMMA AsideQuiet ==
    ASSUME TypeOK,
           \/ \E v \in Verdicts, d \in Deadlines : revoke_approval(v, d)
           \/ pause \/ unpause
           \/ \E c \in PoolCaps : set_pool_cap(c)
           \/ RotationCall \/ DonationCall \/ Tick \/ UNCHANGED vars
    PROVE  Quiet
<1>1. liquid \in Nat /\ total_staked \in Int
    BY DEF TypeOK
<1>2. CASE DonationCall
    <2>1. PICK a \in DonationAmounts : donate(a)
        BY <1>2 DEF DonationCall
    <2>2. a \in Nat
        BY CallInputsAssumption
    <2> QED
        BY <1>1, <2>1, <2>2 DEF donate, unchanged_by_vault, Quiet
<1>3. CASE \E c \in PoolCaps : set_pool_cap(c)
    BY <1>1, <1>3, CallInputsAssumption DEF set_pool_cap, Quiet
<1>4. CASE \/ \E v \in Verdicts, d \in Deadlines : revoke_approval(v, d)
           \/ pause \/ unpause \/ Tick \/ UNCHANGED vars
    <2>1. UNCHANGED <<stakes, points_balance, claims, daily, totals, yield, liquid, pool_cap>>
        BY <1>4 DEF revoke_approval, pause, unpause, set_paused, Tick, vars
    <2> QED
        BY <1>1, <2>1 DEF Quiet
<1>5. CASE RotationCall
    BY <1>1, <1>5 DEF RotationCall, transfer_admin, set_oracle, set_co_signer,
       set_oracle_pubkey, set_oracle_identity, unchanged_but_roles, Quiet
<1> QED
    BY <1>2, <1>3, <1>4, <1>5

\* Every step, by the claim or record it moves.
LEMMA Steps ==
    ASSUME TypeOK, [Next]_vars
    PROVE  \/ Quiet
           \/ \E w \in Wallets : Deposits(w) \/ Exits(w) \/ Marks(w)
           \/ \E v \in Verdicts : Submits(v)
           \/ \E id \in ClaimIds : Settles(id) \/ Streams(id) \/ Executes(id)
<1>1. oracle \in Addresses /\ admin \in Addresses
    BY DEF TypeOK
<1>2. CASE StakerCall
    BY <1>2 DEF StakerCall, Deposits, Exits, Marks, Settles, Streams
<1>3. CASE OracleCall
    BY <1>1, <1>3 DEF OracleCall, Submits
<1>4. CASE AnyoneCall
    BY <1>4 DEF AnyoneCall, Settles
<1>5. CASE AdminCall
    BY <1>1, <1>5, AsideQuiet DEF AdminCall, Submits, Settles, Marks
<1>6. CASE OverrideCall
    BY <1>6, OverrideExecutes
<1>7. CASE VaultCall
    BY <1>7 DEF VaultCall, set_vault, set_treasury, set_deploy_bps, deploy_to_vault,
       auto_deploy_liquidity, deposit, ensure_liquidity, provide_liquidity, extract_yield,
       redeem, withdraw_yield, unchanged_by_vault, Quiet
<1>8. CASE RotationCall \/ DonationCall \/ Tick \/ UNCHANGED vars
    BY <1>8, AsideQuiet
<1> QED
    BY <1>2, <1>3, <1>4, <1>5, <1>6, <1>7, <1>8 DEF Next

-----------------------------------------------------------------------------
(* The slots never dangle.                                                 *)

\* The active slot `a` and the queue slot `r` of wallet w, read in the claims c.
SlotsOK(w, a, r, c) ==
    /\ a # None => a \in ClaimsOf(w) /\ c[a].status \in Live \cup {"Completed"}
    /\ r # None => r \in ClaimsOf(w) /\ c[r].status = "Reserved"

\* A step on one claim and its wallet's record: each slot is emptied, taken by
\* that claim, or kept.
LEMMA LocalPoints ==
    ASSUME SlotsPointToClaims, NEW id \in ClaimIds, Only(id), OnlyRecord(id[1]),
           \/ stakes'[id[1]].active_claim_id \in {None, id}
           \/ stakes'[id[1]].active_claim_id = stakes[id[1]].active_claim_id,
           \/ stakes'[id[1]].reserved_claim_id \in {None, id}
           \/ stakes'[id[1]].reserved_claim_id = stakes[id[1]].reserved_claim_id,
           stakes'[id[1]].active_claim_id = id =>
              claims'[id].status \in Live \cup {"Completed"},
           stakes'[id[1]].reserved_claim_id = id => claims'[id].status = "Reserved"
    PROVE  SlotsPointToClaims'
<1> SUFFICES ASSUME NEW w \in Wallets
             PROVE  SlotsOK(w, stakes'[w].active_claim_id, stakes'[w].reserved_claim_id, claims')
    BY DEF SlotsPointToClaims, SlotsOK, ClaimsOf
<1>1. SlotsOK(w, stakes[w].active_claim_id, stakes[w].reserved_claim_id, claims)
    BY DEF SlotsPointToClaims, SlotsOK
<1>2. CASE w = id[1]
    BY <1>1, <1>2 DEF SlotsOK, ClaimsOf, Only
<1>3. CASE w # id[1]
    BY <1>1, <1>3 DEF SlotsOK, ClaimsOf, Only, OnlyRecord
<1> QED
    BY <1>2, <1>3

\* A step that moves no status, and no slot but to empty both.
LEMMA KeptPoints ==
    ASSUME SlotsPointToClaims,
           \A i \in ClaimIds : claims'[i].status = claims[i].status,
           \A w \in Wallets :
              \/ /\ stakes'[w].active_claim_id = stakes[w].active_claim_id
                 /\ stakes'[w].reserved_claim_id = stakes[w].reserved_claim_id
              \/ stakes'[w].active_claim_id = None /\ stakes'[w].reserved_claim_id = None
    PROVE  SlotsPointToClaims'
<1> SUFFICES ASSUME NEW w \in Wallets
             PROVE  SlotsOK(w, stakes'[w].active_claim_id, stakes'[w].reserved_claim_id, claims')
    BY DEF SlotsPointToClaims, SlotsOK, ClaimsOf
<1>1. SlotsOK(w, stakes[w].active_claim_id, stakes[w].reserved_claim_id, claims)
    BY DEF SlotsPointToClaims, SlotsOK
<1> QED
    BY <1>1 DEF SlotsOK, ClaimsOf

\* The staker's own calls and the suspensions move no claim's status.
LEMMA RecordPoints ==
    ASSUME TypeOK, SlotsPointToClaims, NEW w \in Wallets, Deposits(w) \/ Exits(w) \/ Marks(w)
    PROVE  SlotsPointToClaims'
<1>1. stakes[w] \in StakeRecord
    BY DEF TypeOK
<1>2. CASE Deposits(w)
    <2>1. PICK a \in StakeAmounts, b \in Beneficiaries : stake(w, a, b)
        BY <1>2 DEF Deposits
    <2>2. claims' = claims /\ OnlyRecord(w)
        BY <2>1 DEF stake, TypeOK, OnlyRecord
    <2>3. stakes'[w].active_claim_id = None /\ stakes'[w].reserved_claim_id = None
        BY <2>1 DEF stake, TypeOK, EmptyStake
    <2> QED
        BY <2>2, <2>3, KeptPoints DEF OnlyRecord
<1>3. CASE Exits(w) \/ Marks(w)
    <2>1. \A i \in ClaimIds : claims'[i].status = claims[i].status
        BY <1>3, UnsuspendEffect DEF Exits, Marks, set_beneficiary, withdraw, emergency_exit,
           suspend_stake
    <2>2. OnlyRecord(w)
        BY <1>3 DEF Exits, Marks, set_beneficiary, withdraw, emergency_exit, close_stake,
           suspend_stake, unsuspend_stake, TypeOK, OnlyRecord
    <2>3. /\ stakes'[w].active_claim_id = stakes[w].active_claim_id
          /\ stakes'[w].reserved_claim_id = stakes[w].reserved_claim_id
        BY <1>1, <1>3 DEF Exits, Marks, set_beneficiary, withdraw, emergency_exit, close_stake,
           suspend_stake, unsuspend_stake, TypeOK, StakeRecord
    <2> QED
        BY <2>1, <2>2, <2>3, KeptPoints DEF OnlyRecord
<1> QED
    BY <1>2, <1>3

\* Admission takes the active slot and empties the queue slot.
LEMMA AdmitPoints ==
    ASSUME TypeOK, SlotsPointToClaims, NEW id \in ClaimIds, NEW e, NEW tier, NEW h, NEW counted,
           admit_claim(id, e, tier, h, counted)
    PROVE  SlotsPointToClaims'
<1>1. id[1] \in Wallets /\ stakes[id[1]] \in StakeRecord /\ id # None
    BY ClaimIdWallet, InputsAssumption DEF TypeOK
<1>2. Only(id) /\ claims'[id].status \in {"PendingTime", "AwaitingApproval"}
    BY DEF admit_claim, new_claim, TypeOK, Only
<1>3. /\ OnlyRecord(id[1])
      /\ stakes'[id[1]].active_claim_id = id /\ stakes'[id[1]].reserved_claim_id = None
    BY <1>1 DEF admit_claim, TypeOK, StakeRecord, OnlyRecord
<1> QED
    BY <1>1, <1>2, <1>3, LocalPoints DEF Live

\* A submission takes the one slot or the other, both empty before.
LEMMA SubmitPoints ==
    ASSUME TypeOK, SlotsPointToClaims, NEW v \in Verdicts, Submits(v)
    PROVE  SlotsPointToClaims'
<1> DEFINE id == compute_claim_id(v)
<1>1. id \in ClaimIds /\ id[1] = v.wallet /\ v.wallet \in Wallets /\ id # None
    BY VerdictFields, InputsAssumption
<1>2. stakes[id[1]] \in StakeRecord
    BY <1>1 DEF TypeOK
<1>3. PICK caller \in Addresses, d \in Deadlines \cup {0}, k \in Pubkeys \cup {None} :
        submit_claim(caller, v, d, k)
    BY DEF Submits
<1>4. CASE submit_claim_admitted(caller, v, d, k)
    BY <1>1, <1>4, AdmitPoints DEF submit_claim_admitted
<1>5. CASE submit_claim_queued(caller, v, d, k)
    <2>1. Only(id) /\ claims'[id].status = "Reserved"
        BY <1>1, <1>5 DEF submit_claim_queued, new_claim, TypeOK, Only
    <2>2. /\ OnlyRecord(id[1])
          /\ stakes'[id[1]].reserved_claim_id = id /\ stakes'[id[1]].active_claim_id = None
        BY <1>1, <1>2, <1>5 DEF submit_claim_queued, submit_checks, TypeOK, StakeRecord, OnlyRecord
    <2> QED
        BY <1>1, <2>1, <2>2, LocalPoints
<1> QED
    BY <1>3, <1>4, <1>5 DEF submit_claim

\* The sweeps, the staker's approval and the admin's cancellation.
LEMMA SettlePoints ==
    ASSUME TypeOK, SlotsPointToClaims, NEW id \in ClaimIds, Settles(id)
    PROVE  SlotsPointToClaims'
<1>1. /\ id[1] \in Wallets /\ stakes[id[1]] \in StakeRecord /\ claims[id] \in Claim
      /\ id # None
    BY ClaimIdWallet, InputsAssumption DEF TypeOK
<1>2. /\ stakes[id[1]].active_claim_id = id => claims[id].status \in Live \cup {"Completed"}
      /\ stakes[id[1]].reserved_claim_id = id => claims[id].status = "Reserved"
    BY <1>1 DEF SlotsPointToClaims
<1>3. CASE try_release_queued_claim(id)
    BY <1>3, AdmitPoints DEF try_release_queued_claim
<1>4. CASE expire_queued_claim(id)
    <2>1. Only(id) /\ claims[id].status = "Reserved"
        BY <1>1, <1>4 DEF expire_queued_claim, TypeOK, Only
    <2>2. /\ OnlyRecord(id[1]) /\ stakes'[id[1]].reserved_claim_id = None
          /\ stakes'[id[1]].active_claim_id = stakes[id[1]].active_claim_id
        BY <1>1, <1>4 DEF expire_queued_claim, TypeOK, StakeRecord, OnlyRecord
    <2> QED
        BY <1>1, <1>2, <2>1, <2>2, LocalPoints DEF Live
<1>5. CASE unlock_pending_claim(id)
    <2>1. /\ Only(id) /\ claims[id].status = "PendingTime" /\ stakes' = stakes
          /\ claims'[id].status = "AwaitingApproval"
        BY <1>1, <1>5 DEF unlock_pending_claim, TypeOK, Claim, Only
    <2> QED
        BY <1>2, <2>1, LocalPoints DEF OnlyRecord, Live
<1>6. CASE approve_claim(id)
    <2>1. Only(id) /\ claims[id].status = "AwaitingApproval" /\ claims'[id].status = "Active"
        BY <1>1, <1>6 DEF approve_claim, activate_claim, start_clocks, TypeOK, Claim, Only
    <2>2. /\ OnlyRecord(id[1])
          /\ stakes'[id[1]].reserved_claim_id = stakes[id[1]].reserved_claim_id
          /\ stakes'[id[1]].active_claim_id = stakes[id[1]].active_claim_id
        BY <1>1, <1>6 DEF approve_claim, activate_claim, forfeited, TypeOK, StakeRecord, OnlyRecord
    <2> QED
        BY <1>2, <2>1, <2>2, LocalPoints DEF Live
<1>7. CASE expire_pending_approval(id) \/ expire_stale_claim(id) \/ cancel_claim(id)
    <2>1. Only(id) /\ claims[id].status \in Live
        BY <1>1, <1>7 DEF expire_pending_approval, expire_stale_claim, cancel_claim,
           cancel_active, cancel_unforfeited, release_claim, TypeOK, Only, Live
    <2>2. /\ OnlyRecord(id[1]) /\ stakes'[id[1]].active_claim_id = None
          /\ stakes'[id[1]].reserved_claim_id = stakes[id[1]].reserved_claim_id
        BY <1>1, <1>7 DEF expire_pending_approval, expire_stale_claim, cancel_claim,
           cancel_active, cancel_unforfeited, free_slot, TypeOK, StakeRecord, OnlyRecord
    <2> QED
        BY <1>1, <1>2, <2>1, <2>2, LocalPoints DEF Live
<1> QED
    BY <1>3, <1>4, <1>5, <1>6, <1>7 DEF Settles

\* A payout leaves the slot to the claim it may have completed.
LEMMA StreamPoints ==
    ASSUME TypeOK, SlotsPointToClaims, NEW id \in ClaimIds, Streams(id)
    PROVE  SlotsPointToClaims'
<1>1. PICK b \in Beneficiaries : claim_stream(id, b)
    BY DEF Streams
<1>2. /\ Only(id) /\ stakes' = stakes /\ claims[id].status = "Active"
      /\ claims'[id].status \in {"Active", "Completed"}
    BY <1>1, StreamEffect DEF claim_stream, Only
<1>3. stakes[id[1]].reserved_claim_id = id => claims[id].status = "Reserved"
    BY ClaimIdWallet, InputsAssumption DEF SlotsPointToClaims
<1> QED
    BY <1>2, <1>3, LocalPoints DEF OnlyRecord, Live

\* An override takes the active slot, and empties the queue slot if it is its
\* own claim that waits there.
LEMMA ExecutePoints ==
    ASSUME TypeOK, SlotsPointToClaims, NEW id \in ClaimIds, NEW req \in OverrideRequest,
           execute_override(id, req)
    PROVE  SlotsPointToClaims'
<1>1. id[1] \in Wallets /\ stakes[id[1]] \in StakeRecord /\ id # None
    BY ClaimIdWallet, InputsAssumption DEF TypeOK
<1>2. Only(id) /\ claims'[id].status = "Active"
    BY ExecuteEffect DEF Only
<1> DEFINE q == IF stakes[id[1]].reserved_claim_id = id THEN None
                ELSE stakes[id[1]].reserved_claim_id
           r == override_record(id)
<1>3. /\ r.active_claim_id = id /\ r.reserved_claim_id = q
      /\ forfeited(r).active_claim_id = id /\ forfeited(r).reserved_claim_id = q
    BY <1>1 DEF override_record, forfeited, StakeRecord
<1>4. PICK s \in {r, forfeited(r)} : stakes' = [stakes EXCEPT ![id[1]] = s]
    BY DEF execute_override, activate_claim
<1> HIDE DEF r, q
<1>5. OnlyRecord(id[1]) /\ stakes'[id[1]].active_claim_id = id /\ stakes'[id[1]].reserved_claim_id = q
    BY <1>1, <1>3, <1>4 DEF TypeOK, OnlyRecord
<1> QED
    BY <1>1, <1>2, <1>5, LocalPoints DEF Live, q

\* A wallet's slots always name claims of that wallet, live or completed in
\* the active slot and queued in the other, for every sequence of submissions,
\* releases, sweeps, overrides, exits and new deposits: the guards that test
\* the slots instead of the claims read true (stake, submit_claim,
\* try_release_queued_claim, execute_override).
THEOREM SlotsNeverDangle == Spec => []SlotsPointToClaims
<1>1. Init => SlotsPointToClaims
    BY DEF Init, SlotsPointToClaims, EmptyStake
<1>2. TypeOK /\ SlotsPointToClaims /\ [Next]_vars => SlotsPointToClaims'
    <2> SUFFICES ASSUME TypeOK, SlotsPointToClaims, [Next]_vars
                 PROVE  SlotsPointToClaims'
        OBVIOUS
    <2>1. CASE Quiet
        BY <2>1, KeptPoints DEF Quiet
    <2>2. ASSUME NEW w \in Wallets, Deposits(w) \/ Exits(w) \/ Marks(w)
          PROVE  SlotsPointToClaims'
        BY <2>2, RecordPoints
    <2>3. ASSUME NEW v \in Verdicts, Submits(v)
          PROVE  SlotsPointToClaims'
        BY <2>3, SubmitPoints
    <2>4. ASSUME NEW id \in ClaimIds, Settles(id) \/ Streams(id) \/ Executes(id)
          PROVE  SlotsPointToClaims'
        BY <2>4, SettlePoints, StreamPoints, ExecutePoints DEF Executes
    <2> QED
        BY <2>1, <2>2, <2>3, <2>4, Steps
<1> QED
    BY <1>1, <1>2, TypeCorrect, PTL DEF Spec

-----------------------------------------------------------------------------
(* The circuit breaker.                                                    *)

\* While paused, liquid XLM leaves through a vault call only as counted yield.
LEMMA PausedVault ==
    ASSUME TypeOK, paused, VaultCall, liquid' < liquid
    PROVE  extracted_yield' - extracted_yield >= liquid - liquid'
<1>1. liquid \in Nat /\ extracted_yield \in Nat
    BY DEF TypeOK
<1>2. ASSUME NEW received \in Nat, NEW x \in Nat, liquid' = liquid + received - x,
             extracted_yield' = extracted_yield + x
      PROVE  extracted_yield' - extracted_yield >= liquid - liquid'
    <2>1. ASSUME NEW l \in Int, NEW e \in Int, l = liquid + received - x, e = extracted_yield + x
          PROVE  e - extracted_yield >= liquid - l
        BY <1>1, <2>1
    <2> QED
        BY <1>1, <1>2, <2>1
<1>3. ASSUME NEW shares, NEW received \in RedeemedXlm, NEW out, NEW x \in Nat,
             redeem(shares, received, out, x)
      PROVE  extracted_yield' - extracted_yield >= liquid - liquid'
    BY <1>2, <1>3, VaultAssumption DEF redeem
<1>4. CASE ensure_liquidity
    BY <1>3, <1>4 DEF ensure_liquidity
<1>5. ASSUME NEW s \in ShareAmounts, NEW m \in MinOuts, provide_liquidity(s, m)
      PROVE  extracted_yield' - extracted_yield >= liquid - liquid'
    BY <1>3, <1>5 DEF provide_liquidity
<1>6. ASSUME NEW s \in ShareAmounts, NEW m \in MinOuts, extract_yield(s, m)
      PROVE  extracted_yield' - extracted_yield >= liquid - liquid'
    <2>1. s \in Nat
        BY CallInputsAssumption
    <2>2. PICK received \in RedeemedXlm :
            redeem(s, received, m, MaxOf(received - principal_equiv(s), 0))
        BY <1>6 DEF extract_yield
    <2>3. principal_equiv(s) \in Nat /\ received \in Nat
        BY <2>1, <2>2, PrincipalEquivBounded, VaultAssumption DEF redeem
    <2>4. MaxOf(received - principal_equiv(s), 0) \in Nat
        BY <2>3 DEF MaxOf
    <2> QED
        BY <1>3, <2>2, <2>4
<1>7. ASSUME NEW a \in YieldAmounts, withdraw_yield(a)
      PROVE  extracted_yield' - extracted_yield >= liquid - liquid'
    <2>1. a \in Nat
        BY CallInputsAssumption
    <2>2. liquid' = liquid + 0 - a /\ extracted_yield' = extracted_yield + a
        BY <1>1, <1>7, <2>1 DEF withdraw_yield
    <2> QED
        BY <1>2, <2>1, <2>2
<1>8. ASSUME NEW a, set_vault(a) \/ set_treasury(a) \/ set_deploy_bps(a)
      PROVE  FALSE
    BY <1>1, <1>8 DEF set_vault, set_treasury, set_deploy_bps
<1>9. ~auto_deploy_liquidity /\ \A a \in DeployAmounts, m \in MinOuts : ~deploy_to_vault(a, m)
    BY DEF auto_deploy_liquidity, deploy_to_vault
<1> QED
    BY <1>4, <1>5, <1>6, <1>7, <1>8, <1>9 DEF VaultCall

\* What a call does while the pool is paused.
LEMMA PausedStep ==
    ASSUME TypeOK, [Next]_vars, paused
    PROVE  /\ \A id \in ClaimIds :
                 /\ claims'[id].streamed = claims[id].streamed
                 /\ claims'[id].status # claims[id].status =>
                       claims'[id].status \in {"Cancelled", "Expired"}
           /\ liquid' < liquid =>
                 \/ extracted_yield' - extracted_yield >= liquid - liquid'
                 \/ \E w \in Wallets :
                       /\ holds_stake(stakes[w]) /\ stakes[w].active_claim_id = None
                       /\ ~holds_stake(stakes'[w])
                       /\ liquid' = liquid - stakes[w].amount
<1> DEFINE Calm == \A id \in ClaimIds :
                      /\ claims'[id].streamed = claims[id].streamed
                      /\ claims'[id].status # claims[id].status =>
                            claims'[id].status \in {"Cancelled", "Expired"}
           Drained == \/ extracted_yield' - extracted_yield >= liquid - liquid'
                      \/ \E w \in Wallets :
                            /\ holds_stake(stakes[w]) /\ stakes[w].active_claim_id = None
                            /\ ~holds_stake(stakes'[w])
                            /\ liquid' = liquid - stakes[w].amount
<1> SUFFICES Calm /\ (liquid' < liquid => Drained)
    OBVIOUS
<1>1. liquid \in Nat
    BY DEF TypeOK
<1>2. ASSUME liquid' = liquid PROVE ~(liquid' < liquid)
    BY <1>1, <1>2
<1>3. CASE Quiet
    <2>1. Calm
        BY <1>3 DEF Quiet
    <2>2. ASSUME liquid' >= liquid, liquid' < liquid, liquid' \in Int PROVE FALSE
        BY <1>1, <2>2
    <2>3. liquid' \in Int
        BY StepType DEF TypeOK
    <2>4. ASSUME liquid' < liquid PROVE extracted_yield' - extracted_yield >= liquid - liquid'
        BY <1>3, <2>2, <2>3, <2>4, PausedVault DEF Quiet
    <2> QED
        BY <2>1, <2>4
<1>4. ASSUME NEW w \in Wallets, Deposits(w) PROVE FALSE
    BY <1>4 DEF Deposits, stake, require_not_paused
<1>5. ASSUME NEW w \in Wallets, Exits(w) PROVE Calm /\ Drained
    <2>1. emergency_exit(w)
        BY <1>5 DEF Exits, withdraw, require_not_paused
    <2>2. /\ claims' = claims
          /\ holds_stake(stakes[w]) /\ stakes[w].active_claim_id = None
          /\ liquid' = liquid - stakes[w].amount
        BY <2>1 DEF emergency_exit, close_stake
    <2>3. ~holds_stake(stakes'[w])
        BY <2>1 DEF emergency_exit, close_stake, holds_stake, TypeOK, StakeRecord
    <2>4. \E u \in Wallets : /\ holds_stake(stakes[u]) /\ stakes[u].active_claim_id = None
                             /\ ~holds_stake(stakes'[u])
                             /\ liquid' = liquid - stakes[u].amount
        BY <2>2, <2>3
    <2> QED
        BY <2>2, <2>4
<1>6. ASSUME NEW w \in Wallets, Marks(w) PROVE Calm /\ liquid' = liquid
    <2>1. liquid' = liquid
        BY <1>6 DEF Marks, set_beneficiary, suspend_stake, unsuspend_stake
    <2>2. Calm
        BY <1>6, UnsuspendEffect DEF Marks, set_beneficiary, suspend_stake
    <2> QED
        BY <2>1, <2>2
<1>7. ASSUME NEW v \in Verdicts, Submits(v) PROVE FALSE
    BY <1>7 DEF Submits, submit_claim, submit_claim_queued, submit_claim_admitted,
       submit_checks, require_not_paused
<1>8. ASSUME NEW id \in ClaimIds, Settles(id) PROVE Calm /\ liquid' = liquid
    <2>1. expire_pending_approval(id) \/ expire_stale_claim(id) \/ cancel_claim(id)
        BY <1>8 DEF Settles, try_release_queued_claim, expire_queued_claim,
           unlock_pending_claim, approve_claim, require_not_paused
    <2>2. liquid' = liquid /\ claims[id] \in Claim
        BY <2>1 DEF expire_pending_approval, expire_stale_claim, cancel_claim, TypeOK
    <2>3. PICK s \in {"Cancelled", "Expired"} : claims' = [claims EXCEPT ![id].status = s]
        BY <2>1 DEF expire_pending_approval, expire_stale_claim, cancel_claim, release_claim
    <2>4. /\ \A i \in ClaimIds : i # id => claims'[i] = claims[i]
          /\ claims'[id].streamed = claims[id].streamed /\ claims'[id].status = s
        BY <2>2, <2>3 DEF TypeOK, Claim
    <2> QED
        BY <2>2, <2>4
<1>9. ASSUME NEW id \in ClaimIds, Streams(id) \/ Executes(id) PROVE FALSE
    BY <1>9 DEF Streams, claim_stream, Executes, require_not_paused
<1> HIDE DEF Calm, Drained
<1> QED
    BY <1>2, <1>3, <1>4, <1>5, <1>6, <1>7, <1>8, <1>9, Steps

\* While the circuit breaker is on, no claim is queued, admitted, activated or
\* paid, whoever calls what: claims can only end, and the pool's liquid XLM
\* falls only by a staker's own principal or by yield that is counted as
\* extracted (require_not_paused, and the calls that deliberately omit it).
THEOREM PauseStopsPayouts == Spec => PausedFreezesPayouts
<1>1. TypeOK /\ [Next]_vars =>
        (paused =>
          /\ \A id \in ClaimIds :
                /\ claims'[id].streamed = claims[id].streamed
                /\ claims'[id].status # claims[id].status =>
                      claims'[id].status \in {"Cancelled", "Expired"}
          /\ liquid' < liquid =>
                \/ extracted_yield' - extracted_yield >= liquid - liquid'
                \/ \E w \in Wallets :
                      /\ holds_stake(stakes[w]) /\ stakes[w].active_claim_id = None
                      /\ ~holds_stake(stakes'[w])
                      /\ liquid' = liquid - stakes[w].amount)
    BY PausedStep
<1> QED
    BY <1>1, TypeCorrect, PTL DEF Spec, PausedFreezesPayouts

-----------------------------------------------------------------------------
(* Suspension.                                                             *)

\* How a call moves a claim that a suspended wallet already has.
LEMMA SuspendedStep ==
    ASSUME TypeOK, RoleSeparation, [Next]_vars, NEW id \in ClaimIds,
           stakes[id[1]].suspended, claims'[id] # claims[id]
    PROVE  \/ claims[id].status \in {"Unused", "Reserved", "PendingTime"}
           \/ claims'[id].status = "Cancelled"
           \/ overrides'[id] # overrides[id]
           \/ ~stakes'[id[1]].suspended /\ claims'[id].status = claims[id].status
<1> DEFINE Allowed == \/ claims[id].status \in {"Unused", "Reserved", "PendingTime"}
                      \/ claims'[id].status = "Cancelled"
                      \/ overrides'[id] # overrides[id]
                      \/ ~stakes'[id[1]].suspended /\ claims'[id].status = claims[id].status
<1> SUFFICES Allowed
    OBVIOUS
<1>1. id[1] \in Wallets /\ claims[id] \in Claim /\ overrides \in [ClaimIds -> OverrideRequest \cup {None}]
    BY ClaimIdWallet DEF TypeOK
<1>2. ~Quiet
    BY DEF Quiet
<1>3. ASSUME NEW w \in Wallets, Deposits(w) \/ Exits(w) PROVE FALSE
    BY <1>3 DEF Deposits, Exits, stake, withdraw, emergency_exit
<1>4. ASSUME NEW w \in Wallets, Marks(w) PROVE Allowed
    <2>1. PICK i \in ClaimIds \cup {None} : unsuspend_stake(w, i)
        BY <1>4 DEF Marks, set_beneficiary, suspend_stake
    <2>2. id[1] = w
        BY <2>1 DEF unsuspend_stake
    <2>3. ~stakes'[w].suspended
        BY <2>1 DEF unsuspend_stake, TypeOK, StakeRecord
    <2>4. claims'[id].status = claims[id].status
        BY <2>1, UnsuspendEffect
    <2> QED
        BY <2>2, <2>3, <2>4
<1>5. ASSUME NEW v \in Verdicts, Submits(v) PROVE Allowed
    <2>1. PICK caller \in Addresses, d \in Deadlines \cup {0}, k \in Pubkeys \cup {None} :
            submit_claim(caller, v, d, k)
        BY <1>5 DEF Submits
    <2>2. id = compute_claim_id(v)
        BY <2>1, SubmitEffect
    <2>3. claims[id].status = "Unused"
        BY <2>1, <2>2 DEF submit_claim, submit_claim_queued, submit_claim_admitted, submit_checks
    <2> QED
        BY <2>3
<1>6. ASSUME NEW i \in ClaimIds, Settles(i) PROVE Allowed
    <2>1. CASE i # id
        BY <1>6, <2>1 DEF Settles, try_release_queued_claim, admit_claim, expire_queued_claim,
           unlock_pending_claim, approve_claim, activate_claim, expire_pending_approval,
           expire_stale_claim, cancel_claim, release_claim, TypeOK
    <2>2. CASE i = id
        <3>1. CASE cancel_claim(id)
            BY <1>1, <3>1 DEF cancel_claim, release_claim, TypeOK, Claim
        <3>2. ~approve_claim(id) /\ ~expire_pending_approval(id) /\ ~expire_stale_claim(id)
            BY DEF approve_claim, expire_pending_approval, expire_stale_claim, not_suspended
        <3>3. CASE try_release_queued_claim(id) \/ expire_queued_claim(id) \/ unlock_pending_claim(id)
            BY <3>3 DEF try_release_queued_claim, expire_queued_claim, unlock_pending_claim
        <3> QED
            BY <1>6, <2>2, <3>1, <3>2, <3>3 DEF Settles
    <2> QED
        BY <2>1, <2>2
<1>7. ASSUME NEW i \in ClaimIds, Streams(i) PROVE FALSE
    <2>1. PICK b \in Beneficiaries : claim_stream(i, b)
        BY <1>7 DEF Streams
    <2>2. i = id
        BY <2>1, StreamEffect
    <2> QED
        BY <2>1, <2>2 DEF claim_stream, not_suspended
<1>8. ASSUME NEW i \in ClaimIds, Executes(i) PROVE Allowed
    <2>1. i = id
        BY <1>8, ExecuteEffect DEF Executes
    <2>2. overrides[id] # None /\ overrides'[id] = None
        BY <1>1, <1>8, <2>1 DEF Executes
    <2> QED
        BY <2>2
<1> HIDE DEF Allowed
<1> QED
    BY <1>2, <1>3, <1>4, <1>5, <1>6, <1>7, <1>8, Steps

\* A suspended wallet's claim is neither approved, paid nor swept, by anyone:
\* once it is past the time gate it moves only by the admin's cancel_claim or
\* by an override that two parties signed (approve_claim, claim_stream,
\* expire_pending_approval, expire_stale_claim, unsuspend_stake).
THEOREM SuspensionFreezesClaims == Spec => SuspendedClaimIsFrozen
<1>1. TypeOK /\ RoleSeparation /\ [Next]_vars =>
        \A id \in ClaimIds :
          stakes[id[1]].suspended /\ claims'[id] # claims[id] =>
            \/ claims[id].status \in {"Unused", "Reserved", "PendingTime"}
            \/ claims'[id].status = "Cancelled"
            \/ overrides'[id] # overrides[id]
            \/ ~stakes'[id[1]].suspended /\ claims'[id].status = claims[id].status
    BY SuspendedStep
<1> QED
    BY <1>1, TypeCorrect, RolesSeparated, PTL DEF Spec, SuspendedClaimIsFrozen

-----------------------------------------------------------------------------
(* The lock on a stake given back.                                         *)

\* What a call may do to a wallet's points.
LEMMA PointsStep ==
    ASSUME TypeOK, [Next]_vars, NEW w \in Wallets
    PROVE  \/ points_balance'[w] = points_balance[w]
           \/ points_balance'[w] = 0 /\ stakes'[w].withdrawn
           \/ \E b \in Beneficiaries : withdraw(w, b)
<1>1. points_balance \in [Wallets -> Nat] /\ stakes \in [Wallets -> StakeRecord]
    BY DEF TypeOK
<1>2. ASSUME NEW u \in Wallets, Deposits(u) \/ Marks(u) PROVE points_balance' = points_balance
    BY <1>2 DEF Deposits, Marks, stake, set_beneficiary, suspend_stake, unsuspend_stake
<1>3. ASSUME NEW u \in Wallets, Exits(u)
      PROVE  points_balance'[w] = points_balance[w] \/ \E b \in Beneficiaries : withdraw(w, b)
    BY <1>1, <1>3 DEF Exits, emergency_exit, withdraw
<1>4. ASSUME NEW v \in Verdicts, Submits(v) PROVE points_balance' = points_balance
    BY <1>4 DEF Submits, submit_claim, submit_claim_queued, submit_claim_admitted, admit_claim
<1>5. ASSUME NEW id \in ClaimIds, NEW record \in StakeRecord, NEW claim, activate_claim(id, record, claim)
      PROVE  \/ points_balance'[w] = points_balance[w]
             \/ points_balance'[w] = 0 /\ stakes'[w].withdrawn
    BY <1>1, <1>5, ClaimIdWallet DEF activate_claim, burn_points, forfeited, StakeRecord
<1>6. ASSUME NEW id \in ClaimIds, Settles(id)
      PROVE  \/ points_balance'[w] = points_balance[w]
             \/ points_balance'[w] = 0 /\ stakes'[w].withdrawn
    <2>1. CASE approve_claim(id)
        <3>1. stakes[id[1]] \in StakeRecord /\ activate_claim(id, stakes[id[1]], claims[id])
            BY <1>1, <2>1, ClaimIdWallet DEF approve_claim
        <3> QED
            BY <1>5, <3>1
    <2>2. CASE ~approve_claim(id)
        BY <1>6, <2>2 DEF Settles, try_release_queued_claim, admit_claim, expire_queued_claim,
           unlock_pending_claim, expire_pending_approval, expire_stale_claim, cancel_claim
    <2> QED
        BY <2>1, <2>2
<1>7. ASSUME NEW id \in ClaimIds, Streams(id) PROVE points_balance' = points_balance
    BY <1>7 DEF Streams, claim_stream
<1>8. ASSUME NEW id \in ClaimIds, Executes(id)
      PROVE  \/ points_balance'[w] = points_balance[w]
             \/ points_balance'[w] = 0 /\ stakes'[w].withdrawn
    <2>1. override_record(id) \in StakeRecord
        <3>1. stakes[id[1]] \in StakeRecord
            BY <1>1, ClaimIdWallet
        <3> QED
            BY <3>1 DEF override_record, StakeRecord
    <2>2. PICK req \in OverrideRequest : execute_override(id, req)
        BY <1>8 DEF Executes
    <2>3. \/ points_balance' = points_balance
          \/ activate_claim(id, override_record(id), override_claim(id, req))
        BY <2>2 DEF execute_override
    <2> QED
        BY <1>5, <2>1, <2>3
<1> QED
    BY <1>2, <1>3, <1>4, <1>6, <1>7, <1>8, Steps DEF Quiet

\* No call banks points for a stake under the penalty lock: a stake given back
\* by a cancellation can leave only by emergency_exit, which banks none
\* (withdraw, emergency_exit, cancel_claim).
THEOREM LockedStakesBankNothing == Spec => LockedExitForfeitsPoints
<1>1. ASSUME TypeOK, [Next]_vars, NEW w \in Wallets,
             ledger < stakes[w].penalty_locked_until_ledger
      PROVE  points_balance'[w] <= points_balance[w]
    <2>1. points_balance[w] \in Nat /\ ledger \in Nat /\ stakes[w].penalty_locked_until_ledger \in Nat
        BY <1>1 DEF TypeOK, StakeRecord
    <2>2. \A b \in Beneficiaries : ~withdraw(w, b)
        BY <1>1, <2>1 DEF withdraw, lock_passed
    <2>3. points_balance'[w] = points_balance[w] \/ points_balance'[w] = 0
        BY <1>1, <2>2, PointsStep
    <2> QED
        BY <2>1, <2>3
<1>2. TypeOK /\ [Next]_vars =>
        \A w \in Wallets :
          holds_stake(stakes[w]) /\ ledger < stakes[w].penalty_locked_until_ledger =>
            points_balance'[w] <= points_balance[w]
    BY <1>1
<1> QED
    BY <1>2, TypeCorrect, PTL DEF Spec, LockedExitForfeitsPoints

-----------------------------------------------------------------------------
(* The points a claim burns.                                               *)

\* A forfeited principal has no points behind it.
ForfeitedPointless ==
    \A w \in Wallets : stakes[w].withdrawn /\ stakes[w].amount > 0 => points_balance[w] = 0

\* Each record's part of it, along a call: the record keeps its principal
\* forfeited and its points, is burnt, or holds no forfeited principal.
LEMMA PointlessStep ==
    ASSUME TypeOK, ForfeitedPointless, [Next]_vars
    PROVE  ForfeitedPointless'
<1> SUFFICES ASSUME NEW w \in Wallets, stakes'[w].withdrawn, stakes'[w].amount > 0
             PROVE  points_balance'[w] = 0
    BY DEF ForfeitedPointless
<1> DEFINE Kept == stakes[w].withdrawn /\ stakes[w].amount = stakes'[w].amount
<1>1. stakes \in [Wallets -> StakeRecord] /\ stakes[w] \in StakeRecord
    BY DEF TypeOK
<1>2. ASSUME Kept PROVE points_balance[w] = 0
    BY <1>2 DEF ForfeitedPointless
<1>3. CASE Quiet
    BY <1>3 DEF Quiet, ForfeitedPointless
<1>4. ASSUME NEW u \in Wallets, Deposits(u) PROVE points_balance'[w] = 0
    BY <1>1, <1>4 DEF Deposits, stake, EmptyStake, ForfeitedPointless
<1>5. ASSUME NEW u \in Wallets, Exits(u) PROVE points_balance'[w] = 0
    <2>1. /\ u # w => stakes'[w] = stakes[w] /\ points_balance'[w] = points_balance[w]
          /\ u = w => stakes'[w].amount = 0
        BY <1>1, <1>5 DEF Exits, withdraw, emergency_exit, close_stake, TypeOK, StakeRecord
    <2> QED
        BY <1>2, <2>1
<1>6. ASSUME NEW u \in Wallets, Marks(u) PROVE points_balance'[w] = 0
    <2>1. Kept /\ points_balance' = points_balance
        BY <1>1, <1>6 DEF Marks, set_beneficiary, suspend_stake, unsuspend_stake, StakeRecord
    <2> QED
        BY <1>2, <2>1
<1>7. ASSUME NEW v \in Verdicts, Submits(v) PROVE points_balance'[w] = 0
    <2>1. Kept /\ points_balance' = points_balance
        BY <1>1, <1>7 DEF Submits, submit_claim, submit_claim_queued, submit_claim_admitted,
           admit_claim, StakeRecord
    <2> QED
        BY <1>2, <2>1
<1>8. ASSUME NEW id \in ClaimIds, NEW record \in StakeRecord, NEW claim,
             activate_claim(id, record, claim)
      PROVE  points_balance'[w] = 0
    <2>1. id[1] = w => points_balance'[w] = 0
        BY <1>8 DEF activate_claim, burn_points, TypeOK
    <2>2. id[1] # w => stakes'[w] = stakes[w] /\ points_balance'[w] = points_balance[w]
        BY <1>1, <1>8 DEF activate_claim, burn_points, TypeOK
    <2> QED
        BY <1>2, <2>1, <2>2
<1>9. ASSUME NEW id \in ClaimIds, Settles(id) PROVE points_balance'[w] = 0
    <2>1. CASE approve_claim(id)
        BY <1>1, <1>8, <2>1, ClaimIdWallet DEF approve_claim
    <2>2. CASE cancel_active(id) /\ cancel_claim(id)
        <3>1. /\ points_balance' = points_balance
              /\ id[1] # w => stakes'[w] = stakes[w]
              /\ id[1] = w => ~stakes'[w].withdrawn
            BY <1>1, <2>2 DEF cancel_active, cancel_claim, StakeRecord
        <3> QED
            BY <1>2, <3>1
    <2>3. CASE ~approve_claim(id) /\ ~(cancel_active(id) /\ cancel_claim(id))
        <3>1. Kept /\ points_balance' = points_balance
            BY <1>1, <1>9, <2>3 DEF Settles, try_release_queued_claim, admit_claim,
               expire_queued_claim, unlock_pending_claim, expire_pending_approval,
               expire_stale_claim, cancel_claim, cancel_unforfeited, free_slot, StakeRecord
        <3> QED
            BY <1>2, <3>1
    <2> QED
        BY <2>1, <2>2, <2>3
<1>10. ASSUME NEW id \in ClaimIds, Streams(id) PROVE points_balance'[w] = 0
    BY <1>2, <1>10 DEF Streams, claim_stream
<1>11. ASSUME NEW id \in ClaimIds, Executes(id) PROVE points_balance'[w] = 0
    <2>1. PICK req \in OverrideRequest : execute_override(id, req)
        BY <1>11 DEF Executes
    <2>2. stakes[id[1]] \in StakeRecord
        BY <1>1, ClaimIdWallet
    <2>3. override_record(id) \in StakeRecord
        BY <2>2 DEF override_record, StakeRecord
    <2>4. CASE activate_claim(id, override_record(id), override_claim(id, req))
        BY <1>8, <2>3, <2>4
    <2>5. CASE stakes' = [stakes EXCEPT ![id[1]] = override_record(id)]
                 /\ points_balance' = points_balance
        <3>1. Kept
            BY <1>1, <2>2, <2>5 DEF override_record, StakeRecord
        <3> QED
            BY <1>2, <2>5, <3>1
    <2> QED
        BY <2>1, <2>4, <2>5 DEF execute_override
<1> QED
    BY <1>3, <1>4, <1>5, <1>6, <1>7, <1>9, <1>10, <1>11, Steps

\* A claim becomes Active by its staker's approval or by an override.
LEMMA Activation ==
    ASSUME TypeOK, [Next]_vars, NEW id \in ClaimIds,
           claims[id].status # "Active", claims'[id].status = "Active"
    PROVE  approve_claim(id) \/ Executes(id)
<1>1. ~Quiet
    BY DEF Quiet
<1>2. ASSUME NEW w \in Wallets, Deposits(w) \/ Exits(w) \/ Marks(w) PROVE FALSE
    BY <1>2, UnsuspendEffect DEF Deposits, Exits, Marks, stake, withdraw, emergency_exit,
       set_beneficiary, suspend_stake
<1>3. ASSUME NEW v \in Verdicts, Submits(v) PROVE FALSE
    BY <1>3, SubmitEffect DEF Submits
<1>4. ASSUME NEW i \in ClaimIds, Settles(i) PROVE approve_claim(id)
    <2>1. approve_claim(i)
        BY <1>4, SweepEffect DEF Settles
    <2>2. i = id
        BY <2>1 DEF approve_claim, activate_claim, TypeOK
    <2> QED
        BY <2>1, <2>2
<1>5. ASSUME NEW i \in ClaimIds, Streams(i) PROVE FALSE
    BY <1>5, StreamEffect DEF Streams
<1>6. ASSUME NEW i \in ClaimIds, Executes(i) PROVE Executes(id)
    <2>1. i = id
        BY <1>6, ExecuteEffect DEF Executes
    <2> QED
        BY <1>6, <2>1
<1> QED
    BY <1>1, <1>2, <1>3, <1>4, <1>5, <1>6, Steps

\* The points behind a claim, along a step.
LEMMA BurnedStep ==
    ASSUME TypeOK, SlotInv, ForfeitedPointless, PointsBurnedByClaim, [Next]_vars
    PROVE  PointsBurnedByClaim'
<1> SUFFICES ASSUME NEW id \in ClaimIds, claims'[id].status = "Active"
             PROVE  points_balance'[id[1]] = 0
    BY DEF PointsBurnedByClaim
<1>1. id[1] \in Wallets /\ stakes[id[1]] \in StakeRecord
    BY ClaimIdWallet DEF TypeOK
<1>2. CASE claims[id].status = "Active"
    <2>1. points_balance[id[1]] = 0 /\ stakes[id[1]].withdrawn
        BY <1>2 DEF PointsBurnedByClaim, SlotInv, ForfeitedWhileActive
    <2>2. \A b \in Beneficiaries : ~withdraw(id[1], b)
        BY <2>1 DEF withdraw, holds_stake
    <2> QED
        BY <1>1, <2>1, <2>2, PointsStep
<1>3. CASE claims[id].status # "Active"
    <2>1. CASE approve_claim(id)
        BY <1>1, <2>1 DEF approve_claim, activate_claim, burn_points, TypeOK
    <2>2. CASE Executes(id)
        <3>1. PICK req \in OverrideRequest : execute_override(id, req)
            BY <2>2 DEF Executes
        <3>2. CASE stakes[id[1]].withdrawn
            BY <1>1, <3>1, <3>2 DEF execute_override, ForfeitedPointless
        <3>3. CASE ~stakes[id[1]].withdrawn
            BY <1>1, <3>1, <3>3 DEF execute_override, activate_claim, burn_points, TypeOK
        <3> QED
            BY <3>2, <3>3
    <2> QED
        BY <1>3, <2>1, <2>2, Activation
<1> QED
    BY <1>2, <1>3

\* A forfeited principal never has points behind it, however often its wallet
\* stakes, exits and claims, and whatever is overridden (activate_claim burns
\* the whole balance, withdraw banks only for a record it closes).
THEOREM NoPointsBehindForfeits == Spec => []ForfeitedPointless
<1>1. Init => ForfeitedPointless
    BY DEF Init, ForfeitedPointless
<1> QED
    BY <1>1, PointlessStep, TypeCorrect, PTL DEF Spec

\* The wallet's slots and forfeitures as one invariant, for the proofs below.
LEMMA SlotsHold == ASSUME RestakePolicy = "settled" PROVE Spec => []SlotInv
BY InitSlots, SlotStep, TypeCorrect, PTL DEF Spec

\* No points survive an activation, whatever was banked in earlier cycles, and
\* none come back while the claim streams (activate_claim, execute_override).
\* A wallet that stakes again beside its open claim would bank new ones, so
\* stakers are assumed to settle first.
THEOREM ClaimsBurnPoints ==
    ASSUME RestakePolicy = "settled" PROVE Spec => []PointsBurnedByClaim
<1>1. Init => PointsBurnedByClaim
    BY DEF Init, PointsBurnedByClaim, UnusedClaim, new_claim
<1> QED
    BY <1>1, BurnedStep, NoPointsBehindForfeits, SlotsHold, TypeCorrect, PTL DEF Spec

-----------------------------------------------------------------------------
(* The beneficiary of a stream.                                            *)

\* The beneficiary of a wallet whose claim goes on streaming.
LEMMA BeneficiaryStep ==
    ASSUME RestakePolicy = "settled", TypeOK, SlotInv, [Next]_vars, NEW id \in ClaimIds,
           claims[id].status = "Active", claims'[id].status = "Active"
    PROVE  stakes'[id[1]].beneficiary_hash = stakes[id[1]].beneficiary_hash
<1> DEFINE w == id[1]
           Kept == stakes'[w].beneficiary_hash = stakes[w].beneficiary_hash
<1>1. /\ w \in Wallets /\ stakes \in [Wallets -> StakeRecord] /\ stakes[w] \in StakeRecord
      /\ ~holds_stake(stakes[w])
    BY ClaimIdWallet DEF TypeOK, SlotInv, ForfeitedWhileActive, holds_stake
<1> HIDE DEF w
<1>2. CASE Quiet
    BY <1>2 DEF Quiet
<1>3. ASSUME NEW u \in Wallets, Deposits(u) PROVE Kept
    <2>1. u # w
        BY <1>3 DEF Deposits, may_stake, ClaimsOf, Open, Live, w
    <2> QED
        BY <1>1, <1>3, <2>1 DEF Deposits, stake
<1>4. ASSUME NEW u \in Wallets, Exits(u) PROVE Kept
    BY <1>1, <1>4 DEF Exits, withdraw, emergency_exit, close_stake, StakeRecord
<1>5. ASSUME NEW u \in Wallets, Marks(u) PROVE Kept
    BY <1>1, <1>5 DEF Marks, set_beneficiary, suspend_stake, unsuspend_stake, StakeRecord
<1>6. ASSUME NEW v \in Verdicts, Submits(v) PROVE Kept
    BY <1>1, <1>6 DEF Submits, submit_claim, submit_claim_queued, submit_claim_admitted,
       admit_claim, StakeRecord
<1>7. ASSUME NEW i \in ClaimIds, Settles(i) PROVE Kept
    BY <1>1, <1>7 DEF Settles, try_release_queued_claim, admit_claim, expire_queued_claim,
       unlock_pending_claim, approve_claim, activate_claim, forfeited, expire_pending_approval,
       expire_stale_claim, cancel_claim, cancel_active, cancel_unforfeited, free_slot, StakeRecord
<1>8. ASSUME NEW i \in ClaimIds, Streams(i) PROVE Kept
    BY <1>8 DEF Streams, claim_stream
<1>9. ASSUME NEW i \in ClaimIds, Executes(i) PROVE Kept
    <2>1. stakes[i[1]] \in StakeRecord
        BY <1>1, ClaimIdWallet
    <2>2. PICK s \in {override_record(i), forfeited(override_record(i))} :
            stakes' = [stakes EXCEPT ![i[1]] = s]
        BY <1>9 DEF Executes, execute_override, activate_claim
    <2>3. s.beneficiary_hash = stakes[i[1]].beneficiary_hash
        BY <2>1 DEF override_record, forfeited, StakeRecord
    <2> QED
        BY <1>1, <2>2, <2>3
<1> QED
    BY <1>2, <1>3, <1>4, <1>5, <1>6, <1>7, <1>8, <1>9, Steps DEF w

\* Once a stake is forfeited to a claim, no call redirects the stream: the
\* beneficiary stays the one committed before, as long as the claim is live
\* (set_beneficiary, stake; README: the payout goes "only to the beneficiary
\* hash committed").
THEOREM BeneficiaryIsFixed ==
    ASSUME RestakePolicy = "settled" PROVE Spec => BeneficiaryFixedByForfeiture
<1>1. TypeOK /\ SlotInv /\ [Next]_vars =>
        \A id \in ClaimIds :
          claims[id].status = "Active" /\ claims'[id].status = "Active" =>
            stakes'[id[1]].beneficiary_hash = stakes[id[1]].beneficiary_hash
    BY BeneficiaryStep
<1> QED
    BY <1>1, SlotsHold, TypeCorrect, PTL DEF Spec, BeneficiaryFixedByForfeiture

-----------------------------------------------------------------------------
(* The pool cap.                                                           *)

\* Every call but a deposit and the cancellation of a streaming claim leaves
\* total_staked where it was or lower, or tests it against a new cap.
LEMMA CapStep ==
    ASSUME TypeOK, [Next]_vars, total_staked <= pool_cap,
           \A id \in ClaimIds :
              ~(claims[id].status = "Active" /\ claims'[id].status = "Cancelled")
    PROVE  total_staked' <= pool_cap'
<1>1. /\ total_staked \in Int /\ pool_cap \in Nat
      /\ stakes \in [Wallets -> StakeRecord]
    BY DEF TypeOK
<1> DEFINE Stays == pool_cap' = pool_cap /\ total_staked' = total_staked
           Fell == /\ pool_cap' = pool_cap
                   /\ \E a \in Nat : total_staked' = total_staked - a
<1>2. ASSUME Stays \/ Fell PROVE total_staked' <= pool_cap'
    <2>1. ASSUME NEW a \in Nat PROVE total_staked - a <= pool_cap
        BY <1>1, <2>1
    <2> QED
        BY <1>2, <2>1
<1>3. CASE Quiet
    <2>1. CASE VaultCall /\ pool_cap' = pool_cap
        <3>1. total_staked' <= total_staked /\ total_staked' \in Int
            BY <2>1, VaultTotal, StepType DEF TypeOK
        <3>2. ASSUME NEW t \in Int, t <= total_staked PROVE t <= pool_cap
            BY <1>1, <3>2
        <3> QED
            BY <2>1, <3>1, <3>2
    <2>2. CASE ~(VaultCall /\ pool_cap' = pool_cap)
        BY <1>2, <1>3, <2>2 DEF Quiet
    <2> QED
        BY <2>1, <2>2
<1>4. ASSUME NEW w \in Wallets, Deposits(w) PROVE total_staked' <= pool_cap'
    BY <1>4 DEF Deposits, stake
<1>5. ASSUME NEW w \in Wallets, Exits(w) PROVE Fell
    <2>1. stakes[w].amount \in Nat
        BY <1>1 DEF StakeRecord
    <2>2. pool_cap' = pool_cap /\ total_staked' = total_staked - stakes[w].amount
        BY <1>5 DEF Exits, withdraw, emergency_exit, close_stake
    <2> QED
        BY <2>1, <2>2
<1>6. ASSUME NEW w \in Wallets, Marks(w) PROVE Stays
    BY <1>6 DEF Marks, set_beneficiary, suspend_stake, unsuspend_stake
<1>7. ASSUME NEW v \in Verdicts, Submits(v) PROVE Stays
    BY <1>7 DEF Submits, submit_claim, submit_claim_queued, submit_claim_admitted, admit_claim
<1>8. ASSUME NEW id \in ClaimIds, NEW record \in StakeRecord, NEW claim,
             activate_claim(id, record, claim), pool_cap' = pool_cap
      PROVE  Fell
    BY <1>8 DEF activate_claim, StakeRecord
<1>9. ASSUME NEW id \in ClaimIds, Settles(id) PROVE Stays \/ Fell
    <2>1. CASE approve_claim(id)
        BY <1>1, <1>8, <2>1, ClaimIdWallet DEF approve_claim
    <2>2. ~(cancel_active(id) /\ cancel_claim(id))
        BY <1>1 DEF cancel_active, cancel_claim, release_claim, TypeOK, Claim
    <2>3. CASE ~approve_claim(id)
        BY <1>9, <2>2, <2>3 DEF Settles, try_release_queued_claim, admit_claim,
           expire_queued_claim, unlock_pending_claim, expire_pending_approval,
           expire_stale_claim, cancel_claim, cancel_unforfeited
    <2> QED
        BY <2>1, <2>3
<1>10. ASSUME NEW id \in ClaimIds, Streams(id) PROVE Stays
    BY <1>10 DEF Streams, claim_stream
<1>11. ASSUME NEW id \in ClaimIds, Executes(id) PROVE Stays \/ Fell
    <2>1. PICK req \in OverrideRequest : execute_override(id, req)
        BY <1>11 DEF Executes
    <2>2. stakes[id[1]] \in StakeRecord
        BY <1>1, ClaimIdWallet
    <2>3. override_record(id) \in StakeRecord
        BY <2>2 DEF override_record, StakeRecord
    <2>4. pool_cap' = pool_cap
        BY <1>11 DEF Executes
    <2> QED
        BY <1>8, <2>1, <2>3, <2>4 DEF execute_override
<1> QED
    BY <1>2, <1>3, <1>4, <1>5, <1>6, <1>7, <1>9, <1>10, <1>11, Steps

\* total_staked passes the cap only by giving a forfeited stake back: no
\* deposit, new cap, exit, override or vault call can do it (stake,
\* set_pool_cap; cancel_claim does not test the cap).
THEOREM CapPassedOnlyByCancellation == Spec => OnlyCancellationExceedsCap
<1>1. ASSUME TypeOK, [Next]_vars, total_staked <= pool_cap, total_staked' > pool_cap'
      PROVE  \E id \in ClaimIds :
                claims[id].status = "Active" /\ claims'[id].status = "Cancelled"
    <2>1. TypeOK'
        BY <1>1, StepType
    <2>2. ASSUME NEW t \in Int, NEW c \in Int, t > c PROVE ~(t <= c)
        BY <2>2
    <2>3. total_staked' \in Int /\ pool_cap' \in Int
        BY <2>1 DEF TypeOK
    <2> QED
        BY <1>1, <2>2, <2>3, CapStep
<1>2. TypeOK /\ [Next]_vars =>
        (total_staked <= pool_cap /\ total_staked' > pool_cap' =>
          \E id \in ClaimIds :
             claims[id].status = "Active" /\ claims'[id].status = "Cancelled")
    BY <1>1
<1> QED
    BY <1>2, TypeCorrect, PTL DEF Spec, OnlyCancellationExceedsCap

-----------------------------------------------------------------------------
(* What the eligibility views foretell.                                    *)

\* An incident that is taken in other than by an override, against the views.
LEMMA TakenIn ==
    ASSUME TypeOK, [Next]_vars, NEW id \in ClaimIds,
           claims[id].status = "Unused", claims'[id].status \in Open \ {"Active"}
    PROVE  /\ is_eligible(id[1])
           /\ claims'[id].status # "Reserved" =>
                (is_claim_eligible(id[1]) <=> claims'[id].status = "AwaitingApproval")
<1>1. claims'[id] # claims[id] /\ claims'[id].status \notin {"Unused", "Active"}
    BY DEF Open, Live
<1>2. ~Quiet
    BY <1>1 DEF Quiet
<1>3. ASSUME NEW w \in Wallets, Deposits(w) \/ Exits(w) \/ Marks(w) PROVE FALSE
    BY <1>1, <1>3, UnsuspendEffect DEF Deposits, Exits, Marks, stake, withdraw, emergency_exit,
       set_beneficiary, suspend_stake
<1>4. ASSUME NEW i \in ClaimIds, Settles(i) PROVE FALSE
    <2>1. i = id
        BY <1>1, <1>4 DEF Settles, try_release_queued_claim, admit_claim, expire_queued_claim,
           unlock_pending_claim, approve_claim, activate_claim, expire_pending_approval,
           expire_stale_claim, cancel_claim, release_claim, TypeOK
    <2> QED
        BY <1>4, <2>1 DEF Settles, try_release_queued_claim, expire_queued_claim,
           unlock_pending_claim, approve_claim, expire_pending_approval, expire_stale_claim,
           cancel_claim, cancel_active, cancel_unforfeited
<1>5. ASSUME NEW i \in ClaimIds, Streams(i) PROVE FALSE
    BY <1>1, <1>5, StreamEffect DEF Streams
<1>6. ASSUME NEW i \in ClaimIds, Executes(i) PROVE FALSE
    BY <1>1, <1>6, ExecuteEffect DEF Executes
<1>7. PICK v \in Verdicts : Submits(v)
    BY <1>2, <1>3, <1>4, <1>5, <1>6, Steps
<1>8. PICK caller \in Addresses, d \in Deadlines \cup {0}, k \in Pubkeys \cup {None} :
        submit_claim(caller, v, d, k)
    BY <1>7 DEF Submits
<1>9. id = compute_claim_id(v) /\ id[1] = v.wallet
    BY <1>1, <1>8, SubmitEffect, VerdictFields
<1>10. is_eligible(id[1])
    BY <1>8, <1>9 DEF submit_claim, submit_claim_queued, submit_claim_admitted, submit_checks,
       is_eligible
<1>11. CASE submit_claim_queued(caller, v, d, k)
    <2>1. claims'[id].status = "Reserved"
        BY <1>9, <1>11 DEF submit_claim_queued, new_claim, TypeOK
    <2> QED
        BY <1>10, <2>1
<1>12. CASE submit_claim_admitted(caller, v, d, k)
    <2>1. PICK counted \in {0, 1} : admit_claim(id, v.entitlement, v.tier, v.hack_timestamp, counted)
        BY <1>9, <1>12 DEF submit_claim_admitted
    <2>2. claims'[id].status =
            IF SatSub(ledger, stakes[id[1]].staked_at_ledger) >= TIME_GATE_LEDGERS
            THEN "AwaitingApproval" ELSE "PendingTime"
        BY <2>1 DEF admit_claim, new_claim, TypeOK
    <2> QED
        BY <1>10, <2>2 DEF is_claim_eligible
<1> QED
    BY <1>8, <1>11, <1>12 DEF submit_claim

\* What a wallet is told before a report is what happens: an incident is taken
\* in only for a wallet that reads as eligible, and an admitted one goes
\* straight to the staker's decision exactly when it reads as claim-eligible
\* (is_eligible, is_claim_eligible, submit_claim, admit_claim).
THEOREM ViewsTellSubmission == Spec => ViewsPredictSubmission
<1>1. TypeOK /\ [Next]_vars =>
        \A id \in ClaimIds :
          claims[id].status = "Unused" /\ claims'[id].status \in Open \ {"Active"} =>
            /\ is_eligible(id[1])
            /\ claims'[id].status # "Reserved" =>
                  (is_claim_eligible(id[1]) <=> claims'[id].status = "AwaitingApproval")
    BY TakenIn
<1> QED
    BY <1>1, TypeCorrect, PTL DEF Spec, ViewsPredictSubmission

-----------------------------------------------------------------------------
(* The daily counters.                                                     *)

\* Only an admission moves the day's admissions.
LEMMA DailyAdmissions ==
    ASSUME TypeOK, [Next]_vars, daily_entitlement' # daily_entitlement
    PROVE  \E id \in ClaimIds, e \in Nat, tier \in Tiers \cup {0}, h \in Nat, counted \in {0, 1} :
              /\ ~insolvent(e) /\ ~stress_capped(e)
              /\ admit_claim(id, e, tier, h, counted)
<1>1. ~Quiet
    BY DEF Quiet
<1>2. ASSUME NEW w \in Wallets, Deposits(w) \/ Exits(w) \/ Marks(w) PROVE FALSE
    BY <1>2 DEF Deposits, Exits, Marks, stake, withdraw, emergency_exit, set_beneficiary,
       suspend_stake, unsuspend_stake
<1>3. ASSUME NEW id \in ClaimIds, Streams(id) \/ Executes(id) PROVE FALSE
    BY <1>3 DEF Streams, claim_stream, Executes
<1>4. ASSUME NEW id \in ClaimIds, Settles(id)
      PROVE  try_release_queued_claim(id)
    BY <1>4 DEF Settles, expire_queued_claim, unlock_pending_claim, approve_claim,
       expire_pending_approval, expire_stale_claim, cancel_claim
<1>5. ASSUME NEW id \in ClaimIds, try_release_queued_claim(id)
      PROVE  \E e \in Nat, tier \in Tiers \cup {0}, h \in Nat, counted \in {0, 1} :
                /\ ~insolvent(e) /\ ~stress_capped(e)
                /\ admit_claim(id, e, tier, h, counted)
    <2>1. /\ claims[id].entitlement \in Nat /\ claims[id].tier \in Tiers \cup {0}
          /\ claims[id].hack_timestamp \in Nat
        BY DEF TypeOK, Claim
    <2> QED
        BY <1>5, <2>1 DEF try_release_queued_claim
<1>6. ASSUME NEW v \in Verdicts, Submits(v)
      PROVE  \E e \in Nat, tier \in Tiers \cup {0}, h \in Nat, counted \in {0, 1} :
                /\ ~insolvent(e) /\ ~stress_capped(e)
                /\ admit_claim(compute_claim_id(v), e, tier, h, counted)
    <2>1. PICK caller \in Addresses, d \in Deadlines \cup {0}, k \in Pubkeys \cup {None} :
            submit_claim(caller, v, d, k)
        BY <1>6 DEF Submits
    <2>2. submit_claim_admitted(caller, v, d, k)
        BY <2>1 DEF submit_claim, submit_claim_queued
    <2>3. /\ ~insolvent(v.entitlement) /\ ~stress_capped(v.entitlement)
          /\ \E counted \in {0, 1} :
                admit_claim(compute_claim_id(v), v.entitlement, v.tier, v.hack_timestamp, counted)
        BY <2>2 DEF submit_claim_admitted, must_queue
    <2>4. v.entitlement \in Nat /\ v.tier \in Tiers \cup {0} /\ v.hack_timestamp \in Nat
        BY VerdictFields
    <2> QED
        BY <2>3, <2>4
<1> QED
    BY <1>1, <1>2, <1>3, <1>4, <1>5, <1>6, VerdictFields, Steps

\* Each admission counts the day's earlier ones against the cap, and an
\* insolvent pool admits nothing: what the reservations cover keeps
\* total_staked from being negative.
LEMMA AdmissionStep ==
    ASSUME TypeOK, AllocationCovered, [Next]_vars, daily_entitlement' # daily_entitlement
    PROVE  4 * daily_entitlement'.total <= total_staked
<1>1. PICK id \in ClaimIds, e \in Nat, tier \in Tiers \cup {0}, h \in Nat, counted \in {0, 1} :
        /\ ~insolvent(e) /\ ~stress_capped(e)
        /\ admit_claim(id, e, tier, h, counted)
    BY DailyAdmissions
<1>2. total_staked \in Int /\ total_allocated \in Int /\ get_daily_total \in Nat
    BY DailyFigures DEF TypeOK
<1>3. total_allocated >= 0
    BY <1>2, TotalsNat DEF AllocationCovered
<1>4. total_staked \in Nat
    BY <1>1, <1>2, <1>3 DEF insolvent
<1>5. stress_cap \in Nat /\ 4 * stress_cap <= total_staked
    BY <1>2, <1>4, StressCapQuarter DEF stress_cap
<1>6. get_daily_total + e <= stress_cap
    BY <1>1, <1>2, <1>5 DEF stress_capped
<1>7. daily_entitlement'.total = get_daily_total + e
    BY <1>1 DEF admit_claim
<1>8. 4 * (get_daily_total + e) <= total_staked
    BY <1>2, <1>4, <1>5, <1>6
<1> QED
    BY <1>7, <1>8

\* All admissions of a day, fresh and released from the queue together, stay
\* within a quarter of what is staked at the last of them, whatever is staked,
\* withdrawn, overridden or lost in between (stress_cap, admit_claim).
THEOREM AdmissionsStayCapped == Spec => AdmissionWithinStressCap
<1>1. TypeOK /\ AllocationCovered /\ [Next]_vars =>
        (daily_entitlement' # daily_entitlement =>
           4 * daily_entitlement'.total <= total_staked)
    BY AdmissionStep
<1> QED
    BY <1>1, TypeCorrect, ReservationsCoverClaims, PTL DEF Spec, AdmissionWithinStressCap

\* Only a payout moves the day's outflow.
LEMMA DailyPayouts ==
    ASSUME TypeOK, [Next]_vars, daily_outflow' # daily_outflow
    PROVE  \E id \in ClaimIds : Streams(id)
<1>1. ~Quiet
    BY DEF Quiet
<1>2. ASSUME NEW w \in Wallets, Deposits(w) \/ Exits(w) \/ Marks(w) PROVE FALSE
    BY <1>2 DEF Deposits, Exits, Marks, stake, withdraw, emergency_exit, set_beneficiary,
       suspend_stake, unsuspend_stake
<1>3. ASSUME NEW v \in Verdicts, Submits(v) PROVE FALSE
    BY <1>3 DEF Submits, submit_claim, submit_claim_queued, submit_claim_admitted, admit_claim
<1>4. ASSUME NEW id \in ClaimIds, Settles(id) \/ Executes(id) PROVE FALSE
    BY <1>4 DEF Settles, try_release_queued_claim, admit_claim, expire_queued_claim,
       unlock_pending_claim, approve_claim, expire_pending_approval, expire_stale_claim,
       cancel_claim, Executes
<1> QED
    BY <1>1, <1>2, <1>3, <1>4, Steps

\* A payout fits, with the day's earlier ones, under the cap of its own base.
LEMMA OutflowStep ==
    ASSUME TypeOK, [Next]_vars, daily_outflow' # daily_outflow
    PROVE  \E base \in {total_staked} \cup {claims[id].total_staked_snapshot : id \in ClaimIds} :
              20 * daily_outflow'.amount <= base
<1>1. PICK id \in ClaimIds : Streams(id)
    BY DailyPayouts
<1>2. PICK b \in Beneficiaries : claim_stream(id, b)
    BY <1>1 DEF Streams
<1> DEFINE c == claims[id]
           base == MaxOf(total_staked, c.total_staked_snapshot)
           amount == MinOf(claimable(c), available_today(c))
           cap == outflow_cap(c)
<1>3. c \in Claim /\ total_staked \in Int /\ total_allocated \in Int
    BY DEF TypeOK
<1>4. base \in Int /\ base \in {total_staked, c.total_staked_snapshot}
    BY <1>3 DEF MaxOf, Claim
<1>5. amount \in Int /\ amount <= available_today(c) /\ get_daily_outflow \in Nat
    BY StreamFigures, DailyFigures DEF MinOf
<1>6. amount > 0 /\ daily_outflow'.amount = get_daily_outflow + amount
    BY <1>2 DEF claim_stream, may_transfer
<1>7. available_today(c) = cap - get_daily_outflow
    BY DEF available_today
<1> HIDE DEF base, amount
<1>8. cap \in Int /\ (base >= 0 => 20 * cap <= base) /\ (base < 0 => cap <= 0)
    BY <1>3, <1>4, OutflowCapTwentieth DEF outflow_cap, dynamic_outflow_bps, base
<1> HIDE DEF c, cap
<1>9. get_daily_outflow + amount <= cap /\ get_daily_outflow + amount > 0
    BY <1>5, <1>6, <1>7, <1>8
<1>10. 20 * (get_daily_outflow + amount) <= base
    BY <1>4, <1>5, <1>8, <1>9
<1> QED
    BY <1>4, <1>6, <1>10 DEF c

\* One day's payouts of all claims together stay within 5% of the largest base
\* any of them may use, though rate and base move between two collections of
\* the same day (claim_stream, dynamic_outflow_bps, get_daily_outflow).
THEOREM PayoutsStayCapped == Spec => OutflowWithinDailyCap
<1>1. TypeOK /\ [Next]_vars =>
        (daily_outflow' # daily_outflow =>
          \E base \in {total_staked} \cup {claims[id].total_staked_snapshot : id \in ClaimIds} :
              20 * daily_outflow'.amount <= base)
    BY OutflowStep
<1> QED
    BY <1>1, TypeCorrect, PTL DEF Spec, OutflowWithinDailyCap

-----------------------------------------------------------------------------
(* The inactivity clock (Rule B).                                          *)

\* A streaming claim's inactivity anchor is never before its cooldown's end.
Anchored ==
    \A id \in ClaimIds :
        claims[id].status = "Active" =>
            claims[id].cooldown_ends_ledger <= claims[id].last_collected_ledger

\* Where the clocks of an activated claim stand.
LEMMA ClocksStart ==
    ASSUME TypeOK, NEW claim \in Claim, NEW snapshot
    PROVE  start_clocks(claim, snapshot).cooldown_ends_ledger
             <= start_clocks(claim, snapshot).last_collected_ledger
<1>1. ledger + COOLDOWN_LEDGERS \in Nat
    BY DurationsAssumption DEF TypeOK
<1> QED
    BY <1>1 DEF start_clocks, Claim

\* The anchor moves with an activation, an override, a payout, or, which is why
\* suspensions are excluded, with the end of a suspension.
LEMMA AnchoredStep ==
    ASSUME "suspend_stake" \notin Calls, TypeOK, Anchored, [Next]_vars
    PROVE  Anchored'
<1> SUFFICES ASSUME NEW id \in ClaimIds, claims'[id].status = "Active"
             PROVE  claims'[id].cooldown_ends_ledger <= claims'[id].last_collected_ledger
    BY DEF Anchored
<1> DEFINE Good == claims'[id].cooldown_ends_ledger <= claims'[id].last_collected_ledger
<1>1. claims \in [ClaimIds -> Claim] /\ claims[id] \in Claim
    BY DEF TypeOK
<1>2. ASSUME claims'[id] = claims[id] PROVE Good
    BY <1>2 DEF Anchored
<1>3. CASE Quiet
    BY <1>2, <1>3 DEF Quiet
<1>4. ASSUME NEW w \in Wallets, Deposits(w) \/ Exits(w) \/ Marks(w) PROVE Good
    BY <1>2, <1>4 DEF Deposits, Exits, Marks, stake, withdraw, emergency_exit, set_beneficiary
<1>5. ASSUME NEW v \in Verdicts, Submits(v) PROVE Good
    BY <1>2, <1>5, SubmitEffect DEF Submits
<1>6. ASSUME NEW i \in ClaimIds, Settles(i) PROVE Good
    <2>1. CASE approve_claim(i)
        <3>1. i = id => claims'[id] = [start_clocks(claims[id], total_staked)
                                         EXCEPT !.stake = stakes[id[1]].amount]
            BY <1>1, <2>1 DEF approve_claim, activate_claim
        <3>2. i = id => Good
            BY <1>1, <3>1, ClocksStart DEF start_clocks, Claim
        <3>3. i # id => claims'[id] = claims[id]
            BY <1>1, <2>1 DEF approve_claim, activate_claim
        <3> QED
            BY <1>2, <3>2, <3>3
    <2>2. CASE ~approve_claim(i)
        BY <1>2, <1>6, <2>2, SweepEffect DEF Settles
    <2> QED
        BY <2>1, <2>2
<1>7. ASSUME NEW i \in ClaimIds, Streams(i) PROVE Good
    <2>1. PICK b \in Beneficiaries : claim_stream(i, b)
        BY <1>7 DEF Streams
    <2>2. i # id => claims'[id] = claims[id]
        BY <2>1, StreamEffect
    <2>3. i = id => /\ claims'[id].last_collected_ledger = ledger
                    /\ claims'[id].cooldown_ends_ledger = claims[id].cooldown_ends_ledger
                    /\ claims[id].cooldown_ends_ledger <= ledger
        BY <1>1, <2>1 DEF claim_stream, Claim, TypeOK
    <2> QED
        BY <1>2, <2>2, <2>3
<1>8. ASSUME NEW i \in ClaimIds, Executes(i) PROVE Good
    <2>1. PICK req \in OverrideRequest : execute_override(i, req)
        BY <1>8 DEF Executes
    <2>2. i # id => claims'[id] = claims[id]
        BY <2>1, ExecuteEffect
    <2>3. override_claim(i, req) \in Claim
        <3>1. /\ stakes[i[1]].amount \in Nat /\ claims[i].streamed \in Nat /\ timestamp \in Nat
              /\ req.entitlement \in Nat /\ req.tier \in Tiers
            BY ClaimIdWallet DEF TypeOK, StakeRecord, Claim, OverrideRequest
        <3>2. /\ carried_streamed(claims[i]) \in Nat
              /\ new_claim(timestamp, req.entitlement, req.tier, stakes[i[1]].amount, "Active")
                    \in Claim
            BY <3>1, NewClaimType DEF carried_streamed, ClaimStatus
        <3> QED
            BY <3>2 DEF override_claim, Claim
    <2>4. start_clocks(override_claim(i, req), total_staked) \in Claim
        BY <2>3, StartClocksType DEF TypeOK
    <2>5. i = id =>
            \/ claims'[id] = start_clocks(override_claim(i, req), total_staked)
            \/ claims'[id] = [start_clocks(override_claim(i, req), total_staked)
                                EXCEPT !.stake = override_record(i).amount]
        BY <1>1, <2>1 DEF execute_override, activate_claim
    <2>6. i = id => Good
        BY <2>3, <2>4, <2>5, ClocksStart DEF Claim
    <2> QED
        BY <1>2, <2>2, <2>6
<1> QED
    BY <1>3, <1>4, <1>5, <1>6, <1>7, <1>8, Steps

\* Only the inactivity sweep makes a streaming claim expire.
LEMMA StaleOnly ==
    ASSUME TypeOK, [Next]_vars, NEW id \in ClaimIds,
           claims[id].status = "Active", claims'[id].status = "Expired"
    PROVE  expire_stale_claim(id)
<1>1. ~Quiet
    BY DEF Quiet
<1>2. ASSUME NEW w \in Wallets, Deposits(w) \/ Exits(w) \/ Marks(w) PROVE FALSE
    BY <1>2, UnsuspendEffect DEF Deposits, Exits, Marks, stake, withdraw, emergency_exit,
       set_beneficiary, suspend_stake
<1>3. ASSUME NEW v \in Verdicts, Submits(v) PROVE FALSE
    BY <1>3, SubmitEffect DEF Submits
<1>4. ASSUME NEW i \in ClaimIds, Settles(i) PROVE expire_stale_claim(id)
    <2>1. i = id
        BY <1>4 DEF Settles, try_release_queued_claim, admit_claim, expire_queued_claim,
           unlock_pending_claim, approve_claim, activate_claim, expire_pending_approval,
           expire_stale_claim, cancel_claim, release_claim, TypeOK
    <2>2. ~cancel_claim(id)
        BY DEF cancel_claim, release_claim, TypeOK, Claim
    <2> QED
        BY <1>4, <2>1, <2>2 DEF Settles, try_release_queued_claim, expire_queued_claim,
           unlock_pending_claim, approve_claim, expire_pending_approval
<1>5. ASSUME NEW i \in ClaimIds, Streams(i) PROVE FALSE
    BY <1>5, StreamEffect DEF Streams
<1>6. ASSUME NEW i \in ClaimIds, Executes(i) PROVE FALSE
    BY <1>6, ExecuteEffect DEF Executes
<1> QED
    BY <1>1, <1>2, <1>3, <1>4, <1>5, <1>6, Steps

\* Rule B never counts the cooldown as inactivity: a streaming claim is swept
\* only when the full period has passed since its cooldown ended, also after
\* an override has restarted it (start_clocks, claim_stream,
\* expire_stale_claim).  The end of a suspension sets the anchor to the
\* present ledger even during the cooldown (unsuspend_stake), so the result
\* is for a pool that suspends nobody.
THEOREM CooldownNeverCounts ==
    ASSUME "suspend_stake" \notin Calls PROVE Spec => CooldownIsNotInactivity
<1>1. Init => Anchored
    BY DEF Init, Anchored, UnusedClaim, new_claim
<1>2. ASSUME TypeOK, Anchored, [Next]_vars, NEW id \in ClaimIds,
             claims[id].status = "Active", claims'[id].status = "Expired"
      PROVE  ledger > claims[id].cooldown_ends_ledger + COLLECTION_INACTIVITY_LEDGERS
    <2>1. claims[id].cooldown_ends_ledger <= claims[id].last_collected_ledger
        BY <1>2 DEF Anchored
    <2>2. SatSub(ledger, claims[id].last_collected_ledger) > COLLECTION_INACTIVITY_LEDGERS
        BY <1>2, StaleOnly DEF expire_stale_claim
    <2>3. /\ claims[id].cooldown_ends_ledger \in Nat /\ claims[id].last_collected_ledger \in Nat
          /\ ledger \in Nat /\ COLLECTION_INACTIVITY_LEDGERS \in Nat
        BY <1>2, DurationsAssumption DEF TypeOK, Claim
    <2> QED
        BY <2>1, <2>2, <2>3 DEF SatSub
<1>3. TypeOK /\ Anchored /\ [Next]_vars =>
        \A id \in ClaimIds :
          claims[id].status = "Active" /\ claims'[id].status = "Expired" =>
            ledger > claims[id].cooldown_ends_ledger + COLLECTION_INACTIVITY_LEDGERS
    BY <1>2
<1> QED
    BY <1>1, <1>3, AnchoredStep, TypeCorrect, PTL DEF Spec, CooldownIsNotInactivity

-----------------------------------------------------------------------------
(* The deployed share of the pool.                                         *)

\* The position in the vault grows only by a deposit that its configured
\* ceiling allows.
LEMMA PositionStep ==
    ASSUME TypeOK, [Next]_vars
    PROVE  \/ deployed_xlm' <= deployed_xlm
           \/ deployed_xlm' <= deploy_ceiling /\ UNCHANGED <<total_staked, deploy_bps>>
<1>1. deployed_xlm \in Nat /\ deploy_ceiling \in Int /\ deploy_room \in Nat /\ liquid \in Nat
      /\ total_allocated \in Int
    BY KeeperFigures DEF TypeOK
<1>2. deployed_xlm' = deployed_xlm => deployed_xlm' <= deployed_xlm
    BY <1>1
<1>3. CASE VaultCall
    <2>1. ASSUME NEW shares \in Nat, NEW received, NEW out, NEW x,
                 redeem(shares, received, out, x)
          PROVE  deployed_xlm' <= deployed_xlm
        <3>1. principal_equiv(shares) \in Nat /\ deployed_xlm' = deployed_xlm - principal_equiv(shares)
            BY <2>1, PrincipalEquivBounded DEF redeem
        <3>2. ASSUME NEW p \in Nat PROVE deployed_xlm - p <= deployed_xlm
            BY <1>1, <3>2
        <3> QED
            BY <3>1, <3>2
    <2>2. ASSUME NEW a \in DeployAmounts, NEW m \in MinOuts, deploy_to_vault(a, m)
          PROVE  deployed_xlm' <= deploy_ceiling /\ UNCHANGED <<total_staked, deploy_bps>>
        BY <2>2 DEF deploy_to_vault, deposit
    <2>3. ASSUME auto_deploy_liquidity
          PROVE  deployed_xlm' <= deploy_ceiling /\ UNCHANGED <<total_staked, deploy_bps>>
        <3> DEFINE idle == MaxOf(liquid - total_allocated, 0)
                   amount == MinOf(idle, deploy_room)
        <3>1. /\ amount > 0 /\ deployed_xlm' = deployed_xlm + amount
              /\ UNCHANGED <<total_staked, deploy_bps>>
            BY <2>3 DEF auto_deploy_liquidity, deposit
        <3>2. amount \in Int /\ amount <= deploy_room
            BY <1>1 DEF MinOf, MaxOf
        <3> HIDE DEF amount
        <3>3. deployed_xlm + amount <= deploy_ceiling
            BY <1>1, <3>1, <3>2 DEF deploy_room, MaxOf
        <3> QED
            BY <3>1, <3>3
    <2>4. ASSUME ensure_liquidity PROVE deployed_xlm' <= deployed_xlm
        <3>1. shares_needed \in Nat
            BY <2>4, KeeperFigures DEF ensure_liquidity
        <3> QED
            BY <2>1, <2>4, <3>1 DEF ensure_liquidity
    <2>5. ASSUME NEW s \in ShareAmounts, NEW m \in MinOuts,
                 provide_liquidity(s, m) \/ extract_yield(s, m)
          PROVE  deployed_xlm' <= deployed_xlm
        BY <2>1, <2>5, CallInputsAssumption DEF provide_liquidity, extract_yield
    <2>6. ASSUME NEW a, set_vault(a) \/ set_treasury(a) \/ set_deploy_bps(a) \/ withdraw_yield(a)
          PROVE  deployed_xlm' = deployed_xlm
        BY <2>6 DEF set_vault, set_treasury, set_deploy_bps, withdraw_yield
    <2> QED
        BY <1>2, <1>3, <2>2, <2>3, <2>4, <2>5, <2>6 DEF VaultCall
<1>4. CASE Quiet /\ ~VaultCall
    BY <1>2, <1>4 DEF Quiet
<1>5. ASSUME NEW w \in Wallets, Deposits(w) \/ Exits(w) \/ Marks(w)
      PROVE  deployed_xlm' = deployed_xlm
    BY <1>5 DEF Deposits, Exits, Marks, stake, withdraw, emergency_exit, set_beneficiary,
       suspend_stake, unsuspend_stake
<1>6. ASSUME NEW v \in Verdicts, Submits(v) PROVE deployed_xlm' = deployed_xlm
    BY <1>6 DEF Submits, submit_claim, submit_claim_queued, submit_claim_admitted, admit_claim
<1>7. ASSUME NEW id \in ClaimIds, Settles(id) \/ Streams(id) \/ Executes(id)
      PROVE  deployed_xlm' = deployed_xlm
    BY <1>7 DEF Settles, try_release_queued_claim, admit_claim, expire_queued_claim,
       unlock_pending_claim, approve_claim, expire_pending_approval, expire_stale_claim,
       cancel_claim, Streams, claim_stream, Executes
<1> QED
    BY <1>2, <1>3, <1>4, <1>5, <1>6, <1>7, Steps

\* The share read from the position, the pool and the ceiling, before and after.
LEMMA ShareStep ==
    ASSUME NEW d \in Nat, NEW d1 \in Nat, NEW t \in Nat \ {0}, NEW t1 \in Nat \ {0},
           NEW b \in Nat, NEW b1 \in Nat, t <= t1, b <= b1,
           \/ d1 <= d /\ Quot(d * BPS_DENOMINATOR, t) <= b
           \/ d1 <= Bps(t, b) /\ t1 = t
    PROVE  Quot(d1 * BPS_DENOMINATOR, t1) <= b1
<1>1. Quot(d1 * BPS_DENOMINATOR, t1) \in Nat
    BY QuotNat, d1 * BPS_DENOMINATOR \in Nat DEF BPS_DENOMINATOR
<1>2. CASE d1 <= d /\ Quot(d * BPS_DENOMINATOR, t) <= b
    <2>1. Quot(d1 * BPS_DENOMINATOR, t1) <= Quot(d * BPS_DENOMINATOR, t)
        BY <1>2, RatioFalls
    <2>2. Quot(d * BPS_DENOMINATOR, t) \in Nat
        BY QuotNat, d * BPS_DENOMINATOR \in Nat DEF BPS_DENOMINATOR
    <2> QED
        BY <1>1, <1>2, <2>1, <2>2
<1>3. CASE d1 <= Bps(t, b) /\ t1 = t
    <2>1. Quot(d1 * BPS_DENOMINATOR, t1) <= b
        BY <1>3, RatioAtCeiling
    <2> QED
        BY <1>1, <2>1
<1> QED
    BY <1>2, <1>3

\* The deployed share of the pool rises above the configured ceiling only when
\* principal leaves the pool or the ceiling is lowered: no deposit into the
\* vault, by the admin or by the permissionless keeper, carries it there
\* (deploy_to_vault, auto_deploy_liquidity, deployment_ratio_bps).
THEOREM DriftIsNotDeployed == Spec => DriftComesFromExits
<1>1. ASSUME TypeOK, [Next]_vars, total_staked > 0, deployment_ratio_bps <= deploy_bps,
             ~(total_staked' < total_staked), ~(deploy_bps' < deploy_bps)
      PROVE  ~(deployment_ratio_bps' > deploy_bps')
    <2>1. TypeOK'
        BY <1>1, StepType
    <2>2. /\ deployed_xlm \in Nat /\ total_staked \in Nat \ {0} /\ deploy_bps \in Nat
          /\ total_staked \in Int
        BY <1>1 DEF TypeOK
    <2>3. deployed_xlm' \in Nat /\ total_staked' \in Int /\ deploy_bps' \in Nat
        BY <2>1 DEF TypeOK
    <2>4. ASSUME NEW t1 \in Int, ~(t1 < total_staked)
          PROVE  t1 \in Nat \ {0} /\ total_staked <= t1 /\ ~(t1 <= 0)
        BY <2>2, <2>4
    <2>5. ASSUME NEW b1 \in Nat, ~(b1 < deploy_bps) PROVE deploy_bps <= b1
        BY <2>2, <2>5
    <2>6. /\ total_staked' \in Nat \ {0} /\ total_staked <= total_staked'
          /\ ~(total_staked' <= 0) /\ deploy_bps <= deploy_bps'
        BY <1>1, <2>3, <2>4, <2>5
    <2>7. Quot(deployed_xlm * BPS_DENOMINATOR, total_staked) <= deploy_bps
        BY <1>1, <2>2 DEF deployment_ratio_bps
    <2>8. \/ deployed_xlm' <= deployed_xlm
          \/ deployed_xlm' <= Bps(total_staked, deploy_bps) /\ total_staked' = total_staked
        BY <1>1, PositionStep DEF deploy_ceiling
    <2>9. Quot(deployed_xlm' * BPS_DENOMINATOR, total_staked') <= deploy_bps'
        BY <2>2, <2>3, <2>6, <2>7, <2>8, ShareStep
    <2>10. deployment_ratio_bps' <= deploy_bps' /\ deployment_ratio_bps' \in Int
        BY <2>3, <2>6, <2>9, QuotNat DEF deployment_ratio_bps, BPS_DENOMINATOR
    <2>11. ASSUME NEW r \in Int, NEW b1 \in Nat, r <= b1 PROVE ~(r > b1)
        BY <2>11
    <2> QED
        BY <2>3, <2>10, <2>11
<1>2. TypeOK /\ [Next]_vars =>
        (total_staked > 0 /\ deployment_ratio_bps <= deploy_bps
           /\ deployment_ratio_bps' > deploy_bps'
         => total_staked' < total_staked \/ deploy_bps' < deploy_bps)
    BY <1>1
<1> QED
    BY <1>2, TypeCorrect, PTL DEF Spec, DriftComesFromExits

\* One pull by the permissionless keeper (ensure_liquidity, shares_needed).
LEMMA PullStep ==
    ASSUME TypeOK, ensure_liquidity
    PROVE  /\ deployed_xlm - deployed_xlm' <= liquidity_shortfall
           /\ \/ deployed_shares' = 0
              \/ 20 * deployed_shares * liquidity_shortfall'
                    <= deployed_shares * liquidity_shortfall
                         + 20 * deployed_xlm + 60 * deployed_shares
<1> DEFINE s == shares_needed
           p == principal_equiv(s)
           L == liquidity_shortfall
           L1 == liquidity_shortfall'
<1>1. /\ deployed_xlm \in Nat \ {0} /\ deployed_shares \in Nat \ {0} /\ L \in Nat /\ s \in Nat
      /\ total_staked \in Int /\ deploy_bps \in 0..MAX_DEPLOY_BPS
      /\ total_allocated \in Int /\ liquid \in Nat /\ deployed_xlm \in Nat
    BY KeeperFigures DEF ensure_liquidity, TypeOK
<1>2. /\ p \in Nat /\ p <= L
      /\ s # deployed_shares =>
            deployed_shares * L < deployed_shares * p + deployed_xlm + deployed_shares
    BY <1>1, TranchePrincipal DEF shares_needed, principal_equiv
<1>3. PICK received \in RedeemedXlm : redeem(s, received, slippage_floor(p), 0)
    BY DEF ensure_liquidity
<1>4. received \in Nat
    BY VaultAssumption
<1> HIDE DEF s, p
<1>5. /\ received >= slippage_floor(p)
      /\ deployed_shares' = deployed_shares - s
      /\ deployed_xlm' = deployed_xlm - p
      /\ total_staked' = total_staked - MaxOf(p - received, 0)
      /\ liquid' = liquid + received - 0
      /\ UNCHANGED <<deploy_bps, total_allocated>>
    BY <1>3 DEF redeem, shortfall, unchanged_by_vault, p
<1>6. deployed_xlm - (deployed_xlm - p) <= L /\ liquid + received - 0 = liquid + received
    BY <1>1, <1>2, <1>4
<1>7. CASE s = deployed_shares
    <2>1. deployed_shares - s = 0
        BY <1>1, <1>7
    <2> QED
        BY <1>5, <1>6, <2>1
<1>8. CASE s # deployed_shares
    <2> DEFINE loss == MaxOf(p - received, 0)
    <2>1. L = ShortOf(total_allocated, liquid, deployed_xlm, Bps(total_staked, deploy_bps))
        BY DEF liquidity_shortfall, deploy_ceiling, ShortOf
    <2>2. L1 = ShortOf(total_allocated, liquid + received, deployed_xlm - p,
                       Bps(total_staked - loss, deploy_bps))
        BY <1>5, <1>6 DEF liquidity_shortfall, deploy_ceiling, ShortOf
    <2>3. loss = MaxOf(p - received, 0) /\ received >= slippage_floor(p)
        BY <1>5
    <2> HIDE DEF L, L1, loss
    <2>4. L1 \in Nat /\ PulledDown(L1, L, p)
        BY <1>1, <1>2, <1>4, <2>1, <2>2, <2>3, ShortAfterRedemption
    <2>5. 20 * deployed_shares * L1
             <= deployed_shares * L + 20 * deployed_xlm + 60 * deployed_shares
        BY <1>1, <1>2, <1>8, <2>4, RemainderInShares
    <2> QED
        BY <1>5, <1>6, <2>5 DEF L, L1
<1> QED
    BY <1>7, <1>8

\* The permissionless keeper never redeems more principal than is short, and
\* leaves short at most the slippage it tolerates, the price of a share and
\* three units, unless the position is used up (ensure_liquidity).
THEOREM KeeperPullsEnough == Spec => KeeperPullsWhatIsShort
<1>1. TypeOK /\ [Next]_vars =>
        (ensure_liquidity =>
          /\ deployed_xlm - deployed_xlm' <= liquidity_shortfall
          /\ \/ deployed_shares' = 0
             \/ 20 * deployed_shares * liquidity_shortfall'
                   <= deployed_shares * liquidity_shortfall
                        + 20 * deployed_xlm + 60 * deployed_shares)
    BY PullStep
<1> QED
    BY <1>1, TypeCorrect, PTL DEF Spec, KeeperPullsWhatIsShort
=============================================================================
