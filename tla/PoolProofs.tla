------------------------------ MODULE PoolProofs ------------------------------
(***************************************************************************)
(* Theorems about ProtectionPool!Spec, for every value of its CONSTANTS.   *)
(***************************************************************************)
EXTENDS PoolProperties, PoolMathProofs

USE DEF roles, config, totals, daily, yield, clock

-----------------------------------------------------------------------------
(* Type correctness, one lemma per group of calls.                         *)

\* Every deployment starts in a typed state (initialize).
LEMMA InitType == Init => TypeOK
<1> SUFFICES ASSUME Init PROVE TypeOK
    OBVIOUS
<1>1. PICK d \in Deployments : initialize(d)
    BY DEF Init
<1>2. d \in Deployment
    BY <1>1, CallInputsAssumption
<1>3. EmptyStake \in StakeRecord
    BY DEF EmptyStake, StakeRecord
<1>4. UnusedClaim \in Claim
    BY DEF UnusedClaim, new_claim, Claim, ClaimStatus, Tiers
<1>5. stakes \in [Wallets -> StakeRecord] /\ claims \in [ClaimIds -> Claim]
    BY <1>3, <1>4 DEF Init
<1>6. admin \in Addresses /\ oracle \in Addresses /\ co_signer \in Addresses
      /\ oracle_pubkey \in Pubkeys /\ pool_cap \in Nat
    BY <1>1, <1>2 DEF initialize, Deployment
<1>7. paused \in BOOLEAN
    BY <1>1 DEF initialize
<1>11. /\ total_staked \in Int /\ total_allocated \in Int /\ total_stakers \in Nat
    BY <1>1 DEF initialize
<1>8. /\ daily_outflow \in [day : Nat, amount : Nat]
      /\ daily_entitlement \in [day : Nat, total : Nat, count : Nat]
      /\ points_balance \in [Wallets -> Nat]
      /\ revoked \in [Payloads -> Nat]
    BY SMT DEF Init
<1>9. overrides \in [ClaimIds -> OverrideRequest \cup {None}]
    BY SMT DEF Init
<1>10. /\ vault \in Vaults \cup {None} /\ treasury \in Vaults \cup {None}
      /\ deploy_bps \in 0..MAX_DEPLOY_BPS
      /\ deployed_shares \in Nat /\ deployed_xlm \in Nat /\ extracted_yield \in Nat
      /\ liquid \in Nat /\ ledger \in Nat /\ timestamp \in Nat
    BY DEF Init, MAX_DEPLOY_BPS
<1> QED
    BY <1>5, <1>6, <1>7, <1>8, <1>9, <1>10, <1>11 DEF TypeOK

\* The roles stay addresses through every rotation.
LEMMA RotationType == TypeOK /\ RotationCall => TypeOK'
<1> SUFFICES ASSUME TypeOK, RotationCall PROVE TypeOK'
    OBVIOUS
<1>1. unchanged_but_roles
    BY DEF RotationCall, transfer_admin, set_oracle, set_co_signer, set_oracle_pubkey,
           set_oracle_identity
<1>2. admin' \in Addresses /\ oracle' \in Addresses /\ co_signer' \in Addresses
      /\ oracle_pubkey' \in Pubkeys
    BY CallInputsAssumption DEF TypeOK, RotationCall, transfer_admin, set_oracle,
       set_co_signer, set_oracle_pubkey, set_oracle_identity
<1> QED
    BY <1>1, <1>2 DEF TypeOK, unchanged_but_roles

\* A closing ledger moves only the clock.
LEMMA TickType == TypeOK /\ Tick => TypeOK'
BY LedgerSecondsAssumption DEF TypeOK, Tick

-----------------------------------------------------------------------------
\* Configuration, deposit, redemption and yield keep every figure in range; in
\* particular no redemption takes the position below zero (redeem).
LEMMA PrincipalEquivBounded ==
    ASSUME TypeOK, NEW shares \in Nat, redeemable(shares)
    PROVE  principal_equiv(shares) \in Nat /\ principal_equiv(shares) <= deployed_xlm
BY ProRataBounded DEF TypeOK, redeemable, principal_equiv

\* What a redemption leaves behind.
LEMMA RedeemType ==
    ASSUME TypeOK, NEW shares \in Nat, NEW received \in Nat, NEW out,
           NEW to_treasury \in Nat, to_treasury <= received,
           redeem(shares, received, out, to_treasury)
    PROVE  TypeOK'
<1>1. principal_equiv(shares) \in Nat /\ principal_equiv(shares) <= deployed_xlm
    BY PrincipalEquivBounded DEF redeem
<1>2. shortfall(principal_equiv(shares), received) \in Int
    BY <1>1 DEF shortfall, MaxOf
<1>3. /\ deployed_shares' \in Nat /\ deployed_xlm' \in Nat /\ total_staked' \in Int
      /\ liquid' \in Nat /\ extracted_yield' \in Nat
    BY <1>1, <1>2 DEF TypeOK, redeem, redeemable
<1> QED
    BY <1>3 DEF TypeOK, redeem, unchanged_by_vault

\* A deposit is covered by the liquid balance.
LEMMA DepositType ==
    ASSUME TypeOK, NEW amount \in Nat, NEW out, deposit(amount, out)
    PROVE  TypeOK'
<1>1. deployed_shares' \in Nat /\ deployed_xlm' \in Nat /\ liquid' \in Nat
    BY VaultAssumption DEF TypeOK, deposit
<1> QED
    BY <1>1 DEF TypeOK, deposit, unchanged_by_vault

\* The figures the permissionless keepers compute for themselves.
LEMMA KeeperFigures ==
    ASSUME TypeOK
    PROVE  /\ deploy_ceiling \in Int /\ deploy_room \in Nat /\ liquidity_shortfall \in Nat
           /\ deployed_xlm > 0 => shares_needed \in Nat
<1>1. deploy_ceiling \in Int
    BY BpsInt DEF TypeOK, deploy_ceiling, MAX_DEPLOY_BPS
<1>2. deploy_room \in Nat /\ liquidity_shortfall \in Nat
    BY <1>1 DEF TypeOK, deploy_room, liquidity_shortfall, MaxOf
<1>3. ASSUME deployed_xlm > 0 PROVE shares_needed \in Nat
    <2>1. liquidity_shortfall * deployed_shares \in Nat
        BY <1>2 DEF TypeOK
    <2>2. pro_rata(liquidity_shortfall, deployed_shares, deployed_xlm) \in Nat
        BY <1>3, <2>1, QuotNat DEF TypeOK, pro_rata
    <2> QED
        BY <2>2 DEF TypeOK, shares_needed, MinOf
<1> QED
    BY <1>1, <1>2, <1>3

\* Every vault call keeps the state typed.
LEMMA VaultType == TypeOK /\ VaultCall => TypeOK'
<1> SUFFICES ASSUME TypeOK, VaultCall PROVE TypeOK'
    OBVIOUS
<1>1. ASSUME NEW a \in Vaults, set_vault(a) \/ set_treasury(a) PROVE TypeOK'
    BY <1>1 DEF TypeOK, set_vault, set_treasury, unchanged_by_vault
<1>2. ASSUME NEW b \in DeployBpsValues, set_deploy_bps(b) PROVE TypeOK'
    <2>1. b \in Nat
        BY CallInputsAssumption
    <2>2. deploy_bps' \in 0..MAX_DEPLOY_BPS
        BY <1>2, <2>1 DEF set_deploy_bps, MAX_DEPLOY_BPS
    <2> QED
        BY <1>2, <2>2 DEF TypeOK, set_deploy_bps, unchanged_by_vault
<1>3. ASSUME NEW a \in DeployAmounts, NEW m \in MinOuts, deploy_to_vault(a, m)
      PROVE  TypeOK'
    BY <1>3, DepositType, CallInputsAssumption DEF deploy_to_vault
<1>4. CASE auto_deploy_liquidity
    <2> DEFINE amount == MinOf(MaxOf(liquid - total_allocated, 0), deploy_room)
    <2>1. amount \in Nat
        BY KeeperFigures DEF TypeOK, MinOf, MaxOf
    <2> QED
        BY <1>4, <2>1, DepositType DEF auto_deploy_liquidity
<1>5. CASE ensure_liquidity
    <2>1. shares_needed \in Nat
        BY <1>5, KeeperFigures DEF ensure_liquidity
    <2>2. PICK received \in RedeemedXlm :
             redeem(shares_needed, received, slippage_floor(principal_equiv(shares_needed)), 0)
        BY <1>5 DEF ensure_liquidity
    <2> QED
        BY <2>1, <2>2, RedeemType, VaultAssumption
<1>6. ASSUME NEW s \in ShareAmounts, NEW m \in MinOuts, provide_liquidity(s, m)
      PROVE  TypeOK'
    BY <1>6, RedeemType, VaultAssumption, CallInputsAssumption DEF provide_liquidity
<1>7. ASSUME NEW s \in ShareAmounts, NEW m \in MinOuts, extract_yield(s, m)
      PROVE  TypeOK'
    <2>1. s \in Nat
        BY CallInputsAssumption
    <2>2. PICK received \in RedeemedXlm :
             redeem(s, received, m, MaxOf(received - principal_equiv(s), 0))
        BY <1>7 DEF extract_yield
    <2>3. received \in Nat
        BY VaultAssumption
    <2>4. principal_equiv(s) \in Nat
        BY <2>1, <2>2, PrincipalEquivBounded DEF redeem
    <2>5. /\ MaxOf(received - principal_equiv(s), 0) \in Nat
          /\ MaxOf(received - principal_equiv(s), 0) <= received
        BY <2>3, <2>4 DEF MaxOf
    <2> QED
        BY <2>1, <2>2, <2>3, <2>5, RedeemType
<1>8. ASSUME NEW a \in YieldAmounts, withdraw_yield(a) PROVE TypeOK'
    <2>1. liquid' \in Nat /\ extracted_yield' \in Nat
        BY <1>8, CallInputsAssumption DEF TypeOK, withdraw_yield
    <2> QED
        BY <1>8, <2>1 DEF TypeOK, withdraw_yield, unchanged_by_vault
<1> QED
    BY <1>1, <1>2, <1>3, <1>4, <1>5, <1>6, <1>7, <1>8 DEF VaultCall

-----------------------------------------------------------------------------
(* Calls of the stakers.                                                   *)

\* One stake record written over an earlier one.
LEMMA StakesUpdate ==
    ASSUME TypeOK, NEW w \in Wallets, NEW r \in StakeRecord,
           stakes' = [stakes EXCEPT ![w] = r]
    PROVE  stakes' \in [Wallets -> StakeRecord]
BY DEF TypeOK

\* One claim record written over an earlier one.
LEMMA ClaimsUpdate ==
    ASSUME TypeOK, NEW id \in ClaimIds, NEW c \in Claim,
           claims' = [claims EXCEPT ![id] = c]
    PROVE  claims' \in [ClaimIds -> Claim]
BY DEF TypeOK

\* A claim id names its wallet.
LEMMA ClaimIdWallet == ASSUME NEW id \in ClaimIds PROVE id[1] \in Wallets
BY DEF ClaimIds

\* Closing a record keeps the totals in range (withdraw, emergency_exit).
LEMMA CloseStakeType ==
    ASSUME TypeOK, NEW w \in Wallets, close_stake(w)
    PROVE  /\ stakes' \in [Wallets -> StakeRecord] /\ total_staked' \in Int
           /\ total_stakers' \in Nat /\ liquid' \in Nat
<1>1. stakes[w] \in StakeRecord
    BY DEF TypeOK
<1>2. [stakes[w] EXCEPT !.withdrawn = TRUE, !.amount = 0] \in StakeRecord
    BY <1>1 DEF StakeRecord
<1>3. stakes' = [stakes EXCEPT ![w] = [stakes[w] EXCEPT !.withdrawn = TRUE, !.amount = 0]]
    BY <1>1 DEF close_stake, TypeOK, StakeRecord
<1>4. stakes' \in [Wallets -> StakeRecord]
    BY <1>2, <1>3, StakesUpdate
<1>5. stakes[w].amount \in Nat
    BY <1>1 DEF StakeRecord
<1> QED
    BY <1>4, <1>5 DEF TypeOK, close_stake, require_liquidity, SatSub

\* The way out that banks no points.
LEMMA EmergencyExitType ==
    ASSUME TypeOK, NEW w \in Wallets, emergency_exit(w)
    PROVE  TypeOK'
BY CloseStakeType DEF TypeOK, emergency_exit

\* A new record, a new beneficiary, and a withdrawal.
LEMMA StakeCallType ==
    ASSUME TypeOK, NEW w \in Wallets, NEW a \in Nat, NEW b \in Beneficiaries,
           stake(w, a, b) \/ set_beneficiary(w, b) \/ withdraw(w, b)
    PROVE  TypeOK'
<1>1. a \in Nat /\ b \in Addresses
    BY CallInputsAssumption
<1>2. stakes[w] \in StakeRecord
    BY DEF TypeOK
<1>3. CASE stake(w, a, b)
    <2> DEFINE r == [EmptyStake EXCEPT !.beneficiary_hash = b, !.amount = a,
                        !.staked_at_ledger = ledger, !.staked_at_timestamp = timestamp]
    <2>1. r \in StakeRecord
        BY <1>1 DEF TypeOK, EmptyStake, StakeRecord
    <2>2. stakes' \in [Wallets -> StakeRecord]
        BY <1>3, <2>1, StakesUpdate DEF stake
    <2> QED
        BY <1>1, <1>3, <2>2 DEF TypeOK, stake
<1>4. CASE set_beneficiary(w, b)
    <2>1. stakes' \in [Wallets -> StakeRecord]
        BY <1>1, <1>2, <1>4 DEF TypeOK, set_beneficiary, StakeRecord
    <2> QED
        BY <1>4, <2>1 DEF TypeOK, set_beneficiary
<1>5. CASE withdraw(w, b)
    <2>a. ledger \in Nat /\ stakes[w].staked_at_ledger \in Nat
        BY <1>2 DEF TypeOK, StakeRecord
    <2>b. SatSub(ledger, stakes[w].staked_at_ledger) \in Nat
        BY <2>a DEF SatSub
    <2>c. LEDGERS_PER_DAY \in Nat \ {0}
        BY DurationsAssumption
    <2>1. SatSub(ledger, stakes[w].staked_at_ledger) \div LEDGERS_PER_DAY \in Nat
        BY ONLY <2>b, <2>c, DivNat
    <2>2. compute_points_for_record(stakes[w]) \in Nat
        BY <1>2, <2>1, PointsNat DEF TypeOK, StakeRecord, compute_points_for_record
    <2>3. points_balance' \in [Wallets -> Nat]
        BY <1>5, <2>2 DEF TypeOK, withdraw
    <2> QED
        BY <1>5, <2>3, CloseStakeType DEF TypeOK, withdraw
<1> QED
    BY <1>3, <1>4, <1>5

-----------------------------------------------------------------------------
(* The claim flow.                                                         *)

\* A claim record as first written.
LEMMA NewClaimType ==
    ASSUME NEW h \in Nat, NEW e \in Nat, NEW tier \in Tiers \cup {0}, NEW a \in Nat,
           NEW status \in ClaimStatus
    PROVE  new_claim(h, e, tier, a, status) \in Claim
BY DEF new_claim, Claim

\* A claim whose clocks have been started.
LEMMA StartClocksType ==
    ASSUME TypeOK, NEW claim \in Claim, NEW snapshot \in Int
    PROVE  start_clocks(claim, snapshot) \in Claim
<1>1. /\ ledger + COOLDOWN_LEDGERS \in Nat
      /\ ledger + COOLDOWN_LEDGERS + VESTING_LEDGERS \in Nat
    BY DurationsAssumption DEF TypeOK
<1> QED
    BY <1>1 DEF start_clocks, Claim, ClaimStatus

\* Activation, by the staker or by an override.
LEMMA ActivateType ==
    ASSUME TypeOK, NEW id \in ClaimIds, NEW record \in StakeRecord, NEW claim \in Claim,
           activate_claim(id, record, claim)
    PROVE  /\ points_balance' \in [Wallets -> Nat] /\ stakes' \in [Wallets -> StakeRecord]
           /\ total_staked' \in Int /\ total_stakers' \in Nat
           /\ claims' \in [ClaimIds -> Claim]
<1>1. id[1] \in Wallets
    BY ClaimIdWallet
<1>2. forfeited(record) \in StakeRecord
    BY DEF forfeited, StakeRecord
<1>3. stakes' \in [Wallets -> StakeRecord]
    BY <1>1, <1>2, StakesUpdate DEF activate_claim
<1>4. record.amount \in Nat
    BY DEF StakeRecord
<1>5. start_clocks(claim, total_staked) \in Claim
    BY StartClocksType DEF TypeOK
<1>6. [start_clocks(claim, total_staked) EXCEPT !.stake = record.amount] \in Claim
    BY <1>4, <1>5 DEF Claim
<1>7. claims' \in [ClaimIds -> Claim]
    BY <1>6, ClaimsUpdate DEF activate_claim
<1>8. points_balance' \in [Wallets -> Nat]
    BY <1>1 DEF TypeOK, activate_claim, burn_points
<1> QED
    BY <1>3, <1>4, <1>7, <1>8 DEF TypeOK, activate_claim, SatSub

\* Day numbers and the day's counters.
LEMMA DailyFigures ==
    ASSUME TypeOK
    PROVE  /\ current_day \in Nat /\ get_daily_outflow \in Nat
           /\ get_daily_total \in Nat /\ get_daily_count \in Nat
<1>1. current_day \in Nat
    BY DivNat, DurationsAssumption DEF TypeOK, current_day
<1> QED
    BY <1>1 DEF TypeOK, get_daily_outflow, get_daily_total, get_daily_count

\* Admission, fresh or from the queue.
LEMMA AdmitType ==
    ASSUME TypeOK, NEW id \in ClaimIds, NEW e \in Nat, NEW tier \in Tiers \cup {0}, NEW h \in Nat,
           NEW counted \in Nat, admit_claim(id, e, tier, h, counted)
    PROVE  TypeOK'
<1> DEFINE pending == new_claim(h, e, tier, stakes[id[1]].amount, "PendingTime")
           gate_met == SatSub(ledger, stakes[id[1]].staked_at_ledger) >= TIME_GATE_LEDGERS
           admitted == IF gate_met
                       THEN [pending EXCEPT !.status = "AwaitingApproval",
                               !.approve_deadline_ledger = ledger + APPROVE_WINDOW_LEDGERS]
                       ELSE pending
<1>1. id[1] \in Wallets /\ stakes[id[1]] \in StakeRecord
    BY ClaimIdWallet DEF TypeOK
<1>2. stakes[id[1]].amount \in Nat
    BY <1>1 DEF StakeRecord
<1>3. pending \in Claim
    BY <1>2, NewClaimType DEF ClaimStatus
<1>4. admitted \in Claim
    <2>1. ledger + APPROVE_WINDOW_LEDGERS \in Nat
        BY DurationsAssumption DEF TypeOK
    <2> HIDE DEF pending, gate_met
    <2> QED
        BY <1>3, <2>1 DEF Claim, ClaimStatus
<1>5. claims' = [claims EXCEPT ![id] = admitted]
    BY DEF admit_claim
<1>6. claims' \in [ClaimIds -> Claim]
    BY <1>4, <1>5, ClaimsUpdate
<1>7. stakes' \in [Wallets -> StakeRecord]
    BY <1>1 DEF admit_claim, TypeOK, StakeRecord
<1>8. daily_entitlement' \in [day : Nat, total : Nat, count : Nat]
    BY DailyFigures DEF admit_claim
<1>9. total_allocated' \in Int
    BY DEF TypeOK, admit_claim
<1> QED
    BY <1>6, <1>7, <1>8, <1>9 DEF TypeOK, admit_claim

\* A verdict's fields, and the claim it is about.
LEMMA VerdictFields ==
    ASSUME NEW v \in Verdicts
    PROVE  /\ compute_claim_id(v) \in ClaimIds /\ v.wallet \in Wallets
           /\ v.entitlement \in Nat /\ v.tier \in Tiers /\ v.hack_timestamp \in Nat
           /\ compute_claim_id(v)[1] = v.wallet
BY InputsAssumption DEF Verdict, compute_claim_id, ClaimIds

\* Submission, to the queue or admitted.
LEMMA SubmitType ==
    ASSUME TypeOK, NEW caller, NEW v \in Verdicts, NEW d, NEW k, submit_claim(caller, v, d, k)
    PROVE  TypeOK'
<1>1. CASE submit_claim_queued(caller, v, d, k)
    <2> DEFINE c == new_claim(v.hack_timestamp, v.entitlement, v.tier,
                              stakes[v.wallet].amount, "Reserved")
    <2>1. stakes[v.wallet] \in StakeRecord
        BY VerdictFields DEF TypeOK
    <2>2. stakes[v.wallet].amount \in Nat
        BY <2>1 DEF StakeRecord
    <2>3. c \in Claim
        BY <2>2, VerdictFields, NewClaimType DEF ClaimStatus
    <2>4. claims' \in [ClaimIds -> Claim]
        BY <1>1, <2>3, VerdictFields, ClaimsUpdate DEF submit_claim_queued
    <2>5. stakes' \in [Wallets -> StakeRecord]
        BY <1>1, <2>1, VerdictFields DEF TypeOK, submit_claim_queued, StakeRecord
    <2> QED
        BY <1>1, <2>4, <2>5 DEF TypeOK, submit_claim_queued
<1>2. CASE submit_claim_admitted(caller, v, d, k)
    BY <1>2, VerdictFields, AdmitType DEF submit_claim_admitted
<1> QED
    BY <1>1, <1>2 DEF submit_claim

\* What claim_stream transfers is an integer.
LEMMA StreamFigures ==
    ASSUME TypeOK, NEW id \in ClaimIds
    PROVE  claimable(claims[id]) \in Int /\ available_today(claims[id]) \in Int
<1> DEFINE c == claims[id]
           base == MaxOf(total_staked, c.total_staked_snapshot)
           elapsed == SatSub(MinOf(ledger, c.vesting_ends_ledger), c.cooldown_ends_ledger)
<1>1. c \in Claim
    BY DEF TypeOK
<1>2. /\ c.entitlement \in Nat /\ c.streamed \in Nat /\ c.vesting_ends_ledger \in Nat
      /\ c.cooldown_ends_ledger \in Nat /\ c.total_staked_snapshot \in Int
    BY <1>1 DEF Claim
<1>3. base \in Int
    BY <1>2 DEF TypeOK, MaxOf
<1>4. elapsed \in Nat
    BY <1>2 DEF TypeOK, MinOf, SatSub
<1> HIDE DEF c, base, elapsed
<1>5. vested_of(c.entitlement, elapsed, VESTING_LEDGERS) \in Int
    BY <1>2, <1>4, QuotInt, DurationsAssumption, c.entitlement * elapsed \in Int DEF vested_of
<1>6. claimable(c) \in Int
    BY <1>2, <1>5 DEF claimable, elapsed
<1>7. dynamic_outflow_bps(base) \in Int
    BY DEF dynamic_outflow_bps, outflow_bps_of
<1>8. Bps(base, dynamic_outflow_bps(base)) \in Int
    BY <1>3, <1>7, BpsInt
<1>9. available_today(c) \in Int
    BY <1>8, DailyFigures DEF available_today, outflow_cap, base
<1> QED
    BY <1>6, <1>9 DEF c

\* A payout.
LEMMA StreamType ==
    ASSUME TypeOK, NEW id \in ClaimIds, NEW b, claim_stream(id, b)
    PROVE  TypeOK'
<1> DEFINE c == claims[id]
           amount == MinOf(claimable(c), available_today(c))
           paid == [c EXCEPT !.streamed = @ + amount, !.last_collected_ledger = ledger]
           after == IF paid.streamed >= paid.entitlement
                    THEN [paid EXCEPT !.status = "Completed"] ELSE paid
<1>1. c \in Claim
    BY DEF TypeOK
<1>2. amount \in Int
    BY StreamFigures DEF MinOf
<1>3. amount \in Nat /\ amount <= liquid
    BY <1>2 DEF claim_stream, may_transfer, require_liquidity
<1>4. claims' = [claims EXCEPT ![id] = after]
    BY DEF claim_stream
<1>5. /\ total_allocated' = total_allocated - amount
      /\ daily_outflow' = [day |-> current_day, amount |-> get_daily_outflow + amount]
      /\ liquid' = liquid - amount
    BY DEF claim_stream
<1> HIDE DEF amount, c
<1>6. paid \in Claim
    <2>1. c.streamed + amount \in Nat /\ ledger \in Nat
        BY <1>1, <1>3 DEF TypeOK, Claim
    <2> QED
        BY <1>1, <2>1 DEF Claim
<1> HIDE DEF paid
<1>7. after \in Claim
    BY <1>6 DEF Claim, ClaimStatus
<1> HIDE DEF after
<1>8. claims' \in [ClaimIds -> Claim]
    BY <1>4, <1>7, ClaimsUpdate
<1>9. daily_outflow' \in [day : Nat, amount : Nat]
    BY <1>3, <1>5, DailyFigures
<1> QED
    BY <1>3, <1>5, <1>8, <1>9 DEF TypeOK, claim_stream

\* The sweeps, the staker's approval and the admin's cancellation.
LEMMA ClaimStepType ==
    ASSUME TypeOK, NEW id \in ClaimIds,
           \/ try_release_queued_claim(id) \/ expire_queued_claim(id)
           \/ unlock_pending_claim(id) \/ approve_claim(id)
           \/ expire_pending_approval(id) \/ expire_stale_claim(id) \/ cancel_claim(id)
    PROVE  TypeOK'
<1>1. claims[id] \in Claim /\ id[1] \in Wallets
    BY ClaimIdWallet DEF TypeOK
<1>2. /\ claims[id].entitlement \in Nat /\ claims[id].streamed \in Nat
      /\ claims[id].stake \in Nat /\ claims[id].tier \in Tiers \cup {0}
      /\ claims[id].hack_timestamp \in Nat
    BY <1>1 DEF Claim
<1>3. stakes[id[1]] \in StakeRecord
    BY <1>1 DEF TypeOK
<1>4. unstreamed(claims[id]) \in Int
    BY <1>2 DEF unstreamed
<1>5. CASE try_release_queued_claim(id)
    BY <1>2, <1>5, AdmitType DEF try_release_queued_claim
<1>6. CASE expire_queued_claim(id)
    <2>1. claims' \in [ClaimIds -> Claim]
        BY <1>1, <1>6 DEF TypeOK, expire_queued_claim, Claim, ClaimStatus
    <2>2. stakes' \in [Wallets -> StakeRecord]
        BY <1>3, <1>6 DEF TypeOK, expire_queued_claim, StakeRecord
    <2> QED
        BY <1>6, <2>1, <2>2 DEF TypeOK, expire_queued_claim
<1>7. CASE unlock_pending_claim(id)
    <2>1. ledger + APPROVE_WINDOW_LEDGERS \in Nat
        BY DurationsAssumption DEF TypeOK
    <2>2. claims' \in [ClaimIds -> Claim]
        BY <1>1, <1>7, <2>1 DEF TypeOK, unlock_pending_claim, Claim, ClaimStatus
    <2> QED
        BY <1>7, <2>2 DEF TypeOK, unlock_pending_claim
<1>8. CASE approve_claim(id)
    BY <1>1, <1>3, <1>8, ActivateType DEF TypeOK, approve_claim
<1>9. CASE expire_pending_approval(id)
    <2>1. claims' \in [ClaimIds -> Claim]
        BY <1>1, <1>9 DEF TypeOK, expire_pending_approval, release_claim, Claim, ClaimStatus
    <2>2. stakes' \in [Wallets -> StakeRecord]
        BY <1>3, <1>9 DEF TypeOK, expire_pending_approval, free_slot, StakeRecord
    <2> QED
        BY <1>2, <1>9, <2>1, <2>2 DEF TypeOK, expire_pending_approval, release_claim
<1>10. CASE expire_stale_claim(id)
    <2>1. claims' \in [ClaimIds -> Claim]
        BY <1>1, <1>10 DEF TypeOK, expire_stale_claim, release_claim, Claim, ClaimStatus
    <2>2. stakes' \in [Wallets -> StakeRecord]
        BY <1>3, <1>10 DEF TypeOK, expire_stale_claim, free_slot, StakeRecord
    <2> QED
        BY <1>4, <1>10, <2>1, <2>2 DEF TypeOK, expire_stale_claim, release_claim
<1>11. CASE cancel_claim(id)
    <2>1. claims' \in [ClaimIds -> Claim]
        BY <1>1, <1>11 DEF TypeOK, cancel_claim, release_claim, Claim, ClaimStatus
    <2>2. ledger + PENALTY_LOCK_LEDGERS \in Nat
        BY DurationsAssumption DEF TypeOK
    <2>3. stakes' \in [Wallets -> StakeRecord]
        <3>1. CASE cancel_active(id)
            <4> DEFINE r == [stakes[id[1]] EXCEPT !.withdrawn = FALSE,
                               !.penalty_locked_until_ledger = ledger + PENALTY_LOCK_LEDGERS,
                               !.active_claim_id = None]
            <4>1. r \in StakeRecord
                BY <1>3, <2>2 DEF StakeRecord
            <4>2. stakes' = [stakes EXCEPT ![id[1]] = r]
                BY <1>1, <1>3, <3>1 DEF TypeOK, cancel_active, StakeRecord
            <4> QED
                BY <1>1, <4>1, <4>2, StakesUpdate
        <3>2. CASE cancel_unforfeited(id)
            BY <1>3, <3>2 DEF TypeOK, cancel_unforfeited, free_slot, StakeRecord
        <3> QED
            BY <1>11, <3>1, <3>2 DEF cancel_claim
    <2>4. total_staked' \in Int /\ total_stakers' \in Nat
        BY <1>2, <1>11 DEF TypeOK, cancel_claim, cancel_active, cancel_unforfeited
    <2> QED
        BY <1>4, <1>11, <2>1, <2>3, <2>4 DEF TypeOK, cancel_claim, release_claim
<1> QED
    BY <1>5, <1>6, <1>7, <1>8, <1>9, <1>10, <1>11

-----------------------------------------------------------------------------
(* The admin's calls and the override.                                     *)

\* Suspension, and the clock an unsuspension restarts.
LEMMA SuspensionType ==
    ASSUME TypeOK, NEW w \in Wallets, NEW claim_id,
           suspend_stake(w) \/ unsuspend_stake(w, claim_id)
    PROVE  TypeOK'
<1>1. stakes[w] \in StakeRecord
    BY DEF TypeOK
<1>2. CASE suspend_stake(w)
    <2>1. stakes' \in [Wallets -> StakeRecord]
        BY <1>1, <1>2 DEF TypeOK, suspend_stake, StakeRecord
    <2> QED
        BY <1>2, <2>1 DEF TypeOK, suspend_stake
<1>3. CASE unsuspend_stake(w, claim_id)
    <2>1. stakes' \in [Wallets -> StakeRecord]
        BY <1>1, <1>3 DEF TypeOK, unsuspend_stake, StakeRecord
    <2>2. ASSUME NEW c \in Claim PROVE restart_clock(c) \in Claim
        <3>1. ledger + APPROVE_WINDOW_LEDGERS \in Nat /\ ledger \in Nat
            BY DurationsAssumption DEF TypeOK
        <3>2. [c EXCEPT !.approve_deadline_ledger = ledger + APPROVE_WINDOW_LEDGERS] \in Claim
            BY <3>1 DEF Claim
        <3>3. [c EXCEPT !.last_collected_ledger = ledger] \in Claim
            BY <3>1 DEF Claim
        <3> QED
            BY <3>2, <3>3 DEF restart_clock
    <2>3. claims' \in [ClaimIds -> Claim]
        BY <1>3, <2>2 DEF TypeOK, unsuspend_stake
    <2> QED
        BY <1>3, <2>1, <2>3 DEF TypeOK, unsuspend_stake
<1> QED
    BY <1>2, <1>3

\* A revocation entry's last ledger.
LEMMA RevokeType ==
    ASSUME TypeOK, NEW v \in Verdicts, NEW d \in Deadlines, revoke_approval(v, d)
    PROVE  TypeOK'
<1>1. <<v, d>> \in Payloads
    BY DEF Payloads
<1>2. revoked[<<v, d>>] \in Nat /\ ledger + REVOCATION_TTL_LEDGERS \in Nat
    BY <1>1, DurationsAssumption DEF TypeOK
<1>3. MaxOf(revoked[<<v, d>>], ledger + REVOCATION_TTL_LEDGERS) \in Nat
    BY <1>2 DEF MaxOf
<1>4. revoked' \in [Payloads -> Nat]
    BY <1>1, <1>3 DEF TypeOK, revoke_approval, set_approval_revoked
<1> QED
    BY <1>4 DEF TypeOK, revoke_approval

\* Every call of the admin.
LEMMA AdminType == TypeOK /\ AdminCall => TypeOK'
<1> SUFFICES ASSUME TypeOK, AdminCall PROVE TypeOK'
    OBVIOUS
<1>1. ASSUME NEW c \in PoolCaps, set_pool_cap(c) PROVE TypeOK'
    BY <1>1, CallInputsAssumption DEF TypeOK, set_pool_cap
<1>2. CASE pause \/ unpause
    <2>1. paused' \in BOOLEAN
        BY <1>2 DEF pause, unpause, set_paused
    <2> QED
        BY <1>2, <2>1 DEF TypeOK, pause, unpause, set_paused
<1> QED
    BY <1>1, <1>2, SubmitType, ClaimStepType, RevokeType, SuspensionType DEF AdminCall

\* Execution of an override, over a live stake or a forfeited one.
LEMMA ExecuteType ==
    ASSUME TypeOK, NEW id \in ClaimIds, NEW req \in OverrideRequest,
           execute_override(id, req)
    PROVE  /\ points_balance' \in [Wallets -> Nat] /\ stakes' \in [Wallets -> StakeRecord]
           /\ total_staked' \in Int /\ total_stakers' \in Nat /\ total_allocated' \in Int
           /\ claims' \in [ClaimIds -> Claim]
<1>1. id[1] \in Wallets /\ stakes[id[1]] \in StakeRecord /\ claims[id] \in Claim
    BY ClaimIdWallet DEF TypeOK
<1>2. /\ stakes[id[1]].amount \in Nat /\ claims[id].streamed \in Nat
      /\ claims[id].entitlement \in Nat
    BY <1>1 DEF StakeRecord, Claim
<1>3. req.entitlement \in Nat /\ req.tier \in Tiers
    BY DEF OverrideRequest
<1>4. override_record(id) \in StakeRecord
    BY <1>1 DEF override_record, StakeRecord
<1>5. override_claim(id, req) \in Claim
    <2>1. new_claim(timestamp, req.entitlement, req.tier, stakes[id[1]].amount, "Active")
            \in Claim
        BY <1>2, <1>3, NewClaimType DEF TypeOK, ClaimStatus
    <2>2. carried_streamed(claims[id]) \in Nat
        BY <1>2 DEF carried_streamed
    <2> QED
        BY <2>1, <2>2 DEF override_claim, Claim
<1>6. released_by_override(claims[id]) \in Int
    BY <1>2 DEF released_by_override, unstreamed
<1>7. total_allocated' \in Int
    BY <1>3, <1>6 DEF TypeOK, execute_override
<1>8. CASE stakes[id[1]].withdrawn
    <2>1. start_clocks(override_claim(id, req), total_staked) \in Claim
        BY <1>5, StartClocksType DEF TypeOK
    <2>2. claims' \in [ClaimIds -> Claim]
        BY <1>8, <2>1, ClaimsUpdate DEF execute_override
    <2>3. stakes' \in [Wallets -> StakeRecord]
        BY <1>1, <1>4, <1>8, StakesUpdate DEF execute_override
    <2> QED
        BY <1>7, <1>8, <2>2, <2>3 DEF TypeOK, execute_override
<1>9. CASE ~stakes[id[1]].withdrawn
    BY <1>4, <1>5, <1>7, <1>9, ActivateType DEF execute_override
<1> QED
    BY <1>8, <1>9

\* The request after one more approval is a request.
LEMMA ApprovedByType ==
    ASSUME TypeOK, NEW caller, NEW id \in ClaimIds, NEW t,
           t.entitlement \in Nat, t.tier \in Tiers
    PROVE  approved_by(caller, id, t) \in OverrideRequest
<1> DEFINE fresh == [entitlement |-> t.entitlement, tier |-> t.tier,
                     owner_approver |-> None, co_signer_approver |-> None]
           req == IF overrides[id] = None THEN fresh ELSE overrides[id]
<1>1. fresh \in OverrideRequest
    BY DEF OverrideRequest
<1>2. overrides[id] \in OverrideRequest \cup {None}
    BY DEF TypeOK
<1>3. req \in OverrideRequest
    BY ONLY <1>1, <1>2
<1>4. admin \in Addresses /\ co_signer \in Addresses
    BY DEF TypeOK
<1>5. approved_by(caller, id, t) =
        [req EXCEPT !.owner_approver = IF caller = admin THEN admin ELSE @,
                    !.co_signer_approver = IF caller = co_signer THEN co_signer ELSE @]
    BY DEF approved_by
<1> HIDE DEF req
<1> QED
    BY ONLY <1>3, <1>4, <1>5 DEF OverrideRequest

\* Approval, execution and cancellation of an override.
LEMMA OverrideType == TypeOK /\ OverrideCall => TypeOK'
<1> SUFFICES ASSUME TypeOK, OverrideCall PROVE TypeOK'
    OBVIOUS
<1>1. ASSUME NEW caller \in {admin, co_signer}, NEW t \in OverrideTerms,
             approve_override(caller, t)
      PROVE  TypeOK'
    <2> DEFINE id == compute_claim_id(t)
               req == approved_by(caller, id, t)
    <2>1. /\ t.wallet \in Wallets /\ t.tx_hash \in TxHashes
          /\ t.entitlement \in Nat /\ t.tier \in Tiers
        BY CallInputsAssumption
    <2>2. id \in ClaimIds
        BY <2>1 DEF compute_claim_id, ClaimIds
    <2>3. req \in OverrideRequest
        BY <2>1, <2>2, ApprovedByType
    <2> HIDE DEF id, req
    <2>4. CASE approve_override_pending(caller, t)
        <3>1. overrides' \in [ClaimIds -> OverrideRequest \cup {None}]
            BY <2>2, <2>3, <2>4 DEF TypeOK, approve_override_pending, id, req
        <3> QED
            BY <2>4, <3>1 DEF TypeOK, approve_override_pending
    <2>5. CASE approve_override_executed(caller, t)
        <3>1. overrides' \in [ClaimIds -> OverrideRequest \cup {None}]
            BY <2>2, <2>5 DEF TypeOK, approve_override_executed, id
        <3>2. execute_override(id, req)
            BY <2>5 DEF approve_override_executed, id, req
        <3> QED
            BY <2>2, <2>3, <2>5, <3>1, <3>2, ExecuteType
               DEF TypeOK, approve_override_executed
    <2> QED
        BY <1>1, <2>4, <2>5 DEF approve_override
<1>2. ASSUME NEW id \in ClaimIds, cancel_pending_override(id) PROVE TypeOK'
    BY <1>2 DEF TypeOK, cancel_pending_override
<1> QED
    BY <1>1, <1>2 DEF OverrideCall

-----------------------------------------------------------------------------
\* A donation adds to the liquid balance alone.
LEMMA DonationType == TypeOK /\ DonationCall => TypeOK'
BY CallInputsAssumption DEF DonationCall, donate, unchanged_by_vault, TypeOK

\* Every step keeps the state typed.
LEMMA StepType == TypeOK /\ [Next]_vars => TypeOK'
<1> SUFFICES ASSUME TypeOK, [Next]_vars PROVE TypeOK'
    OBVIOUS
<1>1. CASE StakerCall
    <2>1. 0 \in Nat /\ StakeAmounts \subseteq Nat
        BY CallInputsAssumption
    <2> QED
        BY <1>1, <2>1, StakeCallType, EmergencyExitType, ClaimStepType, StreamType DEF StakerCall
<1>2. CASE OracleCall
    BY <1>2, SubmitType DEF OracleCall
<1>3. CASE AnyoneCall
    BY <1>3, ClaimStepType DEF AnyoneCall
<1>4. CASE UNCHANGED vars
    BY <1>4 DEF vars, TypeOK
<1> QED
    BY <1>1, <1>2, <1>3, <1>4, AdminType, RotationType, OverrideType, VaultType, DonationType,
       TickType DEF Next

\* Type correctness of the contract's storage: no sequence of calls takes a
\* u32 counter, the liquid balance, the deployed position, a payout counter or
\* a claim's paid amount below zero (close_stake, claim_stream, redeem,
\* withdraw_yield), and no slot ever names anything but a claim.
THEOREM TypeCorrect == Spec => []TypeOK
<1>1. Init => TypeOK
    BY InitType
<1>2. TypeOK /\ [Next]_vars => TypeOK'
    BY StepType
<1> QED
    BY <1>1, <1>2, PTL DEF Spec
=============================================================================
