----------------------------- MODULE SafetyProofs -----------------------------
(***************************************************************************)
(* Safety of ProtectionPool!Spec, for every value of its CONSTANTS, on top *)
(* of type correctness (PoolProofs).                                       *)
(***************************************************************************)
EXTENDS PoolProofs

USE DEF roles, config, totals, daily, yield, clock

-----------------------------------------------------------------------------
(* What each group of calls leaves alone.                                  *)

\* Only a rotation moves a role.
LEMMA OnlyRotationMovesRoles == [Next]_vars => RotationCall \/ UNCHANGED roles
<1>1. StakerCall => UNCHANGED roles
    BY DEF StakerCall, stake, set_beneficiary, withdraw, emergency_exit, approve_claim,
       claim_stream
<1>2. OracleCall => UNCHANGED roles
    BY DEF OracleCall, submit_claim, submit_claim_queued, submit_claim_admitted, admit_claim
<1>3. AnyoneCall => UNCHANGED roles
    BY DEF AnyoneCall, try_release_queued_claim, admit_claim, expire_queued_claim,
       unlock_pending_claim, expire_pending_approval, expire_stale_claim
<1>4. AdminCall => UNCHANGED roles
    BY DEF AdminCall, submit_claim, submit_claim_queued, submit_claim_admitted, admit_claim,
       cancel_claim, revoke_approval, pause, unpause, set_paused, suspend_stake,
       unsuspend_stake, set_pool_cap
<1>5. OverrideCall => UNCHANGED roles
    BY DEF OverrideCall, approve_override, approve_override_pending,
       approve_override_executed, cancel_pending_override
<1>6. VaultCall => UNCHANGED roles
    BY DEF VaultCall, set_vault, set_treasury, set_deploy_bps, deploy_to_vault,
       auto_deploy_liquidity, deposit, ensure_liquidity, provide_liquidity, extract_yield,
       redeem, withdraw_yield, unchanged_by_vault
<1>7. DonationCall \/ Tick => UNCHANGED roles
    BY DEF DonationCall, donate, unchanged_by_vault, Tick
<1> QED
    BY <1>1, <1>2, <1>3, <1>4, <1>5, <1>6, <1>7 DEF Next, vars

\* A revocation is written by the admin; the clock moves by Tick alone.
LEMMA RevokedAndClock ==
    [Next]_vars => \/ \E v \in Verdicts, d \in Deadlines : revoke_approval(v, d)
                   \/ Tick
                   \/ UNCHANGED <<revoked, clock>>
<1>1. StakerCall => UNCHANGED <<revoked, clock>>
    BY DEF StakerCall, stake, set_beneficiary, withdraw, emergency_exit, approve_claim,
       claim_stream
<1>2. OracleCall => UNCHANGED <<revoked, clock>>
    BY DEF OracleCall, submit_claim, submit_claim_queued, submit_claim_admitted, admit_claim
<1>3. AnyoneCall => UNCHANGED <<revoked, clock>>
    BY DEF AnyoneCall, try_release_queued_claim, admit_claim, expire_queued_claim,
       unlock_pending_claim, expire_pending_approval, expire_stale_claim
<1>4. AdminCall => \/ \E v \in Verdicts, d \in Deadlines : revoke_approval(v, d)
                   \/ UNCHANGED <<revoked, clock>>
    BY DEF AdminCall, submit_claim, submit_claim_queued, submit_claim_admitted, admit_claim,
       cancel_claim, pause, unpause, set_paused, suspend_stake, unsuspend_stake,
       set_pool_cap
<1>5. RotationCall => UNCHANGED <<revoked, clock>>
    BY DEF RotationCall, transfer_admin, set_oracle, set_co_signer, set_oracle_pubkey,
       set_oracle_identity, unchanged_but_roles
<1>6. OverrideCall => UNCHANGED <<revoked, clock>>
    BY DEF OverrideCall, approve_override, approve_override_pending,
       approve_override_executed, cancel_pending_override
<1>7. VaultCall \/ DonationCall => UNCHANGED <<revoked, clock>>
    BY DEF VaultCall, set_vault, set_treasury, set_deploy_bps, deploy_to_vault,
       auto_deploy_liquidity, deposit, ensure_liquidity, provide_liquidity, extract_yield,
       redeem, withdraw_yield, DonationCall, donate, unchanged_by_vault
<1> QED
    BY <1>1, <1>2, <1>3, <1>4, <1>5, <1>6, <1>7 DEF Next, vars

-----------------------------------------------------------------------------
(* Roles.                                                                  *)

\* The co-signer is kept apart from admin and oracle through every sequence of
\* rotations (initialize, transfer_admin, set_oracle, set_oracle_identity,
\* set_co_signer).
THEOREM RolesSeparated == Spec => []RoleSeparation
<1>1. Init => RoleSeparation
    BY DEF Init, initialize, RoleSeparation
<1>2. RoleSeparation /\ [Next]_vars => RoleSeparation'
    BY OnlyRotationMovesRoles DEF RotationCall, transfer_admin, set_oracle, set_co_signer,
       set_oracle_pubkey, set_oracle_identity, RoleSeparation
<1> QED
    BY <1>1, <1>2, PTL DEF Spec

-----------------------------------------------------------------------------
(* Approvals.  A revocation entry loses one ledger of life per ledger and  *)
(* the approval it names at least one second, so the entry's slack over    *)
(* the approval never shrinks.                                             *)

\* Inductive: a revocation entry has at least as many ledgers left as its
\* approval has seconds.
RevocationSlack ==
    \A p \in Payloads : revoked[p] # 0 => revoked[p] + timestamp >= p[2] + ledger

\* A payload's deadline.
LEMMA PayloadDeadline == ASSUME NEW p \in Payloads PROVE p[2] \in Nat
BY InputsAssumption DEF Payloads

\* The slack is kept by every step (set_approval_revoked, Tick).
LEMMA SlackStep == TypeOK /\ RevocationSlack /\ [Next]_vars => RevocationSlack'
<1> SUFFICES ASSUME TypeOK, RevocationSlack, [Next]_vars,
                    NEW p \in Payloads, revoked'[p] # 0
             PROVE  revoked'[p] + timestamp' >= p[2] + ledger'
    BY DEF RevocationSlack
<1>1. p[2] \in Nat /\ revoked[p] \in Nat /\ ledger \in Nat /\ timestamp \in Nat
    BY PayloadDeadline DEF TypeOK
<1>2. ASSUME NEW v \in Verdicts, NEW d \in Deadlines, revoke_approval(v, d)
      PROVE  revoked'[p] + timestamp' >= p[2] + ledger'
    <2>1. <<v, d>> \in Payloads /\ d \in Nat
        BY InputsAssumption DEF Payloads
    <2>2. timestamp' = timestamp /\ ledger' = ledger
        BY <1>2 DEF revoke_approval
    <2>3. CASE p = <<v, d>>
        <3>1. revoked'[p] = MaxOf(revoked[p], ledger + REVOCATION_TTL_LEDGERS)
            BY <1>2, <2>1, <2>3 DEF revoke_approval, set_approval_revoked, TypeOK
        <3>2. p[2] = d /\ d <= timestamp + MAX_APPROVAL_WINDOW_SECONDS
            BY <1>2, <2>3 DEF revoke_approval, deadline_legal
        <3>3. revoked'[p] >= ledger + MAX_APPROVAL_WINDOW_SECONDS
            BY <1>1, <3>1, RevocationTtlAssumption, DurationsAssumption DEF MaxOf
        <3>4. revoked'[p] \in Nat
            BY <1>1, <3>1, DurationsAssumption DEF MaxOf
        <3> QED
            BY <1>1, <2>1, <2>2, <3>2, <3>3, <3>4, DurationsAssumption
    <2>4. CASE p # <<v, d>>
        <3>1. revoked'[p] = revoked[p]
            BY <1>2, <2>4 DEF revoke_approval, set_approval_revoked, TypeOK
        <3> QED
            BY <2>2, <3>1 DEF RevocationSlack
    <2> QED
        BY <2>3, <2>4
<1>3. CASE Tick
    <2>1. PICK dt \in LedgerSeconds : timestamp' = timestamp + dt
        BY <1>3 DEF Tick
    <2>2. dt \in Nat /\ dt >= 1
        BY LedgerSecondsAssumption
    <2>3. revoked' = revoked /\ ledger' = ledger + 1
        BY <1>3 DEF Tick
    <2> QED
        BY <1>1, <2>1, <2>2, <2>3 DEF RevocationSlack
<1>4. CASE UNCHANGED <<revoked, clock>>
    BY <1>4 DEF RevocationSlack
<1> QED
    BY <1>2, <1>3, <1>4, RevokedAndClock

\* The slack makes the entry outlive the approval.
LEMMA SlackSuffices == TypeOK /\ RevocationSlack => RevocationOutlivesApproval
<1> SUFFICES ASSUME TypeOK, RevocationSlack, NEW p \in Payloads,
                    revoked[p] # 0, timestamp <= p[2]
             PROVE  is_approval_revoked(p)
    BY DEF RevocationOutlivesApproval
<1>1. p[2] \in Nat /\ revoked[p] \in Nat /\ ledger \in Nat /\ timestamp \in Nat
    BY PayloadDeadline DEF TypeOK
<1> QED
    BY <1>1 DEF RevocationSlack, is_approval_revoked

\* A revocation kept in temporary storage outlives the approval it revokes at
\* every ledger close rate of one second or slower (revoke_approval,
\* set_approval_revoked and the const-assert of types.rs).
THEOREM RevocationOutlives == Spec => []RevocationOutlivesApproval
<1>1. Init => RevocationSlack
    BY DEF Init, RevocationSlack
<1> QED
    BY <1>1, SlackStep, SlackSuffices, TypeCorrect, PTL DEF Spec

\* The oracle's submission, seen from the claim it opens.
LEMMA OracleSubmission ==
    ASSUME TypeOK, RevocationOutlivesApproval, OracleCall, NEW v \in Verdicts,
           claims[compute_claim_id(v)].status = "Unused",
           claims'[compute_claim_id(v)].status \in Open
    PROVE  \E u \in Verdicts, d \in Deadlines :
              /\ compute_claim_id(u) = compute_claim_id(v)
              /\ u.entitlement = claims'[compute_claim_id(v)].entitlement
              /\ deadline_legal(d) /\ revoked[<<u, d>>] = 0
<1> DEFINE id == compute_claim_id(v)
<1>1. PICK u \in Verdicts, d \in Deadlines, k \in Pubkeys : submit_claim(oracle, u, d, k)
    BY DEF OracleCall
<1> DEFINE uid == compute_claim_id(u)
<1>2. id \in ClaimIds /\ uid \in ClaimIds
    BY VerdictFields
<1>3. verify_oracle_signature(u, d, k)
    BY <1>1 DEF submit_claim, submit_claim_queued, submit_claim_admitted, submit_checks
<1>4. /\ \A i \in ClaimIds : i # uid => claims'[i] = claims[i]
      /\ claims'[uid].entitlement = u.entitlement
    <2>1. CASE submit_claim_queued(oracle, u, d, k)
        BY <1>2, <2>1 DEF submit_claim_queued, new_claim, TypeOK
    <2>2. CASE submit_claim_admitted(oracle, u, d, k)
        BY <1>2, <2>2 DEF submit_claim_admitted, admit_claim, new_claim, TypeOK
    <2> QED
        BY <1>1, <2>1, <2>2 DEF submit_claim
<1>5. id = uid
    BY <1>2, <1>4 DEF Open, Live
<1>6. claims'[id].entitlement = u.entitlement
    BY <1>4, <1>5
<1>7. <<u, d>> \in Payloads /\ <<u, d>>[2] = d
    BY DEF Payloads
<1>8. revoked[<<u, d>>] = 0
    BY <1>3, <1>7 DEF verify_oracle_signature, deadline_legal, RevocationOutlivesApproval
<1> QED
    BY <1>3, <1>5, <1>6, <1>8 DEF verify_oracle_signature

\* A revoked approval never opens a claim, also after its revocation entry has
\* lapsed (submit_claim, verify_oracle_signature, is_approval_revoked).
THEOREM RevokedStaysDead == Spec => RevokedApprovalIsDead
<1>1. TypeOK /\ RevocationOutlivesApproval =>
        (OracleCall =>
            \A v \in Verdicts :
                LET id == compute_claim_id(v)
                IN  claims[id].status = "Unused" /\ claims'[id].status \in Open =>
                      \E u \in Verdicts, d \in Deadlines :
                          /\ compute_claim_id(u) = id
                          /\ u.entitlement = claims'[id].entitlement
                          /\ deadline_legal(d) /\ revoked[<<u, d>>] = 0)
    BY OracleSubmission
<1> QED
    BY <1>1, TypeCorrect, RevocationOutlives, PTL DEF RevokedApprovalIsDead

-----------------------------------------------------------------------------
(* The yield vault.                                                        *)

\* A redemption that sends no more than its gain to the treasury.
LEMMA RedeemBacking ==
    ASSUME TypeOK, NEW shares \in Nat, NEW received \in Nat, NEW out,
           NEW to_treasury \in Nat, redeem(shares, received, out, to_treasury),
           to_treasury <= MaxOf(received - principal_equiv(shares), 0)
    PROVE  Surplus' >= Surplus
<1> DEFINE pe == principal_equiv(shares)
<1>1. pe \in Nat
    BY PrincipalEquivBounded DEF redeem
<1>2. /\ deployed_xlm' = deployed_xlm - pe
      /\ total_staked' = total_staked - shortfall(pe, received)
      /\ liquid' = liquid + received - to_treasury
      /\ total_allocated' = total_allocated
    BY DEF redeem, unchanged_by_vault
<1>3. shortfall(pe, received) = MaxOf(pe - received, 0)
    BY DEF shortfall
<1>4. to_treasury <= MaxOf(received - pe, 0)
    OBVIOUS
<1> HIDE DEF pe
<1> QED
    BY <1>1, <1>2, <1>3, <1>4 DEF Surplus, TypeOK, MaxOf

\* A deposit turns liquid into deployed XLM one for one.
LEMMA DepositBacking ==
    ASSUME TypeOK, NEW amount \in Nat, NEW out, deposit(amount, out)
    PROVE  Surplus' = Surplus
BY DEF deposit, unchanged_by_vault, Surplus, TypeOK

\* Every vault call, at every price.
LEMMA VaultBacking ==
    ASSUME TypeOK, VaultCall
    PROVE  Surplus' >= MinOf(Surplus, 0)
<1>1. Surplus \in Int
    BY DEF Surplus, TypeOK
<1>2. SUFFICES Surplus' = Surplus \/ (Surplus' \in Int /\ (Surplus' >= Surplus \/ Surplus' >= 0))
    BY <1>1 DEF MinOf
<1>3. Surplus' \in Int
    BY VaultType DEF Surplus, TypeOK
<1>4. ASSUME NEW a \in Vaults, set_vault(a) \/ set_treasury(a) PROVE Surplus' = Surplus
    BY <1>4 DEF set_vault, set_treasury, unchanged_by_vault, Surplus
<1>5. ASSUME NEW b \in DeployBpsValues, set_deploy_bps(b) PROVE Surplus' = Surplus
    BY <1>5 DEF set_deploy_bps, unchanged_by_vault, Surplus
<1>6. ASSUME NEW a \in DeployAmounts, NEW m \in MinOuts, deploy_to_vault(a, m)
      PROVE  Surplus' = Surplus
    BY <1>6, DepositBacking, CallInputsAssumption DEF deploy_to_vault
<1>7. CASE auto_deploy_liquidity
    <2> DEFINE amount == MinOf(MaxOf(liquid - total_allocated, 0), deploy_room)
    <2>1. amount \in Nat
        BY KeeperFigures DEF TypeOK, MinOf, MaxOf
    <2> QED
        BY <1>7, <2>1, DepositBacking DEF auto_deploy_liquidity
<1>8. ASSUME NEW s \in Nat, NEW received \in Nat, NEW m, redeem(s, received, m, 0)
      PROVE  Surplus' >= Surplus
    <2>1. principal_equiv(s) \in Nat
        BY <1>8, PrincipalEquivBounded DEF redeem
    <2>2. 0 <= MaxOf(received - principal_equiv(s), 0)
        BY <2>1 DEF MaxOf
    <2> QED
        BY <1>8, <2>2, RedeemBacking
<1>9. CASE ensure_liquidity
    <2>1. shares_needed \in Nat
        BY <1>9, KeeperFigures DEF ensure_liquidity
    <2>2. PICK received \in RedeemedXlm :
             redeem(shares_needed, received, slippage_floor(principal_equiv(shares_needed)), 0)
        BY <1>9 DEF ensure_liquidity
    <2>3. received \in Nat
        BY VaultAssumption
    <2> QED
        BY <1>3, <1>8, <2>1, <2>2, <2>3
<1>10. ASSUME NEW s \in ShareAmounts, NEW m \in MinOuts, provide_liquidity(s, m)
       PROVE  Surplus' >= Surplus
    BY <1>8, <1>10, VaultAssumption, CallInputsAssumption DEF provide_liquidity
<1>11. ASSUME NEW s \in ShareAmounts, NEW m \in MinOuts, extract_yield(s, m)
       PROVE  Surplus' >= Surplus
    <2>1. s \in Nat
        BY CallInputsAssumption
    <2>2. PICK received \in RedeemedXlm :
             redeem(s, received, m, MaxOf(received - principal_equiv(s), 0))
        BY <1>11 DEF extract_yield
    <2>3. received \in Nat
        BY VaultAssumption
    <2>4. principal_equiv(s) \in Nat
        BY <2>1, <2>2, PrincipalEquivBounded DEF redeem
    <2>5. /\ MaxOf(received - principal_equiv(s), 0) \in Nat
          /\ MaxOf(received - principal_equiv(s), 0) <= MaxOf(received - principal_equiv(s), 0)
        BY <2>3, <2>4 DEF MaxOf
    <2> QED
        BY <2>1, <2>2, <2>3, <2>5, RedeemBacking
<1>12. ASSUME NEW a \in YieldAmounts, withdraw_yield(a) PROVE Surplus' >= 0
    BY <1>12, CallInputsAssumption DEF withdraw_yield, yield_balance, unchanged_by_vault,
       Surplus, TypeOK, MaxOf
<1> QED
    BY <1>3, <1>4, <1>5, <1>6, <1>7, <1>9, <1>10, <1>11, <1>12 DEF VaultCall

\* No vault call, at whatever price the vault deals, takes from what is owed to
\* stakers and claimants (deploy_to_vault, redeem, extract_yield,
\* withdraw_yield).
THEOREM VaultKeepsBacking == Spec => VaultPreservesBacking
<1>1. TypeOK => (VaultCall => Surplus' >= MinOf(Surplus, 0))
    BY VaultBacking
<1> QED
    BY <1>1, TypeCorrect, PTL DEF VaultPreservesBacking

\* What auto_deploy_liquidity moves keeps clear of both triggers of
\* ensure_liquidity.
LEMMA AutoDeployLeavesNoShortfall ==
    ASSUME TypeOK, auto_deploy_liquidity
    PROVE  liquidity_shortfall' = 0
<1> DEFINE amount == MinOf(MaxOf(liquid - total_allocated, 0), deploy_room)
<1>1. amount \in Nat /\ deploy_ceiling \in Int /\ deploy_room \in Nat
    BY KeeperFigures DEF TypeOK, MinOf, MaxOf
<1>2. PICK out : deposit(amount, out)
    BY DEF auto_deploy_liquidity
<1>3. /\ amount > 0 /\ liquid - amount >= total_allocated
    BY DEF auto_deploy_liquidity
<1>4. amount <= deploy_room
    BY <1>1 DEF TypeOK, MinOf, MaxOf
<1> HIDE DEF amount
<1>5. /\ liquid' = liquid - amount /\ deployed_xlm' = deployed_xlm + amount
      /\ total_staked' = total_staked /\ total_allocated' = total_allocated
      /\ deploy_bps' = deploy_bps
    BY <1>2 DEF deposit, unchanged_by_vault
<1>6. deploy_ceiling' = deploy_ceiling
    BY <1>5 DEF deploy_ceiling
<1>7. deployed_xlm + amount <= deploy_ceiling
    BY <1>1, <1>3, <1>4 DEF deploy_room, MaxOf, TypeOK
<1>8. total_allocated' - liquid' <= 0 /\ deployed_xlm' - deploy_ceiling' <= 0
    BY <1>1, <1>3, <1>5, <1>6, <1>7 DEF TypeOK
<1> QED
    BY <1>1, <1>5, <1>6, <1>8 DEF liquidity_shortfall, MaxOf, TypeOK

\* The two permissionless keepers do not undo each other
\* (auto_deploy_liquidity, ensure_liquidity).
THEOREM KeepersDoNotOscillate == Spec => KeepersAgree
<1>1. TypeOK => (auto_deploy_liquidity => liquidity_shortfall' = 0)
    BY AutoDeployLeavesNoShortfall
<1> QED
    BY <1>1, TypeCorrect, PTL DEF KeepersAgree
=============================================================================
