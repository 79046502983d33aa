----------------------------- MODULE ClaimProofs -----------------------------
(***************************************************************************)
(* Theorems about the claims of ProtectionPool!Spec: what may activate one *)
(* and which record it belongs to.                                         *)
(***************************************************************************)
EXTENDS SafetyProofs

USE DEF roles, config, totals, daily, yield, clock

-----------------------------------------------------------------------------
(* What each call does to the claims.                                      *)

\* These calls touch no claim and no override request.
LEMMA ClaimsUntouched ==
    ASSUME \/ \E w \in Wallets, a \in StakeAmounts, b \in Beneficiaries : stake(w, a, b)
           \/ \E w \in Wallets, b \in Beneficiaries : set_beneficiary(w, b) \/ withdraw(w, b)
           \/ \E w \in Wallets : emergency_exit(w) \/ suspend_stake(w)
           \/ \E v \in Verdicts, d \in Deadlines : revoke_approval(v, d)
           \/ pause \/ unpause
           \/ \E c \in PoolCaps : set_pool_cap(c)
           \/ RotationCall \/ VaultCall \/ DonationCall \/ Tick \/ UNCHANGED vars
    PROVE  UNCHANGED <<claims, overrides>>
<1>1. RotationCall => UNCHANGED <<claims, overrides>>
    BY DEF RotationCall, transfer_admin, set_oracle, set_co_signer, set_oracle_pubkey,
       set_oracle_identity, unchanged_but_roles
<1>2. VaultCall => UNCHANGED <<claims, overrides>>
    BY DEF VaultCall, set_vault, set_treasury, set_deploy_bps, deploy_to_vault,
       auto_deploy_liquidity, deposit, ensure_liquidity, provide_liquidity, extract_yield,
       redeem, withdraw_yield, unchanged_by_vault
<1> QED
    BY <1>1, <1>2 DEF stake, set_beneficiary, withdraw, emergency_exit, suspend_stake,
       revoke_approval, pause, unpause, set_paused, set_pool_cap, DonationCall, donate,
       unchanged_by_vault, Tick, vars

\* A submission writes one claim, which is not yet Active.
LEMMA SubmitEffect ==
    ASSUME TypeOK, NEW caller, NEW v \in Verdicts, NEW d, NEW k, submit_claim(caller, v, d, k)
    PROVE  /\ \A i \in ClaimIds : i # compute_claim_id(v) => claims'[i] = claims[i]
           /\ claims'[compute_claim_id(v)].status
                \in {"Reserved", "PendingTime", "AwaitingApproval"}
           /\ overrides' = overrides
<1>1. compute_claim_id(v) \in ClaimIds
    BY VerdictFields
<1>2. CASE submit_claim_queued(caller, v, d, k)
    BY <1>1, <1>2 DEF submit_claim_queued, new_claim, TypeOK
<1>3. CASE submit_claim_admitted(caller, v, d, k)
    BY <1>1, <1>3 DEF submit_claim_admitted, admit_claim, new_claim, TypeOK
<1> QED
    BY <1>2, <1>3 DEF submit_claim

\* The sweeps and cancel_claim write one claim and leave it other than Active.
LEMMA SweepEffect ==
    ASSUME TypeOK, NEW id \in ClaimIds,
           \/ try_release_queued_claim(id) \/ expire_queued_claim(id)
           \/ unlock_pending_claim(id) \/ expire_pending_approval(id)
           \/ expire_stale_claim(id) \/ cancel_claim(id)
    PROVE  /\ \A i \in ClaimIds : i # id => claims'[i] = claims[i]
           /\ claims'[id].status # "Active"
           /\ overrides' = overrides
<1>0. claims[id] \in Claim
    BY DEF TypeOK
<1>1. CASE try_release_queued_claim(id)
    BY <1>1 DEF try_release_queued_claim, admit_claim, new_claim, TypeOK
<1>2. CASE expire_queued_claim(id)
    BY <1>0, <1>2 DEF expire_queued_claim, TypeOK, Claim
<1>3. CASE unlock_pending_claim(id)
    BY <1>0, <1>3 DEF unlock_pending_claim, TypeOK, Claim
<1>4. CASE expire_pending_approval(id)
    BY <1>0, <1>4 DEF expire_pending_approval, release_claim, TypeOK, Claim
<1>5. CASE expire_stale_claim(id)
    BY <1>0, <1>5 DEF expire_stale_claim, release_claim, TypeOK, Claim
<1>6. CASE cancel_claim(id)
    BY <1>0, <1>6 DEF cancel_claim, release_claim, TypeOK, Claim
<1> QED
    BY <1>1, <1>2, <1>3, <1>4, <1>5, <1>6

\* An unsuspension moves a clock of the claim and nothing else of it.
LEMMA UnsuspendEffect ==
    ASSUME TypeOK, NEW w \in Wallets, NEW claim_id, unsuspend_stake(w, claim_id),
           NEW id \in ClaimIds
    PROVE  /\ claims'[id].status = claims[id].status
           /\ claims'[id].cooldown_ends_ledger = claims[id].cooldown_ends_ledger
           /\ claims'[id].streamed = claims[id].streamed
           /\ claims'[id].entitlement = claims[id].entitlement
           /\ overrides' = overrides
<1>1. claims[id] \in Claim
    BY DEF TypeOK
<1>2. claims'[id] \in {claims[id], restart_clock(claims[id])}
    BY DEF unsuspend_stake
<1>3. overrides' = overrides
    BY DEF unsuspend_stake
<1> QED
    BY <1>1, <1>2, <1>3 DEF restart_clock, Claim

\* A payout changes neither the cooldown nor another claim.
LEMMA StreamEffect ==
    ASSUME TypeOK, NEW id \in ClaimIds, NEW b, claim_stream(id, b)
    PROVE  /\ \A i \in ClaimIds : i # id => claims'[i] = claims[i]
           /\ claims[id].status = "Active"
           /\ claims'[id].status \in {"Active", "Completed"}
           /\ claims'[id].cooldown_ends_ledger = claims[id].cooldown_ends_ledger
           /\ overrides' = overrides
<1>1. claims[id] \in Claim
    BY DEF TypeOK
<1> QED
    BY <1>1 DEF claim_stream, TypeOK, Claim

-----------------------------------------------------------------------------
(* The 2-of-2 override.                                                    *)

\* What the executing call leaves in the claim.
LEMMA ExecuteEffect ==
    ASSUME TypeOK, NEW id \in ClaimIds, NEW req \in OverrideRequest,
           execute_override(id, req)
    PROVE  /\ \A i \in ClaimIds : i # id => claims'[i] = claims[i]
           /\ claims'[id].entitlement = req.entitlement
           /\ claims'[id].tier = req.tier
           /\ claims'[id].status = "Active"
<1>1. CASE stakes[id[1]].withdrawn
    <2>1. claims' = [claims EXCEPT ![id] = start_clocks(override_claim(id, req), total_staked)]
        BY <1>1 DEF execute_override
    <2> QED
        BY <2>1 DEF start_clocks, override_claim, new_claim, TypeOK
<1>2. CASE ~stakes[id[1]].withdrawn
    <2>1. activate_claim(id, override_record(id), override_claim(id, req))
        BY <1>2 DEF execute_override
    <2> QED
        BY <2>1 DEF activate_claim, start_clocks, override_claim, new_claim, TypeOK
<1> QED
    BY <1>1, <1>2

\* The call that completes a pair of approvals finds the other one recorded,
\* for the same terms.
LEMMA PairWasRecorded ==
    ASSUME TypeOK, RoleSeparation, NEW id \in ClaimIds, NEW t \in OverrideTerms,
           NEW caller \in {admin, co_signer}, override_ready(approved_by(caller, id, t))
    PROVE  /\ overrides[id] # None
           /\ approved_by(caller, id, t).entitlement = overrides[id].entitlement
           /\ approved_by(caller, id, t).tier = overrides[id].tier
           /\ \/ overrides[id].owner_approver = admin
              \/ overrides[id].co_signer_approver = co_signer
<1>1. co_signer # admin
    BY DEF RoleSeparation
<1>2. admin # None /\ co_signer # None
    BY InputsAssumption DEF TypeOK
<1>3. /\ approved_by(caller, id, t).owner_approver = admin
      /\ approved_by(caller, id, t).co_signer_approver = co_signer
    BY <1>1 DEF override_ready
<1>4. overrides[id] # None
    BY <1>1, <1>2, <1>3 DEF approved_by
<1>5. overrides[id] \in OverrideRequest
    BY <1>4 DEF TypeOK
<1> QED
    BY <1>1, <1>3, <1>4, <1>5 DEF approved_by, OverrideRequest

\* One step cannot activate a claim past the staker without both approvals.
LEMMA OverrideStep ==
    ASSUME TypeOK, RoleSeparation, [Next]_vars, NEW id \in ClaimIds, OverrideActivates(id)
    PROVE  /\ admin # co_signer
           /\ overrides[id] # None
           /\ overrides[id].entitlement = claims'[id].entitlement
           /\ overrides[id].tier = claims'[id].tier
           /\ \/ overrides[id].owner_approver = admin
              \/ overrides[id].co_signer_approver = co_signer
<1> DEFINE Goal == /\ admin # co_signer
                   /\ overrides[id] # None
                   /\ overrides[id].entitlement = claims'[id].entitlement
                   /\ overrides[id].tier = claims'[id].tier
                   /\ \/ overrides[id].owner_approver = admin
                      \/ overrides[id].co_signer_approver = co_signer
<1>1. /\ claims'[id] # claims[id] /\ claims'[id].status = "Active"
      /\ claims[id].status = "Active" =>
            claims'[id].cooldown_ends_ledger # claims[id].cooldown_ends_ledger
      /\ claims[id].status = "AwaitingApproval" => overrides[id] # overrides'[id]
    BY DEF OverrideActivates
<1>2. CASE UNCHANGED <<claims, overrides>>
    BY <1>1, <1>2
<1>3. ASSUME NEW i \in ClaimIds, approve_claim(i) PROVE FALSE
    <2>1. /\ claims[i].status = "AwaitingApproval" /\ overrides' = overrides
          /\ i # id => claims'[id] = claims[id]
        BY <1>3 DEF approve_claim, activate_claim, TypeOK
    <2> QED
        BY <1>1, <2>1
<1>4. ASSUME NEW i \in ClaimIds, NEW b \in Beneficiaries, claim_stream(i, b) PROVE FALSE
    BY <1>1, <1>4, StreamEffect
<1>5. ASSUME NEW caller, NEW v \in Verdicts, NEW d, NEW k, submit_claim(caller, v, d, k)
      PROVE  FALSE
    BY <1>1, <1>5, SubmitEffect
<1>6. ASSUME NEW i \in ClaimIds,
             \/ try_release_queued_claim(i) \/ expire_queued_claim(i)
             \/ unlock_pending_claim(i) \/ expire_pending_approval(i)
             \/ expire_stale_claim(i) \/ cancel_claim(i)
      PROVE  FALSE
    BY <1>1, <1>6, SweepEffect
<1>7. ASSUME NEW w \in Wallets, NEW i, unsuspend_stake(w, i) PROVE FALSE
    BY <1>1, <1>7, UnsuspendEffect
<1>8. ASSUME OverrideCall PROVE Goal
    <2>1. ASSUME NEW i \in ClaimIds, cancel_pending_override(i) PROVE FALSE
        BY <1>1, <2>1 DEF cancel_pending_override
    <2>2. ASSUME NEW caller \in {admin, co_signer}, NEW t \in OverrideTerms,
                 approve_override_pending(caller, t)
          PROVE  FALSE
        BY <1>1, <2>2 DEF approve_override_pending
    <2>3. ASSUME NEW caller \in {admin, co_signer}, NEW t \in OverrideTerms,
                 approve_override_executed(caller, t)
          PROVE  Goal
        <3> DEFINE tid == compute_claim_id(t)
                   req == approved_by(caller, tid, t)
        <3>1. tid \in ClaimIds /\ t.entitlement \in Nat /\ t.tier \in Tiers
            BY CallInputsAssumption DEF compute_claim_id, ClaimIds
        <3>2. req \in OverrideRequest
            BY <3>1, ApprovedByType
        <3>3. override_ready(req) /\ execute_override(tid, req)
            BY <2>3 DEF approve_override_executed
        <3> HIDE DEF tid, req
        <3>4. tid = id
            BY <1>1, <3>1, <3>2, <3>3, ExecuteEffect
        <3>5. claims'[id].entitlement = req.entitlement /\ claims'[id].tier = req.tier
            BY <3>1, <3>2, <3>3, <3>4, ExecuteEffect
        <3>6. /\ overrides[id] # None
              /\ req.entitlement = overrides[id].entitlement
              /\ req.tier = overrides[id].tier
              /\ \/ overrides[id].owner_approver = admin
                 \/ overrides[id].co_signer_approver = co_signer
            BY <3>1, <3>3, <3>4, PairWasRecorded DEF req
        <3> QED
            BY <3>5, <3>6 DEF RoleSeparation
    <2> QED
        BY <1>8, <2>1, <2>2, <2>3 DEF OverrideCall, approve_override
<1>9. CASE StakerCall
    BY <1>2, <1>3, <1>4, <1>9, ClaimsUntouched DEF StakerCall
<1>10. CASE OracleCall \/ AnyoneCall
    BY <1>5, <1>6, <1>10 DEF OracleCall, AnyoneCall
<1>11. CASE AdminCall
    BY <1>2, <1>5, <1>6, <1>7, <1>11, ClaimsUntouched DEF AdminCall
<1>12. CASE RotationCall \/ VaultCall \/ DonationCall \/ Tick \/ UNCHANGED vars
    BY <1>2, <1>12, ClaimsUntouched
<1> QED
    BY <1>8, <1>9, <1>10, <1>11, <1>12 DEF Next

\* An override activates a claim only on terms one current role holder had
\* approved before and the other approves now (approve_override,
\* execute_override), through every sequence of rotations.
THEOREM OverridesNeedBoth == Spec => OverrideNeedsBoth
<1>1. TypeOK /\ RoleSeparation /\ [Next]_vars =>
        \A id \in ClaimIds : OverrideActivates(id) =>
          /\ admin # co_signer
          /\ overrides[id] # None
          /\ overrides[id].entitlement = claims'[id].entitlement
          /\ overrides[id].tier = claims'[id].tier
          /\ \/ overrides[id].owner_approver = admin
             \/ overrides[id].co_signer_approver = co_signer
    BY OverrideStep
<1> QED
    BY <1>1, TypeCorrect, RolesSeparated, PTL DEF OverrideNeedsBoth, Spec

-----------------------------------------------------------------------------
(* The wallet's slots.  ForfeitedWhileActive alone is not inductive:       *)
(* cancel_claim gives the stake back, and only ClaimSlots rules out a      *)
(* second Active claim of the same wallet.                                 *)

SlotInv == ClaimSlots /\ ForfeitedWhileActive

\* A step on one claim: the claim it writes fits the slots, and a slot is
\* given up only if it was free or the claim's own.
LEMMA LocalSlots ==
    ASSUME TypeOK, SlotInv, NEW id \in ClaimIds,
           \A i \in ClaimIds : i # id => claims'[i] = claims[i],
           \A w \in Wallets : w # id[1] => stakes'[w] = stakes[w],
           claims'[id].status \in Live => stakes'[id[1]].active_claim_id = id,
           claims'[id].status = "Reserved" => stakes'[id[1]].reserved_claim_id = id,
           claims'[id].status = "Active" => stakes'[id[1]].withdrawn,
           \/ stakes[id[1]].active_claim_id \in {None, id}
           \/ /\ stakes'[id[1]].active_claim_id = stakes[id[1]].active_claim_id
              /\ stakes[id[1]].withdrawn => stakes'[id[1]].withdrawn,
           \/ stakes[id[1]].reserved_claim_id \in {None, id}
           \/ stakes'[id[1]].reserved_claim_id = stakes[id[1]].reserved_claim_id
    PROVE  SlotInv'
<1> SUFFICES ASSUME NEW i \in ClaimIds
             PROVE  /\ claims'[i].status \in Live => stakes'[i[1]].active_claim_id = i
                    /\ claims'[i].status = "Reserved" => stakes'[i[1]].reserved_claim_id = i
                    /\ claims'[i].status = "Active" => stakes'[i[1]].withdrawn
    BY DEF SlotInv, ClaimSlots, ForfeitedWhileActive
<1>1. i # None /\ i[1] \in Wallets
    BY InputsAssumption, ClaimIdWallet
<1>2. /\ claims[i].status \in Live => stakes[i[1]].active_claim_id = i
      /\ claims[i].status = "Reserved" => stakes[i[1]].reserved_claim_id = i
      /\ claims[i].status = "Active" => stakes[i[1]].withdrawn
    BY DEF SlotInv, ClaimSlots, ForfeitedWhileActive
<1>3. CASE i = id
    BY <1>3
<1>4. CASE i # id /\ i[1] # id[1]
    BY <1>1, <1>2, <1>4
<1>5. CASE i # id /\ i[1] = id[1]
    <2>1. claims[i].status = "Active" => claims[i].status \in Live
        BY DEF Live
    <2> QED
        BY <1>1, <1>2, <1>5, <2>1
<1> QED
    BY <1>3, <1>4, <1>5

\* A step that moves no slot and no claim's status, and frees no stake.
LEMMA KeptSlots ==
    ASSUME SlotInv,
           \A i \in ClaimIds : claims'[i].status = claims[i].status,
           \A w \in Wallets : /\ stakes'[w].active_claim_id = stakes[w].active_claim_id
                              /\ stakes'[w].reserved_claim_id = stakes[w].reserved_claim_id
                              /\ stakes[w].withdrawn => stakes'[w].withdrawn
    PROVE  SlotInv'
BY ClaimIdWallet DEF SlotInv, ClaimSlots, ForfeitedWhileActive

\* A wallet without an open claim stakes: its slots start empty.
LEMMA StakeSlots ==
    ASSUME TypeOK, SlotInv, RestakePolicy = "settled", NEW w \in Wallets, NEW a, NEW b,
           may_stake(w), stake(w, a, b)
    PROVE  SlotInv'
<1>1. \A i \in ClaimIds : i[1] = w => claims[i].status \notin Open
    BY DEF may_stake, ClaimsOf
<1>2. claims' = claims /\ \A u \in Wallets : u # w => stakes'[u] = stakes[u]
    BY DEF stake, TypeOK
<1> QED
    BY <1>1, <1>2, ClaimIdWallet DEF SlotInv, ClaimSlots, ForfeitedWhileActive, Open, Live

\* The staker's other calls and the admin's suspensions move no slot.
LEMMA RecordSlots ==
    ASSUME TypeOK, SlotInv, NEW w \in Wallets, NEW x,
           \/ set_beneficiary(w, x) \/ withdraw(w, x) \/ emergency_exit(w)
           \/ suspend_stake(w) \/ unsuspend_stake(w, x)
    PROVE  SlotInv'
<1>1. stakes[w] \in StakeRecord
    BY DEF TypeOK
<1>2. \A i \in ClaimIds : claims'[i].status = claims[i].status
    BY UnsuspendEffect DEF set_beneficiary, withdraw, emergency_exit, suspend_stake
<1>3. \A u \in Wallets : u # w => stakes'[u] = stakes[u]
    BY DEF set_beneficiary, withdraw, emergency_exit, close_stake, suspend_stake,
       unsuspend_stake, TypeOK
<1>4. /\ stakes'[w].active_claim_id = stakes[w].active_claim_id
      /\ stakes'[w].reserved_claim_id = stakes[w].reserved_claim_id
      /\ stakes[w].withdrawn => stakes'[w].withdrawn
    BY <1>1 DEF set_beneficiary, withdraw, emergency_exit, close_stake, suspend_stake,
       unsuspend_stake, TypeOK, StakeRecord
<1> QED
    BY <1>2, <1>3, <1>4, KeptSlots

\* Admission needs the active slot free, and the queue slot free or its own.
LEMMA AdmitSlots ==
    ASSUME TypeOK, SlotInv, NEW id \in ClaimIds, NEW e, NEW tier, NEW h, NEW counted,
           stakes[id[1]].active_claim_id \in {None, id},
           stakes[id[1]].reserved_claim_id \in {None, id},
           admit_claim(id, e, tier, h, counted)
    PROVE  SlotInv'
<1>1. id[1] \in Wallets /\ stakes[id[1]] \in StakeRecord
    BY ClaimIdWallet DEF TypeOK
<1>2. /\ \A i \in ClaimIds : i # id => claims'[i] = claims[i]
      /\ claims'[id].status \in {"PendingTime", "AwaitingApproval"}
    BY DEF admit_claim, new_claim, TypeOK
<1>3. /\ \A w \in Wallets : w # id[1] => stakes'[w] = stakes[w]
      /\ stakes'[id[1]].active_claim_id = id
    BY <1>1 DEF admit_claim, TypeOK, StakeRecord
<1> QED
    BY <1>2, <1>3, LocalSlots

\* A submission finds both slots empty and takes one.
LEMMA SubmitSlots ==
    ASSUME TypeOK, SlotInv, NEW caller, NEW v \in Verdicts, NEW d, NEW k,
           submit_claim(caller, v, d, k)
    PROVE  SlotInv'
<1> DEFINE id == compute_claim_id(v)
<1>1. id \in ClaimIds /\ id[1] = v.wallet /\ v.wallet \in Wallets
    BY VerdictFields
<1>2. stakes[id[1]] \in StakeRecord
    BY <1>1 DEF TypeOK
<1>3. stakes[id[1]].active_claim_id = None /\ stakes[id[1]].reserved_claim_id = None
    BY <1>1 DEF submit_claim, submit_claim_queued, submit_claim_admitted, submit_checks
<1>4. CASE submit_claim_admitted(caller, v, d, k)
    BY <1>1, <1>3, <1>4, AdmitSlots DEF submit_claim_admitted
<1>5. CASE submit_claim_queued(caller, v, d, k)
    <2>1. /\ \A i \in ClaimIds : i # id => claims'[i] = claims[i]
          /\ claims'[id].status = "Reserved"
        BY <1>1, <1>5 DEF submit_claim_queued, new_claim, TypeOK
    <2>2. /\ \A w \in Wallets : w # id[1] => stakes'[w] = stakes[w]
          /\ stakes'[id[1]].reserved_claim_id = id
        BY <1>1, <1>2, <1>5 DEF submit_claim_queued, TypeOK, StakeRecord
    <2> QED
        BY <1>1, <1>3, <2>1, <2>2, LocalSlots DEF Live
<1> QED
    BY <1>4, <1>5 DEF submit_claim

\* The sweeps, the staker's approval and the admin's cancellation.
LEMMA ClaimStepSlots ==
    ASSUME TypeOK, SlotInv, NEW id \in ClaimIds,
           \/ try_release_queued_claim(id) \/ expire_queued_claim(id)
           \/ unlock_pending_claim(id) \/ approve_claim(id)
           \/ expire_pending_approval(id) \/ expire_stale_claim(id) \/ cancel_claim(id)
    PROVE  SlotInv'
<1>1. id[1] \in Wallets /\ stakes[id[1]] \in StakeRecord /\ claims[id] \in Claim
    BY ClaimIdWallet DEF TypeOK
<1>2. /\ claims[id].status \in Live => stakes[id[1]].active_claim_id = id
      /\ claims[id].status = "Reserved" => stakes[id[1]].reserved_claim_id = id
    BY DEF SlotInv, ClaimSlots
<1>3. CASE try_release_queued_claim(id)
    BY <1>2, <1>3, AdmitSlots DEF try_release_queued_claim, slot_free
<1>4. CASE expire_queued_claim(id)
    <2>1. /\ \A i \in ClaimIds : i # id => claims'[i] = claims[i]
          /\ claims'[id].status = "Expired" /\ claims[id].status = "Reserved"
        BY <1>1, <1>4 DEF expire_queued_claim, TypeOK, Claim
    <2>2. /\ \A w \in Wallets : w # id[1] => stakes'[w] = stakes[w]
          /\ stakes'[id[1]].active_claim_id = stakes[id[1]].active_claim_id
          /\ stakes'[id[1]].withdrawn = stakes[id[1]].withdrawn
        BY <1>1, <1>4 DEF expire_queued_claim, TypeOK, StakeRecord
    <2> QED
        BY <1>2, <2>1, <2>2, LocalSlots DEF Live
<1>5. CASE unlock_pending_claim(id)
    <2>1. /\ \A i \in ClaimIds : i # id => claims'[i] = claims[i]
          /\ claims'[id].status = "AwaitingApproval" /\ claims[id].status = "PendingTime"
        BY <1>1, <1>5 DEF unlock_pending_claim, TypeOK, Claim
    <2>2. stakes' = stakes
        BY <1>5 DEF unlock_pending_claim
    <2> QED
        BY <1>2, <2>1, <2>2, LocalSlots DEF Live
<1>6. CASE approve_claim(id)
    <2>1. /\ \A i \in ClaimIds : i # id => claims'[i] = claims[i]
          /\ claims[id].status = "AwaitingApproval" /\ claims'[id].status = "Active"
        BY <1>1, <1>6 DEF approve_claim, activate_claim, start_clocks, TypeOK, Claim
    <2>2. /\ \A w \in Wallets : w # id[1] => stakes'[w] = stakes[w]
          /\ stakes'[id[1]].active_claim_id = stakes[id[1]].active_claim_id
          /\ stakes'[id[1]].reserved_claim_id = stakes[id[1]].reserved_claim_id
          /\ stakes'[id[1]].withdrawn
        BY <1>1, <1>6 DEF approve_claim, activate_claim, forfeited, TypeOK, StakeRecord
    <2> QED
        BY <1>2, <2>1, <2>2, LocalSlots DEF Live
<1>7. CASE expire_pending_approval(id) \/ expire_stale_claim(id)
    <2>1. /\ \A i \in ClaimIds : i # id => claims'[i] = claims[i]
          /\ claims'[id].status = "Expired" /\ claims[id].status \in Live
        BY <1>1, <1>7 DEF expire_pending_approval, expire_stale_claim, release_claim,
           TypeOK, Claim, Live
    <2>2. /\ \A w \in Wallets : w # id[1] => stakes'[w] = stakes[w]
          /\ stakes'[id[1]].reserved_claim_id = stakes[id[1]].reserved_claim_id
        BY <1>1, <1>7 DEF expire_pending_approval, expire_stale_claim, free_slot, TypeOK,
           StakeRecord
    <2> QED
        BY <1>2, <2>1, <2>2, LocalSlots DEF Live
<1>8. CASE cancel_claim(id)
    <2>1. /\ \A i \in ClaimIds : i # id => claims'[i] = claims[i]
          /\ claims'[id].status = "Cancelled" /\ claims[id].status \in Live
        BY <1>1, <1>8 DEF cancel_claim, cancel_active, cancel_unforfeited, release_claim,
           TypeOK, Claim, Live
    <2>2. /\ \A w \in Wallets : w # id[1] => stakes'[w] = stakes[w]
          /\ stakes'[id[1]].reserved_claim_id = stakes[id[1]].reserved_claim_id
        BY <1>1, <1>8 DEF cancel_claim, cancel_active, cancel_unforfeited, free_slot,
           TypeOK, StakeRecord
    <2> QED
        BY <1>2, <2>1, <2>2, LocalSlots DEF Live
<1> QED
    BY <1>3, <1>4, <1>5, <1>6, <1>7, <1>8

\* A payout leaves the records alone.
LEMMA StreamSlots ==
    ASSUME TypeOK, SlotInv, NEW id \in ClaimIds, NEW b, claim_stream(id, b)
    PROVE  SlotInv'
<1>1. stakes' = stakes
    BY DEF claim_stream
<1>2. stakes[id[1]].active_claim_id = id /\ stakes[id[1]].withdrawn
    BY StreamEffect DEF SlotInv, ClaimSlots, ForfeitedWhileActive, Live
<1>3. claims'[id].status # "Reserved"
    BY StreamEffect
<1> QED
    BY <1>1, <1>2, <1>3, StreamEffect, LocalSlots

\* An override takes the active slot if it is free or its own, and gives up
\* the queue slot only if it is its own.
LEMMA ExecuteSlots ==
    ASSUME TypeOK, SlotInv, NEW id \in ClaimIds, NEW req \in OverrideRequest,
           execute_override(id, req)
    PROVE  SlotInv'
<1>1. id[1] \in Wallets /\ stakes[id[1]] \in StakeRecord
    BY ClaimIdWallet DEF TypeOK
<1>2. /\ override_record(id).active_claim_id = id
      /\ override_record(id).withdrawn = stakes[id[1]].withdrawn
      /\ \/ override_record(id).reserved_claim_id = stakes[id[1]].reserved_claim_id
         \/ stakes[id[1]].reserved_claim_id = id
    BY <1>1 DEF override_record, StakeRecord
<1>3. override_record(id) \in StakeRecord
    BY <1>1 DEF override_record, StakeRecord
<1>4. stakes[id[1]].active_claim_id \in {None, id}
    BY DEF execute_override, slot_free
<1>5. /\ \A w \in Wallets : w # id[1] => stakes'[w] = stakes[w]
      /\ stakes'[id[1]].active_claim_id = id
      /\ stakes'[id[1]].withdrawn
      /\ \/ stakes'[id[1]].reserved_claim_id = stakes[id[1]].reserved_claim_id
         \/ stakes[id[1]].reserved_claim_id = id
    <2>1. CASE stakes[id[1]].withdrawn
        <3>1. stakes' = [stakes EXCEPT ![id[1]] = override_record(id)]
            BY <2>1 DEF execute_override
        <3> QED
            BY <1>1, <1>2, <2>1, <3>1 DEF TypeOK
    <2>2. CASE ~stakes[id[1]].withdrawn
        <3>1. stakes' = [stakes EXCEPT ![id[1]] = forfeited(override_record(id))]
            BY <2>2 DEF execute_override, activate_claim
        <3> QED
            BY <1>1, <1>2, <1>3, <3>1 DEF TypeOK, forfeited, StakeRecord
    <2> QED
        BY <2>1, <2>2
<1> QED
    BY <1>4, <1>5, ExecuteEffect, LocalSlots

\* Every step keeps the slots.
LEMMA SlotStep ==
    ASSUME RestakePolicy = "settled", TypeOK, SlotInv, [Next]_vars
    PROVE  SlotInv'
<1>1. CASE UNCHANGED <<stakes, claims>>
    BY <1>1 DEF SlotInv, ClaimSlots, ForfeitedWhileActive
<1>2. CASE StakerCall
    BY <1>2, StakeSlots, RecordSlots, ClaimStepSlots, StreamSlots DEF StakerCall
<1>3. CASE OracleCall
    BY <1>3, SubmitSlots DEF OracleCall
<1>4. CASE AnyoneCall
    BY <1>4, ClaimStepSlots DEF AnyoneCall
<1>5. CASE AdminCall
    <2>1. ASSUME \/ \E v \in Verdicts, d \in Deadlines : revoke_approval(v, d)
                 \/ pause \/ unpause
                 \/ \E c \in PoolCaps : set_pool_cap(c)
          PROVE  UNCHANGED <<stakes, claims>>
        BY <2>1 DEF revoke_approval, pause, unpause, set_paused, set_pool_cap
    <2> QED
        BY <1>1, <1>5, <2>1, SubmitSlots, ClaimStepSlots, RecordSlots DEF AdminCall
<1>6. CASE RotationCall
    BY <1>1, <1>6 DEF RotationCall, transfer_admin, set_oracle, set_co_signer,
       set_oracle_pubkey, set_oracle_identity, unchanged_but_roles
<1>7. CASE OverrideCall
    <2>1. ASSUME NEW i \in ClaimIds, cancel_pending_override(i) PROVE SlotInv'
        BY <1>1, <2>1 DEF cancel_pending_override
    <2>2. ASSUME NEW caller \in {admin, co_signer}, NEW t \in OverrideTerms,
                 approve_override_pending(caller, t)
          PROVE  SlotInv'
        BY <1>1, <2>2 DEF approve_override_pending
    <2>3. ASSUME NEW caller \in {admin, co_signer}, NEW t \in OverrideTerms,
                 approve_override_executed(caller, t)
          PROVE  SlotInv'
        <3> DEFINE tid == compute_claim_id(t)
                   req == approved_by(caller, tid, t)
        <3>1. tid \in ClaimIds /\ t.entitlement \in Nat /\ t.tier \in Tiers
            BY CallInputsAssumption DEF compute_claim_id, ClaimIds
        <3>2. req \in OverrideRequest
            BY <3>1, ApprovedByType
        <3>3. execute_override(tid, req)
            BY <2>3 DEF approve_override_executed
        <3> QED
            BY <3>1, <3>2, <3>3, ExecuteSlots
    <2> QED
        BY <1>7, <2>1, <2>2, <2>3 DEF OverrideCall, approve_override
<1>8. CASE VaultCall
    BY <1>1, <1>8 DEF VaultCall, set_vault, set_treasury, set_deploy_bps, deploy_to_vault,
       auto_deploy_liquidity, deposit, ensure_liquidity, provide_liquidity, extract_yield,
       redeem, withdraw_yield, unchanged_by_vault
<1>9. CASE DonationCall \/ Tick
    BY <1>1, <1>9 DEF DonationCall, donate, unchanged_by_vault, Tick
<1>10. CASE UNCHANGED vars
    BY <1>1, <1>10 DEF vars
<1> QED
    BY <1>2, <1>3, <1>4, <1>5, <1>6, <1>7, <1>8, <1>9, <1>10 DEF Next

\* The slots hold initially.
LEMMA InitSlots == Init => SlotInv
BY ClaimIdWallet DEF Init, SlotInv, ClaimSlots, ForfeitedWhileActive, UnusedClaim,
   new_claim, Live

\* As long as wallets stake again only with no claim open, a wallet never has
\* two live or two queued claims: submit_claim, try_release_queued_claim and
\* execute_override test the wallet's slots, and the slots tell the truth.
THEOREM SlotsTellTheTruth == ASSUME RestakePolicy = "settled" PROVE Spec => []ClaimSlots
<1>1. SlotInv => ClaimSlots
    BY DEF SlotInv
<1>2. TypeOK /\ SlotInv /\ [Next]_vars => SlotInv'
    BY SlotStep
<1> QED
    BY <1>1, <1>2, InitSlots, TypeCorrect, PTL DEF Spec

\* Under the same assumption the principal of a streaming claim stays
\* forfeited: neither withdraw nor emergency_exit, nor a cancel_claim of some
\* other claim, frees it.
THEOREM PrincipalForfeited ==
    ASSUME RestakePolicy = "settled" PROVE Spec => []ForfeitedWhileActive
<1>1. SlotInv => ForfeitedWhileActive
    BY DEF SlotInv
<1>2. TypeOK /\ SlotInv /\ [Next]_vars => SlotInv'
    BY SlotStep
<1> QED
    BY <1>1, <1>2, InitSlots, TypeCorrect, PTL DEF Spec
=============================================================================
