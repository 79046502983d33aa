---------------------------- MODULE PoolProperties ----------------------------
(***************************************************************************)
(* What the pool promises: invariants and action properties of             *)
(* ProtectionPool!Spec.  Each names the code it is about.                  *)
(***************************************************************************)
EXTENDS ProtectionPool, Views, Functions

-----------------------------------------------------------------------------
(* Accounting.                                                             *)

Outstanding(id) ==
    IF claims[id].status \in Live THEN MaxOf(unstreamed(claims[id]), 0) ELSE 0

Held(w) == IF holds_stake(stakes[w]) THEN stakes[w].amount ELSE 0

TotalOutstanding == SumFunction([id \in ClaimIds |-> Outstanding(id)])
TotalStreamed == SumFunction([id \in ClaimIds |-> claims[id].streamed])
TotalHeld == SumFunction([w \in Wallets |-> Held(w)])

\* Whatever the sequence of admissions, corrections, payouts, sweeps and
\* cancellations, total_allocated reserves at least what the live claims can
\* still be paid (admit_claim, claim_stream, cancel_claim, the expiries and
\* execute_override each adjust it by their own formula).
AllocationCovered == total_allocated >= TotalOutstanding

\* The stronger reading of claim_stream's comment: total_allocated is exactly
\* the sum of entitlement - streamed over the live claims.
AllocationExact == total_allocated = TotalOutstanding

\* total_staked is exactly the principal of the records that are neither
\* withdrawn nor forfeited: stake, withdraw, emergency_exit, activate_claim
\* and cancel_claim move the total and the record in step.
StakedMatchesRecords == total_staked = TotalHeld

\* The pool's holdings fall short of total_staked by no more than what claims
\* have been paid: no other call lets principal leave (vault.rs module header,
\* with the claim payouts it leaves out).
HoldingsAccountForPayouts == liquid + deployed_xlm + TotalStreamed >= total_staked

-----------------------------------------------------------------------------
(* The wallet's claim slots.                                               *)

\* A live claim occupies its wallet's active slot and a queued one its queue
\* slot, so a wallet never has two live or two queued claims (submit_claim,
\* try_release_queued_claim and execute_override test the slots, not the
\* claims).
ClaimSlots ==
    \A id \in ClaimIds :
        /\ claims[id].status \in Live => stakes[id[1]].active_claim_id = id
        /\ claims[id].status = "Reserved" => stakes[id[1]].reserved_claim_id = id

\* A slot never dangles: it names a claim of that wallet, live or completed
\* for the active slot, queued for the queue slot.
SlotsPointToClaims ==
    \A w \in Wallets :
        /\ stakes[w].active_claim_id # None =>
              /\ stakes[w].active_claim_id \in ClaimsOf(w)
              /\ claims[stakes[w].active_claim_id].status \in Live \cup {"Completed"}
        /\ stakes[w].reserved_claim_id # None =>
              /\ stakes[w].reserved_claim_id \in ClaimsOf(w)
              /\ claims[stakes[w].reserved_claim_id].status = "Reserved"

\* While a claim streams, its staker's principal stays forfeited: neither
\* withdraw nor emergency_exit can pay it out a second time.
ForfeitedWhileActive ==
    \A id \in ClaimIds : claims[id].status = "Active" => stakes[id[1]].withdrawn

-----------------------------------------------------------------------------
(* Payout.                                                                 *)

\* What a claim has been paid never runs ahead of its linear vesting, however
\* the collections are spread over days and capped (claim_stream).
StreamedWithinVesting ==
    \A id \in ClaimIds :
        LET c == claims[id]
        IN  c.streamed * VESTING_LEDGERS
              <= c.entitlement * SatSub(MinOf(ledger, c.vesting_ends_ledger),
                                        c.cooldown_ends_ledger)

\* One day's payouts of all claims together stay within 5% of the largest
\* base any of them may use, even though the rate and the base move between
\* two collections of the same day (claim_stream, dynamic_outflow_bps).
OutflowWithinDailyCap ==
    [][daily_outflow' # daily_outflow =>
          \E base \in {total_staked} \cup {claims[id].total_staked_snapshot : id \in ClaimIds} :
              20 * daily_outflow'.amount <= base]_vars

\* A day's admissions, fresh and released from the queue together, stay within
\* a quarter of total_staked at the time of the last of them (stress_cap).
AdmissionWithinStressCap ==
    [][daily_entitlement' # daily_entitlement =>
          4 * daily_entitlement'.total <= total_staked]_vars

\* Rule B never counts the cooldown: an Active claim is swept only after the
\* full inactivity period has passed since the cooldown ended.
CooldownIsNotInactivity ==
    [][\A id \in ClaimIds :
          claims[id].status = "Active" /\ claims'[id].status = "Expired" =>
            ledger > claims[id].cooldown_ends_ledger + COLLECTION_INACTIVITY_LEDGERS]_vars

-----------------------------------------------------------------------------
(* Roles and the 2-of-2 override.                                          *)

\* The co-signer is never the admin or the oracle, through every rotation
\* (initialize, transfer_admin, set_oracle, set_oracle_identity, set_co_signer).
RoleSeparation == co_signer # admin /\ co_signer # oracle

\* The id becomes or is made Active again other than by the staker.
OverrideActivates(id) ==
    /\ claims'[id] # claims[id]
    /\ claims'[id].status = "Active"
    /\ claims[id].status = "Active" =>
            claims'[id].cooldown_ends_ledger # claims[id].cooldown_ends_ledger
    /\ claims[id].status = "AwaitingApproval" => overrides[id] # overrides'[id]

\* An override takes effect only if one of the two current role holders had
\* approved the very same terms before, in an earlier call: one party alone,
\* or one party with an approval left over from a replaced holder, cannot
\* activate a claim (approve_override, execute_override).
OverrideNeedsBoth ==
    [][\A id \in ClaimIds : OverrideActivates(id) =>
          /\ admin # co_signer
          /\ overrides[id] # None
          /\ overrides[id].entitlement = claims'[id].entitlement
          /\ overrides[id].tier = claims'[id].tier
          /\ \/ overrides[id].owner_approver = admin
             \/ overrides[id].co_signer_approver = co_signer]_vars

-----------------------------------------------------------------------------
(* Approvals.                                                              *)

\* A revocation entry, kept in temporary storage, is still live whenever the
\* approval it revokes could still be submitted, for every ledger close rate
\* (revoke_approval, set_approval_revoked, the const-assert of types.rs).
RevocationOutlivesApproval ==
    \A p \in Payloads :
        revoked[p] # 0 /\ timestamp <= p[2] => is_approval_revoked(p)

\* A revoked approval is dead for good: whenever the oracle gets a claim in,
\* some approval of that verdict is in its window and was never revoked, even
\* after revocation entries have lapsed from temporary storage (submit_claim,
\* verify_oracle_signature, is_approval_revoked).
RevokedApprovalIsDead ==
    [][OracleCall =>
          \A v \in Verdicts :
            LET id == compute_claim_id(v)
            IN  claims[id].status = "Unused" /\ claims'[id].status \in Open =>
                  \E u \in Verdicts, d \in Deadlines :
                      /\ compute_claim_id(u) = id
                      /\ u.entitlement = claims'[id].entitlement
                      /\ deadline_legal(d) /\ revoked[<<u, d>>] = 0]_vars

-----------------------------------------------------------------------------
(* Pause and suspension.                                                   *)

\* While paused no claim is queued, admitted, activated or paid; the only
\* status changes are endings, and liquid XLM falls only by one staker's own
\* principal or by extracted yield (require_not_paused, and the calls that
\* deliberately omit it: emergency_exit, the expiries, cancel_claim, the
\* redemptions).
PausedFreezesPayouts ==
    [][paused =>
          /\ \A id \in ClaimIds :
                /\ claims'[id].streamed = claims[id].streamed
                /\ claims'[id].status # claims[id].status =>
                      claims'[id].status \in {"Cancelled", "Expired"}
          /\ liquid' < liquid =>
                \/ extracted_yield' - extracted_yield >= liquid - liquid'
                \/ \E w \in Wallets :
                      /\ holds_stake(stakes[w]) /\ stakes[w].active_claim_id = None
                      /\ ~holds_stake(stakes'[w])
                      /\ liquid' = liquid - stakes[w].amount]_vars

\* Once a stake is forfeited to a claim its beneficiary is fixed for as long
\* as the claim is live: no later call redirects the stream (set_beneficiary;
\* README: the payout goes "only to the beneficiary hash committed").
BeneficiaryFixedByForfeiture ==
    [][\A id \in ClaimIds :
          claims[id].status = "Active" /\ claims'[id].status = "Active" =>
            stakes'[id[1]].beneficiary_hash = stakes[id[1]].beneficiary_hash]_vars

\* No points survive an activation, whatever was banked in earlier staking
\* cycles, and none come back while the claim streams (activate_claim).
PointsBurnedByClaim ==
    \A id \in ClaimIds : claims[id].status = "Active" => points_balance[id[1]] = 0

\* A suspended wallet's claim is neither approved, paid nor swept: it moves
\* only by the admin's cancel_claim or an override (approve_claim,
\* claim_stream, expire_pending_approval, expire_stale_claim).
SuspendedClaimIsFrozen ==
    [][\A id \in ClaimIds :
          stakes[id[1]].suspended /\ claims'[id] # claims[id] =>
            \/ claims[id].status \in {"Unused", "Reserved", "PendingTime"}
            \/ claims'[id].status = "Cancelled"
            \/ overrides'[id] # overrides[id]
            \/ ~stakes'[id[1]].suspended /\ claims'[id].status = claims[id].status]_vars

\* A stake given back by a cancellation is locked: it can still leave, by
\* emergency_exit, but the points of its cycle are then lost; none are banked
\* before the lock has passed (withdraw, emergency_exit, cancel_claim).
LockedExitForfeitsPoints ==
    [][\A w \in Wallets :
          holds_stake(stakes[w]) /\ ledger < stakes[w].penalty_locked_until_ledger =>
            points_balance'[w] <= points_balance[w]]_vars

\* total_staked passes the pool cap only when a cancellation gives a forfeited
\* stake back into a pool that has filled up or been capped lower meanwhile
\* (stake, set_pool_cap and cancel_claim, which does not test the cap).
OnlyCancellationExceedsCap ==
    [][total_staked <= pool_cap /\ total_staked' > pool_cap' =>
          \E id \in ClaimIds :
             claims[id].status = "Active" /\ claims'[id].status = "Cancelled"]_vars

-----------------------------------------------------------------------------
(* Views.                                                                  *)

\* What a wallet is told before a report is what happens: only an eligible
\* wallet's incident is taken in, and an admitted one goes straight to the
\* staker's decision exactly when the wallet read as claim-eligible (lib.rs
\* is_eligible, is_claim_eligible; submit_claim, admit_claim).
ViewsPredictSubmission ==
    [][\A id \in ClaimIds :
          claims[id].status = "Unused" /\ claims'[id].status \in Open \ {"Active"} =>
            /\ is_eligible(id[1])
            /\ claims'[id].status # "Reserved" =>
                  (is_claim_eligible(id[1]) <=> claims'[id].status = "AwaitingApproval")]_vars

-----------------------------------------------------------------------------
(* Yield vault.                                                            *)

\* What the pool controls beyond what it owes stakers and claimants.
Surplus == liquid + deployed_xlm - total_staked - total_allocated

\* No vault call, at whatever price the vault mints or redeems, takes from
\* what is owed: a deficit is not made worse and a surplus not overdrawn
\* (deploy_to_vault, redeem with its loss mark-down, extract_yield,
\* withdraw_yield).
VaultPreservesBacking ==
    [][VaultCall => Surplus' >= MinOf(Surplus, 0)]_vars

\* The two permissionless keepers do not undo each other: what
\* auto_deploy_liquidity has just deployed, ensure_liquidity finds no reason
\* to pull back.
KeepersAgree == [][auto_deploy_liquidity => liquidity_shortfall' = 0]_vars

\* The keeper that pulls back never redeems more principal than is short, and
\* leaves short at most the 5% slippage it tolerates, the price of one share
\* and three units of rounding, unless the position is used up
\* (ensure_liquidity: shares_needed rounds down, a redemption is accepted at
\* 95% of its principal and the loss lowers the ceiling).
KeeperPullsWhatIsShort ==
    [][ensure_liquidity =>
          /\ deployed_xlm - deployed_xlm' <= liquidity_shortfall
          /\ \/ deployed_shares' = 0
             \/ 20 * deployed_shares * liquidity_shortfall'
                   <= deployed_shares * liquidity_shortfall
                        + 20 * deployed_xlm + 60 * deployed_shares]_vars

\* The deployed share of the pool passes the configured ceiling only because
\* principal left the pool or the ceiling was lowered, never by a deployment
\* (vault.rs, deployment_ratio_bps: "drift, not a breach").
DriftComesFromExits ==
    [][total_staked > 0 /\ deployment_ratio_bps <= deploy_bps
         /\ deployment_ratio_bps' > deploy_bps'
       => total_staked' < total_staked \/ deploy_bps' < deploy_bps]_vars
=============================================================================
