------------------------------ MODULE ClaimFlow ------------------------------
(***************************************************************************)
(* claim.rs without the override: admission, the queue, staker approval,   *)
(* streaming, cancellation and the permissionless sweeps.                  *)
(***************************************************************************)
EXTENDS Stake, OracleApproval

stress_cap == stress_cap_of(total_staked, total_allocated)
dynamic_outflow_bps(base) == outflow_bps_of(base, total_allocated)

insolvent(entitlement) == total_allocated + entitlement > total_staked

\* Mutant: the day's earlier admissions not counted.
stress_capped_each(entitlement) == entitlement > stress_cap
stress_capped(entitlement) == get_daily_total + entitlement > stress_cap
oracle_rate_limited(caller) ==
    /\ caller = oracle
    /\ get_daily_count >= MaxOf(total_stakers \div 10, 1)

-----------------------------------------------------------------------------
(* Activation: burn the wallet's points, forfeit the stake, start the      *)
(* clocks.  The stake record keeps its amount.                             *)

\* Mutant: the inactivity clock starts at activation.
start_clocks_at_activation(claim, snapshot) ==
    LET cooldown_ends == ledger + COOLDOWN_LEDGERS
    IN  [claim EXCEPT !.cooldown_ends_ledger = cooldown_ends,
                      !.vesting_ends_ledger = cooldown_ends + VESTING_LEDGERS,
                      !.total_staked_snapshot = snapshot,
                      !.last_collected_ledger = ledger,
                      !.status = "Active"]

start_clocks(claim, snapshot) ==
    LET cooldown_ends == ledger + COOLDOWN_LEDGERS
    IN  [claim EXCEPT !.cooldown_ends_ledger = cooldown_ends,
                      !.vesting_ends_ledger = cooldown_ends + VESTING_LEDGERS,
                      !.total_staked_snapshot = snapshot,
                      !.last_collected_ledger = cooldown_ends,
                      !.status = "Active"]

\* Mutant: earlier cycles' points kept.
burn_points_of_cycle(wallet) == points_balance' = points_balance

\* The wallet's whole balance is burnt, this cycle's points with it.
burn_points(wallet) == points_balance' = [points_balance EXCEPT ![wallet] = 0]

\* Mutant: forfeiture zeroes the amount, as a voluntary exit does.
forfeited_by_amount(record) == [record EXCEPT !.amount = 0]
forfeited(record) == [record EXCEPT !.withdrawn = TRUE]

activate_claim(id, record, claim) ==
    /\ burn_points(id[1])
    /\ stakes' = [stakes EXCEPT ![id[1]] = forfeited(record)]
    /\ total_staked' = total_staked - record.amount
    /\ total_stakers' = SatSub(total_stakers, 1)
    /\ claims' = [claims EXCEPT ![id] =
                    [start_clocks(claim, total_staked) EXCEPT !.stake = record.amount]]

\* Admission, shared by submission and by release from the queue: reserve the
\* entitlement, take the wallet's claim slot, test the time gate.
admit_claim(id, entitlement, tier, hack_timestamp, counted) ==
    LET record == stakes[id[1]]
        gate_met == SatSub(ledger, record.staked_at_ledger) >= TIME_GATE_LEDGERS
        pending == new_claim(hack_timestamp, entitlement, tier, record.amount, "PendingTime")
    IN  /\ daily_entitlement' = [day |-> current_day,
                                 total |-> get_daily_total + entitlement,
                                 count |-> get_daily_count + counted]
        /\ total_allocated' = total_allocated + entitlement
        /\ stakes' = [stakes EXCEPT ![id[1]].active_claim_id = id,
                                    ![id[1]].reserved_claim_id = None]
        /\ claims' = [claims EXCEPT ![id] =
                        IF gate_met
                        THEN [pending EXCEPT !.status = "AwaitingApproval",
                                             !.approve_deadline_ledger = ledger + APPROVE_WINDOW_LEDGERS]
                        ELSE pending]
        /\ UNCHANGED <<roles, config, total_staked, total_stakers, daily_outflow,
                       points_balance, overrides, revoked, yield, liquid, clock>>

-----------------------------------------------------------------------------
(* submit_claim: the checks, then one of two outcomes.                     *)

submit_checks(caller, v, deadline, signer) ==
    LET record == stakes[v.wallet]
    IN  /\ require_not_paused
        /\ caller \in {oracle, admin}
        /\ caller = oracle => verify_oracle_signature(v, deadline, signer)
        /\ holds_stake(record) /\ ~record.suspended
        /\ record.active_claim_id = None /\ record.reserved_claim_id = None
        /\ v.entitlement <= tier_cap(record.amount, v.tier)
        /\ record.staked_at_timestamp <= v.hack_timestamp
        /\ v.hack_timestamp <= timestamp
        /\ timestamp <= v.hack_timestamp + CLAIM_WINDOW_SECONDS
        /\ claims[compute_claim_id(v)].status = "Unused"

must_queue(caller, v) ==
    insolvent(v.entitlement) \/ stress_capped(v.entitlement) \/ oracle_rate_limited(caller)

submit_claim_queued(caller, v, deadline, signer) ==
    LET id == compute_claim_id(v)
    IN  /\ submit_checks(caller, v, deadline, signer)
        /\ must_queue(caller, v)
        /\ claims' = [claims EXCEPT ![id] = new_claim(v.hack_timestamp, v.entitlement,
                        v.tier, stakes[v.wallet].amount, "Reserved")]
        /\ stakes' = [stakes EXCEPT ![v.wallet].reserved_claim_id = id]
        /\ UNCHANGED <<roles, config, totals, daily, points_balance, overrides,
                       revoked, yield, liquid, clock>>

submit_claim_admitted(caller, v, deadline, signer) ==
    /\ submit_checks(caller, v, deadline, signer)
    /\ ~must_queue(caller, v)
    /\ admit_claim(compute_claim_id(v), v.entitlement, v.tier, v.hack_timestamp,
                   IF caller = oracle THEN 1 ELSE 0)

submit_claim(caller, v, deadline, signer) ==
    \/ submit_claim_queued(caller, v, deadline, signer)
    \/ submit_claim_admitted(caller, v, deadline, signer)

-----------------------------------------------------------------------------
(* The queue.                                                              *)

\* Mutant: the wallet's other claim not looked at.
slot_free_always(id) == TRUE

\* No different claim of the wallet is active.
slot_free(id) == stakes[id[1]].active_claim_id \in {None, id}

try_release_queued_claim(id) ==
    LET claim == claims[id]
    IN  /\ require_not_paused
        /\ claim.status = "Reserved"
        /\ slot_free(id)
        /\ ~insolvent(claim.entitlement)
        /\ ~stress_capped(claim.entitlement)
        /\ admit_claim(id, claim.entitlement, claim.tier, claim.hack_timestamp, 0)

\* Mutant: only for a wallet that still stakes.
queue_expired_if_staked(id) ==
    /\ holds_stake(stakes[id[1]])
    /\ timestamp > claims[id].hack_timestamp + CLAIM_WINDOW_SECONDS
queue_expired(id) == timestamp > claims[id].hack_timestamp + CLAIM_WINDOW_SECONDS

expire_queued_claim(id) ==
    /\ require_not_paused
    /\ claims[id].status = "Reserved"
    /\ queue_expired(id)
    /\ stakes' = [stakes EXCEPT ![id[1]].reserved_claim_id = None]
    /\ claims' = [claims EXCEPT ![id].status = "Expired"]
    /\ UNCHANGED <<roles, config, totals, daily, points_balance, overrides, revoked,
                   yield, liquid, clock>>

-----------------------------------------------------------------------------
(* The time gate and the staker's decision (Rule A).                       *)

unlock_pending_claim(id) ==
    /\ require_not_paused
    /\ claims[id].status = "PendingTime"
    /\ ledger >= stakes[id[1]].staked_at_ledger + TIME_GATE_LEDGERS
    /\ claims' = [claims EXCEPT ![id].status = "AwaitingApproval",
                                ![id].approve_deadline_ledger = ledger + APPROVE_WINDOW_LEDGERS]
    /\ UNCHANGED <<roles, config, totals, daily, stakes, points_balance, overrides,
                   revoked, yield, liquid, clock>>

\* Mutant: a forfeited stake not looked at.
not_suspended_if_held(id) == holds_stake(stakes[id[1]]) => ~stakes[id[1]].suspended
not_suspended(id) == ~stakes[id[1]].suspended

approve_claim(id) ==
    /\ require_not_paused
    /\ claims[id].status = "AwaitingApproval"
    /\ ledger <= claims[id].approve_deadline_ledger
    /\ not_suspended(id)
    /\ activate_claim(id, stakes[id[1]], claims[id])
    /\ UNCHANGED <<roles, config, total_allocated, daily, overrides, revoked, yield,
                   liquid, clock>>

\* What a live claim may still be paid, and the end of its reservation.
unstreamed_gross(claim) == claim.entitlement       \* Mutant: payouts ignored.
unstreamed(claim) == claim.entitlement - claim.streamed

release_claim(id, amount, status) ==
    /\ total_allocated' = total_allocated - amount
    /\ claims' = [claims EXCEPT ![id].status = status]

\* Mutant: the sweep blocked by a pause.
approval_window_over_unpaused(id) ==
    require_not_paused /\ ledger > claims[id].approve_deadline_ledger
approval_window_over(id) == ledger > claims[id].approve_deadline_ledger

\* Mutant: the slot kept, as claim_stream keeps it on completion.
free_slot_never(id) == stakes' = stakes
free_slot(id) == stakes' = [stakes EXCEPT ![id[1]].active_claim_id = None]

\* Not blocked by a pause.
expire_pending_approval(id) ==
    /\ claims[id].status = "AwaitingApproval"
    /\ not_suspended(id)
    /\ approval_window_over(id)
    /\ release_claim(id, claims[id].entitlement, "Expired")
    /\ free_slot(id)
    /\ UNCHANGED <<roles, config, total_staked, total_stakers, daily, points_balance,
                   overrides, revoked, yield, liquid, clock>>

-----------------------------------------------------------------------------
(* Streaming and inactivity (Rule B).                                      *)

\* Mutant: vesting goes on past its end.
claimable_unclamped(claim) ==
    vested_of(claim.entitlement, SatSub(ledger, claim.cooldown_ends_ledger),
              VESTING_LEDGERS) - claim.streamed

claimable(claim) ==
    vested_of(claim.entitlement,
              SatSub(MinOf(ledger, claim.vesting_ends_ledger), claim.cooldown_ends_ledger),
              VESTING_LEDGERS) - claim.streamed

outflow_cap(claim) ==
    LET base == MaxOf(total_staked, claim.total_staked_snapshot)
    IN  Bps(base, dynamic_outflow_bps(base))

\* Mutant: the day's earlier payouts not counted.
available_today_each(claim) == outflow_cap(claim)
available_today(claim) == outflow_cap(claim) - get_daily_outflow

\* Mutant: an exhausted cap not refused.
may_transfer_any(amount) == require_liquidity(amount)
may_transfer(amount) == amount > 0 /\ require_liquidity(amount)

claim_stream(id, beneficiary) ==
    LET claim == claims[id]
        amount == MinOf(claimable(claim), available_today(claim))
        paid == [claim EXCEPT !.streamed = @ + amount, !.last_collected_ledger = ledger]
    IN  /\ require_not_paused
        /\ claim.status = "Active"
        /\ ledger >= claim.cooldown_ends_ledger
        /\ claim.streamed < claim.entitlement
        /\ not_suspended(id)
        /\ beneficiary = stakes[id[1]].beneficiary_hash
        /\ may_transfer(amount)
        /\ claims' = [claims EXCEPT ![id] =
                        IF paid.streamed >= paid.entitlement
                        THEN [paid EXCEPT !.status = "Completed"] ELSE paid]
        /\ total_allocated' = total_allocated - amount
        /\ daily_outflow' = [day |-> current_day, amount |-> get_daily_outflow + amount]
        /\ liquid' = liquid - amount
        /\ UNCHANGED <<roles, config, total_staked, total_stakers, daily_entitlement,
                       stakes, points_balance, overrides, revoked, yield, clock>>

expire_stale_claim(id) ==
    /\ claims[id].status = "Active"
    /\ claims[id].streamed < claims[id].entitlement
    /\ not_suspended(id)
    /\ SatSub(ledger, claims[id].last_collected_ledger) > COLLECTION_INACTIVITY_LEDGERS
    /\ release_claim(id, unstreamed(claims[id]), "Expired")
    /\ free_slot(id)
    /\ UNCHANGED <<roles, config, total_staked, total_stakers, daily, points_balance,
                   overrides, revoked, yield, liquid, clock>>

-----------------------------------------------------------------------------
(* cancel_claim: the admin reverses a false positive.  An Active claim's   *)
(* stake is given back under the penalty lock.                             *)

\* Mutant: the restored principal not counted again.
cancel_active_uncounted(id) ==
    /\ claims[id].status = "Active"
    /\ stakes' = [stakes EXCEPT
                    ![id[1]].withdrawn = FALSE,
                    ![id[1]].penalty_locked_until_ledger = ledger + PENALTY_LOCK_LEDGERS,
                    ![id[1]].active_claim_id = None]
    /\ UNCHANGED <<total_staked, total_stakers>>

cancel_active(id) ==
    /\ claims[id].status = "Active"
    /\ stakes' = [stakes EXCEPT
                    ![id[1]].withdrawn = FALSE,
                    ![id[1]].penalty_locked_until_ledger = ledger + PENALTY_LOCK_LEDGERS,
                    ![id[1]].active_claim_id = None]
    /\ total_staked' = total_staked + claims[id].stake
    /\ total_stakers' = total_stakers + 1

\* Mutant: the wallet left blocked.
cancel_unforfeited_blocking(id) ==
    /\ claims[id].status \in {"PendingTime", "AwaitingApproval"}
    /\ UNCHANGED <<stakes, total_staked, total_stakers>>

cancel_unforfeited(id) ==
    /\ claims[id].status \in {"PendingTime", "AwaitingApproval"}
    /\ free_slot(id)
    /\ UNCHANGED <<total_staked, total_stakers>>

cancel_claim(id) ==
    /\ cancel_active(id) \/ cancel_unforfeited(id)
    /\ release_claim(id, unstreamed(claims[id]), "Cancelled")
    /\ UNCHANGED <<roles, config, daily, points_balance, overrides, revoked, yield,
                   liquid, clock>>
=============================================================================
