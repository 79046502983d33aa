-------------------------------- MODULE Stake --------------------------------
(***************************************************************************)
(* stake.rs: deposit, beneficiary change and the two ways out.  The token  *)
(* transfer each of them ends with is the step's change of `liquid`.       *)
(***************************************************************************)
EXTENDS Storage

min_stake == min_stake_of(pool_cap)
max_stake == max_stake_of(pool_cap)

\* vault.rs liquidity pre-check, made before every outbound transfer.
require_liquidity(amount) == liquid >= amount

\* A record with a live principal: neither withdrawn nor forfeited.
holds_stake(r) == r.amount > 0 /\ ~r.withdrawn

compute_points_for_record(r) ==
    IF holds_stake(r)
    THEN points_of(SatSub(ledger, r.staked_at_ledger) \div LEDGERS_PER_DAY,
                   r.amount, pool_cap)
    ELSE 0

beneficiary_allowed(staker, beneficiary) ==
    beneficiary \notin {staker, oracle, admin, co_signer}

\* One principal leaves the pool: the record is closed and the totals drop.
\* Mutant: total_staked not reduced.
close_stake_keeping_total(staker) ==
    LET amount == stakes[staker].amount
    IN  /\ require_liquidity(amount)
        /\ stakes' = [stakes EXCEPT ![staker].withdrawn = TRUE, ![staker].amount = 0]
        /\ total_staked' = total_staked
        /\ total_stakers' = SatSub(total_stakers, 1)
        /\ liquid' = liquid - amount

close_stake(staker) ==
    LET amount == stakes[staker].amount
    IN  /\ require_liquidity(amount)
        /\ stakes' = [stakes EXCEPT ![staker].withdrawn = TRUE, ![staker].amount = 0]
        /\ total_staked' = total_staked - amount
        /\ total_stakers' = SatSub(total_stakers, 1)
        /\ liquid' = liquid - amount

-----------------------------------------------------------------------------
stake(staker, amount, beneficiary) ==
    /\ require_not_paused
    /\ amount > 0 /\ min_stake <= amount /\ amount <= max_stake
    /\ ~holds_stake(stakes[staker])
    /\ total_staked + amount <= pool_cap
    /\ beneficiary_allowed(staker, beneficiary)
    /\ stakes' = [stakes EXCEPT ![staker] =
                    [EmptyStake EXCEPT !.beneficiary_hash = beneficiary,
                                       !.amount = amount,
                                       !.staked_at_ledger = ledger,
                                       !.staked_at_timestamp = timestamp]]
    /\ total_staked' = total_staked + amount
    /\ total_stakers' = total_stakers + 1
    /\ liquid' = liquid + amount
    /\ UNCHANGED <<roles, config, total_allocated, daily, points_balance, claims,
                   overrides, revoked, yield, clock>>

\* Mutant: a forfeited record may still change its beneficiary.
set_beneficiary_when_forfeited(staker, new_beneficiary) ==
    /\ require_not_paused
    /\ beneficiary_allowed(staker, new_beneficiary)
    /\ stakes[staker].amount > 0
    /\ stakes' = [stakes EXCEPT ![staker].beneficiary_hash = new_beneficiary]
    /\ UNCHANGED <<roles, config, totals, daily, points_balance, claims, overrides,
                   revoked, yield, liquid, clock>>

set_beneficiary(staker, new_beneficiary) ==
    /\ require_not_paused
    /\ beneficiary_allowed(staker, new_beneficiary)
    /\ holds_stake(stakes[staker])
    /\ stakes' = [stakes EXCEPT ![staker].beneficiary_hash = new_beneficiary]
    /\ UNCHANGED <<roles, config, totals, daily, points_balance, claims, overrides,
                   revoked, yield, liquid, clock>>

\* Mutant: the lock not tested.
lock_passed_always(record) == TRUE
lock_passed(record) == ledger >= record.penalty_locked_until_ledger

withdraw(staker, beneficiary) ==
    LET record == stakes[staker]
    IN  /\ require_not_paused
        /\ holds_stake(record)
        /\ record.active_claim_id = None
        /\ lock_passed(record)
        /\ beneficiary = record.beneficiary_hash
        /\ points_balance' = [points_balance EXCEPT
                                ![staker] = @ + compute_points_for_record(record)]
        /\ close_stake(staker)
        /\ UNCHANGED <<roles, config, total_allocated, daily, claims, overrides,
                       revoked, yield, clock>>

\* Open while the pool is paused; pays the staker, banks no points.
emergency_exit(staker) ==
    /\ holds_stake(stakes[staker])
    /\ stakes[staker].active_claim_id = None
    /\ close_stake(staker)
    /\ UNCHANGED <<roles, config, total_allocated, daily, points_balance, claims,
                   overrides, revoked, yield, clock>>
=============================================================================
