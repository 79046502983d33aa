-------------------------------- MODULE Admin --------------------------------
(***************************************************************************)
(* admin.rs: roles, circuit breaker, suspension, pool cap.  Every call is  *)
(* authorised by the current admin.                                        *)
(***************************************************************************)
EXTENDS Storage

\* `deployment` is the argument list of initialize.
initialize(deployment) ==
    /\ deployment.oracle # deployment.co_signer
    /\ deployment.co_signer # deployment.admin
    /\ deployment.pool_cap > 0
    /\ admin = deployment.admin
    /\ oracle = deployment.oracle
    /\ oracle_pubkey = deployment.oracle_pubkey
    /\ co_signer = deployment.co_signer
    /\ pool_cap = deployment.pool_cap
    /\ paused = FALSE
    /\ total_staked = 0 /\ total_allocated = 0 /\ total_stakers = 0

unchanged_but_roles ==
    UNCHANGED <<config, totals, daily, stakes, points_balance, claims, overrides,
                revoked, yield, liquid, clock>>

\* Mutant: the co-signer may become admin.
transfer_admin_unchecked(new_admin) ==
    /\ admin' = new_admin
    /\ UNCHANGED <<oracle, oracle_pubkey, co_signer>> /\ unchanged_but_roles

transfer_admin(new_admin) ==
    /\ new_admin # co_signer
    /\ admin' = new_admin
    /\ UNCHANGED <<oracle, oracle_pubkey, co_signer>> /\ unchanged_but_roles

set_oracle(new_oracle) ==
    /\ new_oracle # co_signer
    /\ oracle' = new_oracle
    /\ UNCHANGED <<admin, oracle_pubkey, co_signer>> /\ unchanged_but_roles

set_oracle_pubkey(new_pubkey) ==
    /\ oracle_pubkey' = new_pubkey
    /\ UNCHANGED <<admin, oracle, co_signer>> /\ unchanged_but_roles

set_oracle_identity(new_oracle, new_pubkey) ==
    /\ new_oracle # co_signer
    /\ oracle' = new_oracle
    /\ oracle_pubkey' = new_pubkey
    /\ UNCHANGED <<admin, co_signer>> /\ unchanged_but_roles

set_co_signer(new_co_signer) ==
    /\ new_co_signer # oracle
    /\ new_co_signer # admin
    /\ co_signer' = new_co_signer
    /\ UNCHANGED <<admin, oracle, oracle_pubkey>> /\ unchanged_but_roles

-----------------------------------------------------------------------------
set_paused(value) ==
    /\ paused' = value
    /\ UNCHANGED <<roles, pool_cap, totals, daily, stakes, points_balance, claims,
                   overrides, revoked, yield, liquid, clock>>
pause == set_paused(TRUE)
unpause == set_paused(FALSE)

\* Mutant: a cap below what is staked.
set_pool_cap_unchecked(new_cap) ==
    /\ new_cap > 0
    /\ pool_cap' = new_cap
    /\ UNCHANGED <<roles, paused, totals, daily, stakes, points_balance, claims,
                   overrides, revoked, yield, liquid, clock>>

set_pool_cap(new_cap) ==
    /\ new_cap > 0
    /\ new_cap >= total_staked
    /\ pool_cap' = new_cap
    /\ UNCHANGED <<roles, paused, totals, daily, stakes, points_balance, claims,
                   overrides, revoked, yield, liquid, clock>>

-----------------------------------------------------------------------------
\* A forfeited stake can be suspended while its claim is still open.
suspend_stake(wallet) ==
    /\ stakes[wallet].amount > 0
    /\ ~(stakes[wallet].withdrawn /\ stakes[wallet].active_claim_id = None)
    /\ stakes' = [stakes EXCEPT ![wallet].suspended = TRUE]
    /\ UNCHANGED <<roles, config, totals, daily, points_balance, claims, overrides,
                   revoked, yield, liquid, clock>>

\* The claim whose clock an unsuspension restarts: the deadline of Rule A or
\* the inactivity anchor of Rule B.
restart_clock(claim) ==
    CASE claim.status = "AwaitingApproval" ->
            [claim EXCEPT !.approve_deadline_ledger = ledger + APPROVE_WINDOW_LEDGERS]
      [] claim.status = "Active" -> [claim EXCEPT !.last_collected_ledger = ledger]
      [] OTHER -> claim

\* `claim_id` is optional; one of another wallet is ignored.
unsuspend_stake(wallet, claim_id) ==
    /\ stakes[wallet].amount > 0
    /\ stakes' = [stakes EXCEPT ![wallet].suspended = FALSE]
    /\ claims' = [id \in ClaimIds |-> IF id = claim_id /\ id[1] = wallet
                                      THEN restart_clock(claims[id]) ELSE claims[id]]
    /\ UNCHANGED <<roles, config, totals, daily, points_balance, overrides, revoked,
                   yield, liquid, clock>>
=============================================================================
