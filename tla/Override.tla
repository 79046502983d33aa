------------------------------- MODULE Override -------------------------------
(***************************************************************************)
(* claim.rs, the 2-of-2 override: admin and co-signer each approve the     *)
(* same terms, and the call that completes the pair executes them.  It     *)
(* bypasses the oracle, the time gate and the staker's approval.           *)
(***************************************************************************)
EXTENDS ClaimFlow

\* The approver is the CURRENT holder of the role, so a rotation in between
\* invalidates an approval already recorded.
\* Mutant: any recorded pair of approvals, however old.
override_ready_stale(req) ==
    req.owner_approver # None /\ req.co_signer_approver # None

override_ready(req) ==
    \/ req.owner_approver = admin /\ req.co_signer_approver = co_signer
    \/ co_signer = admin

\* The request after `caller` has approved it.
approved_by(caller, id, terms) ==
    LET req == IF overrides[id] = None
               THEN [entitlement |-> terms.entitlement, tier |-> terms.tier,
                     owner_approver |-> None, co_signer_approver |-> None]
               ELSE overrides[id]
    IN  [req EXCEPT !.owner_approver = IF caller = admin THEN admin ELSE @,
                    !.co_signer_approver = IF caller = co_signer THEN co_signer ELSE @]

\* What the id's previous claim still reserves; nothing once it is terminal.
\* Mutant: a cancelled claim's reservation released a second time.
released_by_override_twice(claim) == unstreamed(claim)
released_by_override(claim) ==
    IF claim.status \in {"Active", "PendingTime", "AwaitingApproval"}
    THEN unstreamed(claim) ELSE 0

\* A correction of a streaming claim keeps what was already paid.
carried_streamed_reset(claim) == 0         \* Mutant: what was paid forgotten.
carried_streamed(claim) == IF claim.status = "Active" THEN claim.streamed ELSE 0

\* The wallet's queue slot is released only with its own claim.
override_record(id) ==
    [stakes[id[1]] EXCEPT !.active_claim_id = id,
                          !.reserved_claim_id = IF @ = id THEN None ELSE @]

override_claim(id, req) ==
    [new_claim(timestamp, req.entitlement, req.tier, stakes[id[1]].amount, "Active")
        EXCEPT !.streamed = carried_streamed(claims[id])]

\* The stake of a forfeited record already left total_staked: it counts as
\* capacity for this check, and the record is not forfeited again.
execute_override(id, req) ==
    LET record == stakes[id[1]]
        allocated == total_allocated - released_by_override(claims[id])
        capacity == total_staked + (IF record.withdrawn THEN record.amount ELSE 0)
    IN  /\ claims[id].status # "Completed"
        /\ slot_free(id)
        /\ record.amount > 0
        /\ req.entitlement <= tier_cap(record.amount, req.tier)
        /\ allocated + req.entitlement <= capacity
        /\ total_allocated' = allocated + req.entitlement
        /\ IF record.withdrawn
           THEN /\ claims' = [claims EXCEPT ![id] =
                                start_clocks(override_claim(id, req), total_staked)]
                /\ stakes' = [stakes EXCEPT ![id[1]] = override_record(id)]
                /\ UNCHANGED <<points_balance, total_staked, total_stakers>>
           ELSE activate_claim(id, override_record(id), override_claim(id, req))

approve_override_checks(caller, terms) ==
    LET pending == overrides[compute_claim_id(terms)]
    IN  /\ require_not_paused
        /\ caller \in {admin, co_signer}
        /\ pending # None => /\ pending.entitlement = terms.entitlement
                             /\ pending.tier = terms.tier

approve_override_pending(caller, terms) ==
    LET id == compute_claim_id(terms)
        req == approved_by(caller, id, terms)
    IN  /\ approve_override_checks(caller, terms)
        /\ ~override_ready(req)
        /\ overrides' = [overrides EXCEPT ![id] = req]
        /\ UNCHANGED <<roles, config, totals, daily, stakes, points_balance, claims,
                       revoked, yield, liquid, clock>>

approve_override_executed(caller, terms) ==
    LET id == compute_claim_id(terms)
        req == approved_by(caller, id, terms)
    IN  /\ approve_override_checks(caller, terms)
        /\ override_ready(req)
        /\ execute_override(id, req)
        /\ overrides' = [overrides EXCEPT ![id] = None]
        /\ UNCHANGED <<roles, config, daily, revoked, yield, liquid, clock>>

approve_override(caller, terms) ==
    \/ approve_override_pending(caller, terms)
    \/ approve_override_executed(caller, terms)

cancel_pending_override(id) ==
    /\ overrides[id] # None
    /\ overrides' = [overrides EXCEPT ![id] = None]
    /\ UNCHANGED <<roles, config, totals, daily, stakes, points_balance, claims,
                   revoked, yield, liquid, clock>>
=============================================================================
