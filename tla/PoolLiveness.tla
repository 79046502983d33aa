----------------------------- MODULE PoolLiveness -----------------------------
(***************************************************************************)
(* What eventually happens.  The contract schedules nothing: ledgers close *)
(* by themselves, and the permissionless sweeps run because a keeper calls *)
(* them (claim.rs recommends one).  Nothing is assumed of stakers, oracle  *)
(* or admin, who may stop acting, pause or suspend at any time.            *)
(*                                                                         *)
(* Time ends at MaxLedger in a model, so each property speaks of deadlines *)
(* that fall before it.                                                    *)
(***************************************************************************)
EXTENDS PoolRefinement

KeeperCall(id) ==
    \/ expire_queued_claim(id)
    \/ unlock_pending_claim(id)
    \/ expire_pending_approval(id)
    \/ expire_stale_claim(id)

\* At most one sweep applies to a claim in a given state, so that fairness of
\* the choice is fairness of each.
Fairness ==
    /\ WF_vars(Tick)
    /\ \A id \in ClaimIds : WF_vars(KeeperCall(id))

FairSpec == Spec /\ Fairness

-----------------------------------------------------------------------------
\* A live claim nobody acts on, of a wallet that is not frozen, whose deadline
\* (Rule A) or inactivity period (Rule B) ends before the horizon.
Neglected(id) ==
    /\ ~stakes[id[1]].suspended
    /\ \/ /\ claims[id].status = "AwaitingApproval"
          /\ claims[id].approve_deadline_ledger < MaxLedger
       \/ /\ claims[id].status = "Active"
          /\ claims[id].streamed < claims[id].entitlement
          /\ claims[id].last_collected_ledger + COLLECTION_INACTIVITY_LEDGERS < MaxLedger

\* A neglected claim does not stay: it is taken up, collected, cancelled or
\* swept, and its reservation released, even if the pool is paused for ever
\* (expire_pending_approval, expire_stale_claim).
NeglectedClaimsEnd ==
    \A id \in ClaimIds : Neglected(id) ~> ~Neglected(id)

\* If the pool is not paused for ever, a queued claim leaves the queue, also
\* when its wallet has left the pool or lost its stake to an override
\* (try_release_queued_claim, expire_queued_claim).
QueueDrains ==
    <>[]~paused =>
        \A id \in ClaimIds :
            (/\ claims[id].status = "Reserved"
             /\ claims[id].hack_timestamp + CLAIM_WINDOW_SECONDS < MaxLedger)
              ~> claims[id].status # "Reserved"

\* A stake that is neither forfeited nor frozen and cannot leave because a
\* claim of its wallet is in flight, with the time gate before the horizon and
\* no approval window running past it.
Blocked(w) ==
    /\ holds_stake(stakes[w]) /\ ~stakes[w].suspended
    /\ stakes[w].active_claim_id # None
    /\ stakes[w].staked_at_ledger + TIME_GATE_LEDGERS <= MaxLedger
    /\ \A id \in ClaimsOf(w) :
          claims[id].status = "AwaitingApproval" =>
              claims[id].approve_deadline_ledger < MaxLedger

\* If the pool is not paused for ever, a claim its staker never decides on
\* cannot hold the stake back for ever (withdraw and emergency_exit refuse
\* while active_claim_id is set; unlock_pending_claim and
\* expire_pending_approval must clear it).
BlockedStakeIsFreed ==
    <>[]~paused => \A w \in Wallets : Blocked(w) ~> ~Blocked(w)
=============================================================================
