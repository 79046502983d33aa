---------------------------- MODULE PoolRefinement ----------------------------
(***************************************************************************)
(* The contract implements the claim life cycle.  A forfeited principal is *)
(* a record that is withdrawn and keeps its amount; reserve and staked are *)
(* total_allocated and total_staked themselves.                            *)
(***************************************************************************)
EXTENDS PoolProperties

PhaseOf(status) ==
    CASE status = "Unused" -> "none"
      [] status = "Reserved" -> "queued"
      [] status = "PendingTime" -> "pending"
      [] status = "AwaitingApproval" -> "awaiting"
      [] status = "Active" -> "streaming"
      [] status = "Completed" -> "paid"
      [] status \in {"Cancelled", "Expired"} -> "ended"

PrincipalOf(record) ==
    [phase |-> IF record.amount = 0 THEN "none"
               ELSE IF record.withdrawn THEN "forfeited" ELSE "held",
     amount |-> record.amount]

CoverOf(claim) ==
    [phase |-> PhaseOf(claim.status), owed |-> claim.entitlement, paid |-> claim.streamed]

Lifecycle ==
    INSTANCE ClaimLifecycle WITH
        Incidents <- TxHashes,
        Entitlements <- {v.entitlement : v \in Verdicts} \cup {t.entitlement : t \in OverrideTerms},
        Principals <- StakeAmounts,
        principal <- [w \in Wallets |-> PrincipalOf(stakes[w])],
        cover <- [id \in ClaimIds |-> CoverOf(claims[id])],
        reserve <- total_allocated,
        staked <- total_staked

\* Every call of the contract is a step of the life cycle or leaves it alone:
\* no order of submissions, releases, approvals, payouts, sweeps, cancellations
\* and overrides moves a claim, a principal or one of the two totals in any
\* other way (stake.rs, claim.rs; the redemptions of vault.rs).
ImplementsLifecycle == Lifecycle!LifecycleSpec
=============================================================================
