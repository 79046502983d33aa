------------------------------- MODULE DocClaims -------------------------------
(***************************************************************************)
(* Statements the repository's comments, docs and harnesses make about the *)
(* contract and that the contract does not keep.  Each is checked by a run *)
(* of its own, whose counterexample shows how the code departs from it.    *)
(***************************************************************************)
EXTENDS PoolLiveness

\* fuzz_solvency.rs and the Komet harness assert this after every operation.
\* Activation removes the forfeited principal from total_staked and leaves the
\* reservation in total_allocated.
SolvencyInvariant == total_allocated <= total_staked

\* claim.rs, submit_claim: the "one-claim-per-wallet invariant".  stake
\* overwrites the record, and with it the slots, of a wallet whose claim is
\* still live.
OneLiveClaimPerWallet ==
    \A id1, id2 \in ClaimIds :
        id1[1] = id2[1] /\ claims[id1].status \in Live /\ claims[id2].status \in Live
          => id1 = id2

\* claim.rs, admit_claim: the caller "has ALREADY verified capacity/solvency/
\* tier/window/dedup checks".  try_release_queued_claim repeats the capacity
\* checks only, and a queued claim does not keep its wallet from withdrawing the
\* stake, so a claim can be activated with nothing left to forfeit.
CoverageWithinTierCap ==
    \A id \in ClaimIds :
        claims[id].status = "Active" =>
            claims[id].entitlement <= tier_cap(claims[id].stake, claims[id].tier)

\* claim.rs, expire_stale_claim: clearing the slot of a swept claim is
\* "harmless either way since `withdrawn=true` already blocks every relevant
\* path".  A claim of the wallet that waited in the queue is then released
\* without a look at the record, and approval deducts the same stake again.
ForfeitedOnce ==
    [][\A id \in ClaimIds :
          stakes[id[1]].withdrawn /\ claims[id].status # "Active"
            /\ claims'[id].status = "Active" => total_staked' = total_staked]_vars
=============================================================================
