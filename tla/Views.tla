-------------------------------- MODULE Views --------------------------------
(***************************************************************************)
(* The computed views of lib.rs and vault.rs: what callers, front ends and *)
(* keepers are told.  The other getters return a variable as it is.        *)
(***************************************************************************)
EXTENDS ClaimFlow, Vault

\* Points of the running cycle while staked, the banked balance otherwise.
get_points_balance(w) ==
    IF holds_stake(stakes[w]) THEN compute_points_for_record(stakes[w])
    ELSE points_balance[w]

is_eligible(w) == holds_stake(stakes[w]) /\ ~stakes[w].suspended

\* Mutant: the gate's own ledger not yet counted.
is_claim_eligible_late(w) ==
    is_eligible(w) /\ SatSub(ledger, stakes[w].staked_at_ledger) > TIME_GATE_LEDGERS

is_claim_eligible(w) ==
    is_eligible(w) /\ SatSub(ledger, stakes[w].staked_at_ledger) >= TIME_GATE_LEDGERS

\* The deployed fraction of total_staked; zero when nothing is staked.
deployment_ratio_bps ==
    IF total_staked <= 0 THEN 0 ELSE Quot(deployed_xlm * BPS_DENOMINATOR, total_staked)
=============================================================================
