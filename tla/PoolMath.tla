------------------------------- MODULE PoolMath -------------------------------
(***************************************************************************)
(* The pure arithmetic of the protection pool: the operators take the      *)
(* stored figures as arguments and have no state.  Amounts are i128 in the *)
(* contract; `Quot` is Rust's division, which truncates toward zero where  *)
(* TLA+'s \div rounds down, and `SatSub` is u32::saturating_sub.           *)
(* i128::saturating_sub does not clamp at zero and is plain subtraction.   *)
(***************************************************************************)
EXTENDS Integers

BPS_DENOMINATOR == 10000
MIN_STAKE_BPS == 2
MAX_STAKE_BPS == 125
TIER_COVERAGE_BPS == 10000
MAX_DEPLOY_BPS == 8000
MAX_REBALANCE_SLIPPAGE_BPS == 500

MinOf(a, b) == IF a < b THEN a ELSE b
MaxOf(a, b) == IF a > b THEN a ELSE b
SatSub(a, b) == IF a > b THEN a - b ELSE 0

Quot(a, b) ==
    LET q == MaxOf(a, -a) \div MaxOf(b, -b)
    IN  IF (a < 0) # (b < 0) THEN -q ELSE q

\* x * bps / 10_000, the contract's percentage.
Bps(x, bps) == Quot(x * bps, BPS_DENOMINATOR)

-----------------------------------------------------------------------------
(* Points: 100/120/150/200 a day in four tenure bands, scaled by the       *)
(* fraction of the current maximum stake.                                  *)

\* Mutant: one day short in the second band.
points_base_off_by_one(d) ==
    100 * MinOf(d, 90) + 120 * (IF d > 90 THEN MinOf(d, 180) - 91 ELSE 0)
      + 150 * (IF d > 180 THEN MinOf(d, 365) - 180 ELSE 0)
      + 200 * (IF d > 365 THEN d - 365 ELSE 0)

\* Mutant: the rates of the first two bands exchanged.
points_base_rates_swapped(d) ==
    120 * MinOf(d, 90) + 100 * (IF d > 90 THEN MinOf(d, 180) - 90 ELSE 0)
      + 150 * (IF d > 180 THEN MinOf(d, 365) - 180 ELSE 0)
      + 200 * (IF d > 365 THEN d - 365 ELSE 0)

points_base(d) ==
    100 * MinOf(d, 90)
      + 120 * (IF d > 90 THEN MinOf(d, 180) - 90 ELSE 0)
      + 150 * (IF d > 180 THEN MinOf(d, 365) - 180 ELSE 0)
      + 200 * (IF d > 365 THEN d - 365 ELSE 0)

min_stake_of(cap) == Bps(cap, MIN_STAKE_BPS)
max_stake_of(cap) == Bps(cap, MAX_STAKE_BPS)

points_of(days, amount, cap) ==
    IF max_stake_of(cap) <= 0 THEN 0
    ELSE Quot(points_base(days) * amount, max_stake_of(cap))

-----------------------------------------------------------------------------
(* Claims: tier cap, admission-side stress cap, payout-side outflow rate,  *)
(* linear vesting.                                                         *)

Tiers == 1..3
tier_ratio(tier) == CASE tier = 1 -> 15 [] tier = 2 -> 10 [] tier = 3 -> 5
tier_cap(amount, tier) == Bps(amount * tier_ratio(tier), TIER_COVERAGE_BPS)

utilization_bps(allocated, base) == Quot(allocated * BPS_DENOMINATOR, base)

stress_cap_of(staked, allocated) ==
    IF staked = 0 THEN 0
    ELSE LET u == utilization_bps(allocated, staked)
         IN  Bps(staked, IF u < 2000 THEN 2500 ELSE IF u < 5000 THEN 1000 ELSE 300)

outflow_bps_of(base, allocated) ==
    IF base = 0 THEN 100
    ELSE LET u == utilization_bps(allocated, base)
         IN  IF u < 2000 THEN 500 ELSE IF u < 5000 THEN 300 ELSE 100

\* What a claim has vested `elapsed` ledgers after its cooldown ended.
vested_of(entitlement, elapsed, vesting) == Quot(entitlement * elapsed, vesting)

-----------------------------------------------------------------------------
(* Vault shares: a tranche's slice of the deposited principal, and the     *)
(* slippage floor the permissionless rebalancers compute for themselves.   *)

pro_rata(whole, part, total) == Quot(whole * part, total)
slippage_floor(expected) == Bps(expected, BPS_DENOMINATOR - MAX_REBALANCE_SLIPPAGE_BPS)
=============================================================================
