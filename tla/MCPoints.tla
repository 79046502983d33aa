------------------------------- MODULE MCPoints -------------------------------
(***************************************************************************)
(* The points formula of stake.rs against the rule it implements: a record *)
(* ages one day at a time and each day earns the rate of its tenure band.  *)
(***************************************************************************)
EXTENDS PoolMath

CONSTANTS MaxDays, Amounts, Caps
ASSUME PointsInputsAssumption ==
    MaxDays \in Nat /\ Amounts \subseteq Nat /\ Caps \subseteq Nat

VARIABLES days, earned, amount, cap

\* What the n-th day of a stake earns.
daily_rate(n) == IF n <= 90 THEN 100 ELSE IF n <= 180 THEN 120
                 ELSE IF n <= 365 THEN 150 ELSE 200

Init == days = 0 /\ earned = 0 /\ amount \in Amounts /\ cap \in Caps

AnotherDay ==
    /\ days < MaxDays
    /\ days' = days + 1
    /\ earned' = earned + daily_rate(days')
    /\ UNCHANGED <<amount, cap>>

Spec == Init /\ [][AnotherDay]_<<days, earned, amount, cap>>

-----------------------------------------------------------------------------
\* The closed form of compute_points_for_record is the sum of the daily rates,
\* across every band boundary.
PointsMatchDailyRates == points_base(days) = earned

\* Withdrawing and staking again never earns more than staying, at any split
\* and with both divisions rounding: tenure is worth keeping.
CyclingEarnsNoMore ==
    \A d \in 0..days :
        points_of(d, amount, cap) + points_of(days - d, amount, cap)
            <= points_of(days, amount, cap)
=============================================================================
