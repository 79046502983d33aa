----------------------------- MODULE PointsProofs -----------------------------
(***************************************************************************)
(* The points formula, for every tenure, stake and pool cap: the two       *)
(* properties of MCPoints without its bounds.                              *)
(***************************************************************************)
EXTENDS MCPoints, PoolMathProofs

\* The closed form grows by the rate of the day it reaches.
LEMMA OneMoreDay ==
    ASSUME NEW d \in Nat
    PROVE  points_base(d + 1) = points_base(d) + daily_rate(d + 1) /\ points_base(d) \in Nat
BY DEF points_base, daily_rate, MinOf

\* Splitting a tenure never earns more than the tenure: later days earn no
\* less than earlier ones.
LEMMA TenurePays ==
    ASSUME NEW d \in Nat, NEW e \in Nat
    PROVE  points_base(d) + points_base(e) <= points_base(d + e)
BY DEF points_base, MinOf

\* Dividing two amounts separately rounds down at least as much as dividing
\* their sum.
LEMMA SplitRoundsDown ==
    ASSUME NEW a \in Nat, NEW b \in Nat, NEW c \in Nat, a + b <= c, NEW m \in Nat \ {0}
    PROVE  a \div m + b \div m <= c \div m
<1> DEFINE p == a \div m
           q == b \div m
           r == c \div m
<1>1. p \in Nat /\ q \in Nat /\ r \in Nat /\ m * p <= a /\ m * q <= b
    BY DivNat
<1>2. c < m * (r + 1)
    BY SMT
<1> HIDE DEF p, q, r
<1>3. m * (p + q) = m * p + m * q
    BY <1>1
<1>4. m * (p + q) < m * (r + 1)
    BY <1>1, <1>2, <1>3
<1>5. p + q < r + 1
    BY <1>1, <1>4, SMTT(30)
<1> QED
    BY <1>1, <1>5 DEF p, q, r

\* The division by the maximum stake, where there is one.
LEMMA SplitPoints ==
    ASSUME NEW d \in Nat, NEW e \in Nat, NEW a \in Nat, NEW c \in Nat
    PROVE  points_of(d, a, c) + points_of(e, a, c) <= points_of(d + e, a, c)
<1> DEFINE x == points_base(d)
           y == points_base(e)
           z == points_base(d + e)
           m == max_stake_of(c)
<1>1. x \in Nat /\ y \in Nat /\ z \in Nat /\ x + y <= z
    <2>1. d + e \in Nat
        OBVIOUS
    <2> QED
        BY <2>1, OneMoreDay, TenurePays
<1>2. m \in Nat
    BY QuotNat, c * MAX_STAKE_BPS \in Nat
    DEF max_stake_of, Bps, MAX_STAKE_BPS, BPS_DENOMINATOR
<1>3. /\ points_of(d, a, c) = IF m <= 0 THEN 0 ELSE Quot(x * a, m)
      /\ points_of(e, a, c) = IF m <= 0 THEN 0 ELSE Quot(y * a, m)
      /\ points_of(d + e, a, c) = IF m <= 0 THEN 0 ELSE Quot(z * a, m)
    BY DEF points_of
<1> HIDE DEF x, y, z, m
<1>4. CASE m <= 0
    BY <1>3, <1>4
<1>5. CASE ~(m <= 0)
    <2>1. x * a \in Nat /\ y * a \in Nat /\ z * a \in Nat /\ m \in Nat \ {0}
        BY <1>1, <1>2, <1>5
    <2>2. x * a + y * a <= z * a
        <3>1. (x + y) * a <= z * a
            BY <1>1, SMTT(30)
        <3> QED
            BY <1>1, <3>1
    <2>3. (x * a) \div m + (y * a) \div m <= (z * a) \div m
        BY <2>1, <2>2, SplitRoundsDown
    <2> QED
        BY <1>3, <1>5, <2>1, <2>3, QuotNat
<1> QED
    BY <1>2, <1>4, <1>5

-----------------------------------------------------------------------------
\* The typing the inductive step needs.
PointsType ==
    days \in Nat /\ earned \in Nat /\ amount \in Nat /\ cap \in Nat

\* It is kept.
LEMMA PointsTyped == Spec => []PointsType
<1>1. Init => PointsType
    BY PointsInputsAssumption DEF Init, PointsType
<1>2. PointsType /\ [AnotherDay]_<<days, earned, amount, cap>> => PointsType'
    BY DEF PointsType, AnotherDay, daily_rate
<1> QED
    BY <1>1, <1>2, PTL DEF Spec

\* However long a record ages, the closed form of compute_points_for_record is
\* the sum of the rates of its days: no band boundary is counted twice or not
\* at all.
THEOREM PointsAreDailyRates == Spec => []PointsMatchDailyRates
<1>1. Init => PointsMatchDailyRates
    BY DEF Init, PointsMatchDailyRates, points_base, MinOf
<1>2. PointsType /\ PointsMatchDailyRates /\ [AnotherDay]_<<days, earned, amount, cap>>
        => PointsMatchDailyRates'
    <2> SUFFICES ASSUME PointsType, PointsMatchDailyRates,
                        [AnotherDay]_<<days, earned, amount, cap>>
                 PROVE  points_base(days') = earned'
        BY DEF PointsMatchDailyRates
    <2>1. points_base(days + 1) = points_base(days) + daily_rate(days + 1)
        BY OneMoreDay DEF PointsType
    <2>2. points_base(days) = earned
        BY DEF PointsMatchDailyRates
    <2> QED
        BY <2>1, <2>2 DEF AnotherDay
<1> QED
    BY <1>1, <1>2, PointsTyped, PTL DEF Spec

\* Withdrawing and staking again never earns more than staying, for every
\* split, stake and pool cap, with each cycle rounded on its own (withdraw
\* banks the points of one cycle).
THEOREM CyclingNeverPays == Spec => []CyclingEarnsNoMore
<1>1. PointsType => CyclingEarnsNoMore
    <2> SUFFICES ASSUME PointsType, NEW d \in 0..days
                 PROVE  points_of(d, amount, cap) + points_of(days - d, amount, cap)
                          <= points_of(days, amount, cap)
        BY DEF CyclingEarnsNoMore
    <2>1. d \in Nat /\ days - d \in Nat /\ d + (days - d) = days
        BY DEF PointsType
    <2> QED
        BY <2>1, SplitPoints DEF PointsType
<1> QED
    BY <1>1, PointsTyped, PTL
=============================================================================
