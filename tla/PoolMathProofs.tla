---------------------------- MODULE PoolMathProofs ----------------------------
(***************************************************************************)
(* Facts about the contract's arithmetic: ranges of the truncating         *)
(* division and of what is computed with it, and sums over a finite set.   *)
(***************************************************************************)
EXTENDS PoolMath, Functions, FiniteSetTheorems, TLAPS

\* Natural division stays in Nat and never rounds up.
LEMMA DivNat ==
    ASSUME NEW a \in Nat, NEW b \in Nat \ {0}
    PROVE  a \div b \in Nat /\ b * (a \div b) <= a
BY SMT

\* Rust's `/` on naturals: Quot is \div there.
LEMMA QuotNat ==
    ASSUME NEW a \in Nat, NEW b \in Nat \ {0}
    PROVE  Quot(a, b) \in Nat /\ Quot(a, b) = a \div b
<1>1. MaxOf(a, -a) = a /\ MaxOf(b, -b) = b
    BY DEF MaxOf
<1>2. ~(a < 0) /\ ~(b < 0)
    OBVIOUS
<1> QED
    BY <1>1, <1>2, DivNat DEF Quot

\* Rust's `/` with a nonzero divisor is an integer, of either sign.
LEMMA QuotInt ==
    ASSUME NEW a \in Int, NEW b \in Int, b # 0
    PROVE  Quot(a, b) \in Int
<1>1. MaxOf(a, -a) \in Nat /\ MaxOf(b, -b) \in Nat \ {0}
    BY DEF MaxOf
<1>2. MaxOf(a, -a) \div MaxOf(b, -b) \in Int
    BY <1>1, DivNat
<1> QED
    BY <1>2 DEF Quot

\* A percentage of an amount is an integer.
LEMMA BpsInt ==
    ASSUME NEW x \in Int, NEW bps \in Int
    PROVE  Bps(x, bps) \in Int
BY QuotInt, x * bps \in Int DEF Bps, BPS_DENOMINATOR

\* A percentage of a natural amount rounds down, and never past the next unit.
LEMMA BpsNat ==
    ASSUME NEW x \in Nat, NEW bps \in Nat
    PROVE  /\ Bps(x, bps) \in Nat
           /\ BPS_DENOMINATOR * Bps(x, bps) <= x * bps
           /\ x * bps < BPS_DENOMINATOR * Bps(x, bps) + BPS_DENOMINATOR
<1> DEFINE n == x * bps
<1>1. n \in Nat /\ BPS_DENOMINATOR \in Nat \ {0}
    BY DEF BPS_DENOMINATOR
<1>2. Bps(x, bps) = n \div BPS_DENOMINATOR
    BY <1>1, QuotNat DEF Bps
<1> HIDE DEF n
<1>3. /\ n \div 10000 \in Nat /\ 10000 * (n \div 10000) <= n
      /\ n < 10000 * (n \div 10000) + 10000
    BY <1>1, SMT
<1> QED
    BY <1>2, <1>3 DEF n, BPS_DENOMINATOR

\* A percentage of a negative amount rounds up, toward zero.
LEMMA BpsNegative ==
    ASSUME NEW x \in Int, x < 0, NEW bps \in Nat
    PROVE  /\ Bps(x, bps) \in Int /\ Bps(x, bps) <= 0
           /\ x * bps <= BPS_DENOMINATOR * Bps(x, bps)
           /\ BPS_DENOMINATOR * Bps(x, bps) < x * bps + BPS_DENOMINATOR
<1> DEFINE n == (-x) * bps
<1>1. n \in Nat /\ x * bps = -n
    BY SMT
<1> HIDE DEF n
<1>2. /\ n \div 10000 \in Nat /\ 10000 * (n \div 10000) <= n
      /\ n < 10000 * (n \div 10000) + 10000
    BY <1>1, SMT
<1>3. Bps(x, bps) = -(n \div 10000)
    <2>1. MaxOf(x * bps, -(x * bps)) = n /\ MaxOf(10000, -10000) = 10000
        BY <1>1 DEF MaxOf
    <2>2. CASE n = 0
        BY <1>1, <2>1, <2>2 DEF Bps, Quot, BPS_DENOMINATOR
    <2>3. CASE n > 0
        BY <1>1, <2>1, <2>3 DEF Bps, Quot, BPS_DENOMINATOR
    <2> QED
        BY <1>1, <2>2, <2>3
<1> QED
    BY <1>1, <1>2, <1>3 DEF BPS_DENOMINATOR

\* A larger share of a natural amount is more of it.
LEMMA ShareGrows ==
    ASSUME NEW x \in Nat, NEW bps \in Nat, NEW most \in Nat, bps <= most
    PROVE  x * bps \in Nat /\ x * bps <= x * most
<1>1. PICK k \in Nat : most = bps + k
    <2>1. most - bps \in Nat /\ most = bps + (most - bps)
        OBVIOUS
    <2> QED
        BY <2>1
<1>2. x * k \in Nat /\ x * most = x * bps + x * k /\ x * bps \in Nat
    BY <1>1, SMT
<1> QED
    BY <1>2

\* A share of at most `most` basis points, of a natural amount.
LEMMA BpsAtMost ==
    ASSUME NEW x \in Nat, NEW bps \in Nat, NEW most \in Nat, bps <= most
    PROVE  Bps(x, bps) \in Nat /\ BPS_DENOMINATOR * Bps(x, bps) <= x * most
<1> DEFINE b == Bps(x, bps)
           p == x * bps
           q == x * most
<1>1. b \in Nat /\ BPS_DENOMINATOR * b <= p
    BY BpsNat, Zenon
<1>2. p \in Nat /\ p <= q /\ q \in Nat
    BY ShareGrows
<1> HIDE DEF b, p, q
<1>3. BPS_DENOMINATOR * b <= q
    BY <1>1, <1>2 DEF BPS_DENOMINATOR
<1> QED
    BY <1>1, <1>3 DEF b, q

\* At most a quarter of a positive pool is admitted in a day (stress_cap).
LEMMA StressCapQuarter ==
    ASSUME NEW staked \in Nat, NEW allocated \in Int
    PROVE  stress_cap_of(staked, allocated) \in Nat /\ 4 * stress_cap_of(staked, allocated) <= staked
<1>1. CASE staked = 0
    BY <1>1 DEF stress_cap_of
<1>2. CASE staked # 0
    <2>1. PICK bps \in {2500, 1000, 300} : stress_cap_of(staked, allocated) = Bps(staked, bps)
        BY <1>2 DEF stress_cap_of
    <2>2. Bps(staked, bps) \in Nat /\ BPS_DENOMINATOR * Bps(staked, bps) <= staked * 2500
        BY <2>1, BpsAtMost
    <2> DEFINE cap == Bps(staked, bps)
    <2> HIDE DEF cap
    <2>3. cap \in Nat /\ BPS_DENOMINATOR * cap <= staked * 2500
        BY <2>2 DEF cap
    <2>4. 4 * cap <= staked
        BY <2>3 DEF BPS_DENOMINATOR
    <2> QED
        BY <2>1, <2>3, <2>4 DEF cap
<1> QED
    BY <1>1, <1>2

\* A day's outflow cap is at most 5% of its base, and nothing of a base that
\* vault losses have made negative (dynamic_outflow_bps).
LEMMA OutflowCapTwentieth ==
    ASSUME NEW base \in Int, NEW allocated \in Int
    PROVE  LET cap == Bps(base, outflow_bps_of(base, allocated))
           IN  /\ cap \in Int
               /\ base >= 0 => 20 * cap <= base
               /\ base < 0 => cap <= 0
<1>1. PICK bps \in {500, 300, 100} : outflow_bps_of(base, allocated) = bps
    BY DEF outflow_bps_of
<1>2. bps \in Nat /\ bps <= 500
    BY <1>1
<1> DEFINE cap == Bps(base, bps)
<1>3. CASE base >= 0
    <2>1. base \in Nat /\ ~(base < 0)
        BY <1>3
    <2>2. cap \in Nat /\ BPS_DENOMINATOR * cap <= base * 500
        BY <1>2, <2>1, BpsAtMost
    <2> HIDE DEF cap
    <2>3. 20 * cap <= base
        BY <2>1, <2>2 DEF BPS_DENOMINATOR
    <2> QED
        BY <1>1, <2>1, <2>2, <2>3 DEF cap
<1>4. CASE base < 0
    <2>1. cap \in Int /\ cap <= 0
        BY <1>2, <1>4, BpsNegative
    <2> HIDE DEF cap
    <2>2. ~(base >= 0)
        BY <1>4
    <2> QED
        BY <1>1, <1>4, <2>1, <2>2 DEF cap
<1> QED
    BY <1>3, <1>4

\* A tranche of the vault position is worth no more than the whole of it:
\* redeeming at most all shares never takes deployed_xlm below zero (redeem).
LEMMA ProRataBounded ==
    ASSUME NEW whole \in Nat, NEW part \in Nat, NEW total \in Nat \ {0}, part <= total
    PROVE  pro_rata(whole, part, total) \in Nat /\ pro_rata(whole, part, total) <= whole
<1> DEFINE q == (whole * part) \div total
<1>1. whole * part \in Nat
    OBVIOUS
<1>2. pro_rata(whole, part, total) = q /\ q \in Nat /\ total * q <= whole * part
    BY <1>1, QuotNat, DivNat DEF pro_rata
<1>3. whole * part <= total * whole
    BY SMT
<1>4. total * q <= total * whole
    BY <1>1, <1>2, <1>3
<1> HIDE DEF q
<1>5. q <= whole
    BY <1>2, <1>4, SMTT(30)
<1> QED
    BY <1>2, <1>5

\* What a product says of one factor.
LEMMA FactorBound ==
    ASSUME NEW a \in Nat \ {0}, NEW b \in Int, NEW c \in Int, a * b <= a * c
    PROVE  b <= c
<1> SUFFICES ASSUME b >= c + 1 PROVE FALSE
    OBVIOUS
<1>1. PICK k \in Nat : b = c + 1 + k
    <2>1. b - (c + 1) \in Nat /\ b = c + 1 + (b - (c + 1))
        OBVIOUS
    <2> QED
        BY <2>1
<1>2. a * k \in Nat /\ a * c \in Int /\ a * b = a * c + a + a * k
    BY <1>1, SMT
<1> QED
    BY <1>2

\* A position within its share of the pool reads as at most that share.
LEMMA RatioAtCeiling ==
    ASSUME NEW deployed \in Nat, NEW staked \in Nat \ {0}, NEW bps \in Nat,
           deployed <= Bps(staked, bps)
    PROVE  Quot(deployed * BPS_DENOMINATOR, staked) <= bps
<1> DEFINE n == deployed * BPS_DENOMINATOR
           q == n \div staked
           b == Bps(staked, bps)
           m == staked * bps
<1>1. n \in Nat /\ n = BPS_DENOMINATOR * deployed
    BY DEF BPS_DENOMINATOR
<1>2. Quot(n, staked) = q /\ q \in Nat /\ staked * q <= n
    BY <1>1, QuotNat, DivNat
<1>3. b \in Nat /\ BPS_DENOMINATOR * b <= m
    BY BpsNat, Zenon
<1>4. m \in Nat
    OBVIOUS
<1> HIDE DEF n, q, b, m
<1>5. n <= m
    BY <1>1, <1>3, <1>4 DEF BPS_DENOMINATOR, b
<1>6. staked * q \in Nat
    BY <1>2
<1>7. staked * q <= staked * bps
    BY <1>1, <1>2, <1>4, <1>5, <1>6 DEF m
<1>8. q <= bps
    BY <1>2, <1>7, FactorBound
<1> QED
    BY <1>2, <1>8 DEF n

\* A position that has not grown reads as no larger a share of a pool that has
\* not shrunk.
LEMMA RatioFalls ==
    ASSUME NEW deployed \in Nat, NEW deployed1 \in Nat, deployed1 <= deployed,
           NEW staked \in Nat \ {0}, NEW staked1 \in Nat \ {0}, staked <= staked1
    PROVE  Quot(deployed1 * BPS_DENOMINATOR, staked1) <= Quot(deployed * BPS_DENOMINATOR, staked)
<1> DEFINE n == deployed * BPS_DENOMINATOR
           n1 == deployed1 * BPS_DENOMINATOR
           q == n \div staked
           q1 == n1 \div staked1
<1>1. n \in Nat /\ n1 \in Nat /\ n1 <= n
    BY DEF BPS_DENOMINATOR
<1> HIDE DEF n, n1
<1>2. /\ Quot(n, staked) = q /\ q \in Nat
      /\ Quot(n1, staked1) = q1 /\ q1 \in Nat /\ staked1 * q1 <= n1
    BY <1>1, QuotNat, DivNat
<1>3. n < staked * (q + 1)
    BY <1>1, SMT
<1>4. staked * q1 \in Nat /\ staked1 * q1 \in Nat /\ staked * q1 <= staked1 * q1
    <2>1. q1 * staked \in Nat /\ q1 * staked <= q1 * staked1
        BY <1>2, ShareGrows
    <2>2. q1 * staked = staked * q1 /\ q1 * staked1 = staked1 * q1
        BY <1>2
    <2> QED
        BY <1>2, <2>1, <2>2
<1> HIDE DEF q, q1
<1>5. q1 <= q
    <2> SUFFICES ASSUME q1 >= q + 1 PROVE FALSE
        BY <1>2
    <2>1. staked * (q + 1) \in Nat /\ staked * (q + 1) <= staked * q1
        BY <1>2, ShareGrows
    <2> QED
        BY <1>1, <1>2, <1>3, <1>4, <2>1
<1> QED
    BY <1>2, <1>5 DEF n, n1

\* The tranche a keeper redeems for a shortfall: its principal is at most the
\* shortfall and, unless it is the whole position, falls short of it by less
\* than the price of a share and one unit.
LEMMA TranchePrincipal ==
    ASSUME NEW deployed \in Nat \ {0}, NEW shares \in Nat \ {0}, NEW short \in Nat, NEW part,
           part = MinOf(pro_rata(short, shares, deployed), shares)
    PROVE  LET p == pro_rata(deployed, part, shares)
           IN  /\ part \in Nat /\ p \in Nat /\ p <= short
               /\ part # shares => shares * short < shares * p + deployed + shares
<1> DEFINE n == short * shares
           q == n \div deployed
           m == deployed * part
           p == m \div shares
<1>1. n \in Nat /\ n = shares * short
    OBVIOUS
<1> HIDE DEF n
<1>2. /\ pro_rata(short, shares, deployed) = q /\ q \in Nat /\ deployed * q <= n
    BY <1>1, QuotNat, DivNat DEF pro_rata, n
<1>3. n < deployed * q + deployed /\ deployed * q \in Nat
    BY <1>1, SMT
<1> HIDE DEF q
<1>4. part \in Nat /\ part <= q /\ (part # shares => part = q)
    BY <1>2 DEF MinOf
<1>5. m \in Nat /\ m <= deployed * q
    BY <1>2, <1>4, ShareGrows
<1>6. m <= n
    BY <1>1, <1>2, <1>3, <1>5
<1>7. part # shares => n < m + deployed
    BY <1>3, <1>4
<1> HIDE DEF m
<1>8. pro_rata(deployed, part, shares) = p /\ p \in Nat /\ shares * p <= m
    BY <1>5, QuotNat, DivNat DEF pro_rata, m
<1>9. m < shares * p + shares /\ shares * p \in Nat
    BY <1>5, SMT
<1> HIDE DEF p
<1>10. shares * p <= shares * short
    BY <1>1, <1>5, <1>6, <1>8, <1>9
<1>11. p <= short
    BY <1>8, <1>10, FactorBound
<1>12. part # shares => shares * short < shares * p + deployed + shares
    BY <1>1, <1>5, <1>7, <1>9
<1> QED
    BY <1>4, <1>8, <1>11, <1>12

\* A percentage is within one unit of the exact quotient, on the side of zero.
LEMMA BpsBounds ==
    ASSUME NEW x \in Int, NEW bps \in Nat
    PROVE  /\ Bps(x, bps) \in Int
           /\ x >= 0 => BPS_DENOMINATOR * Bps(x, bps) <= x * bps
           /\ x < 0 => x * bps <= BPS_DENOMINATOR * Bps(x, bps)
           /\ BPS_DENOMINATOR * Bps(x, bps) < x * bps + BPS_DENOMINATOR
           /\ x * bps < BPS_DENOMINATOR * Bps(x, bps) + BPS_DENOMINATOR
<1> DEFINE b == Bps(x, bps)
           n == x * bps
<1>0. n \in Int
    OBVIOUS
<1>1. CASE x >= 0
    <2>1. x \in Nat /\ ~(x < 0)
        BY <1>1
    <2>2. /\ b \in Nat
          /\ BPS_DENOMINATOR * b <= n
          /\ n < BPS_DENOMINATOR * b + BPS_DENOMINATOR
        BY <2>1, BpsNat
    <2> HIDE DEF b, n
    <2>3. b \in Int /\ BPS_DENOMINATOR * b < n + BPS_DENOMINATOR
        BY <1>0, <2>2 DEF BPS_DENOMINATOR
    <2> QED
        BY <2>1, <2>2, <2>3 DEF b, n
<1>2. CASE x < 0
    <2>1. ~(x >= 0)
        BY <1>2
    <2>2. /\ b \in Int
          /\ n <= BPS_DENOMINATOR * b
          /\ BPS_DENOMINATOR * b < n + BPS_DENOMINATOR
        BY <1>2, BpsNegative
    <2> HIDE DEF b, n
    <2>3. n < BPS_DENOMINATOR * b + BPS_DENOMINATOR
        BY <1>0, <2>2 DEF BPS_DENOMINATOR
    <2> QED
        BY <2>1, <2>2, <2>3 DEF b, n
<1> QED
    BY <1>1, <1>2

\* A loss lowers a share of at most 80% by at most 80% of it and one unit,
\* also where the total turns negative.
LEMMA CeilingDrop ==
    ASSUME NEW staked \in Int, NEW loss \in Nat, NEW bps \in 0..MAX_DEPLOY_BPS
    PROVE  5 * (Bps(staked, bps) - Bps(staked - loss, bps)) <= 4 * loss + 4
<1> DEFINE b == Bps(staked, bps)
           b1 == Bps(staked - loss, bps)
           n == staked * bps
           n1 == (staked - loss) * bps
           l == loss * bps
<1>0. bps <= 8000
    BY DEF MAX_DEPLOY_BPS
<1>1. bps \in Nat /\ staked - loss \in Int
    BY DEF MAX_DEPLOY_BPS
<1>2. n \in Int /\ n1 \in Int /\ l \in Nat /\ n = n1 + l
    BY <1>1
<1>3. l <= loss * 8000
    BY <1>0, <1>1, ShareGrows
<1>4. /\ b \in Int
      /\ staked >= 0 => BPS_DENOMINATOR * b <= n
      /\ BPS_DENOMINATOR * b < n + BPS_DENOMINATOR
    BY <1>1, BpsBounds
<1>5. /\ b1 \in Int
      /\ staked - loss < 0 => n1 <= BPS_DENOMINATOR * b1
      /\ n1 < BPS_DENOMINATOR * b1 + BPS_DENOMINATOR
    BY <1>1, BpsBounds
<1> HIDE DEF b, b1, n, n1, l
<1>6. BPS_DENOMINATOR * b - BPS_DENOMINATOR * b1 < l + BPS_DENOMINATOR
    <2>1. staked >= 0 \/ staked - loss < 0
        OBVIOUS
    <2> QED
        BY <1>2, <1>4, <1>5, <2>1 DEF BPS_DENOMINATOR
<1>7. 5 * (b - b1) <= 4 * loss + 4
    BY <1>2, <1>3, <1>4, <1>5, <1>6 DEF BPS_DENOMINATOR
<1> QED
    BY <1>7 DEF b, b1

\* What a redemption accepted at 95% of its principal returns at least.
LEMMA SlippageFloor ==
    ASSUME NEW p \in Nat, NEW received \in Nat, received >= slippage_floor(p)
    PROVE  19 * p <= 20 * received + 19
<1> DEFINE k == BPS_DENOMINATOR - MAX_REBALANCE_SLIPPAGE_BPS
           f == Bps(p, k)
           n == p * k
<1>0. k \in Nat
    BY DEF BPS_DENOMINATOR, MAX_REBALANCE_SLIPPAGE_BPS
<1>1. n = 9500 * p
    BY DEF BPS_DENOMINATOR, MAX_REBALANCE_SLIPPAGE_BPS
<1>2. slippage_floor(p) = f
    BY DEF slippage_floor
<1> HIDE DEF k
<1>3. f \in Nat /\ n < BPS_DENOMINATOR * f + BPS_DENOMINATOR
    BY <1>0, BpsNat
<1> HIDE DEF f, n
<1> QED
    BY <1>1, <1>2, <1>3 DEF BPS_DENOMINATOR

\* What is short: the reserve missing in the account, or the position above the
\* ceiling, whichever is larger.
ShortOf(reserved, cash, deployed, ceiling) ==
    MaxOf(MaxOf(reserved - cash, 0), MaxOf(deployed - ceiling, 0))

\* A pull of principal `p` at the tolerated slippage has taken `short` to `left`.
PulledDown(left, short, p) ==
    \/ left = 0
    \/ 20 * left + 19 * p <= 20 * short + 19
    \/ 100 * left + 96 * p <= 100 * short + 156

\* What stays short after a redemption accepted at 95% of its principal,
\* whichever of the two shortfalls it is: the reserve missing in the account, or
\* the position above a ceiling that the loss has lowered.
LEMMA ShortAfterRedemption ==
    ASSUME NEW staked \in Int, NEW bps \in 0..MAX_DEPLOY_BPS, NEW reserved \in Int,
           NEW cash \in Nat, NEW deployed \in Nat, NEW p \in Nat, NEW received \in Nat,
           received >= slippage_floor(p),
           NEW loss, loss = MaxOf(p - received, 0),
           NEW short, short = ShortOf(reserved, cash, deployed, Bps(staked, bps)),
           NEW left, left = ShortOf(reserved, cash + received, deployed - p,
                                    Bps(staked - loss, bps))
    PROVE  short \in Nat /\ left \in Nat /\ PulledDown(left, short, p)
<1> DEFINE c == Bps(staked, bps)
           c1 == Bps(staked - loss, bps)
<1>1. 19 * p <= 20 * received + 19
    BY SlippageFloor
<1>2. loss \in Nat /\ 20 * loss <= p + 19
    BY <1>1 DEF MaxOf
<1>3. c \in Int /\ c1 \in Int
    BY <1>2, BpsInt DEF MAX_DEPLOY_BPS
<1>4. 5 * (c - c1) <= 4 * loss + 4
    BY <1>2, CeilingDrop
<1> HIDE DEF c, c1
<1>5. short = MaxOf(MaxOf(reserved - cash, 0), MaxOf(deployed - c, 0))
    BY DEF c, ShortOf
<1>6. left = MaxOf(MaxOf(reserved - (cash + received), 0), MaxOf(deployed - p - c1, 0))
    BY DEF c1, ShortOf
<1>7. short \in Nat /\ reserved - cash <= short /\ deployed - c <= short
    BY <1>3, <1>5 DEF MaxOf
<1>8. /\ left \in Nat
      /\ left = 0 \/ left = reserved - (cash + received) \/ left = deployed - p - c1
    <2> DEFINE x == reserved - (cash + received)
               y == deployed - p - c1
    <2>1. x \in Int /\ y \in Int /\ left = MaxOf(MaxOf(x, 0), MaxOf(y, 0))
        BY <1>3, <1>6
    <2> HIDE DEF x, y
    <2>2. left \in Nat /\ (left = 0 \/ left = x \/ left = y)
        BY <2>1 DEF MaxOf
    <2> QED
        BY <2>2 DEF x, y
<1>9. CASE left = reserved - (cash + received)
    <2>1. 20 * left + 19 * p <= 20 * short + 19
        BY <1>1, <1>7, <1>9
    <2> QED
        BY <1>7, <1>8, <2>1 DEF PulledDown
<1>10. CASE left = deployed - p - c1
    <2>1. 100 * left + 96 * p <= 100 * short + 156
        BY <1>2, <1>3, <1>4, <1>7, <1>10
    <2> QED
        BY <1>7, <1>8, <2>1 DEF PulledDown
<1> QED
    BY <1>7, <1>8, <1>9, <1>10 DEF PulledDown

\* A remainder bounded in either of the two ways, counted in shares.
LEMMA RemainderInShares ==
    ASSUME NEW shares \in Nat \ {0}, NEW deployed \in Nat, NEW short \in Nat, NEW p \in Nat,
           NEW left \in Nat,
           shares * short < shares * p + deployed + shares,
           PulledDown(left, short, p)
    PROVE  20 * shares * left <= shares * short + 20 * deployed + 60 * shares
<1> DEFINE x == shares * left
           y == shares * short
           z == shares * p
<1>1. /\ x \in Nat /\ y \in Nat /\ z \in Nat
      /\ y < z + deployed + shares /\ 20 * shares * left = 20 * x
    OBVIOUS
<1>2. CASE left = 0
    BY <1>1, <1>2
<1>3. CASE 20 * left + 19 * p <= 20 * short + 19
    <2>1. shares * (20 * left + 19 * p) <= shares * (20 * short + 19)
        BY <1>3, ShareGrows
    <2>2. /\ shares * (20 * left + 19 * p) = 20 * x + 19 * z
          /\ shares * (20 * short + 19) = 20 * y + 19 * shares
        OBVIOUS
    <2>3. 20 * x + 19 * z <= 20 * y + 19 * shares
        BY <2>1, <2>2
    <2> HIDE DEF x, y, z
    <2>4. 20 * x <= y + 20 * deployed + 60 * shares
        BY <1>1, <2>3
    <2> QED
        BY <1>1, <2>4 DEF y
<1>4. CASE 100 * left + 96 * p <= 100 * short + 156
    <2>1. shares * (100 * left + 96 * p) <= shares * (100 * short + 156)
        BY <1>4, ShareGrows
    <2>2. /\ shares * (100 * left + 96 * p) = 100 * x + 96 * z
          /\ shares * (100 * short + 156) = 100 * y + 156 * shares
        OBVIOUS
    <2>3. 100 * x + 96 * z <= 100 * y + 156 * shares
        BY <2>1, <2>2
    <2> HIDE DEF x, y, z
    <2>4. 20 * x <= y + 20 * deployed + 60 * shares
        BY <1>1, <2>3
    <2> QED
        BY <1>1, <2>4 DEF y
<1> QED
    BY <1>2, <1>3, <1>4 DEF PulledDown

\* Points are never negative, whatever the pool cap (compute_points_for_record).
LEMMA PointsNat ==
    ASSUME NEW d \in Nat, NEW amount \in Nat, NEW cap \in Nat
    PROVE  points_of(d, amount, cap) \in Nat
<1>1. points_base(d) \in Nat
    BY DEF points_base, MinOf
<1>2. points_base(d) * amount \in Nat
    BY <1>1
<1>3. max_stake_of(cap) \in Nat
    BY QuotNat, cap * MAX_STAKE_BPS \in Nat
    DEF max_stake_of, Bps, MAX_STAKE_BPS, BPS_DENOMINATOR
<1>4. CASE max_stake_of(cap) <= 0
    BY <1>4 DEF points_of
<1>5. CASE ~(max_stake_of(cap) <= 0)
    BY <1>2, <1>3, <1>5, QuotNat DEF points_of
<1> QED
    BY <1>4, <1>5

-----------------------------------------------------------------------------
(* Sums over a finite set, as SumFunction of the community module          *)
(* Functions computes them: what happens to the sum when one term changes. *)
(* The induction is on the size of the set, through the least element of a *)
(* set of naturals.                                                        *)

\* The element a fold takes out of a set next.
Pick(s) == CHOOSE x \in s : TRUE

\* g adds up the values of f over every subset of S.
SumsUp(f, g, S) ==
    g = [s \in SUBSET S |-> IF s = {} THEN 0 ELSE f[Pick(s)] + g[s \ {Pick(s)}]]

\* g holds the sums of f over the subsets of S.
PartialSums(f, g, S) ==
    /\ g \in [SUBSET S -> Int]
    /\ g[{}] = 0
    /\ \A s \in SUBSET S : s # {} => g[s] = f[Pick(s)] + g[s \ {Pick(s)}]

\* A nonempty set of naturals has a least element.
LEMMA LeastNatural ==
    ASSUME NEW T, T \subseteq Nat, T # {}
    PROVE  \E n \in T : \A m \in T : n <= m
<1>1. IsWellFoundedOn(OpToRel(<, Nat), Nat)
    BY NatLessThanWellFounded
<1>2. PICK n \in T : \A m \in T : ~(<<m, n>> \in OpToRel(<, Nat))
    BY <1>1, WFMin
<1>3. \A m \in T : ~(m < n)
    BY <1>2 DEF OpToRel
<1> QED
    BY <1>3

\* The element taken out is one of the set's.
LEMMA PickIn == ASSUME NEW s, s # {} PROVE Pick(s) \in s
BY DEF Pick

\* What is left is a smaller subset.
LEMMA PickSmaller ==
    ASSUME NEW S, IsFiniteSet(S), NEW s \in SUBSET S, s # {}
    PROVE  /\ s \ {Pick(s)} \in SUBSET S
           /\ Cardinality(s) \in Nat /\ Cardinality(s \ {Pick(s)}) \in Nat
           /\ Cardinality(s \ {Pick(s)}) = Cardinality(s) - 1
<1>1. IsFiniteSet(s)
    BY FS_Subset
<1> QED
    BY <1>1, PickIn, FS_RemoveElement, FS_CardinalityType

\* Induction on the subsets of a finite set: if the empty set is good, and a
\* set is good whenever what Pick leaves of it is, then every subset is good.
LEMMA SubsetInduction ==
    ASSUME NEW S, IsFiniteSet(S), NEW Good, {} \in Good,
           \A s \in SUBSET S : s # {} /\ s \ {Pick(s)} \in Good => s \in Good
    PROVE  SUBSET S \subseteq Good
<1> DEFINE Bad == {s \in SUBSET S : s \notin Good}
           Sizes == {Cardinality(s) : s \in Bad}
<1>1. SUFFICES ASSUME Bad # {} PROVE FALSE
    OBVIOUS
<1>2. Sizes \subseteq Nat /\ Sizes # {}
    BY <1>1, FS_Subset, FS_CardinalityType
<1>3. PICK n \in Sizes : \A m \in Sizes : n <= m
    BY <1>2, LeastNatural
<1>4. PICK s \in Bad : Cardinality(s) = n
    OBVIOUS
<1>5. s # {}
    OBVIOUS
<1>6. s \ {Pick(s)} \in Bad
    BY <1>5, PickSmaller
<1>7. Cardinality(s \ {Pick(s)}) \in Sizes
    BY <1>6
<1>8. s \in SUBSET S
    OBVIOUS
<1> HIDE DEF Sizes, Bad
<1> QED
    BY <1>3, <1>4, <1>5, <1>7, <1>8, PickSmaller

\* There is a function that adds up f.
LEMMA SumExists ==
    ASSUME NEW S, IsFiniteSet(S), NEW f \in [S -> Int]
    PROVE  \E g \in [SUBSET S -> Int] : SumsUp(f, g, S)
<1> DEFINE Small(n) == {s \in SUBSET S : Cardinality(s) <= n}
           Value(g, s) == IF s = {} THEN 0 ELSE f[Pick(s)] + g[s \ {Pick(s)}]
           Adds(n) == \E g \in [Small(n) -> Int] : \A s \in Small(n) : g[s] = Value(g, s)
<1>1. \A s \in SUBSET S : Cardinality(s) \in Nat /\ (Cardinality(s) = 0 <=> s = {})
    BY FS_Subset, FS_CardinalityType, FS_EmptySet
<1>2. Adds(0)
    <2> DEFINE g == [s \in Small(0) |-> 0]
    <2>1. \A s \in Small(0) : s = {}
        BY <1>1
    <2>2. g \in [Small(0) -> Int] /\ \A s \in Small(0) : g[s] = Value(g, s)
        BY <2>1
    <2> QED
        BY <2>2
<1>3. ASSUME NEW n \in Nat, Adds(n) PROVE Adds(n + 1)
    <2>1. PICK g \in [Small(n) -> Int] : \A s \in Small(n) : g[s] = Value(g, s)
        BY <1>3
    <2> DEFINE h == [s \in Small(n + 1) |-> Value(g, s)]
    <2>2. \A s \in Small(n + 1) : s # {} => s \ {Pick(s)} \in Small(n) /\ f[Pick(s)] \in Int
        BY PickSmaller, PickIn
    <2>3. Small(n) \subseteq Small(n + 1)
        BY <1>1
    <2>4. \A s \in Small(n) : h[s] = g[s]
        BY <2>1, <2>3
    <2>5. ASSUME NEW s \in Small(n + 1)
          PROVE  Value(g, s) \in Int /\ Value(h, s) = Value(g, s)
        <3>1. CASE s = {}
            BY <3>1
        <3>2. CASE s # {}
            <4>1. s \ {Pick(s)} \in Small(n) /\ f[Pick(s)] \in Int
                BY <2>2, <3>2
            <4>2. g[s \ {Pick(s)}] \in Int /\ h[s \ {Pick(s)}] = g[s \ {Pick(s)}]
                BY <2>4, <4>1
            <4> HIDE DEF h, Small
            <4> QED
                BY <3>2, <4>1, <4>2
        <3> QED
            BY <3>1, <3>2
    <2>6. h \in [Small(n + 1) -> Int] /\ \A s \in Small(n + 1) : h[s] = Value(h, s)
        BY <2>5
    <2> QED
        BY <2>6
<1> HIDE DEF Adds
<1>4. \A n \in Nat : Adds(n)
    <2> DEFINE Not == {n \in Nat : ~Adds(n)}
    <2>1. SUFFICES ASSUME Not # {} PROVE FALSE
        OBVIOUS
    <2>2. PICK n \in Not : \A m \in Not : n <= m
        BY <2>1, LeastNatural
    <2>3. n # 0
        BY <1>2
    <2>4. n - 1 \in Nat /\ n - 1 \notin Not
        BY <2>2, <2>3
    <2>5. Adds(n - 1)
        BY <2>4
    <2>6. Adds((n - 1) + 1)
        BY <1>3, <2>4, <2>5
    <2> QED
        BY <2>6
<1>5. Cardinality(S) \in Nat /\ Small(Cardinality(S)) = SUBSET S
    BY FS_CardinalityType, FS_Subset
<1>6. Adds(Cardinality(S))
    BY <1>4, <1>5
<1> QED
    BY <1>5, <1>6 DEF Adds, SumsUp

\* SumFunction is such a function's value on the whole set.
LEMMA SumUnfolds ==
    ASSUME NEW S, IsFiniteSet(S), NEW f \in [S -> Int]
    PROVE  \E g : PartialSums(f, g, S) /\ SumFunction(f) = g[S]
<1> DEFINE g == CHOOSE h : SumsUp(f, h, S)
<1>1. DOMAIN f = S
    OBVIOUS
<1>2. SumFunction(f) = g[S]
    BY <1>1 DEF SumFunction, SumFunctionOnSet, FoldFunctionOnSet, MapThenFoldSet, SumsUp, Pick
<1>3. SumsUp(f, g, S)
    BY SumExists
<1> HIDE DEF g
<1>4. /\ g[{}] = 0
      /\ \A s \in SUBSET S : s # {} => g[s] = f[Pick(s)] + g[s \ {Pick(s)}]
    BY <1>3 DEF SumsUp
<1>5. DOMAIN g = SUBSET S /\ g = [s \in SUBSET S |-> g[s]]
    BY <1>3 DEF SumsUp
<1>6. \A s \in SUBSET S : g[s] \in Int
    <2> DEFINE Good == {s \in SUBSET S : g[s] \in Int}
    <2>1. {} \in Good
        BY <1>4
    <2>2. \A s \in SUBSET S : s # {} /\ s \ {Pick(s)} \in Good => s \in Good
        BY <1>4, PickIn
    <2> HIDE DEF Good
    <2>3. SUBSET S \subseteq Good
        BY <2>1, <2>2, SubsetInduction
    <2> QED
        BY <2>3 DEF Good
<1> QED
    BY <1>2, <1>4, <1>5, <1>6 DEF PartialSums

-----------------------------------------------------------------------------
\* A sum of integers is an integer.
LEMMA SumInt ==
    ASSUME NEW S, IsFiniteSet(S), NEW f \in [S -> Int]
    PROVE  SumFunction(f) \in Int
<1>1. PICK g : PartialSums(f, g, S) /\ SumFunction(f) = g[S]
    BY SumUnfolds
<1> QED
    BY <1>1 DEF PartialSums

\* A sum of naturals is a natural.
LEMMA SumNat ==
    ASSUME NEW S, IsFiniteSet(S), NEW f \in [S -> Nat]
    PROVE  SumFunction(f) \in Nat
<1>1. f \in [S -> Int]
    OBVIOUS
<1>2. PICK g : PartialSums(f, g, S) /\ SumFunction(f) = g[S]
    BY <1>1, SumUnfolds
<1> DEFINE Good == {s \in SUBSET S : g[s] \in Nat}
<1>3. {} \in Good
    BY <1>2 DEF PartialSums
<1>4. ASSUME NEW s \in SUBSET S, s # {}, s \ {Pick(s)} \in Good PROVE s \in Good
    <2>1. f[Pick(s)] \in Nat
        BY <1>4, PickIn
    <2>2. g[s] = f[Pick(s)] + g[s \ {Pick(s)}] /\ g[s \ {Pick(s)}] \in Nat
        BY <1>2, <1>4 DEF PartialSums
    <2> QED
        BY <2>1, <2>2
<1> HIDE DEF Good
<1>5. SUBSET S \subseteq Good
    BY <1>3, <1>4, SubsetInduction
<1> QED
    BY <1>2, <1>5 DEF Good

\* A sum of zeros.
LEMMA SumZero ==
    ASSUME NEW S, IsFiniteSet(S), NEW f \in [S -> Int], \A x \in S : f[x] = 0
    PROVE  SumFunction(f) = 0
<1>1. PICK g : PartialSums(f, g, S) /\ SumFunction(f) = g[S]
    BY SumUnfolds
<1> DEFINE Good == {s \in SUBSET S : g[s] = 0}
<1>2. {} \in Good
    BY <1>1 DEF PartialSums
<1>3. \A s \in SUBSET S : s # {} /\ s \ {Pick(s)} \in Good => s \in Good
    BY <1>1, PickIn DEF PartialSums
<1> HIDE DEF Good
<1>4. SUBSET S \subseteq Good
    BY <1>2, <1>3, SubsetInduction
<1> QED
    BY <1>1, <1>4 DEF Good

\* One term changes, and the sum by as much.
LEMMA SumUpdate ==
    ASSUME NEW S, IsFiniteSet(S), NEW f \in [S -> Int], NEW h \in [S -> Int], NEW x \in S,
           \A y \in S : y # x => h[y] = f[y]
    PROVE  SumFunction(h) = SumFunction(f) + h[x] - f[x]
<1>1. PICK F : PartialSums(f, F, S) /\ SumFunction(f) = F[S]
    BY SumUnfolds
<1>2. PICK H : PartialSums(h, H, S) /\ SumFunction(h) = H[S]
    BY SumUnfolds
<1> DEFINE change(s) == IF x \in s THEN h[x] - f[x] ELSE 0
           Good == {s \in SUBSET S : H[s] = F[s] + change(s)}
<1>3. {} \in Good
    BY <1>1, <1>2 DEF PartialSums
<1>4. ASSUME NEW s \in SUBSET S, s # {}, s \ {Pick(s)} \in Good PROVE s \in Good
    <2> DEFINE p == Pick(s)
               r == s \ {p}
    <2>1. p \in s /\ p \in S /\ r \in SUBSET S
        BY <1>4, PickIn
    <2>2. F[s] = f[p] + F[r] /\ H[s] = h[p] + H[r] /\ H[r] = F[r] + change(r)
        BY <1>1, <1>2, <1>4 DEF PartialSums
    <2>3. f[p] \in Int /\ h[p] \in Int /\ F[r] \in Int /\ f[x] \in Int /\ h[x] \in Int
        BY <1>1, <2>1 DEF PartialSums
    <2>4. CASE p = x
        BY <2>1, <2>2, <2>3, <2>4
    <2>5. CASE p # x
        BY <2>1, <2>2, <2>3, <2>5
    <2> QED
        BY <2>4, <2>5
<1> HIDE DEF Good
<1>5. SUBSET S \subseteq Good
    BY <1>3, <1>4, SubsetInduction
<1>6. H[S] = F[S] + h[x] - f[x]
    <2>1. S \in Good
        BY <1>5
    <2> QED
        BY <1>1, <2>1 DEF Good, PartialSums
<1> QED
    BY <1>1, <1>2, <1>6
=============================================================================
