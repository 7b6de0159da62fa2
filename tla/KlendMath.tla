------------------------------ MODULE KlendMath ------------------------------
(***************************************************************************)
(* The arithmetic of the lending market the treasury lends through: the    *)
(* fixed-point numbers of utils/fraction.rs, the exchange rate between     *)
(* liquidity and collateral, the borrow-rate curve, compounding, and fees. *)
(*                                                                         *)
(* A Fraction is a 68.60 fixed-point number; here it is an integer counted *)
(* in units of 1/ONE, where ONE stands for 2^60.  The _sf and _bsf fields  *)
(* of the code hold exactly that integer.  Products and quotients of       *)
(* Fractions drop the bits below the last one, as \div does.               *)
(***************************************************************************)
EXTENDS Integers, Sequences

CONSTANTS ONE,              \* Fraction::ONE, in bits
          SLOTS_PER_YEAR    \* 63,072,000 in utils/consts.rs

ASSUME KlendMathAssumption == /\ ONE \in Nat /\ ONE > 1
                              /\ SLOTS_PER_YEAR \in Nat /\ SLOTS_PER_YEAR > 0

FULL_BPS == 10000

FromNum(n)     == n * ONE
FromBps(bps)   == (bps * ONE) \div FULL_BPS
FromPercent(p) == (p * ONE) \div 100
ToFloor(f)     == f \div ONE
ToCeil(f)      == (f + ONE - 1) \div ONE
ToRound(f)     == (2 * f + ONE) \div (2 * ONE)
ToBps(f)       == ToRound(f * FULL_BPS)
Mul(f, g)      == (f * g) \div ONE
Quot(f, g)     == (f * ONE) \div g
Least(f, g)    == IF f <= g THEN f ELSE g
Greatest(f, g) == IF f >= g THEN f ELSE g

\* CollateralExchangeRate, in collateral per unit of liquidity: one to one while
\* either side is empty.
ExchangeRate(mint_total_supply, total_liquidity) ==
    IF mint_total_supply = 0 \/ total_liquidity = 0 THEN ONE
    ELSE Quot(FromNum(mint_total_supply), total_liquidity)

\* Mutant: the collateral minted for a deposit is rounded up.
LiquidityToCollateral_Ceil(rate, liquidity_amount) == ToCeil(rate * liquidity_amount)

LiquidityToCollateral(rate, liquidity_amount) == ToFloor(rate * liquidity_amount)

CollateralToLiquidity(rate, collateral_amount) ==
    ToFloor(Quot(FromNum(collateral_amount), rate))

\* Mutant: the third-order term is not divided by 3!.
ApproximateCompoundedInterest_NotDivided(rate, elapsed_slots) ==
    LET base == rate \div SLOTS_PER_YEAR
        n == elapsed_slots
    IN  ONE + base * n + (Mul(base, base) * n * (n - 1)) \div 2
            + Mul(Mul(base, base), base) * n * (n - 1) * (n - 2)

\* (1 + rate / SLOTS_PER_YEAR)^elapsed_slots: exact up to four slots, the first
\* four terms of the binomial series beyond.
ApproximateCompoundedInterest(rate, elapsed_slots) ==
    LET base == rate \div SLOTS_PER_YEAR
        n == elapsed_slots
        one == ONE + base
        two == Mul(one, one)
        base_power_two == Mul(base, base)
        base_power_three == Mul(base_power_two, base)
    IN  CASE n = 0 -> ONE
          [] n = 1 -> one
          [] n = 2 -> two
          [] n = 3 -> Mul(two, one)
          [] n = 4 -> Mul(two, two)
          [] OTHER -> ONE + base * n
                          + (base_power_two * n * (n - 1)) \div 2
                          + (base_power_three * n * (n - 1) * (n - 2)) \div 6

-----------------------------------------------------------------------------
\* BorrowRateCurve::validate: eleven points [utilization, rate] in bps.
CurvePoint == [utilization : Nat, rate : Nat]
CurveValid(points) ==
    /\ points \in [1..11 -> CurvePoint]
    /\ points[1].utilization = 0
    /\ points[11].utilization = FULL_BPS
    /\ \A i \in 2..11 :
          /\ IF points[i - 1].utilization = FULL_BPS THEN points[i].utilization = FULL_BPS
             ELSE points[i].utilization > points[i - 1].utilization
          /\ points[i].rate >= points[i - 1].rate

\* BorrowRateCurve::from_points: the last point fills the rest of the array.
FromPoints(pts) == [i \in 1..11 |-> pts[IF i <= Len(pts) THEN i ELSE Len(pts)]]

\* BorrowRateCurve::from_legacy_parameters, in percent: a curve with one bend, or
\* none when the bend is at an end.
Point(utilization, rate) == [utilization |-> utilization, rate |-> rate]
FromLegacyParameters(optimal_utilization, base, optimal, max) ==
    LET first == Point(0, IF optimal_utilization = 0 THEN 100 * optimal ELSE 100 * base)
        bend == Point(100 * optimal_utilization, 100 * optimal)
        last == Point(FULL_BPS, IF optimal_utilization = 100 THEN 100 * optimal ELSE 100 * max)
    IN  FromPoints(IF optimal_utilization \in {0, 100} THEN <<first, last>>
                   ELSE <<first, bend, last>>)

\* Mutant: the rate of a segment's first point is left out.
SegmentRate_NoOffset(start, end, utilization_rate) ==
    ((utilization_rate - FromBps(start.utilization)) * (end.rate - start.rate))
        \div (end.utilization - start.utilization)

\* CurveSegment: the line from one point to the next.
SegmentRate(start, end, utilization_rate) ==
    ((utilization_rate - FromBps(start.utilization)) * (end.rate - start.rate))
        \div (end.utilization - start.utilization)
    + FromBps(start.rate)

\* BorrowRateCurve::get_borrow_rate: the first segment that holds the
\* utilization, in rounded basis points; at an end of it, the point's rate.
GetBorrowRate(points, utilization) ==
    LET capped == Least(utilization, ONE)
        bps == ToBps(capped)
        holds(i) == points[i].utilization <= bps /\ bps <= points[i + 1].utilization
        i == CHOOSE j \in 1..10 :
                 holds(j) /\ \A k \in 1..(j - 1) : ~holds(k)
    IN  CASE bps = points[i].utilization     -> FromBps(points[i].rate)
          [] bps # points[i].utilization /\ bps = points[i + 1].utilization
                                             -> FromBps(points[i + 1].rate)
          [] OTHER -> SegmentRate(points[i], points[i + 1], capped)

-----------------------------------------------------------------------------
\* ReserveFees::calculate_fees; BorrowTooSmall when nothing would be left.  An
\* inclusive fee is taken out of the amount, an exclusive one comes on top.
FeeAmount(amount, fee_sf, inclusive) ==
    Greatest(Mul(amount, IF inclusive THEN Quot(fee_sf, fee_sf + ONE) ELSE fee_sf), FromNum(1))
FeesCharged(amount, fee_sf) == fee_sf > 0 /\ amount > 0

\* Mutant: the smallest fee of one unit is left out of the comparison.
BorrowTooSmall_RateOnly(amount, fee_sf, inclusive) ==
    FeesCharged(amount, fee_sf) /\ Mul(amount, fee_sf) >= amount

BorrowTooSmall(amount, fee_sf, inclusive) ==
    FeesCharged(amount, fee_sf) /\ FeeAmount(amount, fee_sf, inclusive) >= amount

CalculateFees(amount, fee_sf, inclusive, referral_fee_bps, has_referrer) ==
    LET borrow_fee == ToRound(FeeAmount(amount, fee_sf, inclusive))
        referral == IF has_referrer /\ FromBps(referral_fee_bps) > 0
                    THEN IF referral_fee_bps = FULL_BPS THEN borrow_fee
                         ELSE ToFloor(Mul(FeeAmount(amount, fee_sf, inclusive),
                                          FromBps(referral_fee_bps)))
                    ELSE 0
    IN  IF FeesCharged(amount, fee_sf)
        THEN [borrow_fee |-> borrow_fee - referral, referrer_fee |-> referral]
        ELSE [borrow_fee |-> 0, referrer_fee |-> 0]
=============================================================================
