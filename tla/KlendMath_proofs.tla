--------------------------- MODULE KlendMath_proofs ---------------------------
(***************************************************************************)
(* The arithmetic of the lending market, for any precision: what the       *)
(* operations on Fractions return, that compounding never shrinks a debt,  *)
(* grows with rate and time and stays below the exact power however long it *)
(* runs, how far rounding drives two debts apart, that the borrow rate of a *)
(* valid curve is defined everywhere and grows with the use, that an       *)
(* inclusive fee leaves something, and that a deposit withdrawn at once    *)
(* returns no more than it was.                                            *)
(***************************************************************************)
EXTENDS KlendMath, WellFoundedInduction, TLAPS

\* Quotients of the integers.
LEMMA DivNat ==
    ASSUME NEW a \in Nat, NEW b \in Nat, b > 0
    PROVE  a \div b \in Nat
OBVIOUS

LEMMA DivInt ==
    ASSUME NEW a \in Int, NEW b \in Nat, b > 0
    PROVE  a \div b \in Int
OBVIOUS

LEMMA TimesNat ==
    ASSUME NEW a \in Nat, NEW b \in Nat
    PROVE  a * b \in Nat
OBVIOUS

LEMMA TimesInt ==
    ASSUME NEW a \in Int, NEW b \in Int
    PROVE  a * b \in Int
OBVIOUS

LEMMA TimesMono ==
    ASSUME NEW a \in Nat, NEW b \in Nat, NEW c \in Nat, b <= c
    PROVE  a * b <= a * c
OBVIOUS

\* Multiplying both sides of an inequality by the same factor.
LEMMA TimesBoth ==
    ASSUME NEW a \in Nat, NEW c \in Nat, NEW b \in Nat, a <= c
    PROVE  a * b <= c * b
<1>1. b * a <= b * c
  BY TimesMono
<1>2. QED
  BY <1>1

LEMMA TimesIntBoth ==
    ASSUME NEW a \in Int, NEW c \in Int, NEW b \in Nat, a <= c
    PROVE  a * b \in Int /\ c * b \in Int /\ a * b <= c * b
<1>1. c - a \in Nat
  OBVIOUS
<1> DEFINE d == c - a
<1>2. c = a + d
  OBVIOUS
<1> HIDE DEF d
<1>3. d \in Nat
  BY <1>1 DEF d
<1>4. c * b = a * b + d * b
  BY <1>2, <1>3
<1>5. d * b \in Nat /\ a * b \in Int
  BY <1>3, TimesNat
<1>6. QED
  BY <1>4, <1>5

\* A common factor cancels.
LEMMA TimesCancel ==
    ASSUME NEW a \in Nat, NEW c \in Nat, NEW b \in Nat, b > 0, a * b <= c * b
    PROVE  a <= c
<1> SUFFICES ASSUME ~ (a <= c) PROVE FALSE
  OBVIOUS
<1>1. c + 1 <= a
  OBVIOUS
<1>2. b * (c + 1) <= b * a
  BY <1>1, TimesMono
<1>3. b * (c + 1) = c * b + b /\ b * a = a * b
  OBVIOUS
<1>4. c * b \in Nat /\ a * b \in Nat
  BY TimesNat
<1>5. QED
  BY <1>2, <1>3, <1>4

\* What is at least a whole number of divisors has at least that quotient.
LEMMA DivAtLeast ==
    ASSUME NEW a \in Int, NEW b \in Nat, b > 0, NEW q \in Int, q * b <= a
    PROVE  q <= a \div b
<1> DEFINE d == a \div b
           m == a % b
<1>1. d \in Int /\ m \in 0..(b - 1) /\ a = b * d + m
  OBVIOUS
<1> HIDE DEF d, m
<1>2. q * b < (d + 1) * b
  BY <1>1
<1>3. q < d + 1
  BY <1>1, <1>2
<1>4. QED
  BY <1>1, <1>3 DEF d

\* The remainder is not negative.
LEMMA DivBelow ==
    ASSUME NEW a \in Int, NEW b \in Nat, b > 0
    PROVE  (a \div b) * b <= a
OBVIOUS

\* A quotient and its remainder.
LEMMA DivSplit ==
    ASSUME NEW a \in Nat, NEW b \in Nat, b > 0
    PROVE  \E p \in 0..(b - 1) : a \div b \in Nat /\ a = (a \div b) * b + p
<1> DEFINE d == a \div b
           m == a % b
<1>1. m \in 0..(b - 1) /\ a = d * b + m
  OBVIOUS
<1>2. d \in Nat
  BY DivNat
<1> HIDE DEF d, m
<1>3. \E p \in 0..(b - 1) : d \in Nat /\ a = d * b + p
  BY <1>1, <1>2
<1>4. QED
  BY <1>3 DEF d

\* What is below the next multiple of the divisor has at most that quotient.
LEMMA DivAtMost ==
    ASSUME NEW a \in Int, NEW b \in Nat, b > 0, NEW q \in Int, a < (q + 1) * b
    PROVE  a \div b <= q
<1> SUFFICES ASSUME ~ (a \div b <= q) PROVE FALSE
  OBVIOUS
<1> DEFINE d == a \div b
<1>1. d \in Int /\ d * b <= a
  BY DivBelow, DivInt
<1>2. q + 1 <= d
  BY <1>1
<1> HIDE DEF d
<1>3. (q + 1) * b <= d * b /\ (q + 1) * b \in Int /\ d * b \in Int
  BY <1>1, <1>2, TimesIntBoth, TimesInt
<1>4. QED
  BY <1>1, <1>3

LEMMA MulNat ==
    ASSUME NEW f \in Nat, NEW g \in Nat
    PROVE  Mul(f, g) \in Nat
<1>1. f * g \in Nat
  BY TimesNat
<1>2. QED
  BY <1>1, DivNat, KlendMathAssumption DEF Mul

\* A factor of at least one does not shrink what it is applied to.
LEMMA MulGrows ==
    ASSUME NEW f \in Nat, NEW g \in Nat, g >= ONE
    PROVE  Mul(f, g) \in Nat /\ Mul(f, g) >= f
<1>1. f * ONE <= f * g /\ f * g \in Nat
  BY TimesMono, TimesNat, KlendMathAssumption
<1>2. f <= (f * g) \div ONE
  BY <1>1, DivAtLeast, KlendMathAssumption
<1>3. QED
  BY <1>2, MulNat DEF Mul

LEMMA QuotNat ==
    ASSUME NEW f \in Nat, NEW g \in Nat, g > 0
    PROVE  Quot(f, g) \in Nat
<1>1. f * ONE \in Nat
  BY TimesNat, KlendMathAssumption
<1>2. QED
  BY <1>1, DivNat DEF Quot

\* Whole numbers survive the way to a Fraction and back, also on top of a Fraction.
LEMMA FloorOfWhole ==
    ASSUME NEW n \in Int
    PROVE  ToFloor(FromNum(n)) = n
BY KlendMathAssumption DEF ToFloor, FromNum

LEMMA FromNumNat ==
    ASSUME NEW n \in Nat
    PROVE  FromNum(n) \in Nat
BY TimesNat, KlendMathAssumption DEF FromNum

LEMMA FloorNat ==
    ASSUME NEW f \in Nat
    PROVE  ToFloor(f) \in Nat
BY DivNat, KlendMathAssumption DEF ToFloor

LEMMA CeilNat ==
    ASSUME NEW f \in Nat
    PROVE  ToCeil(f) \in Nat
<1>1. f + ONE - 1 \in Nat
  BY KlendMathAssumption
<1>2. QED
  BY <1>1, DivNat, KlendMathAssumption DEF ToCeil

LEMMA RoundNat ==
    ASSUME NEW f \in Nat
    PROVE  ToRound(f) \in Nat
<1>1. 2 * f + ONE \in Nat /\ 2 * ONE \in Nat /\ 2 * ONE > 0
  BY KlendMathAssumption
<1>2. QED
  BY <1>1, DivNat DEF ToRound

LEMMA BpsNat ==
    ASSUME NEW b \in Nat
    PROVE  FromBps(b) \in Nat
<1>1. b * ONE \in Nat
  BY TimesNat, KlendMathAssumption
<1>2. QED
  BY <1>1, DivNat DEF FromBps, FULL_BPS

LEMMA PercentNat ==
    ASSUME NEW p \in Nat
    PROVE  FromPercent(p) \in Nat
<1>1. p * ONE \in Nat
  BY TimesNat, KlendMathAssumption
<1>2. QED
  BY <1>1, DivNat DEF FromPercent

LEMMA LeastNat ==
    ASSUME NEW f \in Nat, NEW g \in Nat
    PROVE  Least(f, g) \in Nat /\ Least(f, g) <= f /\ Least(f, g) <= g
BY DEF Least

\* Quotients and products keep the order of what they are made of.
LEMMA DivMono ==
    ASSUME NEW a \in Int, NEW c \in Int, a <= c, NEW b \in Nat, b > 0
    PROVE  a \div b <= c \div b
<1>1. a \div b \in Int /\ (a \div b) * b <= a
  BY DivInt, DivBelow
<1> DEFINE q == a \div b
<1> HIDE DEF q
<1>2. q \in Int /\ q * b <= a
  BY <1>1 DEF q
<1>3. q * b \in Int
  BY <1>2, TimesInt
<1>4. q * b <= c
  BY <1>2, <1>3
<1>5. q <= c \div b
  BY <1>2, <1>4, DivAtLeast
<1>6. QED
  BY <1>5 DEF q

LEMMA TimesMonoBoth ==
    ASSUME NEW a \in Nat, NEW c \in Nat, NEW b \in Nat, NEW d \in Nat, a <= c, b <= d
    PROVE  a * b \in Nat /\ c * d \in Nat /\ a * b <= c * d
<1>1. a * b \in Nat /\ c * b \in Nat /\ c * d \in Nat
  BY TimesNat
<1>2. a * b <= c * b /\ c * b <= c * d
  BY TimesBoth, TimesMono
<1> DEFINE p == a * b
           q == c * b
           t == c * d
<1> HIDE DEF p, q, t
<1>3. p \in Nat /\ q \in Nat /\ t \in Nat /\ p <= q /\ q <= t
  BY <1>1, <1>2 DEF p, q, t
<1>4. p <= t
  BY <1>3
<1>5. QED
  BY <1>1, <1>4 DEF p, t

LEMMA MulMonoBoth ==
    ASSUME NEW f \in Nat, NEW g \in Nat, NEW h \in Nat, NEW k \in Nat, f <= h, g <= k
    PROVE  Mul(f, g) \in Nat /\ Mul(h, k) \in Nat /\ Mul(f, g) <= Mul(h, k)
<1>1. f * g \in Nat /\ h * k \in Nat /\ f * g <= h * k
  BY TimesMonoBoth
<1> DEFINE p == f * g
           q == h * k
<1>2. Mul(f, g) = p \div ONE /\ Mul(h, k) = q \div ONE
  BY DEF Mul
<1> HIDE DEF p, q
<1>3. p \in Int /\ q \in Int /\ p <= q
  BY <1>1 DEF p, q
<1>4. p \div ONE <= q \div ONE
  BY <1>3, DivMono, KlendMathAssumption
<1>5. QED
  BY <1>2, <1>4, MulNat

\* A factor of at most one does not enlarge what it is applied to.
LEMMA MulShrinks ==
    ASSUME NEW f \in Nat, NEW g \in Nat, g <= ONE
    PROVE  Mul(f, g) \in Nat /\ Mul(f, g) <= f
<1>1. ONE \in Nat /\ ONE > 0 /\ f <= f
  BY KlendMathAssumption
<1>2. Mul(f, g) <= Mul(f, ONE) /\ Mul(f, g) \in Nat
  BY <1>1, MulMonoBoth
<1>3. Mul(f, ONE) = f
  BY <1>1 DEF Mul
<1>4. QED
  BY <1>2, <1>3

-----------------------------------------------------------------------------
(* Compounding *)

\* A debt never shrinks by compounding, whichever of the formulas applies: what it is
\* multiplied by is at least one, for any rate and any number of slots.
THEOREM CompoundingGrows ==
    ASSUME NEW rate \in Nat, NEW elapsed_slots \in Nat
    PROVE  /\ ApproximateCompoundedInterest(rate, elapsed_slots) \in Nat
           /\ ApproximateCompoundedInterest(rate, elapsed_slots) >= ONE
<1> DEFINE base == rate \div SLOTS_PER_YEAR
           n == elapsed_slots
           one == ONE + base
           two == Mul(one, one)
           power_two == Mul(base, base)
           power_three == Mul(power_two, base)
           second == (power_two * n * (n - 1)) \div 2
           third == (power_three * n * (n - 1) * (n - 2)) \div 6
<1>1. base \in Nat
  BY DivNat, KlendMathAssumption
<1>2. one \in Nat /\ one >= ONE
  BY <1>1, KlendMathAssumption
<1>3. two \in Nat /\ two >= ONE
  BY <1>2, MulGrows, KlendMathAssumption
<1>4. /\ Mul(two, one) \in Nat /\ Mul(two, one) >= ONE
      /\ Mul(two, two) \in Nat /\ Mul(two, two) >= ONE
  <2> HIDE DEF one, two
  <2>1. Mul(two, one) \in Nat /\ Mul(two, one) >= two
    BY <1>2, <1>3, MulGrows
  <2>2. Mul(two, two) \in Nat /\ Mul(two, two) >= two
    BY <1>3, MulGrows
  <2>3. QED
    BY <1>3, <2>1, <2>2, KlendMathAssumption
<1>5. power_two \in Nat /\ power_three \in Nat
  BY <1>1, MulNat
<1>6. n >= 5 => ONE + base * n + second + third >= ONE /\ ONE + base * n + second + third \in Nat
  <2> SUFFICES ASSUME n >= 5
      PROVE  ONE + base * n + second + third >= ONE /\ ONE + base * n + second + third \in Nat
    OBVIOUS
  <2>1. base * n \in Nat
    BY <1>1, TimesNat
  <2> HIDE DEF base, power_two, power_three
  <2>2. power_two * n \in Nat /\ power_three * n \in Nat /\ n - 1 \in Nat /\ n - 2 \in Nat
    BY <1>5, TimesNat
  <2>3. power_two * n * (n - 1) \in Nat /\ power_three * n * (n - 1) \in Nat
    BY <2>2, TimesNat
  <2>4. power_three * n * (n - 1) * (n - 2) \in Nat
    BY <2>2, <2>3, TimesNat
  <2>5. second \in Nat
    BY <2>3, DivNat
  <2>6. third \in Nat
    BY <2>4, DivNat
  <2> HIDE DEF second, third
  <2>7. QED
    BY <2>1, <2>5, <2>6, KlendMathAssumption
<1>7. \/ n = 0 \/ n = 1 \/ n = 2 \/ n = 3 \/ n = 4 \/ n >= 5
  OBVIOUS
<1> DEFINE interest == ApproximateCompoundedInterest(rate, n)
<1>8. /\ n = 0 => interest = ONE
      /\ n = 1 => interest = one
      /\ n = 2 => interest = two
      /\ n = 3 => interest = Mul(two, one)
      /\ n = 4 => interest = Mul(two, two)
      /\ n >= 5 => interest = ONE + base * n + second + third
  <2>1. n = 0 => interest = ONE
    BY DEF ApproximateCompoundedInterest
  <2>2. n = 1 => interest = one
    BY DEF ApproximateCompoundedInterest
  <2>3. n = 2 => interest = two
    BY DEF ApproximateCompoundedInterest
  <2>4. n = 3 => interest = Mul(two, one)
    BY DEF ApproximateCompoundedInterest
  <2>5. n = 4 => interest = Mul(two, two)
    BY DEF ApproximateCompoundedInterest
  <2>6. n >= 5 => n # 0 /\ n # 1 /\ n # 2 /\ n # 3 /\ n # 4
    OBVIOUS
  <2>7. n # 0 /\ n # 1 /\ n # 2 /\ n # 3 /\ n # 4
            => interest = ONE + base * n + second + third
    BY Zenon DEF ApproximateCompoundedInterest
  <2>8. QED
    BY <2>1, <2>2, <2>3, <2>4, <2>5, <2>6, <2>7, Zenon
<1> HIDE DEF base, one, two, power_two, power_three, second, third, interest
<1>9. QED
  BY <1>2, <1>3, <1>4, <1>6, <1>7, <1>8, KlendMathAssumption DEF interest

\* What the formulas come to, one by one.
LEMMA CompoundingCases ==
    ASSUME NEW rate \in Nat, NEW n \in Nat
    PROVE  LET base == rate \div SLOTS_PER_YEAR
               one == ONE + base
               two == Mul(one, one)
               interest == ApproximateCompoundedInterest(rate, n)
           IN  /\ n = 0 => interest = ONE
               /\ n = 1 => interest = one
               /\ n = 2 => interest = two
               /\ n = 3 => interest = Mul(two, one)
               /\ n = 4 => interest = Mul(two, two)
               /\ n >= 5 => interest = ONE + base * n
                               + (Mul(base, base) * n * (n - 1)) \div 2
                               + (Mul(Mul(base, base), base) * n * (n - 1) * (n - 2)) \div 6
<1> DEFINE base == rate \div SLOTS_PER_YEAR
           one == ONE + base
           two == Mul(one, one)
           interest == ApproximateCompoundedInterest(rate, n)
           series == ONE + base * n
                         + (Mul(base, base) * n * (n - 1)) \div 2
                         + (Mul(Mul(base, base), base) * n * (n - 1) * (n - 2)) \div 6
<1>1. n = 0 => interest = ONE
  BY DEF ApproximateCompoundedInterest
<1>2. n = 1 => interest = one
  BY DEF ApproximateCompoundedInterest
<1>3. n = 2 => interest = two
  BY DEF ApproximateCompoundedInterest
<1>4. n = 3 => interest = Mul(two, one)
  BY DEF ApproximateCompoundedInterest
<1>5. n = 4 => interest = Mul(two, two)
  BY DEF ApproximateCompoundedInterest
<1>6. n >= 5 => n # 0 /\ n # 1 /\ n # 2 /\ n # 3 /\ n # 4
  OBVIOUS
<1>7. n # 0 /\ n # 1 /\ n # 2 /\ n # 3 /\ n # 4 => interest = series
  BY Zenon DEF ApproximateCompoundedInterest
<1>8. QED
  BY <1>1, <1>2, <1>3, <1>4, <1>5, <1>6, <1>7, Zenon

\* A higher rate never compounds to less, whichever of the formulas applies: the part of
\* the interest that the fixed rate accounts for is never more than all of it.
THEOREM CompoundingRisesWithRate ==
    ASSUME NEW rate \in Nat, NEW higher \in Nat, rate <= higher, NEW n \in Nat
    PROVE  ApproximateCompoundedInterest(rate, n) <= ApproximateCompoundedInterest(higher, n)
<1> DEFINE x == rate \div SLOTS_PER_YEAR
           y == higher \div SLOTS_PER_YEAR
           x1 == ONE + x
           y1 == ONE + y
           x2 == Mul(x1, x1)
           y2 == Mul(y1, y1)
           xx == Mul(x, x)
           yy == Mul(y, y)
           xxx == Mul(xx, x)
           yyy == Mul(yy, y)
           low == ApproximateCompoundedInterest(rate, n)
           high == ApproximateCompoundedInterest(higher, n)
<1>1. x \in Nat /\ y \in Nat /\ x <= y
  BY DivNat, DivMono, KlendMathAssumption
<1>2. /\ n = 0 => low = ONE /\ high = ONE
      /\ n = 1 => low = x1 /\ high = y1
      /\ n = 2 => low = x2 /\ high = y2
      /\ n = 3 => low = Mul(x2, x1) /\ high = Mul(y2, y1)
      /\ n = 4 => low = Mul(x2, x2) /\ high = Mul(y2, y2)
      /\ n >= 5 => /\ low = ONE + x * n + (xx * n * (n - 1)) \div 2
                                + (xxx * n * (n - 1) * (n - 2)) \div 6
                   /\ high = ONE + y * n + (yy * n * (n - 1)) \div 2
                                 + (yyy * n * (n - 1) * (n - 2)) \div 6
  BY CompoundingCases, Zenon
<1> HIDE DEF x, y
<1>3. x1 \in Nat /\ y1 \in Nat /\ x1 <= y1
  BY <1>1, KlendMathAssumption
<1> HIDE DEF x1, y1
<1>4. x2 \in Nat /\ y2 \in Nat /\ x2 <= y2
  BY <1>3, MulMonoBoth
<1>5. xx \in Nat /\ yy \in Nat /\ xx <= yy
  BY <1>1, MulMonoBoth
<1> HIDE DEF x2, y2, xx, yy
<1>6. xxx \in Nat /\ yyy \in Nat /\ xxx <= yyy
  BY <1>1, <1>5, MulMonoBoth
<1>7. Mul(x2, x1) <= Mul(y2, y1) /\ Mul(x2, x2) <= Mul(y2, y2)
  BY <1>3, <1>4, MulMonoBoth
<1> HIDE DEF xxx, yyy, low, high
<1>8. CASE n >= 5
  <2> DEFINE k == n - 1
             m == n - 2
             a1 == x * n
             b1 == y * n
             a2 == xx * n
             b2 == yy * n
             a3 == xxx * n
             b3 == yyy * n
  <2>1. k \in Nat /\ m \in Nat /\ n <= n /\ k <= k /\ m <= m
    BY <1>8
  <2>2. a1 \in Nat /\ b1 \in Nat /\ a1 <= b1
    BY <1>1, <2>1, TimesMonoBoth
  <2>3. a2 \in Nat /\ b2 \in Nat /\ a2 <= b2
    BY <1>5, <2>1, TimesMonoBoth
  <2>4. a3 \in Nat /\ b3 \in Nat /\ a3 <= b3
    BY <1>6, <2>1, TimesMonoBoth
  <2> HIDE DEF k, m, a1, b1, a2, b2, a3, b3
  <2> DEFINE c2 == a2 * k
             d2 == b2 * k
             c3 == a3 * k
             d3 == b3 * k
  <2>5. c2 \in Nat /\ d2 \in Nat /\ c2 <= d2
    BY <2>1, <2>3, TimesMonoBoth
  <2>6. c3 \in Nat /\ d3 \in Nat /\ c3 <= d3
    BY <2>1, <2>4, TimesMonoBoth
  <2> HIDE DEF c2, d2, c3, d3
  <2> DEFINE e3 == c3 * m
             f3 == d3 * m
  <2>7. e3 \in Nat /\ f3 \in Nat /\ e3 <= f3
    BY <2>1, <2>6, TimesMonoBoth
  <2> HIDE DEF e3, f3
  <2>8. /\ c2 \div 2 <= d2 \div 2 /\ e3 \div 6 <= f3 \div 6
        /\ c2 \div 2 \in Nat /\ d2 \div 2 \in Nat /\ e3 \div 6 \in Nat /\ f3 \div 6 \in Nat
    BY <2>5, <2>7, DivMono, DivNat
  <2>9. low = ONE + a1 + c2 \div 2 + e3 \div 6 /\ high = ONE + b1 + d2 \div 2 + f3 \div 6
    BY <1>2, <1>8, Zenon DEF a1, b1, a2, b2, a3, b3, c2, d2, c3, d3, e3, f3, k, m
  <2> DEFINE s2 == c2 \div 2
             t2 == d2 \div 2
             s3 == e3 \div 6
             t3 == f3 \div 6
  <2> HIDE DEF s2, t2, s3, t3
  <2>10. s2 \in Nat /\ t2 \in Nat /\ s3 \in Nat /\ t3 \in Nat /\ s2 <= t2 /\ s3 <= t3
    BY <2>8 DEF s2, t2, s3, t3
  <2>11. low = ONE + a1 + s2 + s3 /\ high = ONE + b1 + t2 + t3
    BY <2>9 DEF s2, t2, s3, t3
  <2>12. QED
    BY <2>2, <2>10, <2>11, KlendMathAssumption DEF low, high
<1>9. n = 0 \/ n = 1 \/ n = 2 \/ n = 3 \/ n = 4 \/ n >= 5
  OBVIOUS
<1>10. ONE <= ONE
  BY KlendMathAssumption
<1>11. QED
  BY <1>2, <1>3, <1>4, <1>7, <1>8, <1>9, <1>10, Zenon DEF low, high

\* Four slots exactly are at most the series for five, while a slot's interest is at most
\* the debt and a Fraction has at least four bits: the truncations of the square of the
\* square are made up for by the interest of one slot more.
LEMMA FourAtMostFive ==
    ASSUME ONE >= 16, NEW b \in Nat, b <= ONE
    PROVE  LET two == Mul(ONE + b, ONE + b)
               s == Mul(b, b)
           IN  Mul(two, two) <= ONE + 5 * b + 10 * s + 10 * Mul(s, b)
<1> DEFINE N == ONE
           s == Mul(b, b)
           c == Mul(s, b)
           two == Mul(N + b, N + b)
<1>0. N \in Nat /\ N >= 16 /\ b <= N /\ N > 0
  BY KlendMathAssumption
<1>1. PICK p \in 0..(N - 1) : s \in Nat /\ b * b = s * N + p
  BY <1>0, DivSplit, TimesNat DEF Mul
<1>2. PICK q \in 0..(N - 1) : c \in Nat /\ s * b = c * N + q
  <2>1. s \in Nat /\ s * b \in Nat
    BY <1>1, TimesNat
  <2>2. QED
    BY <1>0, <2>1, DivSplit DEF Mul
<1>3. two = N + 2 * b + s
  <2> DEFINE all == (N + b) * (N + b)
  <2>1. all = (N + 2 * b + s) * N + p
    BY <1>0, <1>1
  <2>2. p \in Int /\ 0 <= p /\ p < N
    BY <1>0, <1>1
  <2>3. two = all \div N
    BY DEF Mul
  <2> HIDE DEF all, two, s, N
  <2> DEFINE k == N + 2 * b + s
  <2>4. k \in Nat
    BY <1>0, <1>1
  <2>5. all = k * N + p
    BY <2>1
  <2> HIDE DEF k
  <2>6. k * N \in Nat /\ all \in Nat /\ k * N <= all /\ (k + 1) * N = k * N + N /\ all < (k + 1) * N
    <3>1. k * N \in Nat
      BY <1>0, <2>4, TimesNat
    <3>2. (k + 1) * N = k * N + N
      BY <1>0, <2>4
    <3>3. QED
      BY <1>0, <3>1, <3>2, <2>2, <2>5
  <2>7. k <= all \div N /\ all \div N <= k /\ all \div N \in Nat
    BY <1>0, <2>4, <2>6, DivAtLeast, DivAtMost, DivNat
  <2>8. QED
    BY <2>3, <2>4, <2>7 DEF k
<1> HIDE DEF s, c, two, N
<1>4. s <= b
  <2>1. b * b <= N * b /\ b * b \in Nat
    BY <1>0, TimesBoth, TimesNat
  <2>2. s * N <= b * N /\ s * N \in Nat
    <3>1. s * N \in Nat
      BY <1>0, <1>1, TimesNat
    <3>2. N * b = b * N
      BY <1>0
    <3>3. QED
      BY <1>0, <1>1, <2>1, <3>1, <3>2
  <2>3. QED
    BY <1>0, <1>1, <2>2, TimesCancel
<1> DEFINE bN == b * N
           sN == s * N
           cN == c * N
           bb == b * b
           sb == s * b
           ss == s * s
<1>5. bN \in Nat /\ sN \in Nat /\ cN \in Nat /\ bb \in Nat /\ sb \in Nat /\ ss \in Nat
  BY <1>0, <1>1, <1>2, TimesNat
<1>6. ss <= sb /\ sb <= sN
  BY <1>0, <1>1, <1>4, TimesMono
<1>7. two * two = N * N + 4 * bN + 6 * sN + 4 * cN + 4 * p + 4 * q + ss
  <2>1. two * two = N * N + 4 * bN + 2 * sN + 4 * bb + 4 * sb + ss
    BY <1>0, <1>1, <1>3
  <2>2. bb = sN + p /\ sb = cN + q
    BY <1>1, <1>2
  <2> HIDE DEF bN, sN, cN, bb, sb, ss
  <2>3. N * N \in Nat
    BY <1>0, TimesNat
  <2>4. QED
    BY <1>1, <1>2, <1>5, <2>1, <2>2, <2>3
<1> DEFINE most == N + 5 * b + 10 * s + 10 * c
<1>8. (most + 1) * N = N * N + 5 * bN + 10 * sN + 10 * cN + N
  BY <1>0, <1>1, <1>2
<1>9. bb = sN + p /\ sb = cN + q
  BY <1>1, <1>2
<1>10. 4 * p + 4 * q + ss < bN + 4 * sN + 6 * cN + N
  <2>1. CASE 4 * b <= N
    <3>1. 4 * bb <= bN /\ 4 * sb <= sN
      <4>1. b * (4 * b) <= b * N /\ s * (4 * b) <= s * N
        BY <1>0, <1>1, <2>1, TimesMono
      <4>2. b * (4 * b) = 4 * bb /\ s * (4 * b) = 4 * sb
        BY <1>0, <1>1
      <4>3. QED
        BY <4>1, <4>2
    <3> HIDE DEF bN, sN, cN, bb, sb, ss
    <3>2. QED
      BY <1>0, <1>1, <1>2, <1>5, <1>6, <1>9, <3>1
  <2>2. CASE ~ (4 * b <= N)
    <3>1. b >= 5
      BY <1>0, <2>2
    <3>2. 5 * N <= bN
      BY <1>0, <3>1, TimesBoth
    <3>3. s = 0 => q = 0
      <4>1. s = 0 => sb = 0
        OBVIOUS
      <4> HIDE DEF bN, sN, cN, bb, sb, ss
      <4>2. QED
        BY <1>0, <1>2, <1>5, <1>9, <4>1
    <3>4. s > 0 => N <= sN
      <4>1. s > 0 => 1 * N <= s * N
        BY <1>0, <1>1, TimesBoth
      <4>2. QED
        BY <1>0, <4>1
    <3> HIDE DEF bN, sN, cN, bb, sb, ss
    <3>5. QED
      BY <1>0, <1>1, <1>2, <1>5, <1>6, <3>2, <3>3, <3>4
  <2>3. QED
    BY <2>1, <2>2
<1>11. two * two < (most + 1) * N
  <2>1. N * N \in Nat
    BY <1>0, TimesNat
  <2> HIDE DEF bN, sN, cN, bb, sb, ss, most
  <2>2. QED
    BY <1>0, <1>1, <1>2, <1>5, <1>7, <1>8, <1>10, <2>1
<1>12. most \in Nat /\ two \in Nat
  BY <1>0, <1>1, <1>2, <1>3
<1> HIDE DEF most
<1>13. two * two \in Nat
  BY <1>12, TimesNat
<1>14. (two * two) \div N <= most
  BY <1>0, <1>11, <1>12, <1>13, DivAtMost
<1>15. QED
  BY <1>14 DEF most, Mul, N, s, c, two

\* The series charges no less for one slot more.
LEMMA SeriesRises ==
    ASSUME NEW b \in Nat, NEW s \in Nat, NEW c \in Nat, NEW n \in Nat, n >= 2
    PROVE  ONE + b * n + (s * n * (n - 1)) \div 2 + (c * n * (n - 1) * (n - 2)) \div 6
              <= ONE + b * (n + 1) + (s * (n + 1) * n) \div 2 + (c * (n + 1) * n * (n - 1)) \div 6
<1> DEFINE k == n - 1
           m == n - 2
           l == n + 1
           a1 == b * n
           b1 == b * l
           a2 == s * n
           b2 == s * l
           a3 == c * n
           b3 == c * l
<1>1. k \in Nat /\ m \in Nat /\ l \in Nat /\ n <= l /\ k <= n /\ m <= k /\ b <= b /\ s <= s /\ c <= c
  OBVIOUS
<1> HIDE DEF k, m, l
<1>2. a1 \in Nat /\ b1 \in Nat /\ a1 <= b1 /\ a2 \in Nat /\ b2 \in Nat /\ a2 <= b2
      /\ a3 \in Nat /\ b3 \in Nat /\ a3 <= b3
  BY <1>1, TimesMonoBoth
<1> HIDE DEF a1, b1, a2, b2, a3, b3
<1> DEFINE c2 == a2 * k
           d2 == b2 * n
           c3 == a3 * k
           d3 == b3 * n
<1>3. c2 \in Nat /\ d2 \in Nat /\ c2 <= d2 /\ c3 \in Nat /\ d3 \in Nat /\ c3 <= d3
  BY <1>1, <1>2, TimesMonoBoth
<1> HIDE DEF c2, d2, c3, d3
<1> DEFINE e3 == c3 * m
           f3 == d3 * k
<1>4. e3 \in Nat /\ f3 \in Nat /\ e3 <= f3
  BY <1>1, <1>3, TimesMonoBoth
<1> HIDE DEF e3, f3
<1> DEFINE s2 == c2 \div 2
           t2 == d2 \div 2
           s3 == e3 \div 6
           t3 == f3 \div 6
<1>5. s2 \in Nat /\ t2 \in Nat /\ s3 \in Nat /\ t3 \in Nat /\ s2 <= t2 /\ s3 <= t3
  BY <1>3, <1>4, DivMono, DivNat
<1> HIDE DEF s2, t2, s3, t3
<1>6. ONE + a1 + s2 + s3 <= ONE + b1 + t2 + t3
  BY <1>2, <1>5, KlendMathAssumption
<1>7. QED
  BY <1>6, Zenon DEF s2, t2, s3, t3, e3, f3, c2, d2, c3, d3, a1, b1, a2, b2, a3, b3, k, m, l

\* A debt never costs less for being longer, across the change from the exact power to
\* the series at five slots, while a slot's interest is at most the debt itself and a
\* Fraction has at least four bits (the code's have sixty).
THEOREM CompoundingRisesWithTime ==
    ASSUME ONE >= 16, NEW rate \in Nat, rate \div SLOTS_PER_YEAR <= ONE, NEW n \in Nat
    PROVE  ApproximateCompoundedInterest(rate, n) <= ApproximateCompoundedInterest(rate, n + 1)
<1> DEFINE b == rate \div SLOTS_PER_YEAR
           one == ONE + b
           two == Mul(one, one)
           s == Mul(b, b)
           c == Mul(s, b)
           low == ApproximateCompoundedInterest(rate, n)
           high == ApproximateCompoundedInterest(rate, n + 1)
           l == n + 1
<1>1. b \in Nat /\ b <= ONE
  BY DivNat, KlendMathAssumption
<1>2. /\ n = 0 => low = ONE
      /\ n = 1 => low = one
      /\ n = 2 => low = two
      /\ n = 3 => low = Mul(two, one)
      /\ n = 4 => low = Mul(two, two)
      /\ n >= 5 => low = ONE + b * n + (s * n * (n - 1)) \div 2
                              + (c * n * (n - 1) * (n - 2)) \div 6
  BY CompoundingCases, Zenon
<1>3. l \in Nat
  OBVIOUS
<1> HIDE DEF l
<1>4. /\ l = 1 => high = one
      /\ l = 2 => high = two
      /\ l = 3 => high = Mul(two, one)
      /\ l = 4 => high = Mul(two, two)
      /\ l >= 5 => high = ONE + b * l + (s * l * (l - 1)) \div 2
                              + (c * l * (l - 1) * (l - 2)) \div 6
  <2>1. high = ApproximateCompoundedInterest(rate, l)
    BY DEF l
  <2>2. QED
    BY <1>3, <2>1, CompoundingCases, Zenon
<1> HIDE DEF b
<1>5. one \in Nat /\ one >= ONE /\ ONE \in Nat /\ ONE <= ONE /\ ONE <= one
  BY <1>1, KlendMathAssumption
<1>6. s \in Nat /\ c \in Nat
  BY <1>1, MulNat
<1>7. Mul(two, two) <= ONE + 5 * b + 10 * s + 10 * c
  BY <1>1, FourAtMostFive
<1> HIDE DEF one, s, c
<1>8. two \in Nat /\ two >= one
  BY <1>5, MulGrows
<1> HIDE DEF two
<1>9. Mul(two, one) \in Nat /\ Mul(two, one) >= two /\ two <= two
  BY <1>5, <1>8, MulGrows
<1>10. Mul(two, one) <= Mul(two, two)
  BY <1>5, <1>8, <1>9, MulMonoBoth
<1> HIDE DEF low, high
<1>11. CASE n >= 5
  <2>1. l >= 5 /\ l - 1 = n /\ l - 2 = n - 1
    BY <1>11 DEF l
  <2>2. high = ONE + b * (n + 1) + (s * (n + 1) * n) \div 2 + (c * (n + 1) * n * (n - 1)) \div 6
    BY <1>4, <2>1, Zenon DEF l
  <2>3. n >= 2
    BY <1>11
  <2>4. QED
    BY <1>1, <1>2, <1>6, <1>11, <2>2, <2>3, SeriesRises, Zenon DEF low, high
<1>12. CASE n = 4
  <2>1. l = 5
    BY <1>12 DEF l
  <2>2. high = ONE + b * 5 + (s * 5 * 4) \div 2 + (c * 5 * 4 * 3) \div 6
    <3>1. l >= 5 /\ l - 1 = 4 /\ l - 2 = 3
      BY <2>1
    <3>2. QED
      BY <1>4, <2>1, <3>1, Zenon
  <2>3. (s * 5 * 4) \div 2 = 10 * s /\ (c * 5 * 4 * 3) \div 6 = 10 * c
    BY <1>6
  <2>4. high = ONE + 5 * b + 10 * s + 10 * c
    BY <1>1, <2>2, <2>3
  <2>5. QED
    BY <1>2, <1>7, <1>12, <2>4 DEF low, high
<1>13. CASE n = 3
  <2>1. l = 4
    BY <1>13 DEF l
  <2>2. QED
    BY <1>2, <1>4, <1>10, <1>13, <2>1 DEF low, high
<1>14. CASE n = 2
  <2>1. l = 3
    BY <1>14 DEF l
  <2>2. QED
    BY <1>2, <1>4, <1>8, <1>9, <1>14, <2>1 DEF low, high
<1>15. CASE n = 1
  <2>1. l = 2
    BY <1>15 DEF l
  <2>2. QED
    BY <1>2, <1>4, <1>5, <1>8, <1>15, <2>1 DEF low, high
<1>16. CASE n = 0
  <2>1. l = 1
    BY <1>16 DEF l
  <2>2. QED
    BY <1>2, <1>4, <1>5, <1>16, <2>1 DEF low, high
<1>17. n = 0 \/ n = 1 \/ n = 2 \/ n = 3 \/ n = 4 \/ n >= 5
  OBVIOUS
<1>18. QED
  BY <1>11, <1>12, <1>13, <1>14, <1>15, <1>16, <1>17

\* A product of Fractions, scaled up again, is at most the exact one.
LEMMA MulBelow ==
    ASSUME NEW f \in Nat, NEW g \in Nat
    PROVE  Mul(f, g) \in Nat /\ f * g \in Nat /\ Mul(f, g) * ONE <= f * g
<1>1. f * g \in Nat /\ Mul(f, g) \in Nat
  BY TimesNat, MulNat
<1>2. ((f * g) \div ONE) * ONE <= f * g
  BY <1>1, DivBelow, KlendMathAssumption
<1>3. QED
  BY <1>1, <1>2 DEF Mul

\* What five and six slots cost is what the first terms of the exact power come to.
LEMMA SeriesBelowPower ==
    ASSUME NEW N \in Nat, NEW b \in Nat, NEW s \in Nat, NEW c \in Nat,
           s * N <= b * b, c * N <= s * b
    PROVE  LET x == N + b
           IN  /\ (N + 5 * b + 10 * s + 10 * c) * (N * N * N * N) <= x * x * x * x * x
               /\ (N + 6 * b + 15 * s + 20 * c) * (N * N * N * N * N) <= x * x * x * x * x * x
<1> DEFINE x == N + b
           bb == b * b
           bbb == bb * b
           N2 == N * N
           N3 == N2 * N
           N4 == N3 * N
           sN == s * N
           cNN == c * N * N
<1>1. sN \in Nat /\ cNN \in Nat /\ bb \in Nat /\ bbb \in Nat /\ N2 \in Nat /\ N3 \in Nat /\ N4 \in Nat
  BY TimesNat
<1>2. cNN <= bbb
  <2>1. (c * N) * N <= (s * b) * N
    BY TimesBoth, TimesNat
  <2>2. (s * N) * b <= (b * b) * b
    BY TimesBoth, TimesNat
  <2>3. (s * N) * b = (s * b) * N
    OBVIOUS
  <2>4. c * N * N \in Nat /\ (s * b) * N \in Nat /\ b * b * b \in Nat
    BY TimesNat
  <2>5. QED
    BY <2>1, <2>2, <2>3, <2>4
<1>3. sN * N2 <= bb * N2 /\ cNN * N2 <= bbb * N2 /\ sN * N3 <= bb * N3 /\ cNN * N3 <= bbb * N3
      /\ sN * N4 <= bb * N4
  <2>1. sN <= bb
    OBVIOUS
  <2> HIDE DEF sN, bb, cNN, bbb, N2, N3, N4
  <2>2. QED
    BY <1>1, <1>2, <2>1, TimesBoth
<1>4. /\ (N + 5 * b + 10 * s + 10 * c) * (N * N * N * N)
            = N * N4 + 5 * (b * N4) + 10 * (sN * N3) + 10 * (cNN * N2)
      /\ (N + 6 * b + 15 * s + 20 * c) * (N * N * N * N * N)
            = N * (N * N4) + 6 * (b * (N * N4)) + 15 * (sN * N4) + 20 * (cNN * N3)
  OBVIOUS
<1>5. /\ x * x * x * x * x
            = N * N4 + 5 * (b * N4) + 10 * (bb * N3) + 10 * (bbb * N2) + 5 * (bb * bb * N) + bb * bbb
      /\ x * x * x * x * x * x
            = N * (N * N4) + 6 * (b * (N * N4)) + 15 * (bb * N4) + 20 * (bbb * N3)
                  + 15 * (bb * bb * N2) + 6 * (bb * bbb * N) + bbb * bbb
  OBVIOUS
<1>6. /\ sN * N3 \in Nat /\ bb * N3 \in Nat /\ cNN * N2 \in Nat /\ bbb * N2 \in Nat
      /\ sN * N4 \in Nat /\ bb * N4 \in Nat /\ cNN * N3 \in Nat /\ bbb * N3 \in Nat
      /\ N * N4 \in Nat /\ b * N4 \in Nat /\ N * (N * N4) \in Nat /\ b * (N * N4) \in Nat
      /\ bb * bb * N \in Nat /\ bb * bbb \in Nat /\ bb * bb * N2 \in Nat
      /\ bb * bbb * N \in Nat /\ bbb * bbb \in Nat
  <2> HIDE DEF sN, bb, cNN, bbb, N2, N3, N4
  <2>1. QED
    BY <1>1, TimesNat
<1> HIDE DEF x, sN, bb, cNN, bbb, N2, N3, N4
<1>7. /\ (N + 5 * b + 10 * s + 10 * c) * (N * N * N * N) <= x * x * x * x * x
      /\ (N + 6 * b + 15 * s + 20 * c) * (N * N * N * N * N) <= x * x * x * x * x * x
  BY <1>3, <1>4, <1>5, <1>6
<1>8. QED
  BY <1>7 DEF x

\* Compounding never charges more than the exact power (1 + rate)^n, for up to six slots:
\* the truncations only take away, and the series leaves out what is positive.
THEOREM CompoundingBelowPower ==
    ASSUME NEW rate \in Nat, NEW n \in 1..6
    PROVE  LET x == ONE + rate \div SLOTS_PER_YEAR
               interest == ApproximateCompoundedInterest(rate, n)
           IN  /\ n = 1 => interest <= x
               /\ n = 2 => interest * ONE <= x * x
               /\ n = 3 => interest * (ONE * ONE) <= x * x * x
               /\ n = 4 => interest * (ONE * ONE * ONE) <= x * x * x * x
               /\ n = 5 => interest * (ONE * ONE * ONE * ONE) <= x * x * x * x * x
               /\ n = 6 => interest * (ONE * ONE * ONE * ONE * ONE) <= x * x * x * x * x * x
<1> DEFINE b == rate \div SLOTS_PER_YEAR
           x == ONE + b
           two == Mul(x, x)
           three == Mul(two, x)
           four == Mul(two, two)
           s == Mul(b, b)
           c == Mul(s, b)
           interest == ApproximateCompoundedInterest(rate, n)
<1>1. b \in Nat /\ ONE \in Nat
  BY DivNat, KlendMathAssumption
<1>2. /\ n = 1 => interest = x
      /\ n = 2 => interest = two
      /\ n = 3 => interest = three
      /\ n = 4 => interest = four
      /\ n >= 5 => interest = ONE + b * n + (s * n * (n - 1)) \div 2
                              + (c * n * (n - 1) * (n - 2)) \div 6
  BY CompoundingCases, n \in Nat, Zenon
<1> HIDE DEF b
<1>3. x \in Nat
  BY <1>1
<1>4. s \in Nat /\ s * ONE <= b * b
  BY <1>1, MulBelow
<1>5. c \in Nat /\ c * ONE <= s * b
  BY <1>1, <1>4, MulBelow
<1>6. /\ (ONE + 5 * b + 10 * s + 10 * c) * (ONE * ONE * ONE * ONE) <= x * x * x * x * x
      /\ (ONE + 6 * b + 15 * s + 20 * c) * (ONE * ONE * ONE * ONE * ONE) <= x * x * x * x * x * x
  BY <1>1, <1>4, <1>5, SeriesBelowPower
<1> HIDE DEF x, s, c
<1>7. two \in Nat /\ two * ONE <= x * x /\ x * x \in Nat
  BY <1>3, MulBelow
<1>8. three \in Nat /\ three * (ONE * ONE) <= x * x * x
  <2>1. three \in Nat /\ three * ONE <= two * x /\ two * x \in Nat
    BY <1>3, <1>7, MulBelow
  <2> HIDE DEF two, three
  <2> DEFINE p == three * ONE
             q == two * x
             t == two * ONE
             xx == x * x
  <2>2. p \in Nat /\ q \in Nat /\ t \in Nat /\ xx \in Nat /\ p <= q /\ t <= xx
    BY <1>1, <1>3, <1>7, <2>1, TimesNat
  <2>3. three * (ONE * ONE) = p * ONE /\ q * ONE = t * x
    BY <1>1, <1>3, <1>7, <2>1
  <2> HIDE DEF p, q, t, xx
  <2>4. p * ONE <= q * ONE /\ t * x <= xx * x
    BY <1>1, <1>3, <2>2, TimesBoth
  <2>5. p * ONE \in Nat /\ t * x \in Nat /\ xx * x \in Nat
    BY <1>1, <1>3, <2>2, TimesNat
  <2>6. three * (ONE * ONE) <= xx * x
    BY <2>3, <2>4, <2>5
  <2>7. QED
    BY <2>1, <2>6 DEF xx
<1>9. four \in Nat /\ four * (ONE * ONE * ONE) <= x * x * x * x
  <2>1. four \in Nat /\ four * ONE <= two * two /\ two * two \in Nat
    BY <1>7, MulBelow
  <2> HIDE DEF two, four
  <2> DEFINE p == four * ONE
             q == two * two
             t == two * ONE
             xx == x * x
             N2 == ONE * ONE
  <2>2. p \in Nat /\ q \in Nat /\ t \in Nat /\ xx \in Nat /\ N2 \in Nat /\ p <= q /\ t <= xx
    BY <1>1, <1>3, <1>7, <2>1, TimesNat
  <2>3. four * (ONE * ONE * ONE) = p * N2 /\ q * N2 = t * t /\ x * x * x * x = xx * xx
    BY <1>1, <1>3, <1>7, <2>1
  <2> HIDE DEF p, q, t, xx, N2
  <2>4. p * N2 <= q * N2 /\ t * t <= xx * xx
    BY <2>2, TimesBoth, TimesMonoBoth
  <2>5. p * N2 \in Nat /\ t * t \in Nat /\ xx * xx \in Nat
    BY <2>2, TimesNat
  <2>6. four * (ONE * ONE * ONE) <= xx * xx
    BY <2>3, <2>4, <2>5
  <2>7. QED
    BY <2>1, <2>3, <2>6
<1> HIDE DEF two, three, four, interest
<1>10. n = 5 => interest = ONE + 5 * b + 10 * s + 10 * c
  <2> SUFFICES ASSUME n = 5 PROVE interest = ONE + 5 * b + 10 * s + 10 * c
    OBVIOUS
  <2>1. n >= 5 /\ n - 1 = 4 /\ n - 2 = 3
    OBVIOUS
  <2>2. interest = ONE + b * 5 + (s * 5 * 4) \div 2 + (c * 5 * 4 * 3) \div 6
    BY <1>2, <2>1, Zenon
  <2>3. QED
    BY <1>1, <1>4, <1>5, <2>2
<1>11. n = 6 => interest = ONE + 6 * b + 15 * s + 20 * c
  <2> SUFFICES ASSUME n = 6 PROVE interest = ONE + 6 * b + 15 * s + 20 * c
    OBVIOUS
  <2>1. n >= 5 /\ n - 1 = 5 /\ n - 2 = 4
    OBVIOUS
  <2>2. interest = ONE + b * 6 + (s * 6 * 5) \div 2 + (c * 6 * 5 * 4) \div 6
    BY <1>2, <2>1, Zenon
  <2>3. QED
    BY <1>1, <1>4, <1>5, <2>2
<1>12. /\ n = 1 => interest <= x
       /\ n = 2 => interest * ONE <= x * x
       /\ n = 3 => interest * (ONE * ONE) <= x * x * x
       /\ n = 4 => interest * (ONE * ONE * ONE) <= x * x * x * x
  <2>1. x <= x
    BY <1>3
  <2>2. QED
    BY <1>2, <1>7, <1>8, <1>9, <2>1, Zenon
<1>13. /\ n = 5 => interest * (ONE * ONE * ONE * ONE) <= x * x * x * x * x
       /\ n = 6 => interest * (ONE * ONE * ONE * ONE * ONE) <= x * x * x * x * x * x
  BY <1>6, <1>10, <1>11, Zenon
<1>14. QED
  BY <1>12, <1>13, Zenon DEF x, b, interest

-----------------------------------------------------------------------------
(* The same for any number of slots *)

\* The powers of x up to the n-th.
PowersTo(x, n, p) ==
    /\ p \in [0..n -> Nat] /\ p[0] = 1
    /\ \A k \in 0..(n - 1) : p[k + 1] = x * p[k]

\* A set of numbers that holds zero and with each number the next holds them all.
LEMMA EveryNumber ==
    ASSUME NEW S \in SUBSET Nat, 0 \in S, \A k \in S : k + 1 \in S
    PROVE  Nat \subseteq S
<1> DEFINE R == {ss \in Nat \X Nat : ss[1] < ss[2]}
           C == Nat \ S
<1>1. IsWellFoundedOn(R, Nat)
  BY NatLessThanWellFounded DEF OpToRel
<1> SUFFICES ASSUME C # {} PROVE FALSE
  OBVIOUS
<1> HIDE DEF R
<1>2. PICK n \in C : \A k \in C : ~ (<<k, n>> \in R)
  BY <1>1, C \subseteq Nat, WFMin, Zenon
<1>3. n \in Nat /\ n # 0
  OBVIOUS
<1>4. n - 1 \in Nat /\ n - 1 < n /\ (n - 1) + 1 = n
  BY <1>3
<1>5. n - 1 \notin C
  BY <1>2, <1>3, <1>4 DEF R
<1>6. n - 1 \in S
  BY <1>4, <1>5
<1>7. (n - 1) + 1 \in S
  BY <1>6
<1>8. QED
  BY <1>4, <1>7

\* There are always such powers.
LEMMA PowersExist ==
    ASSUME NEW x \in Nat, NEW n \in Nat
    PROVE  \E p : PowersTo(x, n, p)
<1> DEFINE S == {m \in Nat : \E p : PowersTo(x, m, p)}
<1>1. 0 \in S
  <2>1. PowersTo(x, 0, [k \in 0..0 |-> 1])
    BY DEF PowersTo
  <2>2. QED
    BY <2>1
<1>2. ASSUME NEW m \in S PROVE m + 1 \in S
  <2>1. PICK p : PowersTo(x, m, p)
    OBVIOUS
  <2> DEFINE g == [k \in 0..(m + 1) |-> IF k <= m THEN p[k] ELSE x * p[m]]
  <2>2. m \in Nat /\ p \in [0..m -> Nat] /\ p[0] = 1 /\ \A k \in 0..(m - 1) : p[k + 1] = x * p[k]
    BY <2>1 DEF PowersTo
  <2>3. x * p[m] \in Nat
    BY <2>2, TimesNat
  <2>4. g \in [0..(m + 1) -> Nat] /\ g[0] = 1
    BY <2>2, <2>3
  <2>5. ASSUME NEW k \in 0..m PROVE g[k + 1] = x * g[k]
    <3>1. CASE k = m
      BY <2>2, <3>1
    <3>2. CASE k # m
      BY <2>2, <3>2
    <3>3. QED
      BY <3>1, <3>2
  <2>6. (m + 1) - 1 = m
    BY <2>2
  <2> HIDE DEF g
  <2>7. PowersTo(x, m + 1, g)
    BY <2>4, <2>5, <2>6 DEF PowersTo
  <2>8. QED
    BY <2>2, <2>7
<1> HIDE DEF S
<1>3. S \in SUBSET Nat
  BY DEF S
<1>4. Nat \subseteq S
  BY <1>1, <1>2, <1>3, EveryNumber
<1>5. QED
  BY <1>4 DEF S

\* Six times the first four terms of (N + b)^n, brought to the power of N they lack.
FirstTerms(N, b, n) ==
    6 * (N * N * N) + 6 * (n * b * (N * N)) + 3 * (n * (n - 1) * (b * b * N))
        + n * (n - 1) * (n - 2) * (b * b * b)

LEMMA FallingNat ==
    ASSUME NEW n \in Nat
    PROVE  n * (n - 1) \in Nat /\ n * (n - 1) * (n - 2) \in Nat
<1>1. CASE n = 0 \/ n = 1
  BY <1>1
<1>2. CASE n >= 2
  <2>1. n - 1 \in Nat /\ n - 2 \in Nat
    BY <1>2
  <2>2. n * (n - 1) \in Nat
    BY <2>1, TimesNat
  <2>3. QED
    BY <2>1, <2>2, TimesNat
<1>3. QED
  BY <1>1, <1>2

LEMMA TermsNat ==
    ASSUME NEW N \in Nat, NEW b \in Nat, NEW n \in Nat
    PROVE  FirstTerms(N, b, n) \in Nat
<1> DEFINE two == n * (n - 1)
           three == n * (n - 1) * (n - 2)
           N3 == N * N * N
           nbN == n * b * (N * N)
           bbN == b * b * N
           bbb == b * b * b
<1>1. two \in Nat /\ three \in Nat
  BY FallingNat
<1>2. N3 \in Nat /\ nbN \in Nat /\ bbN \in Nat /\ bbb \in Nat
  BY TimesNat
<1> HIDE DEF two, three, N3, nbN, bbN, bbb
<1>3. two * bbN \in Nat /\ three * bbb \in Nat
  BY <1>1, <1>2, TimesNat
<1>4. 6 * N3 + 6 * nbN + 3 * (two * bbN) + three * bbb \in Nat
  BY <1>2, <1>3
<1>5. QED
  BY <1>4 DEF FirstTerms, two, three, N3, nbN, bbN, bbb

\* One slot more multiplies the terms by no more than N + b.
LEMMA TermsStep ==
    ASSUME NEW N \in Nat, NEW b \in Nat, NEW n \in Nat
    PROVE  N * FirstTerms(N, b, n + 1) <= (N + b) * FirstTerms(N, b, n)
<1> DEFINE rest == n * (n - 1) * (n - 2) * (b * b * b * b)
<1>1. (N + b) * FirstTerms(N, b, n) = N * FirstTerms(N, b, n + 1) + rest
  BY DEF FirstTerms
<1>2. rest \in Nat
  <2> DEFINE three == n * (n - 1) * (n - 2)
  <2>1. three \in Nat
    BY FallingNat
  <2>2. b * b * b * b \in Nat
    BY TimesNat
  <2> HIDE DEF three
  <2>3. three * (b * b * b * b) \in Nat
    BY <2>1, <2>2, TimesNat
  <2>4. QED
    BY <2>3 DEF three
<1>3. N * FirstTerms(N, b, n + 1) \in Nat
  BY n + 1 \in Nat, TermsNat, TimesNat
<1> DEFINE l == N * FirstTerms(N, b, n + 1)
           h == (N + b) * FirstTerms(N, b, n)
<1> HIDE DEF l, h, rest
<1>4. l <= h
  BY <1>1, <1>2, <1>3 DEF l, h
<1>5. QED
  BY <1>4 DEF l, h

LEMMA TermsBelowPower ==
    ASSUME NEW N \in Nat, NEW b \in Nat, NEW n \in Nat, NEW p, NEW q,
           PowersTo(N + b, n, p), PowersTo(N, n, q)
    PROVE  FirstTerms(N, b, n) * q[n] <= (6 * (N * N * N)) * p[n]
<1> DEFINE x == N + b
           w == 6 * (N * N * N)
           S == {m \in Nat : m <= n => FirstTerms(N, b, m) * q[m] <= w * p[m]}
<1>1. x \in Nat /\ w \in Nat
  <2>1. N * N * N \in Nat
    BY TimesNat
  <2> DEFINE N3 == N * N * N
  <2> HIDE DEF N3
  <2>2. 6 * N3 \in Nat
    BY <2>1 DEF N3
  <2>3. QED
    BY <2>2 DEF N3
<1>2. /\ p \in [0..n -> Nat] /\ p[0] = 1 /\ q \in [0..n -> Nat] /\ q[0] = 1
      /\ \A k \in 0..(n - 1) : p[k + 1] = x * p[k] /\ q[k + 1] = N * q[k]
  BY DEF PowersTo
<1> HIDE DEF x
<1>3. 0 \in S
  <2>1. FirstTerms(N, b, 0) = w
    BY DEF FirstTerms
  <2> HIDE DEF w
  <2>2. w * 1 <= w * 1
    BY <1>1
  <2>3. QED
    BY <1>2, <2>1, <2>2
<1>4. ASSUME NEW m \in S PROVE m + 1 \in S
  <2>1. m \in Nat /\ m + 1 \in Nat
    OBVIOUS
  <2>2. ASSUME m + 1 <= n PROVE FirstTerms(N, b, m + 1) * q[m + 1] <= w * p[m + 1]
    <3> DEFINE t == FirstTerms(N, b, m)
               u == FirstTerms(N, b, m + 1)
               pm == p[m]
               qm == q[m]
    <3>1. t \in Nat /\ u \in Nat /\ N * u <= x * t
      BY <2>1, TermsNat, TermsStep DEF x
    <3>2. m \in 0..n /\ m \in 0..(n - 1) /\ m <= n
      BY <2>1, <2>2
    <3>3. pm \in Nat /\ qm \in Nat /\ p[m + 1] = x * pm /\ q[m + 1] = N * qm
      BY <1>2, <3>2
    <3>4. t * qm <= w * pm
      BY <3>2
    <3> HIDE DEF t, u, pm, qm, w
    <3>5. /\ N * u \in Nat /\ x * t \in Nat /\ t * qm \in Nat /\ w * pm \in Nat
      BY <1>1, <3>1, <3>3, TimesNat
    <3>6. (N * u) * qm <= (x * t) * qm /\ (t * qm) * x <= (w * pm) * x
      BY <1>1, <3>1, <3>3, <3>4, <3>5, TimesBoth
    <3>7. /\ (N * u) * qm = u * (N * qm) /\ (x * t) * qm = (t * qm) * x
          /\ (w * pm) * x = w * (x * pm)
      BY <1>1, <3>1, <3>3
    <3>8. (N * u) * qm \in Nat /\ (x * t) * qm \in Nat /\ (w * pm) * x \in Nat
      BY <1>1, <3>3, <3>5, TimesNat
    <3>9. u * (N * qm) <= w * (x * pm)
      BY <3>6, <3>7, <3>8
    <3>10. QED
      BY <3>3, <3>9 DEF u
  <2>3. QED
    BY <2>1, <2>2
<1>5. n \in S
  <2> HIDE DEF S
  <2>1. S \in SUBSET Nat
    BY DEF S
  <2>2. QED
    BY <1>3, <1>4, <2>1, EveryNumber
<1>6. n <= n
  OBVIOUS
<1>7. QED
  BY <1>5, <1>6

\* The series the code sums up comes to no more than those terms.
LEMMA SeriesBelowTerms ==
    ASSUME NEW N \in Nat, NEW b \in Nat, NEW s \in Nat, NEW c \in Nat, NEW n \in Nat,
           s * N <= b * b, c * N <= s * b,
           NEW i, i = N + b * n + (s * n * (n - 1)) \div 2 + (c * n * (n - 1) * (n - 2)) \div 6
    PROVE  i \in Nat /\ (6 * i) * (N * N) <= FirstTerms(N, b, n)
<1> DEFINE two == n * (n - 1)
           three == n * (n - 1) * (n - 2)
           bn == b * n
           st == s * two
           ct == c * three
           NN == N * N
           bb == b * b
           bbb == bb * b
           sN == s * N
           cNN == (c * N) * N
<1>1. two \in Nat /\ three \in Nat
  BY FallingNat
<1>2. bn \in Nat /\ NN \in Nat /\ bb \in Nat /\ bbb \in Nat /\ sN \in Nat /\ cNN \in Nat
  BY TimesNat
<1>3. sN <= bb /\ cNN <= bbb
  <2>1. (c * N) * N <= (s * b) * N
    BY TimesBoth, TimesNat
  <2>2. (s * N) * b <= (b * b) * b
    BY TimesBoth, TimesNat
  <2>3. (s * N) * b = (s * b) * N
    OBVIOUS
  <2>4. (c * N) * N \in Nat /\ (s * b) * N \in Nat /\ (b * b) * b \in Nat
    BY TimesNat
  <2>5. QED
    BY <2>1, <2>2, <2>3, <2>4
<1>4. i = N + bn + st \div 2 + ct \div 6
  <2>1. s * n * (n - 1) = st /\ c * n * (n - 1) * (n - 2) = ct
    OBVIOUS
  <2> HIDE DEF st, ct
  <2>2. QED
    BY <2>1
<1>5. st \in Nat /\ ct \in Nat
  <2> HIDE DEF two, three
  <2>1. QED
    BY <1>1, TimesNat
<1> HIDE DEF two, three, bn, NN, bb, bbb, sN, cNN
<1>6. i \in Nat /\ 6 * i <= 6 * N + 6 * bn + 3 * st + ct
  <2> HIDE DEF st, ct
  <2>1. QED
    BY <1>2, <1>4, <1>5
<1>7. (6 * i) * NN <= (6 * N + 6 * bn + 3 * st + ct) * NN
  <2>1. 6 * i \in Nat /\ 6 * N + 6 * bn + 3 * st + ct \in Nat
    <3> HIDE DEF st, ct
    <3>1. QED
      BY <1>2, <1>5, <1>6
  <2> DEFINE h == 6 * N + 6 * bn + 3 * st + ct
  <2>2. 6 * i <= h
    BY <1>6
  <2> HIDE DEF h
  <2>3. (6 * i) * NN <= h * NN
    BY <1>2, <2>1, <2>2, TimesBoth DEF h
  <2>4. QED
    BY <2>3 DEF h
<1>8. (6 * N + 6 * bn + 3 * st + ct) * NN
          = 6 * (N * NN) + 6 * (bn * NN) + 3 * (two * (sN * N)) + three * cNN
  <2>1. sN * N = s * NN /\ cNN = c * NN
    BY DEF sN, NN, cNN
  <2>2. (6 * N + 6 * bn + 3 * st + ct) * NN
          = 6 * (N * NN) + 6 * (bn * NN) + 3 * (two * (s * NN)) + three * (c * NN)
    BY <1>1, <1>2
  <2>3. QED
    BY <2>1, <2>2
<1>9. sN * N <= bb * N /\ two * (sN * N) <= two * (bb * N) /\ three * cNN <= three * bbb
  <2>1. sN * N <= bb * N /\ sN * N \in Nat /\ bb * N \in Nat
    BY <1>2, <1>3, TimesBoth, TimesNat
  <2>2. QED
    BY <1>1, <1>2, <1>3, <2>1, TimesMono
<1>10. FirstTerms(N, b, n) = 6 * (N * NN) + 6 * (bn * NN) + 3 * (two * (bb * N)) + three * bbb
  BY DEF FirstTerms, NN, bn, two, three, bb, bbb
<1>11. /\ N * NN \in Nat /\ bn * NN \in Nat /\ two * (sN * N) \in Nat /\ two * (bb * N) \in Nat
       /\ three * cNN \in Nat /\ three * bbb \in Nat
  <2>1. sN * N \in Nat /\ bb * N \in Nat
    BY <1>2, TimesNat
  <2>2. QED
    BY <1>1, <1>2, <2>1, TimesNat
<1>12. (6 * i) * NN <= FirstTerms(N, b, n)
  <2> DEFINE a == (6 * i) * NN
             h == (6 * N + 6 * bn + 3 * st + ct) * NN
             f == FirstTerms(N, b, n)
             k1 == N * NN
             k2 == bn * NN
             k3 == two * (sN * N)
             k4 == two * (bb * N)
             k5 == three * cNN
             k6 == three * bbb
  <2>1. /\ a <= h /\ h = 6 * k1 + 6 * k2 + 3 * k3 + k5 /\ f = 6 * k1 + 6 * k2 + 3 * k4 + k6
        /\ k3 <= k4 /\ k5 <= k6
    BY <1>7, <1>8, <1>9, <1>10
  <2>2. k1 \in Nat /\ k2 \in Nat /\ k3 \in Nat /\ k4 \in Nat /\ k5 \in Nat /\ k6 \in Nat
    BY <1>11
  <2>3. a \in Nat
    <3>1. 6 * i \in Nat
      BY <1>6
    <3>2. QED
      BY <1>2, <3>1, TimesNat
  <2> HIDE DEF a, h, f, k1, k2, k3, k4, k5, k6
  <2>4. a <= f
    BY <2>1, <2>2, <2>3
  <2>5. QED
    BY <2>4 DEF a, f
<1>13. QED
  BY <1>6, <1>12 DEF NN

\* The first powers, multiplied out.
LEMMA PowersMultiplied ==
    ASSUME NEW x \in Nat, NEW n \in 1..4, NEW p, PowersTo(x, n, p)
    PROVE  /\ n = 1 => p[n] = x
           /\ n = 2 => p[n] = x * x
           /\ n = 3 => p[n] = x * x * x
           /\ n = 4 => p[n] = x * x * x * x
<1>1. p[0] = 1 /\ \A k \in 0..(n - 1) : p[k + 1] = x * p[k]
  BY DEF PowersTo
<1>2. p[1] = x
  <2>1. 0 \in 0..(n - 1)
    OBVIOUS
  <2>2. p[0 + 1] = x * p[0]
    BY <1>1, <2>1
  <2>3. QED
    BY <1>1, <2>2
<1>3. n >= 2 => p[2] = x * x
  BY <1>1, <1>2, n >= 2 => 1 \in 0..(n - 1) /\ 1 + 1 = 2
<1>4. n >= 3 => p[3] = x * x * x
  <2> SUFFICES ASSUME n >= 3 PROVE p[3] = x * x * x
    OBVIOUS
  <2>1. p[2 + 1] = x * p[2]
    BY <1>1
  <2>2. QED
    BY <1>3, <2>1
<1>5. n >= 4 => p[4] = x * x * x * x
  <2> SUFFICES ASSUME n >= 4 PROVE p[4] = x * x * x * x
    OBVIOUS
  <2>1. p[3 + 1] = x * p[3]
    BY <1>1
  <2>2. QED
    BY <1>4, <2>1
<1>6. QED
  BY <1>2, <1>3, <1>4, <1>5

\* However many slots a debt waits for a refresh, it is never charged more than the exact
\* power (1 + rate)^n: interest / ONE <= (x / ONE)^n.
THEOREM CompoundingBelowEveryPower ==
    ASSUME NEW rate \in Nat, NEW n \in Nat, NEW p, NEW q,
           PowersTo(ONE + rate \div SLOTS_PER_YEAR, n, p), PowersTo(ONE, n, q)
    PROVE  ApproximateCompoundedInterest(rate, n) * q[n] <= p[n] * ONE
<1> DEFINE b == rate \div SLOTS_PER_YEAR
           x == ONE + b
           N == ONE
           i == ApproximateCompoundedInterest(rate, n)
<1>1. b \in Nat /\ N \in Nat /\ N > 0 /\ x \in Nat
  BY DivNat, KlendMathAssumption
<1>2. i \in Nat
  BY CompoundingGrows, Zenon
<1>3. p[n] \in Nat /\ q[n] \in Nat /\ p[0] = 1 /\ q[0] = 1
  BY DEF PowersTo
<1>4. CASE n = 0
  <2>1. i = ONE
    BY <1>4, CompoundingCases, Zenon
  <2>2. ONE * 1 <= 1 * ONE
    BY <1>1
  <2>3. QED
    BY <1>3, <1>4, <2>1, <2>2
<1>5. CASE n \in 1..4
  <2>1. /\ n = 1 => i <= x
        /\ n = 2 => i * N <= x * x
        /\ n = 3 => i * (N * N) <= x * x * x
        /\ n = 4 => i * (N * N * N) <= x * x * x * x
    BY <1>5, n \in 1..6, CompoundingBelowPower
  <2>2. /\ n = 1 => p[n] = x /\ q[n] = N
        /\ n = 2 => p[n] = x * x /\ q[n] = N * N
        /\ n = 3 => p[n] = x * x * x /\ q[n] = N * N * N
        /\ n = 4 => p[n] = x * x * x * x /\ q[n] = N * N * N * N
    BY <1>1, <1>5, PowersMultiplied
  <2> HIDE DEF i, x
  <2>3. /\ n = 1 => i * q[n] <= p[n] * N
        /\ n = 2 => i * q[n] <= p[n] * N
        /\ n = 3 => i * q[n] <= p[n] * N
        /\ n = 4 => i * q[n] <= p[n] * N
    <3>1. ASSUME NEW d \in Nat, NEW y \in Nat, i * d <= y, q[n] = d * N, p[n] = y
          PROVE  i * q[n] <= p[n] * N
      <4>1. i * d \in Nat
        BY <1>2, TimesNat
      <4>2. (i * d) * N <= y * N
        BY <1>1, <3>1, <4>1, TimesBoth
      <4>3. i * (d * N) = (i * d) * N
        BY <1>1, <1>2
      <4>4. QED
        BY <3>1, <4>2, <4>3
    <3>2. /\ 1 \in Nat /\ N * N \in Nat /\ N * N * N \in Nat
          /\ x * x \in Nat /\ x * x * x \in Nat /\ x * x * x * x \in Nat
      BY <1>1, TimesNat
    <3>3. i * 1 = i /\ 1 * N = N
      BY <1>1, <1>2
    <3>4. n = 1 => i * q[n] <= p[n] * N
      BY <1>1, <2>1, <2>2, <3>1, <3>2, <3>3
    <3>5. n = 2 => i * q[n] <= p[n] * N
      BY <1>1, <2>1, <2>2, <3>1, <3>2
    <3>6. n = 3 => i * q[n] <= p[n] * N
      BY <1>1, <2>1, <2>2, <3>1, <3>2
    <3>7. n = 4 => i * q[n] <= p[n] * N
      BY <1>1, <2>1, <2>2, <3>1, <3>2
    <3>8. QED
      BY <3>4, <3>5, <3>6, <3>7
  <2>4. QED
    BY <1>5, <2>3 DEF i
<1>6. CASE n >= 5
  <2> DEFINE s == Mul(b, b)
             c == Mul(s, b)
             f == FirstTerms(N, b, n)
             w == 6 * (N * N)
  <2>1. s \in Nat /\ s * N <= b * b
    BY <1>1, MulBelow
  <2>2. c \in Nat /\ c * N <= s * b
    BY <1>1, <2>1, MulBelow
  <2>3. i = N + b * n + (s * n * (n - 1)) \div 2 + (c * n * (n - 1) * (n - 2)) \div 6
    BY <1>6, CompoundingCases, Zenon
  <2> HIDE DEF i, b, s, c
  <2>0. PowersTo(N + b, n, p) /\ PowersTo(N, n, q)
    BY DEF b
  <2>4. (6 * i) * (N * N) <= f
    BY <1>1, <2>1, <2>2, <2>3, SeriesBelowTerms
  <2>5. f * q[n] <= (6 * (N * N * N)) * p[n]
    BY <1>1, <2>0, TermsBelowPower
  <2>6. f \in Nat
    BY <1>1, TermsNat
  <2>7. w \in Nat /\ w > 0
    <3> DEFINE NN == N * N
    <3>1. NN \in Nat /\ NN > 0
      BY <1>1
    <3> HIDE DEF NN
    <3>2. 6 * NN \in Nat /\ 6 * NN > 0
      BY <3>1
    <3>3. QED
      BY <3>2 DEF NN
  <2> DEFINE y == p[n]
             z == q[n]
  <2>8. /\ (6 * i) * (N * N) = i * w /\ (i * w) * z = (i * z) * w
        /\ (6 * (N * N * N)) * y = (y * N) * w
    BY <1>1, <1>2, <1>3
  <2> HIDE DEF f, w, y, z
  <2>9. y \in Nat /\ z \in Nat /\ i * w <= f /\ f * z <= (y * N) * w
    BY <1>3, <2>4, <2>5, <2>8 DEF y, z
  <2>10. i * w \in Nat /\ i * z \in Nat /\ y * N \in Nat
    BY <1>1, <1>2, <2>7, <2>9, TimesNat
  <2>11. (i * w) * z <= f * z /\ (i * w) * z \in Nat /\ f * z \in Nat /\ (y * N) * w \in Nat
    BY <2>6, <2>7, <2>9, <2>10, TimesBoth, TimesNat
  <2>12. (i * z) * w <= (y * N) * w
    BY <2>8, <2>9, <2>11
  <2>13. i * z <= y * N
    BY <2>7, <2>10, <2>12, TimesCancel
  <2>14. QED
    BY <2>13 DEF i, y, z
<1>7. n = 0 \/ n \in 1..4 \/ n >= 5
  OBVIOUS
<1>8. QED
  BY <1>4, <1>5, <1>6, <1>7

-----------------------------------------------------------------------------
(* What rounding adds to a difference *)

\* A debt brought from one cumulative rate to a later one, by way of the rate it was
\* last written at: each of the two quotients loses less than one bit.
LEMMA DebtFollowsRate ==
    ASSUME NEW b \in Nat, NEW w \in Nat, NEW c \in Nat, NEW d \in Nat, w > 0
    PROVE  LET before == (b * c) \div w
               after == (b * d) \div w
           IN  /\ before \in Nat /\ after \in Nat
               /\ c * after <= d * (before + 1)
               /\ d * before <= c * (after + 1)
<1> DEFINE s == b * c
           t == b * d
           x == s \div w
           y == t \div w
<1>1. s \in Nat /\ t \in Nat /\ s * d = t * c
  BY TimesNat
<1> HIDE DEF s, t
<1>2. /\ x \in Nat /\ x * w <= s /\ s <= (x + 1) * w
      /\ y \in Nat /\ y * w <= t /\ t <= (y + 1) * w
  BY <1>1, DivSplit, DivNat
<1> HIDE DEF x, y
<1>3. c * y <= d * (x + 1)
  <2>1. /\ (y * w) * c <= t * c /\ s * d <= ((x + 1) * w) * d
        /\ (y * w) * c \in Nat /\ t * c \in Nat /\ ((x + 1) * w) * d \in Nat
    BY <1>1, <1>2, TimesBoth, TimesNat
  <2>2. (y * w) * c = (c * y) * w /\ ((x + 1) * w) * d = (d * (x + 1)) * w
    BY <1>2
  <2>3. c * y \in Nat /\ d * (x + 1) \in Nat
    BY <1>2, TimesNat
  <2>4. (c * y) * w <= (d * (x + 1)) * w
    BY <1>1, <2>1, <2>2
  <2>5. QED
    BY <2>3, <2>4, TimesCancel
<1>4. d * x <= c * (y + 1)
  <2>1. /\ (x * w) * d <= s * d /\ t * c <= ((y + 1) * w) * c
        /\ (x * w) * d \in Nat /\ s * d \in Nat /\ ((y + 1) * w) * c \in Nat
    BY <1>1, <1>2, TimesBoth, TimesNat
  <2>2. (x * w) * d = (d * x) * w /\ ((y + 1) * w) * c = (c * (y + 1)) * w
    BY <1>2
  <2>3. d * x \in Nat /\ c * (y + 1) \in Nat
    BY <1>2, TimesNat
  <2>4. (d * x) * w <= (c * (y + 1)) * w
    BY <1>1, <2>1, <2>2
  <2>5. QED
    BY <2>3, <2>4, TimesCancel
<1>5. x \in Nat /\ y \in Nat
  BY <1>2
<1>6. QED
  BY <1>3, <1>4, <1>5, Zenon DEF x, y, s, t

\* A product of Fractions, between what it rounds down from.
LEMMA MulBetween ==
    ASSUME NEW f \in Nat, NEW g \in Nat
    PROVE  /\ Mul(f, g) \in Nat
           /\ Mul(f, g) * ONE <= f * g /\ f * g < (Mul(f, g) + 1) * ONE
<1> DEFINE s == f * g
           x == s \div ONE
<1>1. s \in Nat /\ ONE \in Nat /\ ONE > 0
  BY TimesNat, KlendMathAssumption
<1> HIDE DEF s
<1>2. x \in Nat /\ x * ONE <= s /\ s < (x + 1) * ONE
  BY <1>1, DivSplit, DivNat
<1>3. Mul(f, g) = x
  BY DEF Mul, s
<1> HIDE DEF x
<1>4. QED
  BY <1>2, <1>3 DEF s

\* What a difference of two debts grows to.
LEMMA DifferenceGrows ==
    ASSUME NEW x \in Int, NEW K \in Nat, NEW C \in Nat, NEW rate \in Nat, NEW C1 \in Nat,
           x * ONE <= K * C, C * rate <= (C1 + 1) * ONE
    PROVE  x * rate <= K * (C1 + 1)
<1>0. ONE \in Nat /\ ONE > 0
  BY KlendMathAssumption
<1>1. CASE x <= 0
  <2>1. x * rate <= 0 * rate /\ x * rate \in Int
    BY <1>1, TimesIntBoth
  <2>2. K * (C1 + 1) \in Nat
    BY TimesNat
  <2>3. QED
    BY <2>1, <2>2
<1>2. CASE ~ (x <= 0)
  <2>1. x \in Nat
    BY <1>2
  <2>2. x * ONE \in Nat /\ K * C \in Nat /\ C * rate \in Nat /\ (C1 + 1) * ONE \in Nat
    BY <1>0, <2>1, TimesNat
  <2>3. /\ (x * ONE) * rate <= (K * C) * rate /\ K * (C * rate) <= K * ((C1 + 1) * ONE)
        /\ (x * ONE) * rate \in Nat /\ (K * C) * rate \in Nat /\ K * ((C1 + 1) * ONE) \in Nat
    BY <2>2, TimesBoth, TimesMono, TimesNat
  <2>4. /\ (x * ONE) * rate = (x * rate) * ONE /\ (K * C) * rate = K * (C * rate)
        /\ K * ((C1 + 1) * ONE) = (K * (C1 + 1)) * ONE
    BY <1>0
  <2>5. (x * rate) * ONE <= (K * (C1 + 1)) * ONE
    BY <2>3, <2>4
  <2>6. x * rate \in Nat /\ K * (C1 + 1) \in Nat
    BY <2>1, TimesNat
  <2>7. QED
    BY <1>0, <2>5, <2>6, TimesCancel
<1>3. QED
  BY <1>1, <1>2

\* One accrual.  The debts A of M slots, none above D units in all, follow the cumulative
\* rate C; the reserve's own total R is multiplied by the growth of that rate.  Both round:
\* what they differ by, measured in C, grows by no more than a number of bits that depends
\* on neither the rate nor the time.
Accrual(A, A1, R, C, M) ==
    /\ A \in Nat /\ A1 \in Nat /\ R \in Nat /\ C \in Nat /\ C >= ONE /\ M \in Nat
LEMMA DriftOfAccrual ==
    ASSUME NEW A, NEW A1, NEW R, NEW C, NEW M, Accrual(A, A1, R, C, M),
           NEW rate \in Nat, rate >= ONE, NEW K \in Nat, NEW D \in Nat,
           C * A1 <= Mul(C, rate) * (A + M), Mul(C, rate) * A <= C * (A1 + M),
           A <= D * ONE, (A - R) * ONE <= K * C, (R - A) * ONE <= K * C,
           K + M <= (M + D + 2) * ONE
    PROVE  /\ (A1 - Mul(R, rate)) * ONE <= (K + 2 * (M + D + 2)) * Mul(C, rate)
           /\ (Mul(R, rate) - A1) * ONE <= (K + 2 * (M + D + 2)) * Mul(C, rate)
<1> DEFINE C1 == Mul(C, rate)
           R1 == Mul(R, rate)
           E == M + D + 2
<1>0. /\ ONE \in Nat /\ ONE > 0 /\ A \in Nat /\ A1 \in Nat /\ R \in Nat
      /\ C \in Nat /\ C >= ONE /\ C > 0 /\ M \in Nat /\ E \in Nat
  BY KlendMathAssumption DEF Accrual
<1>1. /\ C1 \in Nat /\ C1 * ONE <= C * rate /\ C * rate <= (C1 + 1) * ONE
      /\ R1 \in Nat /\ R1 * ONE <= R * rate /\ R * rate <= (R1 + 1) * ONE
  <2>1. /\ C1 \in Nat /\ C1 * ONE <= C * rate /\ C * rate < (C1 + 1) * ONE
        /\ R1 \in Nat /\ R1 * ONE <= R * rate /\ R * rate < (R1 + 1) * ONE
    BY <1>0, MulBetween
  <2> HIDE DEF C1, R1
  <2>2. /\ C * rate \in Nat /\ (C1 + 1) * ONE \in Nat
        /\ R * rate \in Nat /\ (R1 + 1) * ONE \in Nat
    BY <1>0, <2>1, TimesNat
  <2>3. QED
    BY <2>1, <2>2
<1>2. C1 >= ONE
  BY <1>0, MulGrows
<1>3. C * A1 <= C1 * (A + M) /\ C1 * A <= C * (A1 + M) /\ K + M <= E * ONE
  OBVIOUS
<1> HIDE DEF C1, R1, E
<1>4. A1 * ONE <= (A + M) * rate
  <2>1. /\ (C * A1) * ONE <= (C1 * (A + M)) * ONE
        /\ (C1 * ONE) * (A + M) <= (C * rate) * (A + M)
        /\ (C * A1) * ONE \in Nat /\ (C1 * (A + M)) * ONE \in Nat /\ (C * rate) * (A + M) \in Nat
    BY <1>0, <1>1, <1>3, TimesBoth, TimesNat
  <2>2. /\ (C * A1) * ONE = (A1 * ONE) * C /\ (C1 * (A + M)) * ONE = (C1 * ONE) * (A + M)
        /\ (C * rate) * (A + M) = ((A + M) * rate) * C
    BY <1>0, <1>1
  <2>3. A1 * ONE \in Nat /\ (A + M) * rate \in Nat
    BY <1>0, TimesNat
  <2>4. (A1 * ONE) * C <= ((A + M) * rate) * C
    BY <2>1, <2>2
  <2>5. QED
    BY <1>0, <2>3, <2>4, TimesCancel
<1>5. rate <= C1 + 1
  <2>1. rate * ONE <= rate * C /\ rate * ONE \in Nat /\ rate * C \in Nat /\ (C1 + 1) * ONE \in Nat
    BY <1>0, <1>1, TimesMono, TimesNat
  <2>2. rate * ONE <= (C1 + 1) * ONE
    BY <1>0, <1>1, <2>1
  <2>3. QED
    BY <1>0, <1>1, <2>2, TimesCancel
<1>6. /\ (A - R) * rate <= K * (C1 + 1) /\ (R - A) * rate <= K * (C1 + 1)
  BY <1>0, <1>1, DifferenceGrows
<1>7. A * rate <= ((A1 + M) + D) * ONE
  <2>1. /\ (C * rate) * A <= ((C1 + 1) * ONE) * A
        /\ (C1 * A) * ONE <= (C * (A1 + M)) * ONE
        /\ A * ONE <= (D * ONE) * ONE /\ ONE * (D * ONE) <= C * (D * ONE)
    BY <1>0, <1>1, <1>3, TimesBoth, TimesNat
  <2>2. /\ (C * rate) * A \in Nat /\ (C1 * A) * ONE \in Nat /\ (C * (A1 + M)) * ONE \in Nat
        /\ A * ONE \in Nat /\ C * (D * ONE) \in Nat /\ ONE * (D * ONE) \in Nat
    BY <1>0, <1>1, TimesNat
  <2>3. /\ (C * rate) * A = (A * rate) * C
        /\ ((C1 + 1) * ONE) * A = (C1 * A) * ONE + A * ONE
        /\ (D * ONE) * ONE = ONE * (D * ONE)
    BY <1>0, <1>1
  <2>4. (C * (A1 + M)) * ONE + C * (D * ONE) = (((A1 + M) + D) * ONE) * C
    <3> DEFINE u == A1 + M
    <3>1. u \in Nat
      BY <1>0
    <3> HIDE DEF u
    <3>2. (C * u) * ONE + C * (D * ONE) = ((u + D) * ONE) * C
      BY <1>0, <3>1
    <3>3. QED
      BY <3>2 DEF u
  <2>5. (A * rate) * C <= (((A1 + M) + D) * ONE) * C
    BY <2>1, <2>2, <2>3, <2>4
  <2>6. A * rate \in Nat /\ ((A1 + M) + D) * ONE \in Nat
    BY <1>0, TimesNat
  <2>7. QED
    BY <1>0, <2>5, <2>6, TimesCancel
<1>8. /\ E * ONE <= E * C1 /\ K * (C1 + 1) = K * C1 + K /\ M * rate <= M * (C1 + 1)
      /\ M * (C1 + 1) = M * C1 + M /\ (M + D) * ONE <= (M + D) * C1
  BY <1>0, <1>1, <1>2, <1>5, TimesMono
<1>9. /\ K * C1 \in Nat /\ M * C1 \in Nat /\ D * C1 \in Nat /\ E * C1 \in Nat /\ E * ONE \in Nat
      /\ M * rate \in Nat /\ A * rate \in Nat /\ R * rate \in Nat
      /\ A1 * ONE \in Nat /\ R1 * ONE \in Nat
  BY <1>0, <1>1, TimesNat
<1>10. E * C1 = M * C1 + D * C1 + 2 * C1 /\ (K + 2 * E) * C1 = K * C1 + 2 * (E * C1)
  BY <1>0, <1>1 DEF E
<1>11. (A1 - R1) * ONE <= (K + 2 * E) * C1
  <2>1. /\ (A + M) * rate = A * rate + M * rate /\ (R1 + 1) * ONE = R1 * ONE + ONE
        /\ (A - R) * rate = A * rate - R * rate /\ (A1 - R1) * ONE = A1 * ONE - R1 * ONE
    BY <1>0, <1>1
  <2>2. A1 * ONE - R1 * ONE <= ((K * C1 + K) + (M * C1 + M)) + ONE
    BY <1>0, <1>1, <1>4, <1>6, <1>8, <1>9, <2>1
  <2>3. QED
    BY <1>0, <1>1, <1>2, <1>3, <1>8, <1>9, <1>10, <2>1, <2>2
<1>12. (R1 - A1) * ONE <= (K + 2 * E) * C1
  <2>1. /\ ((A1 + M) + D) * ONE = A1 * ONE + (M + D) * ONE
        /\ (R - A) * rate = R * rate - A * rate /\ (R1 - A1) * ONE = R1 * ONE - A1 * ONE
        /\ (M + D) * C1 = M * C1 + D * C1 /\ (M + D) * ONE \in Nat
    BY <1>0, <1>1
  <2>2. R1 * ONE - A1 * ONE <= (K * C1 + K) + (M * C1 + D * C1)
    BY <1>0, <1>1, <1>6, <1>7, <1>8, <1>9, <2>1
  <2>3. QED
    BY <1>0, <1>1, <1>2, <1>3, <1>8, <1>9, <1>10, <2>1, <2>2
<1>13. QED
  BY <1>11, <1>12 DEF C1, R1, E

-----------------------------------------------------------------------------
\* How the variable interest is shared: the take of the protocol, of which the part of the
\* referrers is taken, is no more than all of it.
LEMMA InterestShared ==
    ASSUME NEW g \in Nat, NEW take \in Nat, take <= ONE, NEW f \in Nat, f <= ONE
    PROVE  /\ Mul(g, take) \in Nat /\ Mul(g, Mul(take, f)) \in Nat
           /\ Mul(g, Mul(take, f)) <= Mul(g, take) /\ Mul(g, take) <= g
<1>1. Mul(take, f) \in Nat /\ Mul(take, f) <= take
  BY MulShrinks
<1>2. Mul(g, take) \in Nat /\ Mul(g, take) <= g
  BY MulShrinks
<1> DEFINE s == Mul(take, f)
<1> HIDE DEF s
<1>3. s \in Nat /\ s <= take /\ g <= g
  BY <1>1 DEF s
<1>4. Mul(g, s) \in Nat /\ Mul(g, s) <= Mul(g, take)
  BY <1>3, MulMonoBoth
<1>5. QED
  BY <1>2, <1>4 DEF s

-----------------------------------------------------------------------------
(* The borrow rate curve *)

\* Basis points of a use of at most one are at most 10000.
LEMMA BpsOfUse ==
    ASSUME NEW u \in Nat, u <= ONE
    PROVE  ToBps(u) \in Nat /\ ToBps(u) <= FULL_BPS
<1>1. u * FULL_BPS \in Nat /\ u * FULL_BPS <= ONE * FULL_BPS
  BY KlendMathAssumption DEF FULL_BPS
<1>2. ToBps(u) \in Nat
  BY <1>1, RoundNat DEF ToBps
<1> DEFINE w == 2 * (u * FULL_BPS) + ONE
<1>3. ToBps(u) * (2 * ONE) <= w
  BY <1>1, DivBelow, KlendMathAssumption DEF ToBps, ToRound
<1>4. w < (FULL_BPS + 1) * (2 * ONE)
  BY <1>1, KlendMathAssumption DEF FULL_BPS
<1> HIDE DEF w
<1>5. ToBps(u) < FULL_BPS + 1
  <2> DEFINE b == ToBps(u)
             d == 2 * ONE
  <2>1. d \in Nat /\ d > 0 /\ b \in Nat /\ b * d < (FULL_BPS + 1) * d
    BY <1>1, <1>2, <1>3, <1>4, KlendMathAssumption DEF w, FULL_BPS
  <2> HIDE DEF b, d
  <2>2. b < FULL_BPS + 1
    BY <2>1 DEF FULL_BPS
  <2>3. QED
    BY <2>2 DEF b
<1> DEFINE b == ToBps(u)
<1>6. b \in Nat /\ b < FULL_BPS + 1
  BY <1>2, <1>5
<1> HIDE DEF b
<1>7. b \in Nat /\ b <= FULL_BPS
  BY <1>6 DEF FULL_BPS
<1>8. QED
  BY <1>7, Zenon DEF b

\* One of the ten segments of a valid curve holds any use, so that there is a first.
LEMMA SegmentExists ==
    ASSUME NEW points, CurveValid(points), NEW bps \in Nat, bps <= FULL_BPS
    PROVE  \E i \in 1..10 : points[i].utilization <= bps /\ bps <= points[i + 1].utilization
<1>1. \A i \in 1..11 : points[i].utilization \in Nat
  BY DEF CurveValid, CurvePoint
<1>2. points[1].utilization = 0 /\ points[11].utilization = FULL_BPS
  BY DEF CurveValid
<1> DEFINE u(i) == points[i].utilization
<1> SUFFICES ASSUME \A i \in 1..10 : ~ (u(i) <= bps /\ bps <= u(i + 1))
    PROVE  FALSE
  OBVIOUS
<1>3. \A i \in 1..10 : u(i) <= bps => u(i + 1) <= bps
  BY <1>1
<1>4. u(1) <= bps
  BY <1>2
<1> HIDE DEF u
<1>5. u(2) <= bps /\ u(3) <= bps /\ u(4) <= bps /\ u(5) <= bps /\ u(6) <= bps
  BY <1>3, <1>4
<1>6. u(7) <= bps /\ u(8) <= bps /\ u(9) <= bps /\ u(10) <= bps
  BY <1>3, <1>5
<1>7. bps <= u(11)
  BY <1>2 DEF u
<1>8. QED
  BY <1>6, <1>7

LEMMA LeastExists ==
    ASSUME NEW S \in SUBSET Nat, S # {}
    PROVE  \E x \in S : \A y \in S : x <= y
<1> DEFINE R == {ss \in Nat \X Nat : ss[1] < ss[2]}
<1>1. IsWellFoundedOn(R, Nat)
  BY NatLessThanWellFounded DEF OpToRel
<1> HIDE DEF R
<1>2. PICK x \in S : \A y \in S : ~ (<<y, x>> \in R)
  BY <1>1, WFMin, Zenon
<1>3. ASSUME NEW y \in S PROVE x <= y
  <2>1. x \in Nat /\ y \in Nat
    OBVIOUS
  <2>2. <<y, x>> \in R <=> y < x
    BY <2>1 DEF R
  <2>3. QED
    BY <1>2, <2>1, <2>2
<1>4. QED
  BY <1>3, Zenon

\* Inside a segment the line starts at the rate of its first point and does not fall.
LEMMA SegmentRateNat ==
    ASSUME NEW first \in CurvePoint, NEW end \in CurvePoint, NEW u \in Nat, u <= ONE,
           first.utilization < ToBps(u), ToBps(u) < end.utilization, first.rate <= end.rate
    PROVE  SegmentRate(first, end, u) \in Nat
<1> DEFINE a == first.utilization
           b == end.utilization
           x == ToBps(u)
           rise == end.rate - first.rate
           past == u - FromBps(a)
<1>1. a \in Nat /\ b \in Nat /\ rise \in Nat /\ first.rate \in Nat /\ x \in Nat
  <2>1. x \in Nat
    BY BpsOfUse, Zenon
  <2>2. a \in Nat /\ b \in Nat /\ rise \in Nat /\ first.rate \in Nat
    BY DEF CurvePoint
  <2>3. QED
    BY <2>1, <2>2, Zenon
<1>2. (2 * (u * FULL_BPS) + ONE) \in Nat /\ x * (2 * ONE) <= 2 * (u * FULL_BPS) + ONE
  <2> DEFINE w == 2 * (u * FULL_BPS) + ONE
             d == 2 * ONE
  <2>1. w \in Nat /\ d \in Nat /\ d > 0
    BY KlendMathAssumption DEF FULL_BPS
  <2>2. x = w \div d
    BY DEF ToBps, ToRound
  <2> HIDE DEF w, d, x
  <2>3. x * d <= w
    BY <2>1, <2>2, DivBelow
  <2>4. QED
    BY <2>1, <2>3 DEF w, d
<1>3. past \in Nat
  <2>1. (a + 1) * (2 * ONE) <= x * (2 * ONE)
    <3>1. a + 1 <= x /\ a + 1 \in Nat /\ 2 * ONE \in Nat
      BY <1>1, KlendMathAssumption
    <3> HIDE DEF a, x
    <3>2. (2 * ONE) * (a + 1) <= (2 * ONE) * x
      BY <1>1, <3>1, TimesMono, Zenon
    <3>3. QED
      BY <1>1, <3>2, KlendMathAssumption
  <2> HIDE DEF a, x
  <2>2. a * ONE \in Nat /\ a * ONE <= u * 10000
    <3>1. a * ONE \in Nat
      BY <1>1, TimesNat, KlendMathAssumption
    <3>2. (a + 1) * (2 * ONE) = 2 * (a * ONE) + 2 * ONE
      BY <1>1, KlendMathAssumption
    <3>3. x * (2 * ONE) \in Nat
      BY <1>1, TimesNat, KlendMathAssumption
    <3>4. QED
      BY <1>1, <1>2, <2>1, <3>1, <3>2, <3>3, KlendMathAssumption DEF FULL_BPS
  <2> DEFINE q == (a * ONE) \div 10000
  <2>3. q \in Nat /\ q * 10000 <= a * ONE
    BY <2>2, DivNat, DivBelow
  <2> HIDE DEF q
  <2>4. q <= u
    BY <2>2, <2>3
  <2>5. QED
    BY <2>3, <2>4 DEF FromBps, FULL_BPS, q
<1> HIDE DEF rise, past
<1>4. past * rise \in Nat /\ b - a \in Nat /\ b - a > 0
  BY <1>1, <1>3, TimesNat
<1>5. (past * rise) \div (b - a) \in Nat
  BY <1>4, DivNat
<1>6. FromBps(first.rate) \in Nat
  BY <1>1, BpsNat
<1>7. SegmentRate(first, end, u) = (past * rise) \div (b - a) + FromBps(first.rate)
  BY Zenon DEF SegmentRate, past, rise
<1> HIDE DEF a, b, x
<1>8. QED
  BY <1>5, <1>6, <1>7

\* Where the search ends: in the first segment that holds the use, in basis points, with
\* the rate of one of its points or of the line between them.
Holds(points, bps, i) ==
    points[i].utilization <= bps /\ bps <= points[i + 1].utilization
RateIn(points, utilization, i) ==
    LET capped == Least(utilization, ONE)
        bps == ToBps(capped)
        rate == GetBorrowRate(points, utilization)
    IN  /\ Holds(points, bps, i)
        /\ \A k \in 1..(i - 1) : ~ Holds(points, bps, k)
        /\ \/ bps = points[i].utilization /\ rate = FromBps(points[i].rate)
           \/ bps = points[i + 1].utilization /\ rate = FromBps(points[i + 1].rate)
              /\ points[i].utilization < bps
           \/ /\ points[i].utilization < bps /\ bps < points[i + 1].utilization
              /\ rate = SegmentRate(points[i], points[i + 1], capped)

\* The points of a valid curve, in order.
LEMMA PointsInOrder ==
    ASSUME NEW points, CurveValid(points)
    PROVE  \A k \in 1..10 :
              /\ points[k] \in CurvePoint /\ points[k + 1] \in CurvePoint
              /\ points[k].rate \in Nat /\ points[k + 1].rate \in Nat
              /\ points[k].utilization \in Nat /\ points[k + 1].utilization \in Nat
              /\ points[k].rate <= points[k + 1].rate
              /\ points[k].utilization <= points[k + 1].utilization
<1> TAKE k \in 1..10
<1>1. k + 1 \in 2..11 /\ k + 1 \in 1..11 /\ k \in 1..11 /\ (k + 1) - 1 = k
  OBVIOUS
<1>2. points[k] \in CurvePoint /\ points[k + 1] \in CurvePoint
  BY <1>1 DEF CurveValid
<1>3. /\ points[k].rate \in Nat /\ points[k + 1].rate \in Nat
      /\ points[k].utilization \in Nat /\ points[k + 1].utilization \in Nat
  BY <1>2 DEF CurvePoint
<1>4. /\ IF points[k].utilization = FULL_BPS THEN points[k + 1].utilization = FULL_BPS
         ELSE points[k + 1].utilization > points[k].utilization
      /\ points[k + 1].rate >= points[k].rate
  BY <1>1 DEF CurveValid
<1>5. points[k].utilization <= points[k + 1].utilization
  BY <1>3, <1>4
<1>6. QED
  BY <1>2, <1>3, <1>4, <1>5

LEMMA RateFound ==
    ASSUME NEW points, CurveValid(points), NEW utilization \in Nat
    PROVE  \E i \in 1..10 : RateIn(points, utilization, i)
<1> DEFINE capped == Least(utilization, ONE)
           bps == ToBps(capped)
           holds(i) == points[i].utilization <= bps /\ bps <= points[i + 1].utilization
           first(j) == holds(j) /\ \A k \in 1..(j - 1) : ~holds(k)
           i == CHOOSE j \in 1..10 : first(j)
<1>1. capped \in Nat /\ capped <= ONE
  BY LeastNat, KlendMathAssumption
<1>2. bps \in Nat /\ bps <= FULL_BPS
  BY <1>1, BpsOfUse, Zenon
<1>3. \E j \in 1..10 : first(j)
  <2> DEFINE S == {j \in 1..10 : holds(j)}
  <2>1. S # {}
    <3> HIDE DEF bps
    <3>1. QED
      BY <1>2, SegmentExists
  <2>2. PICK j \in S : \A k \in S : j <= k
    <3>1. S \in SUBSET Nat
      OBVIOUS
    <3> HIDE DEF S
    <3>2. QED
      BY <2>1, <3>1, LeastExists, Zenon
  <2>3. \A k \in 1..(j - 1) : k \in 1..10 /\ k < j
    OBVIOUS
  <2> HIDE DEF holds
  <2>4. \A k \in 1..(j - 1) : ~holds(k)
    BY <2>2, <2>3
  <2>5. QED
    BY <2>4
<1>4. i \in 1..10 /\ holds(i) /\ \A k \in 1..(i - 1) : ~holds(k)
  <2> HIDE DEF holds
  <2>1. i \in 1..10 /\ first(i)
    BY <1>3, Zenon
  <2>2. QED
    BY <2>1, Zenon
<1>5. GetBorrowRate(points, utilization)
        = CASE bps = points[i].utilization -> FromBps(points[i].rate)
            [] bps # points[i].utilization /\ bps = points[i + 1].utilization
                                           -> FromBps(points[i + 1].rate)
            [] OTHER -> SegmentRate(points[i], points[i + 1], capped)
  BY Zenon DEF GetBorrowRate
<1> HIDE DEF i
<1>6. points[i].utilization \in Nat /\ points[i + 1].utilization \in Nat
  BY <1>4, PointsInOrder
<1> DEFINE rate == GetBorrowRate(points, utilization)
<1>7. \/ bps = points[i].utilization /\ rate = FromBps(points[i].rate)
      \/ bps = points[i + 1].utilization /\ rate = FromBps(points[i + 1].rate)
         /\ points[i].utilization # bps
      \/ /\ points[i].utilization # bps /\ bps # points[i + 1].utilization
         /\ rate = SegmentRate(points[i], points[i + 1], capped)
  BY <1>5, Zenon
<1>8. /\ points[i].utilization # bps => points[i].utilization < bps
      /\ points[i + 1].utilization # bps => bps < points[i + 1].utilization
  BY <1>2, <1>4, <1>6
<1>9. RateIn(points, utilization, i)
  BY <1>4, <1>7, <1>8, Zenon DEF RateIn, Holds
<1>10. QED
  BY <1>4, <1>9, Zenon

\* A valid curve gives a rate for any use, also for one above the whole: the search for
\* the segment never fails, no segment has length zero where its line is used, and the
\* rounding of the use to basis points never puts it before the segment's start.
THEOREM BorrowRateDefined ==
    ASSUME NEW points, CurveValid(points), NEW utilization \in Nat
    PROVE  GetBorrowRate(points, utilization) \in Nat
<1> DEFINE capped == Least(utilization, ONE)
           bps == ToBps(capped)
           rate == GetBorrowRate(points, utilization)
<1>1. capped \in Nat /\ capped <= ONE
  BY LeastNat, KlendMathAssumption
<1>2. PICK i \in 1..10 : RateIn(points, utilization, i)
  BY RateFound, Zenon
<1>3. /\ points[i] \in CurvePoint /\ points[i + 1] \in CurvePoint
      /\ points[i].rate \in Nat /\ points[i + 1].rate \in Nat
      /\ points[i].rate <= points[i + 1].rate
  BY PointsInOrder
<1>4. \/ rate = FromBps(points[i].rate)
      \/ rate = FromBps(points[i + 1].rate)
      \/ /\ points[i].utilization < bps /\ bps < points[i + 1].utilization
         /\ rate = SegmentRate(points[i], points[i + 1], capped)
  BY <1>2, Zenon DEF RateIn
<1> HIDE DEF capped, rate
<1>5. FromBps(points[i].rate) \in Nat /\ FromBps(points[i + 1].rate) \in Nat
  BY <1>3, BpsNat
<1>6. ASSUME points[i].utilization < bps, bps < points[i + 1].utilization
      PROVE  SegmentRate(points[i], points[i + 1], capped) \in Nat
  BY <1>1, <1>3, <1>6, SegmentRateNat
<1>7. rate \in Nat
  BY <1>4, <1>5, <1>6, Zenon
<1>8. QED
  BY <1>7 DEF rate

-----------------------------------------------------------------------------
(* The borrow rate and the use *)

\* The precision that a rate in basis points needs; 2^60 in the code.
Fine == ONE >= 2 * FULL_BPS

LEMMA WholeBps == FULL_BPS \in Nat /\ FULL_BPS > 0
BY DEF FULL_BPS

\* What a basis point is worth, and what its rounding loses.
LEMMA BpsBetween ==
    ASSUME NEW b \in Nat
    PROVE  /\ FromBps(b) \in Nat
           /\ FromBps(b) * FULL_BPS <= b * ONE
           /\ b * ONE < FromBps(b) * FULL_BPS + FULL_BPS
<1> DEFINE a == b * ONE
           F == FULL_BPS
           q == a \div F
<1>1. a \in Nat /\ F \in Nat /\ F > 0
  BY TimesNat, WholeBps, KlendMathAssumption
<1>2. FromBps(b) = q
  BY DEF FromBps
<1> HIDE DEF a, F
<1>3. q \in Nat /\ q * F <= a /\ a < q * F + F
  <2> DEFINE m == a % F
  <2>1. q \in Int /\ m \in 0..(F - 1) /\ a = F * q + m
    BY <1>1
  <2>2. q \in Nat
    BY <1>1, DivNat
  <2> HIDE DEF q, m
  <2>3. F * q = q * F /\ q * F \in Int
    BY <1>1, <2>2
  <2>4. QED
    BY <1>1, <2>1, <2>2, <2>3
<1>4. QED
  BY <1>2, <1>3 DEF a, F

LEMMA FromBpsMono ==
    ASSUME NEW a \in Nat, NEW b \in Nat, a <= b
    PROVE  FromBps(a) <= FromBps(b)
<1>1. a * ONE \in Nat /\ b * ONE \in Nat /\ a * ONE <= b * ONE
  BY TimesNat, TimesBoth, KlendMathAssumption
<1>2. QED
  BY <1>1, DivMono, WholeBps DEF FromBps

\* A use rounded to basis points is within half of one.
LEMMA UseInBps ==
    ASSUME NEW u \in Nat
    PROVE  /\ ToBps(u) \in Nat
           /\ ToBps(u) * (2 * ONE) <= 2 * (u * FULL_BPS) + ONE
           /\ 2 * (u * FULL_BPS) + ONE < ToBps(u) * (2 * ONE) + 2 * ONE
<1> DEFINE v == u * FULL_BPS
           w == 2 * v + ONE
           d == 2 * ONE
           q == w \div d
<1>1. v \in Nat
  BY TimesNat, WholeBps
<1>2. ToBps(u) = q
  BY DEF ToBps, ToRound
<1> HIDE DEF v
<1>3. w \in Nat /\ d \in Nat /\ d > 0
  BY <1>1, KlendMathAssumption
<1> HIDE DEF w, d
<1>4. q \in Nat /\ q * d <= w /\ w < q * d + d
  <2> DEFINE m == w % d
  <2>1. q \in Int /\ m \in 0..(d - 1) /\ w = d * q + m
    BY <1>3
  <2>2. q \in Nat
    BY <1>3, DivNat
  <2> HIDE DEF q, m
  <2>3. d * q = q * d /\ q * d \in Int
    BY <1>3, <2>2
  <2>4. QED
    BY <1>3, <2>1, <2>2, <2>3
<1>5. QED
  BY <1>2, <1>4 DEF v, w, d

LEMMA UseInBpsMono ==
    ASSUME NEW u \in Nat, NEW v \in Nat, u <= v
    PROVE  ToBps(u) <= ToBps(v)
<1> DEFINE a == u * FULL_BPS
           b == v * FULL_BPS
<1>1. a \in Nat /\ b \in Nat /\ a <= b
  BY TimesNat, TimesBoth, WholeBps
<1>2. ToBps(u) = (2 * a + ONE) \div (2 * ONE) /\ ToBps(v) = (2 * b + ONE) \div (2 * ONE)
  BY DEF ToBps, ToRound
<1> HIDE DEF a, b
<1>3. /\ 2 * a + ONE \in Int /\ 2 * b + ONE \in Int /\ 2 * a + ONE <= 2 * b + ONE
      /\ 2 * ONE \in Nat /\ 2 * ONE > 0
  BY <1>1, KlendMathAssumption
<1>4. QED
  BY <1>2, <1>3, DivMono

\* Along its line a segment stays between the rates of its points: the use is rounded
\* down at the start by less than the half basis point it is short of the end.
LEMMA SegmentRateBetween ==
    ASSUME Fine, NEW first \in CurvePoint, NEW end \in CurvePoint, NEW u \in Nat, u <= ONE,
           first.utilization < ToBps(u), ToBps(u) < end.utilization, first.rate <= end.rate
    PROVE  /\ SegmentRate(first, end, u) \in Nat
           /\ FromBps(first.rate) <= SegmentRate(first, end, u)
           /\ SegmentRate(first, end, u) <= FromBps(end.rate)
           /\ FromBps(first.utilization) <= u
<1> DEFINE F == FULL_BPS
           a == first.utilization
           b == end.utilization
           x == ToBps(u)
           fa == FromBps(a)
           f == FromBps(first.rate)
           rise == end.rate - first.rate
           past == u - fa
           d == b - a
           s == (past * rise) \div d
<1>1. /\ a \in Nat /\ b \in Nat /\ rise \in Nat /\ first.rate \in Nat /\ end.rate \in Nat
      /\ first.rate + rise = end.rate
  BY DEF CurvePoint
<1>2. /\ x \in Nat /\ x * (2 * ONE) <= 2 * (u * F) + ONE
      /\ 2 * (u * F) + ONE < x * (2 * ONE) + 2 * ONE
  BY UseInBps
<1>3. /\ fa \in Nat /\ fa * F <= a * ONE /\ a * ONE < fa * F + F
      /\ f \in Nat /\ f * F <= first.rate * ONE
  BY <1>1, BpsBetween
<1>4. F \in Nat /\ F > 0 /\ ONE \in Nat /\ ONE > 0 /\ ONE >= 2 * F
  BY WholeBps, KlendMathAssumption DEF Fine
<1>5. SegmentRate(first, end, u) = s + f
  BY Zenon DEF SegmentRate, past, rise
<1>6. a + 1 <= x /\ x + 1 <= b
  BY <1>1, <1>2
<1> HIDE DEF F, a, b, x, fa, f, rise
<1>7. /\ a * ONE \in Nat /\ b * ONE \in Nat /\ x * ONE \in Nat /\ u * F \in Nat
      /\ fa * F \in Nat
      /\ (a + 1) * ONE <= x * ONE /\ (x + 1) * ONE <= b * ONE
  BY <1>1, <1>2, <1>3, <1>4, <1>6, TimesNat, TimesBoth
<1>8. /\ (a + 1) * ONE = a * ONE + ONE /\ (x + 1) * ONE = x * ONE + ONE
      /\ x * (2 * ONE) = 2 * (x * ONE)
  BY <1>1, <1>2, <1>4
<1> DEFINE aO == a * ONE
           bO == b * ONE
           xO == x * ONE
           uF == u * F
           faF == fa * F
<1> HIDE DEF aO, bO, xO, uF, faF
<1>9. /\ aO \in Nat /\ bO \in Nat /\ xO \in Nat /\ uF \in Nat /\ faF \in Nat
      /\ aO + ONE <= xO /\ xO + ONE <= bO
      /\ 2 * xO <= 2 * uF + ONE /\ 2 * uF + ONE < 2 * xO + 2 * ONE
      /\ faF <= aO /\ aO < faF + F
  BY <1>2, <1>3, <1>7, <1>8 DEF aO, bO, xO, uF, faF
<1>10. faF <= uF /\ uF - faF <= bO - aO
  BY <1>4, <1>9
<1>11. fa <= u
  BY <1>3, <1>4, <1>10, TimesCancel DEF faF, uF
<1>12. past \in Nat /\ past * F = uF - faF
  <2>1. past \in Nat
    BY <1>3, <1>11
  <2>2. (u - fa) * F = u * F - fa * F
    BY <1>3, <1>4
  <2>3. QED
    BY <2>1, <2>2 DEF uF, faF
<1>13. d \in Nat /\ d > 0 /\ d * ONE = bO - aO
  <2>1. d \in Nat /\ d > 0
    BY <1>1, <1>2, <1>6
  <2>2. (b - a) * ONE = b * ONE - a * ONE
    BY <1>1, <1>4
  <2>3. QED
    BY <2>1, <2>2 DEF aO, bO
<1> HIDE DEF past, d
<1>14. past * F <= d * ONE
  BY <1>10, <1>12, <1>13
<1>15. s \in Nat /\ s * d <= past * rise
  <2>1. past * rise \in Nat
    BY <1>1, <1>12, TimesNat
  <2>2. QED
    BY <1>13, <2>1, DivNat, DivBelow
<1> HIDE DEF s
<1>16. s * F <= rise * ONE
  <2>1. (s * d) * F <= (past * rise) * F
    BY <1>1, <1>4, <1>12, <1>13, <1>15, TimesNat, TimesBoth
  <2>2. (past * F) * rise <= (d * ONE) * rise
    BY <1>1, <1>4, <1>12, <1>13, <1>14, TimesNat, TimesBoth
  <2>3. /\ (s * d) * F = (s * F) * d /\ (past * rise) * F = (past * F) * rise
        /\ (d * ONE) * rise = (rise * ONE) * d
    BY <1>1, <1>4, <1>12, <1>13, <1>15
  <2>4. s * F \in Nat /\ rise * ONE \in Nat /\ past * F \in Nat
    BY <1>1, <1>4, <1>12, <1>15, TimesNat
  <2> DEFINE sF == s * F
             rO == rise * ONE
             pF == past * F
  <2>5. sF * d <= pF * rise /\ pF * rise <= rO * d
    BY <2>1, <2>2, <2>3
  <2>6. sF \in Nat /\ rO \in Nat /\ pF \in Nat
    BY <2>4
  <2> HIDE DEF sF, rO, pF
  <2>7. sF * d \in Nat /\ pF * rise \in Nat /\ rO * d \in Nat
    BY <1>1, <1>13, <2>6, TimesNat
  <2>8. sF * d <= rO * d
    BY <2>5, <2>7
  <2>9. sF <= rO
    BY <1>13, <2>6, <2>8, TimesCancel
  <2>10. QED
    BY <2>9 DEF sF, rO
<1>17. s + f <= FromBps(end.rate)
  <2>1. /\ (s + f) * F = s * F + f * F
        /\ (first.rate + rise) * ONE = first.rate * ONE + rise * ONE
    BY <1>1, <1>3, <1>4, <1>15
  <2>2. s * F \in Nat /\ f * F \in Nat /\ first.rate * ONE \in Nat /\ rise * ONE \in Nat
    BY <1>1, <1>3, <1>4, <1>15, TimesNat
  <2>3. (s + f) * F <= end.rate * ONE
    BY <1>1, <1>3, <1>16, <2>1, <2>2
  <2>4. s + f \in Int /\ end.rate * ONE \in Int
    BY <1>1, <1>3, <1>4, <1>15, TimesNat
  <2>5. s + f <= (end.rate * ONE) \div F
    BY <1>4, <2>3, <2>4, DivAtLeast
  <2>6. QED
    BY <2>5 DEF FromBps, F
<1>18. s + f \in Nat /\ f <= s + f
  BY <1>3, <1>15
<1>19. QED
  BY <1>5, <1>11, <1>17, <1>18 DEF f, fa, a

LEMMA SegmentRateMono ==
    ASSUME NEW first \in CurvePoint, NEW end \in CurvePoint, NEW u \in Nat, NEW v \in Nat,
           u <= v, first.utilization < end.utilization, first.rate <= end.rate
    PROVE  SegmentRate(first, end, u) <= SegmentRate(first, end, v)
<1> DEFINE a == FromBps(first.utilization)
           rise == end.rate - first.rate
           d == end.utilization - first.utilization
           f == FromBps(first.rate)
           p == (u - a) * rise
           q == (v - a) * rise
<1>1. a \in Nat /\ rise \in Nat /\ d \in Nat /\ d > 0 /\ f \in Nat
  <2>1. /\ first.utilization \in Nat /\ first.rate \in Nat
        /\ end.utilization \in Nat /\ end.rate \in Nat
    BY DEF CurvePoint
  <2>2. a \in Nat /\ f \in Nat
    BY <2>1, BpsNat
  <2>3. QED
    BY <2>1, <2>2
<1>2. /\ SegmentRate(first, end, u) = p \div d + f
      /\ SegmentRate(first, end, v) = q \div d + f
  BY Zenon DEF SegmentRate
<1> HIDE DEF a, rise, d, f
<1>3. u - a \in Int /\ v - a \in Int /\ u - a <= v - a
  BY <1>1
<1>4. p \in Int /\ q \in Int /\ p <= q
  BY <1>1, <1>3, TimesIntBoth
<1> HIDE DEF p, q
<1>5. p \div d \in Int /\ q \div d \in Int /\ p \div d <= q \div d
  BY <1>1, <1>4, DivInt, DivMono
<1>6. QED
  BY <1>1, <1>2, <1>5

\* Points further along have no lower rate and no lower utilization.
LEMMA StepsAddUp ==
    ASSUME NEW f \in [1..11 -> Nat], \A k \in 1..10 : f[k] <= f[k + 1],
           NEW i \in 1..11, NEW j \in 1..11, i <= j
    PROVE  f[i] <= f[j]
OBVIOUS

LEMMA PointsFurther ==
    ASSUME NEW points, CurveValid(points), NEW i \in 1..11, NEW j \in 1..11, i <= j
    PROVE  /\ points[i].rate \in Nat /\ points[j].rate \in Nat
           /\ points[i].utilization \in Nat /\ points[j].utilization \in Nat
           /\ points[i].rate <= points[j].rate
           /\ points[i].utilization <= points[j].utilization
<1> DEFINE rates == [k \in 1..11 |-> points[k].rate]
           uses == [k \in 1..11 |-> points[k].utilization]
<1>1. \A k \in 1..11 : points[k].rate \in Nat /\ points[k].utilization \in Nat
  BY DEF CurveValid, CurvePoint
<1>2. rates \in [1..11 -> Nat] /\ uses \in [1..11 -> Nat]
  BY <1>1
<1>3. \A k \in 1..10 : rates[k] <= rates[k + 1] /\ uses[k] <= uses[k + 1]
  BY PointsInOrder
<1>4. \A k \in 1..11 : rates[k] = points[k].rate /\ uses[k] = points[k].utilization
  OBVIOUS
<1> HIDE DEF rates, uses
<1>5. rates[i] <= rates[j] /\ uses[i] <= uses[j]
  BY <1>2, <1>3, StepsAddUp
<1>6. QED
  BY <1>1, <1>4, <1>5

\* The rate lies between those of the two points.
LEMMA RateBetween ==
    ASSUME Fine, NEW points, CurveValid(points), NEW u \in Nat, NEW i \in 1..10,
           RateIn(points, u, i)
    PROVE  /\ GetBorrowRate(points, u) \in Nat
           /\ FromBps(points[i].rate) \in Nat /\ FromBps(points[i + 1].rate) \in Nat
           /\ FromBps(points[i].rate) <= GetBorrowRate(points, u)
           /\ GetBorrowRate(points, u) <= FromBps(points[i + 1].rate)
<1> DEFINE capped == Least(u, ONE)
           bps == ToBps(capped)
           rate == GetBorrowRate(points, u)
           low == FromBps(points[i].rate)
           high == FromBps(points[i + 1].rate)
<1>1. capped \in Nat /\ capped <= ONE
  BY LeastNat, KlendMathAssumption
<1>2. /\ points[i] \in CurvePoint /\ points[i + 1] \in CurvePoint
      /\ points[i].rate \in Nat /\ points[i + 1].rate \in Nat
      /\ points[i].rate <= points[i + 1].rate
  BY PointsInOrder
<1>3. low \in Nat /\ high \in Nat /\ low <= high
  BY <1>2, BpsNat, FromBpsMono
<1>4. \/ rate = low
      \/ rate = high
      \/ /\ points[i].utilization < bps /\ bps < points[i + 1].utilization
         /\ rate = SegmentRate(points[i], points[i + 1], capped)
  BY Zenon DEF RateIn
<1> HIDE DEF capped, rate
<1>5. ASSUME points[i].utilization < bps, bps < points[i + 1].utilization
      PROVE  /\ SegmentRate(points[i], points[i + 1], capped) \in Nat
             /\ low <= SegmentRate(points[i], points[i + 1], capped)
             /\ SegmentRate(points[i], points[i + 1], capped) <= high
  BY <1>1, <1>2, <1>5, SegmentRateBetween
<1> HIDE DEF low, high
<1>6. rate \in Nat /\ low <= rate /\ rate <= high
  BY <1>3, <1>4, <1>5
<1>7. QED
  BY <1>3, <1>6 DEF rate, low, high

\* For every valid curve: a higher use never lowers the borrow rate, from one line to
\* the next, across the rounding of the use to basis points that chooses the line and
\* the rounding of the rates at its ends.
THEOREM BorrowRateGrows ==
    ASSUME Fine, NEW points, CurveValid(points), NEW u \in Nat, NEW v \in Nat, u <= v
    PROVE  GetBorrowRate(points, u) <= GetBorrowRate(points, v)
<1> DEFINE cu == Least(u, ONE)
           cv == Least(v, ONE)
           bu == ToBps(cu)
           bv == ToBps(cv)
           ru == GetBorrowRate(points, u)
           rv == GetBorrowRate(points, v)
<1>1. cu \in Nat /\ cv \in Nat /\ cu <= ONE /\ cv <= ONE /\ cu <= cv
  BY KlendMathAssumption DEF Least
<1> HIDE DEF cu, cv
<1>2. bu \in Nat /\ bv \in Nat /\ bu <= bv
  BY <1>1, UseInBps, UseInBpsMono
<1>3. PICK i \in 1..10 : RateIn(points, u, i)
  BY RateFound, Zenon
<1>4. PICK j \in 1..10 : RateIn(points, v, j)
  BY RateFound, Zenon
<1>5. /\ ru \in Nat /\ rv \in Nat
      /\ FromBps(points[i].rate) <= ru /\ ru <= FromBps(points[i + 1].rate)
      /\ FromBps(points[j].rate) <= rv /\ rv <= FromBps(points[j + 1].rate)
      /\ FromBps(points[i + 1].rate) \in Nat /\ FromBps(points[j].rate) \in Nat
  BY <1>3, <1>4, RateBetween
<1>6. /\ Holds(points, bu, i) /\ Holds(points, bv, j)
      /\ \A k \in 1..(i - 1) : ~ Holds(points, bu, k)
      /\ \/ bu = points[i].utilization /\ ru = FromBps(points[i].rate)
         \/ /\ bu = points[i + 1].utilization /\ ru = FromBps(points[i + 1].rate)
            /\ points[i].utilization < bu
         \/ /\ points[i].utilization < bu /\ bu < points[i + 1].utilization
            /\ ru = SegmentRate(points[i], points[i + 1], cu)
      /\ \/ bv = points[j].utilization /\ rv = FromBps(points[j].rate)
         \/ /\ bv = points[j + 1].utilization /\ rv = FromBps(points[j + 1].rate)
            /\ points[j].utilization < bv
         \/ /\ points[j].utilization < bv /\ bv < points[j + 1].utilization
            /\ rv = SegmentRate(points[j], points[j + 1], cv)
  BY <1>3, <1>4, Zenon DEF RateIn, cu, cv
<1> HIDE DEF bu, bv, ru, rv
<1>7. i <= j
  <2>1. SUFFICES ASSUME j < i PROVE FALSE
    OBVIOUS
  <2>2. j \in 1..(i - 1) /\ j + 1 \in 1..11 /\ i \in 1..11 /\ j + 1 <= i
    BY <2>1
  <2>3. ~ Holds(points, bu, j)
    BY <1>6, <2>2, Zenon
  <2>4. /\ points[j + 1].utilization \in Nat /\ points[i].utilization \in Nat
        /\ points[j + 1].utilization <= points[i].utilization
    BY <2>2, PointsFurther
  <2>5. points[j].utilization \in Nat /\ points[j].utilization <= points[j + 1].utilization
    BY PointsInOrder
  <2>6. /\ points[i].utilization <= bu /\ bv <= points[j + 1].utilization
        /\ ~ (points[j].utilization <= bu /\ bu <= points[j + 1].utilization)
    BY <1>6, <2>3, Zenon DEF Holds
  <2>7. QED
    BY <1>2, <2>4, <2>5, <2>6
<1>8. CASE i < j
  <2>1. i + 1 \in 1..11 /\ j \in 1..11 /\ i + 1 <= j
    BY <1>8
  <2>2. /\ points[i + 1].rate \in Nat /\ points[j].rate \in Nat
        /\ points[i + 1].rate <= points[j].rate
    BY <2>1, PointsFurther
  <2>3. FromBps(points[i + 1].rate) <= FromBps(points[j].rate)
    BY <2>2, FromBpsMono
  <2>4. QED
    BY <1>5, <2>3 DEF ru, rv
<1>9. CASE i = j
  <2>1. /\ points[i] \in CurvePoint /\ points[i + 1] \in CurvePoint
        /\ points[i].utilization \in Nat /\ points[i + 1].utilization \in Nat
        /\ points[i].rate <= points[i + 1].rate
    BY PointsInOrder
  <2>2. CASE ru = FromBps(points[i].rate)
    BY <1>5, <1>9, <2>2 DEF ru, rv
  <2>3. CASE rv = FromBps(points[i + 1].rate)
    BY <1>5, <1>9, <2>3 DEF ru, rv
  <2>4. CASE ~ (ru = FromBps(points[i].rate)) /\ ~ (rv = FromBps(points[i + 1].rate))
    <3>1. /\ \/ bu = points[i + 1].utilization
             \/ /\ points[i].utilization < bu /\ bu < points[i + 1].utilization
                /\ ru = SegmentRate(points[i], points[i + 1], cu)
          /\ \/ bv = points[i].utilization
             \/ /\ points[i].utilization < bv /\ bv < points[i + 1].utilization
                /\ rv = SegmentRate(points[i], points[i + 1], cv)
          /\ points[i].utilization < bu
      BY <1>6, <1>9, <2>4, Zenon
    <3>2. /\ ru = SegmentRate(points[i], points[i + 1], cu)
          /\ rv = SegmentRate(points[i], points[i + 1], cv)
          /\ points[i].utilization < points[i + 1].utilization
      BY <1>2, <2>1, <3>1
    <3>3. SegmentRate(points[i], points[i + 1], cu) <= SegmentRate(points[i], points[i + 1], cv)
      BY <1>1, <2>1, <3>2, SegmentRateMono
    <3>4. QED
      BY <3>2, <3>3 DEF ru, rv
  <2>5. QED
    BY <2>2, <2>3, <2>4
<1>10. QED
  BY <1>7, <1>8, <1>9

\* A curve made from legacy parameters that grow is a valid one, with a bend inside or
\* none, and its last point in the rest of the array.
THEOREM LegacyCurveIsValid ==
    ASSUME NEW use \in 0..100, NEW base \in Nat, NEW optimal \in Nat, NEW max \in Nat,
           base <= optimal, optimal <= max
    PROVE  CurveValid(FromLegacyParameters(use, base, optimal, max))
<1> DEFINE first == Point(0, IF use = 0 THEN 100 * optimal ELSE 100 * base)
           bend == Point(100 * use, 100 * optimal)
           last == Point(FULL_BPS, IF use = 100 THEN 100 * optimal ELSE 100 * max)
           curve == FromLegacyParameters(use, base, optimal, max)
<1>1. /\ first \in CurvePoint /\ bend \in CurvePoint /\ last \in CurvePoint
      /\ first.utilization = 0 /\ bend.utilization = 100 * use /\ last.utilization = 10000
      /\ first.rate <= last.rate
      /\ use \notin {0, 100} => first.rate <= bend.rate /\ bend.rate <= last.rate
  BY DEF Point, CurvePoint, FULL_BPS
<1> HIDE DEF first, bend, last
<1>2. CASE use \in {0, 100}
  <2>1. curve = FromPoints(<<first, last>>)
    BY <1>2, Zenon DEF FromLegacyParameters, first, last
  <2>2. \A k \in 1..11 : curve[k] = IF k = 1 THEN first ELSE last
    BY <2>1 DEF FromPoints
  <2>3. curve = [k \in 1..11 |-> curve[k]]
    BY <2>1 DEF FromPoints
  <2> HIDE DEF curve
  <2>4. curve \in [1..11 -> CurvePoint]
    BY <1>1, <2>2, <2>3
  <2>5. \A k \in 2..11 : curve[k] = last /\ (k - 1 = 1 => curve[k - 1] = first)
                         /\ (k - 1 # 1 => curve[k - 1] = last)
    BY <2>2
  <2>6. QED
    BY <1>1, <2>2, <2>4, <2>5 DEF CurveValid, FULL_BPS, CurvePoint, curve
<1>3. CASE use \notin {0, 100}
  <2>1. curve = FromPoints(<<first, bend, last>>)
    BY <1>3, Zenon DEF FromLegacyParameters, first, bend, last
  <2>2. \A k \in 1..11 : curve[k] = IF k = 1 THEN first ELSE IF k = 2 THEN bend ELSE last
    BY <2>1 DEF FromPoints
  <2>3. curve = [k \in 1..11 |-> curve[k]]
    BY <2>1 DEF FromPoints
  <2> HIDE DEF curve
  <2>4. curve \in [1..11 -> CurvePoint]
    BY <1>1, <2>2, <2>3
  <2>5. /\ curve[1] = first /\ curve[2] = bend
        /\ \A k \in 3..11 : curve[k] = last
        /\ \A k \in 4..11 : curve[k - 1] = last
    BY <2>2
  <2>6. bend.utilization > 0 /\ bend.utilization < 10000
    BY <1>1, <1>3
  <2>7. \A k \in 2..11 :
          /\ IF curve[k - 1].utilization = FULL_BPS THEN curve[k].utilization = FULL_BPS
             ELSE curve[k].utilization > curve[k - 1].utilization
          /\ curve[k].rate >= curve[k - 1].rate
    <3> TAKE k \in 2..11
    <3>1. CASE k = 2
      BY <1>1, <1>3, <2>5, <2>6, <3>1 DEF FULL_BPS, CurvePoint
    <3>2. CASE k = 3
      BY <1>1, <1>3, <2>5, <2>6, <3>2 DEF FULL_BPS, CurvePoint
    <3>3. CASE k \in 4..11
      BY <1>1, <2>5, <3>3 DEF FULL_BPS, CurvePoint
    <3>4. QED
      BY <3>1, <3>2, <3>3
  <2>8. QED
    BY <1>1, <2>4, <2>5, <2>7 DEF CurveValid, FULL_BPS, curve
<1>4. QED
  BY <1>2, <1>3

-----------------------------------------------------------------------------
(* Fees *)

LEMMA FeeNat ==
    ASSUME NEW amount \in Nat, NEW fee_sf \in Nat, NEW inclusive, NEW bps
    PROVE  CalculateFees(amount, fee_sf, inclusive, bps, FALSE).borrow_fee \in Nat
<1> DEFINE share == IF inclusive THEN Quot(fee_sf, fee_sf + ONE) ELSE fee_sf
           fee == FeeAmount(amount, fee_sf, inclusive)
<1>1. share \in Nat
  <2>1. fee_sf + ONE \in Nat /\ fee_sf + ONE > 0
    BY KlendMathAssumption
  <2>2. Quot(fee_sf, fee_sf + ONE) \in Nat
    BY <2>1, QuotNat
  <2>3. QED
    BY <2>2
<1>2. fee = Greatest(Mul(amount, share), FromNum(1))
  BY Zenon DEF FeeAmount
<1> HIDE DEF share, fee
<1>3. Mul(amount, share) \in Nat /\ FromNum(1) \in Nat
  BY <1>1, MulNat, FromNumNat
<1>4. fee \in Nat
  BY <1>2, <1>3 DEF Greatest
<1>5. ToRound(fee) \in Nat
  BY <1>4, RoundNat
<1>6. CASE FeesCharged(amount, fee_sf)
  <2>1. CalculateFees(amount, fee_sf, inclusive, bps, FALSE).borrow_fee = ToRound(fee) - 0
    BY <1>6 DEF CalculateFees, fee
  <2>2. ToRound(fee) - 0 \in Nat
    BY <1>5
  <2>3. QED
    BY <2>1, <2>2, Zenon
<1>7. CASE ~FeesCharged(amount, fee_sf)
  <2>1. CalculateFees(amount, fee_sf, inclusive, bps, FALSE).borrow_fee = 0
    BY <1>7 DEF CalculateFees
  <2>2. 0 \in Nat
    OBVIOUS
  <2>3. QED
    BY <2>1, <2>2, Zenon
<1>8. QED
  BY <1>6, <1>7

\* An inclusive fee of at most a half per unit takes at most a third of the amount.
LEMMA InclusiveShare ==
    ASSUME NEW fee_sf \in Nat, 2 * fee_sf <= ONE
    PROVE  /\ Quot(fee_sf, fee_sf + ONE) \in Nat
           /\ 3 * Quot(fee_sf, fee_sf + ONE) <= ONE
<1> DEFINE d == fee_sf + ONE
           s == Quot(fee_sf, d)
           p == fee_sf * ONE
<1>1. d \in Nat /\ d > 0 /\ ONE \in Nat /\ ONE > 0
  BY KlendMathAssumption
<1>2. p \in Nat
  BY <1>1, TimesNat
<1>3. s = p \div d
  BY DEF Quot
<1>4. 3 * fee_sf <= d
  BY <1>1
<1>5. ONE * (3 * fee_sf) <= ONE * d
  BY <1>1, <1>4, TimesMono
<1>6. ONE * (3 * fee_sf) = 3 * p
  BY <1>1
<1> HIDE DEF p, d, s
<1>7. s \in Nat /\ s * d <= p
  BY <1>1, <1>2, <1>3, DivNat, DivBelow
<1>8. s * d \in Nat /\ ONE * d \in Nat
  BY <1>1, <1>7, TimesNat
<1>9. 3 * (s * d) <= ONE * d
  BY <1>2, <1>5, <1>6, <1>7, <1>8
<1>10. (3 * s) * d = 3 * (s * d)
  BY <1>1, <1>7
<1>11. (3 * s) * d <= ONE * d
  BY <1>9, <1>10
<1>12. 3 * s <= ONE
  BY <1>1, <1>7, <1>11, TimesCancel
<1>13. QED
  BY <1>7, <1>12 DEF s, d

\* The fee of "all of it", rounded, is at most the whole units of it.
LEMMA FeeWithinWhole ==
    ASSUME NEW amount \in Nat, NEW fee_sf \in Nat, 2 * fee_sf <= ONE,
           FeeAmount(amount, fee_sf, TRUE) < amount
    PROVE  ToRound(FeeAmount(amount, fee_sf, TRUE)) <= ToFloor(amount)
<1> DEFINE s == Quot(fee_sf, fee_sf + ONE)
           m == Mul(amount, s)
           F == Greatest(m, ONE)
           k == ToFloor(amount)
           q == ToRound(F)
<1>1. ONE \in Nat /\ ONE > 0
  BY KlendMathAssumption
<1>2. FeeAmount(amount, fee_sf, TRUE) = F
  BY <1>1 DEF FeeAmount, FromNum
<1>3. s \in Nat /\ 3 * s <= ONE
  BY InclusiveShare
<1> HIDE DEF s
<1>4. m \in Nat /\ 3 * m <= amount
  <2> DEFINE p == amount * s
  <2>1. p \in Nat
    BY <1>3, TimesNat
  <2>2. m = p \div ONE
    BY DEF Mul
  <2>3. amount * (3 * s) <= amount * ONE
    BY <1>1, <1>3, TimesMono
  <2>4. amount * (3 * s) = 3 * p
    BY <1>3
  <2> HIDE DEF p, m
  <2>5. m \in Nat /\ m * ONE <= p
    BY <1>1, <2>1, <2>2, DivNat, DivBelow
  <2>6. m * ONE \in Nat /\ amount * ONE \in Nat
    BY <1>1, <2>5, TimesNat
  <2>7. 3 * (m * ONE) <= amount * ONE
    BY <2>1, <2>3, <2>4, <2>5, <2>6
  <2>8. (3 * m) * ONE = 3 * (m * ONE)
    BY <1>1, <2>5
  <2>9. (3 * m) * ONE <= amount * ONE
    BY <2>7, <2>8
  <2>10. 3 * m <= amount
    BY <1>1, <2>5, <2>9, TimesCancel
  <2>11. QED
    BY <2>5, <2>10
<1> HIDE DEF m
<1>5. F \in Nat /\ F >= ONE /\ (F = ONE \/ F = m)
  BY <1>1, <1>4 DEF Greatest
<1>6. F < amount
  BY <1>2
<1> HIDE DEF F
<1>7. k \in Nat /\ k * ONE <= amount /\ amount < (k + 1) * ONE
  BY <1>1 DEF ToFloor
<1>8. q \in Nat /\ q * (2 * ONE) <= 2 * F + ONE
  <2>1. 2 * F + ONE \in Nat /\ 2 * ONE \in Nat /\ 2 * ONE > 0
    BY <1>1, <1>5
  <2>2. q = (2 * F + ONE) \div (2 * ONE)
    BY DEF ToRound
  <2>3. QED
    BY <2>1, <2>2, DivNat, DivBelow
<1> HIDE DEF k, q
<1>9. q <= k
  <2> SUFFICES ASSUME ~ (q <= k) PROVE FALSE
    OBVIOUS
  <2>1. k + 1 <= q
    BY <1>7, <1>8
  <2>2. (2 * ONE) * (k + 1) <= (2 * ONE) * q
    BY <1>1, <1>7, <1>8, <2>1, TimesMono
  <2>3. (2 * ONE) * (k + 1) = 2 * ((k + 1) * ONE) /\ (2 * ONE) * q = q * (2 * ONE)
    BY <1>1, <1>7, <1>8
  <2> DEFINE u == (k + 1) * ONE
             w == q * (2 * ONE)
  <2>4. u \in Nat /\ w \in Nat
    BY <1>1, <1>7, <1>8, TimesNat
  <2>5. 2 * u <= w /\ w <= 2 * F + ONE /\ amount < u
    BY <1>7, <1>8, <2>2, <2>3
  <2> HIDE DEF u, w
  <2>6. 2 * amount + 2 <= 2 * F + ONE
    BY <1>1, <1>5, <2>4, <2>5
  <2>7. CASE F = m
    BY <1>1, <1>4, <1>5, <2>6, <2>7
  <2>8. CASE F = ONE
    <3>1. amount >= ONE + 1
      BY <1>1, <1>6, <2>8
    <3>2. u > ONE
      BY <1>1, <2>4, <2>5, <3>1
    <3>3. w <= 3 * ONE
      BY <1>1, <2>4, <2>5, <2>8
    <3>4. k + 1 >= 2
      <4>1. CASE k = 0
        BY <1>1, <3>2, <4>1 DEF u
      <4>2. QED
        BY <1>7, <4>1
    <3>5. ONE * 2 <= ONE * (k + 1)
      BY <1>1, <1>7, <3>4, TimesMono
    <3>6. u = ONE * (k + 1)
      BY <1>1, <1>7 DEF u
    <3>7. QED
      BY <1>1, <2>4, <2>5, <3>3, <3>5, <3>6
  <2>9. QED
    BY <1>5, <2>7, <2>8
<1>10. QED
  BY <1>2, <1>9 DEF k, q

\* What is left of "all of it" once its fee is taken.
LEMMA FeeLeavesRest ==
    ASSUME NEW amount \in Nat, NEW fee_sf \in Nat, 2 * fee_sf <= ONE, NEW bps,
           ~BorrowTooSmall(amount, fee_sf, TRUE)
    PROVE  CalculateFees(amount, fee_sf, TRUE, bps, FALSE).borrow_fee <= ToFloor(amount)
<1> DEFINE fee == FeeAmount(amount, fee_sf, TRUE)
           charged == CalculateFees(amount, fee_sf, TRUE, bps, FALSE).borrow_fee
<1>1. ToFloor(amount) \in Nat /\ charged \in Nat
  BY FloorNat, FeeNat
<1>2. CASE FeesCharged(amount, fee_sf)
  <2>1. charged = ToRound(fee) - 0
    BY <1>2 DEF CalculateFees
  <2>2. fee \in Nat
    <3>1. fee_sf + ONE \in Nat /\ fee_sf + ONE > 0
      BY KlendMathAssumption
    <3>2. Mul(amount, Quot(fee_sf, fee_sf + ONE)) \in Nat /\ FromNum(1) \in Nat
      BY <3>1, QuotNat, MulNat, FromNumNat
    <3>3. QED
      BY <3>2 DEF FeeAmount, Greatest
  <2>3. ~ (fee >= amount)
    BY <1>2, Zenon DEF BorrowTooSmall
  <2> HIDE DEF fee, charged
  <2>4. ToRound(fee) \in Nat
    BY <2>2, RoundNat
  <2>5. fee < amount
    BY <2>2, <2>3
  <2>6. ToRound(fee) <= ToFloor(amount)
    BY <2>5, FeeWithinWhole DEF fee
  <2>7. charged <= ToFloor(amount)
    BY <1>1, <2>1, <2>4, <2>6
  <2>8. QED
    BY <2>7 DEF charged
<1>3. CASE ~FeesCharged(amount, fee_sf)
  <2>1. charged = 0
    BY <1>3 DEF CalculateFees
  <2> HIDE DEF charged
  <2>2. charged <= ToFloor(amount)
    BY <1>1, <2>1
  <2>3. QED
    BY <2>2 DEF charged
<1>4. QED
  BY <1>2, <1>3

-----------------------------------------------------------------------------
(* Liquidity and collateral *)

LEMMA ExchangeRateNat ==
    ASSUME NEW M \in Nat, NEW T \in Nat
    PROVE  ExchangeRate(M, T) \in Nat
<1>1. FromNum(M) \in Nat
  BY FromNumNat
<1>2. T > 0 => Quot(FromNum(M), T) \in Nat
  BY <1>1, QuotNat
<1>3. QED
  BY <1>2, KlendMathAssumption DEF ExchangeRate

\* What a depositor is minted is worth no more than the deposit.
LEMMA MintedAtMost ==
    ASSUME NEW M \in Nat, M > 0, NEW T \in Nat, NEW l \in Nat,
           NEW m \in Nat, m = LiquidityToCollateral(ExchangeRate(M, T), l)
    PROVE  m * T <= (M * ONE) * l
<1>1. ONE \in Nat /\ ONE > 0
  BY KlendMathAssumption
<1> DEFINE x == M * ONE
<1>2. x \in Nat
  BY <1>1, TimesNat
<1>3. CASE T = 0
  <2>1. m * T = 0
    BY <1>3
  <2>2. x * l \in Nat
    BY <1>2, TimesNat
  <2>3. QED
    BY <2>1, <2>2
<1>4. CASE T > 0
  <2> DEFINE y == x * ONE
             r == y \div T
             n == r * l
  <2>1. ExchangeRate(M, T) = r
    BY <1>4 DEF ExchangeRate, Quot, FromNum
  <2>2. m = n \div ONE
    BY <2>1 DEF LiquidityToCollateral, ToFloor
  <2> HIDE DEF x
  <2>3. y \in Nat
    BY <1>1, <1>2, TimesNat
  <2> HIDE DEF y
  <2>4. r \in Nat /\ r * T <= y
    BY <1>4, <2>3, DivNat, DivBelow
  <2> HIDE DEF r
  <2>5. n \in Nat /\ r * T \in Nat
    BY <2>4, TimesNat
  <2> HIDE DEF n
  <2>6. m * ONE <= n
    BY <1>1, <2>2, <2>5, DivBelow
  <2>7. m * ONE \in Nat
    BY <1>1, TimesNat
  <2>8. (m * ONE) * T <= n * T
    BY <2>5, <2>6, <2>7, TimesBoth
  <2>9. (r * T) * l <= y * l
    BY <2>3, <2>4, <2>5, TimesBoth
  <2>10. n * T = (r * T) * l
    BY <2>4 DEF n
  <2>11. y * l = (x * l) * ONE
    BY <1>1, <1>2 DEF y
  <2>12. (m * ONE) * T = (m * T) * ONE
    BY <1>1
  <2>13. m * T \in Nat /\ x * l \in Nat
    BY <1>2, TimesNat
  <2>14. (m * T) * ONE <= (x * l) * ONE
    <3> DEFINE p1 == (m * T) * ONE
               p2 == n * T
               p3 == (r * T) * l
               p4 == (x * l) * ONE
    <3>1. p1 \in Nat /\ p2 \in Nat /\ p3 \in Nat /\ p4 \in Nat
      BY <1>1, <2>5, <2>13, TimesNat
    <3>2. p1 <= p2 /\ p2 = p3 /\ p3 <= p4
      BY <2>8, <2>9, <2>10, <2>11, <2>12
    <3> HIDE DEF p1, p2, p3, p4
    <3>3. p1 <= p4
      BY <3>1, <3>2
    <3>4. QED
      BY <3>3 DEF p1, p4
  <2>15. QED
    BY <1>1, <2>13, <2>14, TimesCancel DEF x
<1>5. QED
  BY <1>3, <1>4

\* The exchange rate after a deposit, against the collateral minted for it.
LEMMA RateAfterDeposit ==
    ASSUME NEW M \in Nat, M > 0, NEW T \in Nat, NEW l \in Nat, l > 0, NEW m \in Nat,
           m * T <= (M * ONE) * l, l * l <= m * ONE, NEW r \in Nat,
           r = ExchangeRate(M + m, T + FromNum(l))
    PROVE  m * ONE < (l + 1) * r
<1> DEFINE u == m * ONE
           a == u \div l
           D == T + l * ONE
           x == (M + m) * ONE
           y == x * ONE
<1>1. ONE \in Nat /\ ONE > 0
  BY KlendMathAssumption
<1>2. u \in Nat /\ l * l \in Nat /\ l * ONE \in Nat /\ l * ONE > 0 /\ x \in Nat
  <2>1. l * ONE >= l * 1
    BY <1>1, TimesMono
  <2>2. QED
    BY <1>1, <2>1, TimesNat
<1>3. D \in Nat /\ D > 0 /\ y \in Nat
  BY <1>1, <1>2, TimesNat
<1>4. r = y \div D
  BY <1>3 DEF ExchangeRate, Quot, FromNum
<1>5. u < l * (a + 1) /\ a * l <= u /\ a \in Nat
  BY <1>2
<1>6. l <= a
  BY <1>2, DivAtLeast
<1> HIDE DEF a
<1>7. a * D <= y
  <2>1. m * D <= x * l
    <3>1. m * D = m * T + (m * ONE) * l
      BY <1>1
    <3>2. x * l = (M * ONE) * l + (m * ONE) * l
      BY <1>1
    <3>3. m * T \in Nat /\ (M * ONE) * l \in Nat /\ (m * ONE) * l \in Nat
      BY <1>1, TimesNat
    <3> HIDE DEF x, D
    <3>4. QED
      BY <3>1, <3>2, <3>3
  <2>2. (a * l) * D <= u * D
    <3> HIDE DEF D, u
    <3>1. a * l \in Nat
      BY <1>5, TimesNat
    <3>2. QED
      BY <1>2, <1>3, <1>5, <3>1, TimesBoth
  <2>3. (m * D) * ONE <= (x * l) * ONE
    <3> HIDE DEF D, x
    <3>1. m * D \in Nat /\ x * l \in Nat
      BY <1>2, <1>3, TimesNat
    <3>2. QED
      BY <1>1, <2>1, <3>1, TimesBoth
  <2>4. u * D = (m * D) * ONE
    <3> HIDE DEF D
    <3>1. QED
      BY <1>1, <1>3
  <2>5. (x * l) * ONE = y * l
    <3> HIDE DEF x
    <3>1. QED
      BY <1>1, <1>2
  <2>6. (a * l) * D = (a * D) * l
    <3> HIDE DEF D
    <3>1. QED
      BY <1>3, <1>5
  <2> HIDE DEF D, u, y, x
  <2>7. (a * D) * l <= y * l
    <3> DEFINE p1 == (a * D) * l
               p2 == u * D
               p3 == (x * l) * ONE
               p4 == y * l
    <3>1. p1 \in Nat /\ p2 \in Nat /\ p3 \in Nat /\ p4 \in Nat
      BY <1>1, <1>2, <1>3, <1>5, TimesNat
    <3>2. p1 <= p2 /\ p2 <= p3 /\ p3 = p4
      BY <2>2, <2>3, <2>4, <2>5, <2>6
    <3> HIDE DEF p1, p2, p3, p4
    <3>3. p1 <= p4
      BY <3>1, <3>2
    <3>4. QED
      BY <3>3 DEF p1, p4
  <2>8. a * D \in Nat
    BY <1>3, <1>5, TimesNat
  <2>9. QED
    BY <1>3, <2>7, <2>8, TimesCancel
<1> HIDE DEF u, D, y
<1>8. a <= r
  BY <1>3, <1>4, <1>5, <1>7, DivAtLeast
<1>9. (l + 1) * a <= (l + 1) * r
  BY <1>5, <1>8, TimesMono
<1>10. (l + 1) * a = l * a + a /\ l * (a + 1) = l * a + l
  BY <1>5
<1>11. l * a \in Nat /\ (l + 1) * r \in Nat
  BY <1>5, TimesNat
<1>12. u < (l + 1) * r
  BY <1>2, <1>5, <1>6, <1>9, <1>10, <1>11
<1>13. QED
  BY <1>12 DEF u

\* Depositing and withdrawing at once gives back no more than was deposited.
LEMMA RoundTrip ==
    ASSUME NEW M \in Nat, M > 0, NEW T \in Nat, NEW l \in Nat, l > 0, NEW m \in Nat,
           m = LiquidityToCollateral(ExchangeRate(M, T), l), l * l <= m * ONE,
           NEW r \in Nat, r = ExchangeRate(M + m, T + FromNum(l))
    PROVE  r > 0 /\ CollateralToLiquidity(r, m) <= l
<1> DEFINE u == m * ONE
           v == u * ONE
           w == v \div r
           z == w \div ONE
<1>1. ONE \in Nat /\ ONE > 0
  BY KlendMathAssumption
<1>2. m * T <= (M * ONE) * l
  BY MintedAtMost
<1>3. u < (l + 1) * r
  BY <1>2, RateAfterDeposit
<1>4. CollateralToLiquidity(r, m) = z
  BY DEF CollateralToLiquidity, ToFloor, Quot, FromNum
<1>5. u \in Nat /\ v \in Nat
  BY <1>1, TimesNat
<1> HIDE DEF u, v
<1>6. r > 0
  <2>1. CASE r = 0
    BY <1>3, <1>5, <2>1
  <2>2. QED
    BY <2>1
<1>7. w \in Nat /\ w * r <= v
  BY <1>5, <1>6, DivNat, DivBelow
<1> HIDE DEF w
<1>8. z \in Nat /\ z * ONE <= w
  BY <1>1, <1>7, DivNat, DivBelow
<1> HIDE DEF z
<1>9. z <= l
  <2> SUFFICES ASSUME l + 1 <= z PROVE FALSE
    BY <1>8
  <2> DEFINE k == l + 1
             p == k * ONE
             q == k * r
  <2>1. k \in Nat
    OBVIOUS
  <2> HIDE DEF k
  <2>2. p \in Nat /\ q \in Nat /\ z * ONE \in Nat /\ w * r \in Nat
    BY <1>1, <1>7, <1>8, <2>1, TimesNat
  <2>3. p <= z * ONE
    BY <1>1, <1>8, <2>1, TimesBoth DEF k
  <2>4. p <= w
    BY <1>7, <1>8, <2>2, <2>3
  <2>5. p * r <= w * r
    <3> HIDE DEF p
    <3>1. QED
      BY <1>7, <2>2, <2>4, TimesBoth
  <2>6. p * r = q * ONE
    BY <1>1, <2>1
  <2>7. u + 1 <= q
    BY <1>3, <1>5, <2>2 DEF k
  <2>8. (u + 1) * ONE <= q * ONE
    <3> HIDE DEF q
    <3>1. QED
      BY <1>1, <1>5, <2>2, <2>7, TimesBoth
  <2>9. (u + 1) * ONE = v + ONE
    BY <1>1, <1>5 DEF v
  <2> DEFINE t == q * ONE
  <2>10. t \in Nat
    BY <1>1, <2>2, TimesNat
  <2>11. t <= w * r /\ v + ONE <= t
    BY <2>5, <2>6, <2>8, <2>9
  <2> HIDE DEF t, q
  <2>12. QED
    BY <1>1, <1>5, <1>7, <2>2, <2>10, <2>11
<1>10. QED
  BY <1>4, <1>6, <1>9
-----------------------------------------------------------------------------
(* Redemptions *)

\* The exchange rate, rounded down, and what is paid for collateral at it.
LEMMA RedeemedAtMost ==
    ASSUME NEW M \in Nat, M > 0, NEW T \in Nat, T > 0, NEW c \in Nat, NEW r \in Nat, r > 0,
           r = ExchangeRate(M, T), NEW a \in Nat, a = CollateralToLiquidity(r, c)
    PROVE  /\ (M * ONE) * ONE < r * T + T
           /\ a * r <= c * ONE
<1> DEFINE y == (M * ONE) * ONE
           u == c * ONE
           v == u * ONE
           w == v \div r
<1>1. ONE \in Nat /\ ONE > 0
  BY KlendMathAssumption
<1>2. y \in Nat /\ u \in Nat
  <2>1. M * ONE \in Nat
    BY <1>1, TimesNat
  <2>2. QED
    BY <1>1, <2>1, TimesNat
<1>3. r = y \div T
  BY DEF ExchangeRate, Quot, FromNum
<1>4. a = w \div ONE
  BY DEF CollateralToLiquidity, ToFloor, Quot, FromNum
<1> HIDE DEF y, u
<1>5. v \in Nat
  BY <1>1, <1>2, TimesNat
<1> HIDE DEF v
<1>6. y < r * T + T
  <2>1. y < T * (y \div T) + T
    BY <1>2
  <2>2. QED
    BY <1>3, <2>1
<1>7. w \in Nat /\ w * r <= v
  BY <1>5, DivNat, DivBelow
<1> HIDE DEF w
<1>8. a * ONE <= w
  BY <1>1, <1>4, <1>7, DivBelow
<1>9. (a * ONE) * r <= w * r /\ (a * ONE) * r \in Nat /\ w * r \in Nat
  <2>1. a * ONE \in Nat
    BY <1>1, TimesNat
  <2>2. QED
    BY <1>7, <1>8, <2>1, TimesBoth, TimesNat
<1>10. (a * ONE) * r = (a * r) * ONE /\ a * r \in Nat
  BY <1>1, TimesNat
<1>11. (a * r) * ONE <= u * ONE
  <2> DEFINE p == (a * ONE) * r
             q == w * r
             t == (a * r) * ONE
  <2>1. p \in Nat /\ q \in Nat /\ p = t /\ p <= q /\ q <= v
    BY <1>7, <1>9, <1>10
  <2> HIDE DEF p, q, t
  <2>2. t <= v
    BY <1>5, <2>1
  <2>3. QED
    BY <2>2 DEF t, v
<1>12. a * r <= u
  BY <1>1, <1>2, <1>10, <1>11, TimesCancel
<1>13. QED
  BY <1>6, <1>12 DEF y, u

\* A redemption costs those who stay less than one unit of liquidity in total, when the
\* exchange rate has the precision for it.
LEMMA RedemptionKeepsWorth ==
    ASSUME NEW M \in Nat, M > 0, NEW T \in Nat, T > 0, NEW c \in Nat, c <= M,
           NEW r \in Nat, r > 0, r = ExchangeRate(M, T), T <= ONE * r,
           NEW a \in Nat, a = CollateralToLiquidity(r, c)
    PROVE  T * (M - c) < (T - a * ONE + ONE) * M
<1> DEFINE y == M * ONE
           s == r * T
           g == a * r
           h == a * ONE
<1>1. ONE \in Nat /\ ONE > 0
  BY KlendMathAssumption
<1>2. y * ONE < s + T /\ g <= c * ONE
  BY RedeemedAtMost
<1>3. y \in Nat /\ s \in Nat /\ g \in Nat /\ h \in Nat /\ y > 0
  <2>1. M * ONE >= 1 * ONE
    BY <1>1, TimesBoth
  <2>2. QED
    BY <1>1, <2>1, TimesNat
<1>4. a * (y * ONE) <= a * (s + T - 1)
  <2>1. y * ONE \in Nat /\ s + T - 1 \in Nat
    BY <1>1, <1>3, TimesNat
  <2>2. y * ONE <= s + T - 1
    BY <1>2, <1>3, <2>1
  <2> DEFINE p == y * ONE
             q == s + T - 1
  <2> HIDE DEF p, q
  <2>3. p \in Nat /\ q \in Nat /\ p <= q
    BY <2>1, <2>2 DEF p, q
  <2>4. a * p <= a * q
    BY <2>3, TimesMono
  <2>5. QED
    BY <2>4 DEF p, q
<1>5. a * (s + T - 1) = g * T + a * T - a
  BY <1>1
<1>6. g * T <= (c * ONE) * T
  <2>1. c * ONE \in Nat
    BY <1>1, TimesNat
  <2> HIDE DEF g
  <2>2. QED
    BY <1>2, <1>3, <2>1, TimesBoth
<1>7. a * T <= a * (ONE * r)
  <2>1. ONE * r \in Nat
    BY <1>1, TimesNat
  <2>2. QED
    BY <2>1, TimesMono
<1>8. a * (ONE * r) = g * ONE
  BY <1>1
<1>9. g * ONE <= (M * ONE) * ONE
  <2>1. c * ONE <= M * ONE
    BY <1>1, TimesBoth
  <2>2. c * ONE \in Nat /\ M * ONE \in Nat
    BY <1>1, TimesNat
  <2> DEFINE p == c * ONE
             q == M * ONE
  <2> HIDE DEF p, q, g
  <2>3. p \in Nat /\ q \in Nat /\ p <= q /\ g <= p
    BY <1>2, <2>1, <2>2 DEF p, q
  <2>4. g <= q
    BY <1>3, <2>3
  <2>5. g * ONE <= q * ONE
    BY <1>1, <1>3, <2>3, <2>4, TimesBoth
  <2>6. QED
    BY <2>5 DEF q
<1>10. (h * M) * ONE < (c * T + y) * ONE \/ a = 0
  <2> SUFFICES ASSUME a > 0 PROVE (h * M) * ONE < (c * T + y) * ONE
    OBVIOUS
  <2> DEFINE e0 == a * (y * ONE)
             e1 == g * T
             e2 == a * T
             e3 == (c * ONE) * T
             e4 == g * ONE
             e5 == y * ONE
             e6 == a * (s + T - 1)
  <2>1. /\ e0 \in Nat /\ e1 \in Nat /\ e2 \in Nat /\ e3 \in Nat /\ e4 \in Nat /\ e5 \in Nat
    <3>1. y * ONE \in Nat /\ c * ONE \in Nat
      BY <1>1, <1>3, TimesNat
    <3> DEFINE p == y * ONE
               q == c * ONE
    <3> HIDE DEF p, q, g, y
    <3>2. a * p \in Nat /\ q * T \in Nat /\ g * T \in Nat /\ a * T \in Nat /\ g * ONE \in Nat
      BY <1>1, <1>3, <3>1, TimesNat DEF p, q
    <3>3. QED
      BY <3>1, <3>2 DEF p, q
  <2>2. e0 <= e6 /\ e6 = e1 + e2 - a /\ e1 <= e3 /\ e2 <= e4 /\ e4 <= e5
    <3>1. e2 <= a * (ONE * r) /\ a * (ONE * r) = e4
      BY <1>7, <1>8
    <3>2. e2 <= e4
      BY <3>1, Zenon
    <3>3. QED
      BY <1>4, <1>5, <1>6, <1>9, <3>2
  <2>3. (h * M) * ONE = e0 /\ (c * T + y) * ONE = e3 + e5
    <3>1. (h * M) * ONE = e0
      BY <1>1
    <3>2. (c * T + y) * ONE = e3 + e5
      <4> HIDE DEF y
      <4>1. QED
        BY <1>1, <1>3
    <3>3. QED
      BY <3>1, <3>2
  <2> HIDE DEF e0, e1, e2, e3, e4, e5, e6
  <2>4. e0 < e3 + e5
    BY <2>1, <2>2
  <2>5. QED
    BY <2>3, <2>4
<1>11. h * M < c * T + y
  <2>1. h * M \in Nat /\ c * T \in Nat
    <3> HIDE DEF h
    <3>1. QED
      BY <1>3, TimesNat
  <2>2. CASE a = 0
    <3>1. h * M = 0
      BY <1>1, <2>2
    <3> HIDE DEF h, y
    <3>2. QED
      BY <1>3, <2>1, <3>1
  <2>3. CASE a # 0
    <3>1. (h * M) * ONE < (c * T + y) * ONE
      BY <1>10, <2>3, Zenon
    <3> DEFINE p == h * M
               q == c * T + y
    <3>2. p \in Nat /\ q \in Nat
      BY <1>3, <2>1
    <3>3. p * ONE < q * ONE
      BY <3>1
    <3> HIDE DEF p, q
    <3>4. ~ (q <= p)
      <4>1. q <= p => q * ONE <= p * ONE
        BY <1>1, <3>2, TimesBoth
      <4>2. p * ONE \in Nat /\ q * ONE \in Nat
        BY <1>1, <3>2, TimesNat
      <4> DEFINE pp == p * ONE
                 qq == q * ONE
      <4> HIDE DEF pp, qq
      <4>3. pp \in Nat /\ qq \in Nat /\ pp < qq /\ (q <= p => qq <= pp)
        BY <3>3, <4>1, <4>2 DEF pp, qq
      <4>4. QED
        BY <4>3
    <3>5. p < q
      BY <3>2, <3>4
    <3>6. QED
      BY <3>5 DEF p, q
  <2>4. QED
    BY <2>2, <2>3
<1>12. T * (M - c) = T * M - c * T /\ (T - h + ONE) * M = T * M - h * M + y
  <2> HIDE DEF h
  <2>1. T * (M - c) = T * M - c * T
    OBVIOUS
  <2>2. (T - h + ONE) * M = T * M - h * M + M * ONE
    BY <1>1, <1>3
  <2>3. QED
    BY <2>1, <2>2 DEF y
<1>13. QED
  <2> DEFINE p == h * M
             q == c * T
             t == T * M
  <2>1. p \in Nat /\ q \in Nat /\ t \in Nat
    <3> HIDE DEF h
    <3>1. QED
      BY <1>3, TimesNat
  <2>2. p < q + y /\ T * (M - c) = t - q /\ (T - h + ONE) * M = t - p + y
    BY <1>11, <1>12
  <2> HIDE DEF p, q, t, y
  <2>3. t - q < t - p + y
    BY <1>3, <2>1, <2>2
  <2>4. QED
    BY <2>2, <2>3 DEF h

\* A redemption that is not the last leaves what the fees are owed out of.
LEMMA RedemptionLeavesFees ==
    ASSUME NEW M \in Nat, NEW T \in Nat, T > 0, T <= ONE * ONE, NEW c \in Nat, c < M,
           NEW r \in Nat, r > 0, r = ExchangeRate(M, T),
           NEW a \in Nat, a = CollateralToLiquidity(r, c)
    PROVE  a * ONE <= T
<1> DEFINE h == a * ONE
           y == M * ONE
           s == r * T
           g == a * r
<1>1. ONE \in Nat /\ ONE > 0
  BY KlendMathAssumption
<1>2. y * ONE < s + T /\ g <= c * ONE
  BY RedeemedAtMost
<1>3. y \in Nat /\ s \in Nat /\ g \in Nat /\ h \in Nat /\ ONE * ONE \in Nat
  BY <1>1, TimesNat
<1> SUFFICES ASSUME T + 1 <= h PROVE FALSE
  BY <1>3
<1>4. (T + 1) * r <= h * r
  <2> HIDE DEF h
  <2>1. T + 1 \in Nat
    OBVIOUS
  <2>2. QED
    BY <1>3, <2>1, TimesBoth
<1>5. (T + 1) * r = s + r /\ h * r = g * ONE
  BY <1>1
<1>6. g * ONE <= (c * ONE) * ONE
  <2>1. c * ONE \in Nat
    BY <1>1, TimesNat
  <2> HIDE DEF g
  <2>2. QED
    BY <1>1, <1>2, <1>3, <2>1, TimesBoth
<1>7. (c * ONE) * ONE + ONE * ONE <= y * ONE
  <2>1. (c + 1) * ONE <= M * ONE
    BY <1>1, TimesBoth
  <2>2. (c + 1) * ONE \in Nat
    BY <1>1, TimesNat
  <2> DEFINE p == (c + 1) * ONE
  <2> HIDE DEF y
  <2>3. p * ONE <= y * ONE
    <3> HIDE DEF p
    <3>1. p \in Nat /\ p <= y
      BY <2>1, <2>2 DEF p, y
    <3>2. QED
      BY <1>1, <1>3, <3>1, TimesBoth
  <2>4. p * ONE = (c * ONE) * ONE + ONE * ONE
    BY <1>1
  <2>5. QED
    BY <2>3, <2>4
<1> DEFINE e1 == g * ONE
           e2 == (c * ONE) * ONE
           e3 == y * ONE
           e4 == ONE * ONE
           e5 == h * r
           e6 == (T + 1) * r
<1>8. /\ e1 \in Nat /\ e2 \in Nat /\ e3 \in Nat /\ e4 \in Nat
      /\ e6 <= e5 /\ e6 = s + r /\ e5 = e1 /\ e1 <= e2 /\ e2 + e4 <= e3 /\ e3 < s + T /\ T <= e4
  <2>1. c * ONE \in Nat
    BY <1>1, TimesNat
  <2>2. g * ONE \in Nat /\ (c * ONE) * ONE \in Nat /\ y * ONE \in Nat
    <3> DEFINE p == c * ONE
    <3> HIDE DEF p, g, y
    <3>1. g * ONE \in Nat /\ p * ONE \in Nat /\ y * ONE \in Nat
      BY <1>1, <1>3, <2>1, TimesNat DEF p
    <3>2. QED
      BY <3>1 DEF p
  <2>3. QED
    BY <1>2, <1>3, <1>4, <1>5, <1>6, <1>7, <2>2
<1> HIDE DEF e1, e2, e3, e4, e5, e6, s
<1>9. QED
  BY <1>3, <1>8
=============================================================================
