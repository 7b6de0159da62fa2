-------------------------- MODULE SaturnArith_proofs --------------------------
(***************************************************************************)
(* Facts about the bond market's arithmetic, for every width U64.          *)
(***************************************************************************)
EXTENDS SaturnArith, TLAPS

\* A wrapped result is a u64.
LEMMA WrapType ==
    ASSUME NEW x \in Int
    PROVE  Wrap(x) \in 0..(U64 - 1)
BY U64Assumption DEF Wrap

\* Wrapping does nothing to a u64 ...
LEMMA WrapSmall ==
    ASSUME NEW x \in 0..(U64 - 1)
    PROVE  Wrap(x) = x
BY U64Assumption DEF Wrap

\* ... and never increases a natural number.
LEMMA WrapLeq ==
    ASSUME NEW x \in Nat
    PROVE  Wrap(x) <= x
<1>1. CASE x < U64  BY <1>1, WrapSmall, U64Assumption
<1>2. CASE x >= U64 BY <1>2, WrapType, U64Assumption
<1>3. QED           BY <1>1, <1>2, U64Assumption

\* Integer division: what rounding down keeps.
LEMMA DivBounds ==
    ASSUME NEW a \in Nat, NEW d \in Nat \ {0}
    PROVE  /\ a \div d \in Nat
           /\ d * (a \div d) <= a
           /\ a < d * (a \div d) + d
OBVIOUS

\* A quotient does not exceed its dividend.
LEMMA DivLeq ==
    ASSUME NEW a \in Nat, NEW d \in Nat \ {0}
    PROVE  a \div d \in 0..a
<1> DEFINE q == a \div d
<1>1. q \in Nat /\ d * q <= a BY DivBounds
<1> HIDE DEF q
<1>2. q <= d * q               BY <1>1
<1>3. q \in 0..a               BY <1>1, <1>2
<1>4. QED                      BY <1>3 DEF q

\* Multiplication is monotone.
LEMMA MulMono ==
    ASSUME NEW a \in Nat, NEW b \in Nat, NEW c \in Nat, a <= b
    PROVE  c * a <= c * b /\ a * c <= b * c
OBVIOUS

-----------------------------------------------------------------------------
\* The quantities of a bond, for any u64 prices.
LEMMA MarkupType ==
    ASSUME NEW spot \in 0..(U64 - 1), NEW backing \in 1..(U64 - 1)
    PROVE  /\ Markup(spot, backing) \in Nat
           /\ 100 * Markup(spot, backing) < U64
<1> DEFINE above == Wrap(spot - backing)
           diff == Premium(spot, backing)
<1>1. above \in 0..(U64 - 1)
  BY WrapType, U64Assumption
<1>2. diff \in Nat
  <2>1. Wrap(above * 100) \in 0..(U64 - 1)
    BY <1>1, WrapType, U64Assumption
  <2>2. QED
    BY <2>1, DivBounds, U64Assumption DEF Premium
<1> HIDE DEF diff
<1>3. Deduction(diff) \in {20, 35, 50, 70}
  BY <1>2 DEF Deduction
<1>4. Wrap(above * Deduction(diff)) \in 0..(U64 - 1)
  <2>1. above * Deduction(diff) \in Int
    BY <1>1, <1>3, U64Assumption
  <2>2. QED
    BY <2>1, WrapType
<1>5. Markup(spot, backing) = Wrap(above * Deduction(diff)) \div 100
  BY DEF Markup, diff
<1> HIDE DEF above
<1>6. QED
  BY <1>4, <1>5, DivBounds, U64Assumption

\* The bond price is the backing price plus the markup, unless that sum passes 2^64.
LEMMA BondPriceCases ==
    ASSUME NEW spot \in 0..(U64 - 1), NEW backing \in 1..(U64 - 1)
    PROVE  /\ BondPrice(spot, backing) \in 0..(U64 - 1)
           /\ Wrap(BondPrice(spot, backing) - backing) = Markup(spot, backing)
           /\ \/ BondPrice(spot, backing) = backing + Markup(spot, backing)
              \/ backing + Markup(spot, backing) >= U64
<1> DEFINE q == Markup(spot, backing)
<1>1. q \in Nat /\ q < U64
  BY MarkupType, U64Assumption
<1> HIDE DEF q
<1>2. BondPrice(spot, backing) = Wrap(backing + q)
  BY DEF BondPrice, q
<1>3. CASE backing + q < U64
  <2>1. Wrap(backing + q) = backing + q
    BY <1>1, <1>3, WrapSmall, U64Assumption
  <2>2. Wrap(q) = q
    BY <1>1, WrapSmall, U64Assumption
  <2>3. (backing + q) - backing = q
    BY <1>1, U64Assumption
  <2>4. QED
    BY <1>1, <1>2, <1>3, <2>1, <2>2, <2>3, U64Assumption DEF q
<1>4. CASE backing + q >= U64
  <2>1. Wrap(backing + q) = backing + q - U64
    BY <1>1, <1>4, U64Assumption DEF Wrap
  <2>2. Wrap(q - U64) = q
    BY <1>1, U64Assumption DEF Wrap
  <2>3. (backing + q - U64) - backing = q - U64
    BY <1>1, U64Assumption
  <2>4. QED
    BY <1>1, <1>2, <1>4, <2>1, <2>2, <2>3, U64Assumption DEF q
<1>5. QED
  BY <1>1, <1>3, <1>4, U64Assumption

\* The stakers are never credited more tokens than the payment is worth: a markup is
\* part of the bond price, and when the bond price wraps the backing price is so large
\* that at most one token comes out.
LEMMA MintBound ==
    ASSUME NEW spot \in 0..(U64 - 1), NEW backing \in 1..(U64 - 1),
           NEW total \in Nat, total < U64, BondPrice(spot, backing) # 0
    PROVE  NumTokenToMint(spot, backing, total) \in 0..total
<1> DEFINE q == Markup(spot, backing)
           bond == BondPrice(spot, backing)
           worth == Wrap(q * total)
           perBacking == worth \div backing
           n == perBacking \div bond
<1>1. /\ q \in Nat
      /\ 100 * q < U64
      /\ bond \in Nat \ {0}
      /\ Wrap(bond - backing) = q
      /\ bond = backing + q \/ backing + q >= U64
  BY MarkupType, BondPriceCases, U64Assumption
<1>2. Wrap(total) = total
  BY WrapSmall, U64Assumption
<1>3. NumTokenToMint(spot, backing, total) = n
  BY <1>1, <1>2 DEF NumTokenToMint
<1> HIDE DEF q, bond
<1>4. q * total \in Nat
  BY <1>1
<1>5. worth \in Nat /\ worth <= q * total /\ worth < U64
  BY <1>4, WrapType, WrapLeq, U64Assumption
<1> HIDE DEF worth
<1>6. perBacking \in Nat /\ backing * perBacking <= worth /\ perBacking <= worth
  BY <1>5, DivBounds, DivLeq, U64Assumption
<1> HIDE DEF perBacking
<1>7. n \in Nat /\ bond * n <= perBacking /\ n <= perBacking
  BY <1>1, <1>6, DivBounds, DivLeq
<1> HIDE DEF n
<1>8. CASE bond = backing + q
  <2>1. bond * n <= q * total
    BY <1>1, <1>4, <1>5, <1>6, <1>7
  <2>2. q <= bond
    BY <1>1, <1>8, U64Assumption
  <2>3. q * total <= bond * total
    BY <1>1, <2>2, MulMono
  <2>4. bond * n <= bond * total
    BY <1>1, <1>4, <1>7, <2>1, <2>3
  <2>5. n <= total
    <3>1. SUFFICES ASSUME n >= total + 1 PROVE FALSE
      BY <1>7
    <3>2. bond * (total + 1) <= bond * n
      BY <1>1, <1>7, <3>1, MulMono
    <3>3. bond * (total + 1) = bond * total + bond
      BY <1>1
    <3>4. QED
      BY <1>1, <1>7, <2>4, <3>2, <3>3
  <2>6. QED
    BY <1>3, <1>7, <2>5
<1>9. CASE backing + q >= U64
  <2>1. 2 * backing >= U64
    BY <1>1, <1>9, U64Assumption
  <2>2. perBacking < 2
    <3>1. SUFFICES ASSUME perBacking >= 2 PROVE FALSE
      BY <1>6
    <3>2. backing * 2 <= backing * perBacking
      BY <1>6, <3>1, MulMono, U64Assumption
    <3>3. QED
      BY <1>5, <1>6, <2>1, <3>2, U64Assumption
  <2>3. CASE total = 0
    <3>1. q * total = 0
      BY <1>1, <2>3
    <3>2. QED
      BY <1>3, <1>5, <1>6, <1>7, <2>3, <3>1
  <2>4. CASE total >= 1
    BY <1>3, <1>6, <1>7, <2>2, <2>4
  <2>5. QED
    BY <2>3, <2>4
<1>10. QED
  BY <1>1, <1>8, <1>9

\* Unless the bond price wraps, the tokens credited are worth, at the backing price, no
\* more than the payment.
LEMMA MintWorth ==
    ASSUME NEW spot \in 0..(U64 - 1), NEW backing \in 1..(U64 - 1),
           NEW total \in Nat, total < U64, backing + Markup(spot, backing) < U64
    PROVE  NumTokenToMint(spot, backing, total) * backing <= total
<1> DEFINE q == Markup(spot, backing)
           bond == BondPrice(spot, backing)
           worth == Wrap(q * total)
           perBacking == worth \div backing
           n == perBacking \div bond
<1>1. /\ q \in Nat
      /\ Wrap(bond - backing) = q
      /\ bond = backing + q
      /\ bond \in Nat \ {0}
  BY MarkupType, BondPriceCases, U64Assumption
<1>2. Wrap(total) = total
  BY WrapSmall, U64Assumption
<1>3. NumTokenToMint(spot, backing, total) = n
  BY <1>1, <1>2 DEF NumTokenToMint
<1> HIDE DEF q, bond
<1>4. q * total \in Nat
  BY <1>1
<1>5. worth \in Nat /\ worth <= q * total
  BY <1>4, WrapType, WrapLeq, U64Assumption
<1> HIDE DEF worth
<1>6. perBacking \in Nat /\ backing * perBacking <= worth
  BY <1>5, DivBounds, U64Assumption
<1> HIDE DEF perBacking
<1>7. n \in Nat /\ bond * n <= perBacking
  BY <1>1, <1>6, DivBounds
<1> HIDE DEF n
<1> DEFINE w == n * backing
<1>8. w \in Nat
  BY <1>7
<1>9. bond * w <= q * total
  <2>1. backing * (bond * n) <= backing * perBacking
    BY <1>1, <1>6, <1>7, MulMono
  <2>2. backing * (bond * n) = bond * w
    BY <1>1, <1>7
  <2> HIDE DEF w
  <2>3. bond * w \in Nat /\ backing * perBacking \in Nat
    BY <1>1, <1>6, <1>8
  <2>4. QED
    BY <1>4, <1>5, <1>6, <2>1, <2>2, <2>3
<1> HIDE DEF w
<1>10. q * total <= bond * total
  <2>1. q <= bond
    BY <1>1
  <2>2. QED
    BY <1>1, <2>1, MulMono
<1>11. w <= total
  <2>1. SUFFICES ASSUME w >= total + 1 PROVE FALSE
    BY <1>8
  <2>2. bond * (total + 1) <= bond * w
    BY <1>1, <1>8, <2>1, MulMono
  <2>3. bond * (total + 1) = bond * total + bond
    BY <1>1
  <2>4. bond * w \in Nat /\ bond * total \in Nat
    BY <1>1, <1>8
  <2>5. QED
    BY <1>1, <1>4, <1>9, <1>10, <2>2, <2>3, <2>4
<1>12. QED
  BY <1>3, <1>11 DEF w

\* What is owed to the buyer is a natural number.
LEMMA RedeemType ==
    ASSUME NEW spot \in 0..(U64 - 1), NEW backing \in 1..(U64 - 1),
           NEW total \in Nat, BondPrice(spot, backing) # 0
    PROVE  NumTokenToRedeem(spot, backing, total) \in Nat
<1>1. BondPrice(spot, backing) \in Nat \ {0}
  BY BondPriceCases, U64Assumption
<1>2. Wrap(total) \in Nat
  BY WrapType, U64Assumption
<1>3. Wrap(backing * Wrap(total)) \in Nat
  <2>1. backing * Wrap(total) \in Int
    BY <1>2, U64Assumption
  <2>2. QED
    BY <2>1, WrapType, U64Assumption
<1>4. Wrap(backing * Wrap(total)) \div backing \in Nat
  BY <1>3, DivBounds, U64Assumption
<1>5. QED
  BY <1>1, <1>4, DivBounds DEF NumTokenToRedeem

\* The backing price is a u64, positive only when there is value behind it.
LEMMA BackingType ==
    ASSUME NEW value \in Int, NEW minted \in Nat
    PROVE  BackingPrice(value, minted) \in 0..(U64 - 1)
<1>1. CASE minted > 0
  <2>1. value \div minted \in Int
    BY <1>1
  <2>2. QED
    BY <1>1, <2>1, U64Assumption DEF BackingPrice, Saturate
<1>2. CASE ~(minted > 0)
  BY <1>2, U64Assumption DEF BackingPrice
<1>3. QED
  BY <1>1, <1>2

\* Tokens worth no more, at the backing price, than the value that comes in with them
\* leave the backing price where it was, or raise it.
LEMMA BackingKept ==
    ASSUME NEW value \in Int, NEW minted \in Nat \ {0}, NEW paid \in Nat, NEW n \in Nat,
           n * BackingPrice(value, minted) <= paid
    PROVE  BackingPrice(value + paid, minted + n) >= BackingPrice(value, minted)
<1> DEFINE b == BackingPrice(value, minted)
           d == minted + n
           x == value + paid
           q == x \div d
<1>1. b \in 0..(U64 - 1) /\ BackingPrice(x, d) \in 0..(U64 - 1)
  <2>1. x \in Int /\ d \in Nat /\ minted \in Nat
    OBVIOUS
  <2> HIDE DEF x, d
  <2>2. QED
    BY <2>1, BackingType
<1>2. CASE b = 0
  BY <1>1, <1>2, U64Assumption
<1>3. CASE b > 0
  <2>1. value \div minted >= b
    BY <1>3, U64Assumption DEF BackingPrice, Saturate
  <2>2. value \in Nat
    <3>1. SUFFICES ASSUME value < 0 PROVE FALSE
      OBVIOUS
    <3>2. value \div minted < 0
      BY <3>1
    <3>3. QED
      BY <1>1, <1>3, <2>1, <3>2, U64Assumption
  <2>3. minted * (value \div minted) <= value /\ value \div minted \in Nat
    BY <2>2, DivBounds
  <2>4. n * b <= paid
    OBVIOUS
  <2> HIDE DEF b
  <2>5. b \in Nat
    BY <1>1, U64Assumption
  <2>6. minted * b <= value
    <3>1. minted * b <= minted * (value \div minted)
      BY <2>1, <2>3, <2>5, MulMono
    <3>2. minted * b \in Nat /\ minted * (value \div minted) \in Nat
      BY <2>3, <2>5
    <3>3. QED
      BY <2>2, <2>3, <3>1, <3>2
  <2>7. d * b <= x
    <3>1. d * b = minted * b + n * b
      BY <2>5
    <3>2. minted * b \in Nat /\ n * b \in Nat
      BY <2>5
    <3>3. QED
      BY <2>2, <2>4, <2>6, <3>1, <3>2
  <2>8. d \in Nat \ {0} /\ x \in Nat
    BY <2>2
  <2> HIDE DEF d, x
  <2>9. q \in Nat /\ x < d * q + d
    BY <2>8, DivBounds
  <2> HIDE DEF q
  <2>10. q >= b
    <3>1. SUFFICES ASSUME b >= q + 1 PROVE FALSE
      BY <2>5, <2>9
    <3>2. d * (q + 1) <= d * b
      BY <2>5, <2>8, <2>9, <3>1, MulMono
    <3>3. d * (q + 1) = d * q + d
      BY <2>8, <2>9
    <3>4. d * q \in Nat /\ d * b \in Nat
      BY <2>5, <2>8, <2>9
    <3>5. QED
      BY <2>7, <2>8, <2>9, <3>2, <3>3, <3>4
  <2>11. BackingPrice(x, d) = Saturate(q)
    BY <2>8 DEF BackingPrice, q
  <2>12. Saturate(q) >= b
    BY <1>1, <2>5, <2>9, <2>10, U64Assumption DEF Saturate
  <2>13. QED
    BY <2>11, <2>12 DEF b, d, x
<1>4. QED
  BY <1>1, <1>2, <1>3, U64Assumption
=============================================================================
