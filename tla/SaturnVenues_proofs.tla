------------------------- MODULE SaturnVenues_proofs -------------------------
(***************************************************************************)
(* What the treasury may trust of its venues, for any amounts, profits and *)
(* fees, any speed at which a profit unlocks and any times.                *)
(***************************************************************************)
EXTENDS SaturnVenuesProperties, TLAPS

-----------------------------------------------------------------------------
(* Integer arithmetic *)

LEMMA Divided ==
    ASSUME NEW a \in Nat, NEW d \in Nat \ {0}
    PROVE  /\ a \div d \in Nat
           /\ d * (a \div d) <= a
           /\ a < d * (a \div d) + d
OBVIOUS

LEMMA Times ==
    ASSUME NEW a \in Nat, NEW b \in Nat, NEW c \in Nat, a <= b
    PROVE  /\ c * a \in Nat /\ c * b \in Nat
           /\ c * a <= c * b /\ a * c <= b * c
OBVIOUS

\* A quotient grows with its dividend ...
LEMMA DividedMono ==
    ASSUME NEW a \in Nat, NEW b \in Nat, NEW d \in Nat \ {0}, a <= b
    PROVE  a \div d <= b \div d
<1> DEFINE p == a \div d
           q == b \div d
<1>1. /\ p \in Nat /\ d * p <= a
      /\ q \in Nat /\ b < d * q + d
  BY Divided
<1> HIDE DEF p, q
<1>2. SUFFICES ASSUME q + 1 <= p PROVE FALSE
  BY <1>1 DEF p, q
<1>3. d * (q + 1) <= d * p
  BY <1>1, <1>2, Times
<1>4. d * (q + 1) = d * q + d
  BY <1>1
<1>5. d * p \in Nat /\ d * q \in Nat
  BY <1>1, Times
<1>6. QED
  BY <1>1, <1>3, <1>4, <1>5

\* ... and a part of a whole is no more than the whole.
LEMMA PartLeq ==
    ASSUME NEW s \in Nat, NEW u \in Nat, NEW d \in Nat \ {0}, s <= d
    PROVE  /\ (s * u) \div d \in Nat
           /\ (s * u) \div d <= u
           /\ d * ((s * u) \div d) <= s * u
<1> DEFINE q == (s * u) \div d
<1>1. s * u \in Nat /\ s * u <= d * u /\ d * u \in Nat
  BY Times
<1>2. q \in Nat /\ d * q <= s * u
  BY <1>1, Divided
<1> HIDE DEF q
<1>3. SUFFICES ASSUME u + 1 <= q PROVE FALSE
  BY <1>1, <1>2 DEF q
<1>4. d * (u + 1) <= d * q
  BY <1>2, <1>3, Times
<1>5. d * (u + 1) = d * u + d /\ d * q \in Nat
  BY <1>2, Times
<1>6. QED
  BY <1>1, <1>2, <1>4, <1>5

-----------------------------------------------------------------------------
(* The vault's locked profit *)

\* What is locked of a profit when a number of parts of it is unlocked.
Locked(profit, ratio) ==
    IF ratio > DENOMINATOR THEN 0 ELSE (profit * (DENOMINATOR - ratio)) \div DENOMINATOR

LEMMA LockedType ==
    ASSUME VenuesAssumption, NEW profit \in Nat, NEW ratio \in Nat
    PROVE  Locked(profit, ratio) \in Nat
<1>1. DENOMINATOR \in Nat \ {0}
  BY DEF VenuesAssumption
<1>2. CASE ratio > DENOMINATOR
  BY <1>2 DEF Locked
<1>3. CASE ~(ratio > DENOMINATOR)
  <2>1. DENOMINATOR - ratio \in Nat
    BY <1>1, <1>3
  <2>2. profit * (DENOMINATOR - ratio) \in Nat
    BY <2>1, Times
  <2>3. QED
    BY <1>1, <1>3, <2>2, Divided DEF Locked
<1>4. QED
  BY <1>2, <1>3

LEMMA LockedAtOnce ==
    ASSUME VenuesAssumption, NEW profit \in Nat
    PROVE  Locked(profit, 0) = profit
<1> DEFINE q == (profit * DENOMINATOR) \div DENOMINATOR
<1>1. DENOMINATOR \in Nat \ {0}
  BY DEF VenuesAssumption
<1>2. Locked(profit, 0) = q
  BY <1>1 DEF Locked
<1>3. profit * DENOMINATOR = DENOMINATOR * profit /\ profit * DENOMINATOR \in Nat
  BY <1>1
<1>4. q \in Nat /\ DENOMINATOR * q <= DENOMINATOR * profit
      /\ DENOMINATOR * profit < DENOMINATOR * q + DENOMINATOR
  BY <1>1, <1>3, Divided
<1> HIDE DEF q
<1>5. q <= profit
  <2>1. SUFFICES ASSUME profit + 1 <= q PROVE FALSE
    BY <1>4
  <2>2. DENOMINATOR * (profit + 1) <= DENOMINATOR * q
    BY <1>1, <1>4, <2>1, Times
  <2>3. DENOMINATOR * (profit + 1) = DENOMINATOR * profit + DENOMINATOR
    BY <1>1
  <2>4. QED
    BY <1>1, <1>3, <1>4, <2>2, <2>3
<1>6. profit <= q
  <2>1. SUFFICES ASSUME q + 1 <= profit PROVE FALSE
    BY <1>4
  <2>2. DENOMINATOR * (q + 1) <= DENOMINATOR * profit
    BY <1>1, <1>4, <2>1, Times
  <2>3. DENOMINATOR * (q + 1) = DENOMINATOR * q + DENOMINATOR
    BY <1>1, <1>4
  <2>4. DENOMINATOR * q \in Nat
    BY <1>1, <1>4, Times
  <2>5. QED
    BY <1>1, <1>3, <1>4, <2>2, <2>3, <2>4
<1>7. QED
  BY <1>2, <1>4, <1>5, <1>6

LEMMA LockedFalls ==
    ASSUME VenuesAssumption, NEW profit \in Nat, NEW m \in Nat, NEW n \in Nat, m <= n
    PROVE  Locked(profit, n) <= Locked(profit, m)
<1>1. DENOMINATOR \in Nat \ {0}
  BY DEF VenuesAssumption
<1>2. CASE n > DENOMINATOR
  <2>1. Locked(profit, n) = 0
    BY <1>2 DEF Locked
  <2>2. QED
    BY <2>1, LockedType
<1>3. CASE ~(n > DENOMINATOR)
  <2>1. /\ DENOMINATOR - n \in Nat /\ DENOMINATOR - m \in Nat
        /\ DENOMINATOR - n <= DENOMINATOR - m
    BY <1>1, <1>3
  <2>2. /\ profit * (DENOMINATOR - n) \in Nat /\ profit * (DENOMINATOR - m) \in Nat
        /\ profit * (DENOMINATOR - n) <= profit * (DENOMINATOR - m)
    BY <2>1, Times
  <2>3. (profit * (DENOMINATOR - n)) \div DENOMINATOR
            <= (profit * (DENOMINATOR - m)) \div DENOMINATOR
    BY <1>1, <2>2, DividedMono
  <2>4. /\ Locked(profit, n) = (profit * (DENOMINATOR - n)) \div DENOMINATOR
        /\ Locked(profit, m) = (profit * (DENOMINATOR - m)) \div DENOMINATOR
    BY <1>1, <1>3 DEF Locked
  <2>5. QED
    BY <2>3, <2>4
<1>4. QED
  BY <1>2, <1>3

\* The state of the vault: times in order, and no more locked than there is.
Ratio == (now - last_report) * locked_profit_degradation
VaultInv ==
    /\ total_amount \in Nat /\ lp_supply \in Nat
    /\ last_updated_locked_profit \in Nat
    /\ last_report \in Nat /\ now \in Nat /\ last_report <= now
    /\ LockedProfit(now) <= total_amount

\* The vault's unlocked amount, when the vault is in order.
LEMMA Unlocked ==
    ASSUME VenuesAssumption, VaultInv
    PROVE  /\ Ratio \in Nat
           /\ LockedProfit(now) = Locked(last_updated_locked_profit, Ratio)
           /\ LockedProfit(now) \in Nat
           /\ UnlockedAmount(now) \in Nat
           /\ UnlockedAmount(now) = total_amount - LockedProfit(now)
<1>1. Ratio \in Nat
  BY DEF VenuesAssumption, VaultInv, Ratio
<1>2. LockedProfit(now) = Locked(last_updated_locked_profit, Ratio)
  BY Zenon DEF LockedProfit, Locked, Ratio
<1>3. LockedProfit(now) \in Nat
  BY <1>1, <1>2, LockedType DEF VaultInv
<1>4. QED
  BY <1>1, <1>2, <1>3 DEF UnlockedAmount, VaultInv

-----------------------------------------------------------------------------
(* What each step does to the vault *)

\* An amount for which shares are given out, at most at what a share is worth.
Kept == /\ VaultInv'
        /\ UnlockedAmount(now)' \in Nat
        /\ lp_supply > 0 => UnlockedAmount(now)' * lp_supply >= UnlockedAmount(now) * lp_supply'

\* A step that leaves the clock and the profit keeps what is locked.
LEMMA LockedKept ==
    ASSUME VenuesAssumption, VaultInv, UNCHANGED <<tracker, now>>
    PROVE  LockedProfit(now)' = LockedProfit(now)
BY DEF LockedProfit, tracker

\* Shares given out for an amount that goes to the unlocked part.
LEMMA SharesGiven ==
    ASSUME NEW unlocked \in Nat \ {0}, NEW supply \in Nat, NEW amount \in Nat
    PROVE  /\ (amount * supply) \div unlocked \in Nat
           /\ (unlocked + amount) * supply
                  >= unlocked * (supply + (amount * supply) \div unlocked)
<1> DEFINE q == (amount * supply) \div unlocked
<1>1. amount * supply \in Nat
  BY Times
<1>2. q \in Nat /\ unlocked * q <= amount * supply
  BY <1>1, Divided
<1> HIDE DEF q
<1>3. /\ (unlocked + amount) * supply = unlocked * supply + amount * supply
      /\ unlocked * (supply + q) = unlocked * supply + unlocked * q
      /\ unlocked * supply \in Nat /\ unlocked * q \in Nat
  BY <1>2, Times
<1>4. QED
  BY <1>1, <1>2, <1>3 DEF q

LEMMA DepositStep ==
    ASSUME VenuesAssumption, VaultInv, NEW amount \in Amounts, VaultDeposit(amount)
    PROVE  Kept /\ UnlockedAmount(now)' >= UnlockedAmount(now)
<1> DEFINE U == UnlockedAmount(now)
           L == LockedProfit(now)
           q == (amount * lp_supply) \div U
<1>1. amount \in Nat \ {0}
  BY DEF VenuesAssumption
<1>2. /\ total_amount' = total_amount + amount
      /\ lp_supply' = lp_supply + IF lp_supply = 0 THEN amount ELSE q
      /\ lp_supply > 0 => U > 0
      /\ UNCHANGED <<tracker, now>>
  BY Zenon DEF VaultDeposit, get_unmint_amount
<1>3. U \in Nat /\ L \in Nat /\ U = total_amount - L
  BY Unlocked
<1>4. L' = L
  BY <1>2, LockedKept
<1>5. U' = total_amount' - L'
  BY DEF UnlockedAmount
<1> HIDE DEF U, L
<1>6. lp_supply \in Nat /\ total_amount \in Nat /\ L <= total_amount
  BY DEF VaultInv, L
<1>7. U' = U + amount
  BY <1>1, <1>2, <1>3, <1>4, <1>5, <1>6
<1>8. lp_supply > 0 => q \in Nat /\ (U + amount) * lp_supply >= U * (lp_supply + q)
  BY <1>1, <1>2, <1>3, <1>6, SharesGiven
<1> HIDE DEF q
<1>9. lp_supply' \in Nat /\ (lp_supply > 0 => lp_supply' = lp_supply + q)
  BY <1>1, <1>2, <1>6, <1>8
<1>10. lp_supply > 0 => U' * lp_supply >= U * lp_supply'
  BY <1>7, <1>8, <1>9
<1>11. VaultInv'
  BY <1>1, <1>2, <1>3, <1>4, <1>6, <1>9 DEF VaultInv, tracker, L
<1>12. U' \in Nat /\ U' >= U
  BY <1>1, <1>3, <1>7
<1>13. QED
  BY <1>10, <1>11, <1>12, Zenon DEF Kept, U

LEMMA WithdrawStep ==
    ASSUME VenuesAssumption, VaultInv, NEW share \in Amounts, VaultWithdraw(share)
    PROVE  Kept
<1> DEFINE U == UnlockedAmount(now)
           L == LockedProfit(now)
           q == (share * U) \div lp_supply
<1>1. share \in Nat \ {0}
  BY DEF VenuesAssumption
<1>2. /\ total_amount' = total_amount - q /\ lp_supply' = lp_supply - share
      /\ lp_supply > 0 /\ share <= lp_supply
      /\ UNCHANGED <<tracker, now>>
  BY Zenon DEF VaultWithdraw, get_amount_by_share
<1>3. U \in Nat /\ L \in Nat /\ U = total_amount - L
  BY Unlocked
<1>4. L' = L
  BY <1>2, LockedKept
<1>5. U' = total_amount' - L'
  BY DEF UnlockedAmount
<1> HIDE DEF U, L
<1>6. lp_supply \in Nat \ {0} /\ total_amount \in Nat
  BY <1>2 DEF VaultInv
<1>7. q \in Nat /\ q <= U /\ lp_supply * q <= share * U
  <2>1. share \in Nat
    BY <1>1
  <2>2. QED
    BY <1>2, <1>3, <1>6, <2>1, PartLeq
<1> HIDE DEF q
<1>8. U' = U - q /\ U' \in Nat /\ total_amount' \in Nat /\ L <= total_amount' /\ lp_supply' \in Nat
  BY <1>1, <1>2, <1>3, <1>4, <1>5, <1>6, <1>7
<1>9. U' * lp_supply >= U * lp_supply'
  <2>1. /\ (U - q) * lp_supply = U * lp_supply - lp_supply * q
        /\ U * (lp_supply - share) = U * lp_supply - share * U
        /\ U * lp_supply \in Nat /\ lp_supply * q \in Nat /\ share * U \in Nat
    BY <1>1, <1>3, <1>6, <1>7, Times
  <2>2. QED
    BY <1>2, <1>7, <1>8, <2>1
<1>10. VaultInv'
  BY <1>2, <1>3, <1>4, <1>8 DEF VaultInv, tracker, L
<1>11. QED
  BY <1>8, <1>9, <1>10, Zenon DEF Kept, U

LEMMA ReportStep ==
    ASSUME VenuesAssumption, VaultInv, NEW profit \in Profits, NEW fee \in Fees,
           VaultReport(profit, fee)
    PROVE  Kept /\ UnlockedAmount(now)' >= UnlockedAmount(now)
<1> DEFINE U == UnlockedAmount(now)
           L == LockedProfit(now)
           q == (fee * lp_supply) \div U
<1>1. profit \in Nat /\ fee \in Nat /\ locked_profit_degradation \in Nat
  BY DEF VenuesAssumption
<1>2. /\ fee <= profit /\ lp_supply > 0 /\ U > 0
      /\ total_amount' = total_amount + profit
      /\ lp_supply' = lp_supply + q
      /\ last_updated_locked_profit' = L + profit - fee
      /\ last_report' = now /\ now' = now
  BY Zenon DEF VaultReport, get_unmint_amount
<1>3. U \in Nat /\ L \in Nat /\ U = total_amount - L
  BY Unlocked
<1>4. last_updated_locked_profit' \in Nat
  BY <1>1, <1>2, <1>3
<1>5. L' = last_updated_locked_profit'
  <2>1. L' = Locked(last_updated_locked_profit', Ratio')
    BY Zenon DEF LockedProfit, Locked, Ratio
  <2>2. Ratio' = 0
    BY <1>1, <1>2 DEF Ratio, VaultInv
  <2> HIDE DEF L
  <2>3. QED
    BY <1>4, <2>1, <2>2, LockedAtOnce
<1>6. U' = total_amount' - L'
  BY DEF UnlockedAmount
<1> HIDE DEF U, L
<1>7. lp_supply \in Nat /\ total_amount \in Nat /\ now \in Nat
  BY DEF VaultInv
<1>8. U' = U + fee /\ U' \in Nat /\ U' >= U
  BY <1>1, <1>2, <1>3, <1>5, <1>6, <1>7
<1>9. q \in Nat /\ (U + fee) * lp_supply >= U * (lp_supply + q)
  BY <1>1, <1>2, <1>3, <1>7, SharesGiven
<1> HIDE DEF q
<1>10. U' * lp_supply >= U * lp_supply'
  BY <1>2, <1>8, <1>9
<1>11. /\ total_amount' \in Nat /\ lp_supply' \in Nat /\ L' <= total_amount'
       /\ last_report' \in Nat /\ now' \in Nat /\ last_report' <= now'
  BY <1>1, <1>2, <1>3, <1>5, <1>7, <1>9
<1>12. VaultInv'
  BY <1>4, <1>11, Zenon DEF VaultInv, L
<1>13. QED
  BY <1>8, <1>10, <1>12, Zenon DEF Kept, U

LEMMA LessLocked ==
    ASSUME NEW total \in Nat, NEW old \in Nat, NEW new \in Nat, old <= total, new <= old
    PROVE  total - new \in Nat /\ total - new >= total - old
OBVIOUS

LEMMA TickStep ==
    ASSUME VenuesAssumption, VaultInv, Tick
    PROVE  Kept /\ UnlockedAmount(now)' >= UnlockedAmount(now)
<1> DEFINE U == UnlockedAmount(now)
           L == LockedProfit(now)
<1>1. /\ now' = now + 1 /\ total_amount' = total_amount /\ lp_supply' = lp_supply
      /\ last_updated_locked_profit' = last_updated_locked_profit /\ last_report' = last_report
  BY Zenon DEF Tick, vault, tracker
<1>2. /\ U \in Nat /\ L \in Nat /\ U = total_amount - L /\ Ratio \in Nat
      /\ L = Locked(last_updated_locked_profit, Ratio)
  BY Unlocked
<1>3. Ratio' \in Nat /\ Ratio <= Ratio'
  <2> DEFINE n == now - last_report
             d == locked_profit_degradation
  <2>1. n \in Nat /\ n' = n + 1 /\ d \in Nat
    BY <1>1 DEF VaultInv, VenuesAssumption
  <2>2. Ratio = n * d /\ Ratio' = n' * d
    BY Zenon DEF Ratio
  <2> HIDE DEF n, d
  <2>3. n' \in Nat /\ n <= n'
    BY <2>1
  <2>4. n * d <= n' * d /\ d * n' \in Nat /\ d * n' = n' * d
    BY <2>1, <2>3, Times
  <2>5. QED
    BY <2>2, <2>4
<1>4. L' = Locked(last_updated_locked_profit, Ratio')
  BY <1>1 DEF LockedProfit, Locked, Ratio
<1>5. U' = total_amount' - L'
  BY DEF UnlockedAmount
<1> HIDE DEF U, L
<1>6. /\ lp_supply \in Nat /\ total_amount \in Nat /\ last_updated_locked_profit \in Nat
      /\ now \in Nat /\ last_report \in Nat /\ last_report <= now /\ L <= total_amount
  BY DEF VaultInv, L
<1>7. L' \in Nat /\ L' <= L
  BY <1>2, <1>3, <1>4, <1>6, LockedType, LockedFalls
<1>8. U' \in Nat /\ U' >= U
  <2>1. /\ total_amount' = total_amount /\ U = total_amount - L /\ U' = total_amount' - L'
        /\ L \in Nat /\ L' \in Nat /\ L' <= L /\ L <= total_amount /\ total_amount \in Nat
    BY <1>1, <1>2, <1>5, <1>6, <1>7, Zenon
  <2>2. total_amount - L' \in Nat /\ total_amount - L' >= total_amount - L
    BY <2>1, LessLocked
  <2>3. U' = total_amount - L' /\ U = total_amount - L
    BY <2>1, Zenon
  <2>4. QED
    BY <2>2, <2>3, Zenon
<1>9. U' * lp_supply >= U * lp_supply'
  BY <1>1, <1>2, <1>6, <1>8, Times
<1>10. L' <= total_amount' /\ now' \in Nat /\ last_report' <= now'
  BY <1>1, <1>2, <1>6, <1>7
<1>11. VaultInv'
  BY <1>1, <1>6, <1>10 DEF VaultInv, L
<1>12. QED
  BY <1>8, <1>9, <1>11, Zenon DEF Kept, U

LEMMA OtherStep ==
    ASSUME VenuesAssumption, VaultInv, UNCHANGED <<vault, now>>
    PROVE  Kept /\ UnlockedAmount(now)' >= UnlockedAmount(now)
<1>1. /\ total_amount' = total_amount /\ lp_supply' = lp_supply /\ now' = now
      /\ last_updated_locked_profit' = last_updated_locked_profit /\ last_report' = last_report
  BY DEF vault, tracker
<1>2. LockedProfit(now)' = LockedProfit(now)
  BY <1>1, LockedKept DEF tracker
<1>3. UnlockedAmount(now)' = UnlockedAmount(now)
  BY <1>1, <1>2 DEF UnlockedAmount
<1>4. UnlockedAmount(now) \in Nat
  BY Unlocked
<1>5. VaultInv'
  BY <1>1, <1>2 DEF VaultInv
<1>6. UnlockedAmount(now)' * lp_supply >= UnlockedAmount(now) * lp_supply'
  <2> DEFINE U == UnlockedAmount(now)
  <2>1. U \in Nat /\ U' = U /\ lp_supply \in Nat
    BY <1>3, <1>4 DEF VaultInv
  <2> HIDE DEF U
  <2>2. U' * lp_supply >= U * lp_supply'
    BY <1>1, <2>1
  <2>3. QED
    BY <2>2 DEF U
<1>7. QED
  BY <1>3, <1>4, <1>5, <1>6 DEF Kept

LEMMA PriceGrows ==
    ASSUME VenuesAssumption, NEW u \in Nat, NEW v \in Nat, v >= u, NEW d \in Nat \ {0}
    PROVE  (2 * u * PRICE_PRECISION) \div d <= (2 * v * PRICE_PRECISION) \div d
<1> DEFINE m == 2 * u
           n == 2 * v
<1>1. m \in Nat /\ n \in Nat /\ m <= n
  OBVIOUS
<1>2. PRICE_PRECISION \in Nat /\ d \in Nat \ {0}
  BY DEF VenuesAssumption
<1> HIDE DEF m, n
<1>3. /\ m * PRICE_PRECISION \in Nat /\ n * PRICE_PRECISION \in Nat
      /\ m * PRICE_PRECISION <= n * PRICE_PRECISION
  BY <1>1, <1>2, Times
<1>4. (m * PRICE_PRECISION) \div d <= (n * PRICE_PRECISION) \div d
  BY <1>2, <1>3, DividedMono
<1>5. QED
  BY <1>4 DEF m, n

LEMMA VaultInit == VenuesAssumption /\ Init => VaultInv
<1> SUFFICES ASSUME VenuesAssumption, Init PROVE VaultInv
  OBVIOUS
<1>1. /\ total_amount = 0 /\ lp_supply = 0 /\ last_updated_locked_profit = 0
      /\ last_report = 0 /\ now = 0
  BY Zenon DEF Init
<1>2. Ratio = 0
  BY <1>1 DEF Ratio, VenuesAssumption
<1>3. LockedProfit(now) = Locked(0, 0)
  BY <1>1, <1>2, Zenon DEF LockedProfit, Locked, Ratio
<1>4. LockedProfit(now) = 0
  BY <1>3, LockedAtOnce
<1>5. QED
  BY <1>1, <1>4 DEF VaultInv

\* Every step keeps the vault in order and what a share is worth; only a withdrawal
\* takes from the unlocked amount.
LEMMA VaultNextKept ==
    ASSUME VenuesAssumption, VaultInv, [Next]_vars
    PROVE  /\ Kept
           /\ \/ UnlockedAmount(now)' >= UnlockedAmount(now)
              \/ \E share \in Amounts : VaultWithdraw(share)
<1>1. ASSUME NEW amount \in Amounts, VaultDeposit(amount)
      PROVE  Kept /\ UnlockedAmount(now)' >= UnlockedAmount(now)
  BY <1>1, DepositStep, Zenon
<1>2. ASSUME NEW share \in Amounts, VaultWithdraw(share)
      PROVE  Kept
  BY <1>2, WithdrawStep, Zenon
<1>3. ASSUME NEW profit \in Profits, NEW fee \in Fees, VaultReport(profit, fee)
      PROVE  Kept /\ UnlockedAmount(now)' >= UnlockedAmount(now)
  BY <1>3, ReportStep, Zenon
<1>4. CASE Tick
  BY <1>4, TickStep, Zenon
<1>5. ASSUME \/ GetValueInMarginfi
             \/ \E amount \in Amounts : MarginfiLend(amount)
             \/ \E amount \in Amounts : MarginfiWithdraw(amount)
             \/ BankMoves
             \/ \E amount \in Amounts : Lock(amount)
             \/ UNCHANGED vars
      PROVE  Kept /\ UnlockedAmount(now)' >= UnlockedAmount(now)
  <2>1. UNCHANGED <<vault, now>>
    BY <1>5, Zenon DEF GetValueInMarginfi, MarginfiLend, MarginfiWithdraw, BankMoves,
       Lock, vars
  <2>2. QED
    BY <2>1, OtherStep, Zenon
<1>6. QED
  BY <1>1, <1>2, <1>3, <1>4, <1>5, Zenon DEF Next, MarginfiNext, VaultNext

\* However fast a profit unlocks, whatever is reported and whoever withdraws whatever
\* part of the vault: no more profit is locked than the vault has, so that
\* get_unlocked_amount is never None and its unwrap in get_value_in_meteora does not
\* panic.
THEOREM LockedProfitStaysCovered == Spec => []LockedProfitCovered
<1>1. Init => VaultInv
  BY VaultInit, VenuesAssumption
<1>2. VaultInv /\ [Next]_vars => VaultInv'
  BY VaultNextKept, VenuesAssumption, Zenon DEF Kept
<1>3. VaultInv => LockedProfitCovered
  BY Unlocked, VenuesAssumption DEF LockedProfitCovered
<1>4. QED
  BY <1>1, <1>2, <1>3, PTL DEF Spec

\* The unlocked amount behind a share never falls, for any amounts, profits and fees:
\* get_amount_by_share and get_unmint_amount round in favour of those who stay.
THEOREM VaultShareStaysKept == Spec => VaultShareKept
<1>1. Init => VaultInv
  BY VaultInit, VenuesAssumption
<1>2. VaultInv /\ [Next]_vars => VaultInv'
  BY VaultNextKept, VenuesAssumption, Zenon DEF Kept
<1>3. VaultInv /\ [Next]_vars =>
          (lp_supply > 0 => UnlockedAmount(now)' * lp_supply >= UnlockedAmount(now) * lp_supply')
  BY VaultNextKept, VenuesAssumption, Zenon DEF Kept
<1>4. QED
  BY <1>1, <1>2, <1>3, PTL DEF Spec, VaultShareKept

\* The tokens of the pool that are locked: no step lowers their number.
LEMMA LockedNext ==
    ASSUME VenuesAssumption, total_locked_lp \in 0..MaxTotal, [Next]_vars
    PROVE  /\ total_locked_lp' \in 0..MaxTotal /\ total_locked_lp' >= total_locked_lp
           /\ total_locked_lp' = total_locked_lp \/ \E amount \in Amounts : Lock(amount)
<1>1. CASE total_locked_lp' = total_locked_lp
  BY <1>1
<1>2. ASSUME NEW amount \in Amounts, Lock(amount)
      PROVE  /\ total_locked_lp' \in 0..MaxTotal /\ total_locked_lp' >= total_locked_lp
             /\ \E a \in Amounts : Lock(a)
  <2>1. /\ total_locked_lp + amount <= MaxTotal
        /\ total_locked_lp' = total_locked_lp + amount
    BY <1>2, Zenon DEF Lock
  <2>2. amount \in Nat /\ MaxTotal \in Nat
    BY DEF VenuesAssumption
  <2>3. total_locked_lp' \in 0..MaxTotal /\ total_locked_lp' >= total_locked_lp
    BY <2>1, <2>2
  <2>4. QED
    BY <1>2, <2>3, Zenon
<1>3. total_locked_lp' = total_locked_lp \/ \E amount \in Amounts : Lock(amount)
  BY Zenon DEF Next, MarginfiNext, VaultNext, GetValueInMarginfi, MarginfiLend,
     MarginfiWithdraw, BankMoves, VaultDeposit, VaultWithdraw, VaultReport, Tick, vars
<1>4. QED
  BY <1>1, <1>2, <1>3, Zenon

\* At any precision, for any amounts locked and in any order: while some of the pool's
\* tokens are locked the price get_value_in_meteora computes falls with a withdrawal
\* from the vault or with a further lock only, and its division never is by zero again.
THEOREM VirtualPriceStaysKept == Spec => VirtualPriceKept
<1> DEFINE Inv == VaultInv /\ total_locked_lp \in 0..MaxTotal
           Step == total_locked_lp > 0 =>
                       /\ total_locked_lp' > 0
                       /\ \/ VirtualPrice' >= VirtualPrice
                          \/ \E share \in Amounts : VaultWithdraw(share)
                          \/ \E amount \in Amounts : Lock(amount)
<1>1. Init => Inv
  <2> SUFFICES ASSUME Init PROVE total_locked_lp \in 0..MaxTotal
    BY VaultInit, VenuesAssumption
  <2>1. total_locked_lp = 0
    BY Zenon DEF Init
  <2>2. QED
    BY <2>1, VenuesAssumption DEF VenuesAssumption
<1>2. Inv /\ [Next]_vars => Inv'
  BY VaultNextKept, LockedNext, VenuesAssumption, Zenon DEF Kept
<1>3. Inv /\ [Next]_vars => Step
  <2> SUFFICES ASSUME VaultInv, total_locked_lp \in 0..MaxTotal, [Next]_vars,
                      total_locked_lp > 0
      PROVE  /\ total_locked_lp' > 0
             /\ \/ VirtualPrice' >= VirtualPrice
                \/ \E share \in Amounts : VaultWithdraw(share)
                \/ \E amount \in Amounts : Lock(amount)
    BY Zenon
  <2>1. /\ total_locked_lp' \in 0..MaxTotal /\ total_locked_lp' >= total_locked_lp
        /\ total_locked_lp' = total_locked_lp \/ \E amount \in Amounts : Lock(amount)
    BY LockedNext, VenuesAssumption, Zenon
  <2>2. total_locked_lp' > 0 /\ total_locked_lp \in Nat \ {0}
    BY <2>1
  <2>3. ASSUME total_locked_lp' = total_locked_lp, UnlockedAmount(now)' >= UnlockedAmount(now)
        PROVE  VirtualPrice' >= VirtualPrice
    <3> DEFINE U == UnlockedAmount(now)
    <3>1. U \in Nat /\ U' \in Nat /\ U' >= U
      BY <2>3, Unlocked, VaultNextKept, VenuesAssumption DEF Kept
    <3>2. /\ VirtualPrice = (2 * U * PRICE_PRECISION) \div total_locked_lp
          /\ VirtualPrice' = (2 * U' * PRICE_PRECISION) \div total_locked_lp
      BY <2>3, Zenon DEF VirtualPrice
    <3> HIDE DEF U
    <3>3. (2 * U * PRICE_PRECISION) \div total_locked_lp
              <= (2 * U' * PRICE_PRECISION) \div total_locked_lp
      BY <2>2, <3>1, PriceGrows, VenuesAssumption
    <3>4. VirtualPrice <= VirtualPrice'
      BY <3>2, <3>3, Zenon
    <3>5. QED
      BY <3>4
  <2>4. \/ UnlockedAmount(now)' >= UnlockedAmount(now)
        \/ \E share \in Amounts : VaultWithdraw(share)
    BY VaultNextKept, VenuesAssumption, Zenon
  <2>5. QED
    BY <2>1, <2>2, <2>3, <2>4, Zenon
<1>4. QED
  BY <1>1, <1>2, <1>3, PTL DEF Spec, VirtualPriceKept

-----------------------------------------------------------------------------
(* marginfi *)

LEMMA MulType ==
    ASSUME VenuesAssumption, NEW f \in Nat, NEW g \in Nat
    PROVE  Mul(f, g) \in Nat /\ Mul(f, g) = Mul(g, f)
<1>1. ONE \in Nat \ {0}
  BY DEF VenuesAssumption
<1>2. f * g \in Nat /\ f * g = g * f
  BY Times
<1>3. QED
  BY <1>1, <1>2, Divided DEF Mul

\* A product grows with its factors ...
LEMMA MulGrows ==
    ASSUME VenuesAssumption, NEW f \in Nat, NEW g \in Nat, NEW h \in Nat, g <= h
    PROVE  Mul(f, g) <= Mul(f, h)
<1>1. ONE \in Nat \ {0}
  BY DEF VenuesAssumption
<1>2. f * g \in Nat /\ f * h \in Nat /\ f * g <= f * h
  BY Times
<1>3. QED
  BY <1>1, <1>2, DividedMono DEF Mul

\* ... and is at least a number multiplied by one or more, and no more than a number
\* multiplied by one or less.
LEMMA MulByOne ==
    ASSUME VenuesAssumption, NEW f \in Nat
    PROVE  Mul(f, ONE) = f
<1> DEFINE q == (f * ONE) \div ONE
<1>1. ONE \in Nat \ {0}
  BY DEF VenuesAssumption
<1>2. f * ONE = ONE * f /\ f * ONE \in Nat
  BY <1>1
<1>3. q \in Nat /\ ONE * q <= ONE * f /\ ONE * f < ONE * q + ONE
  BY <1>1, <1>2, Divided
<1> HIDE DEF q
<1>4. ONE * (q + 1) = ONE * q + ONE /\ ONE * (f + 1) = ONE * f + ONE
  BY <1>1, <1>3
<1>5. q <= f
  <2>1. SUFFICES ASSUME f + 1 <= q PROVE FALSE
    BY <1>3
  <2>2. ONE * (f + 1) <= ONE * q
    BY <1>1, <1>3, <2>1, Times
  <2>3. ONE * f \in Nat /\ ONE * q \in Nat
    BY <1>1, <1>3, Times
  <2>4. QED
    BY <1>1, <1>3, <1>4, <2>2, <2>3
<1>6. f <= q
  <2>1. SUFFICES ASSUME q + 1 <= f PROVE FALSE
    BY <1>3
  <2>2. ONE * (q + 1) <= ONE * f
    BY <1>1, <1>3, <2>1, Times
  <2>3. ONE * f \in Nat /\ ONE * q \in Nat
    BY <1>1, <1>3, Times
  <2>4. QED
    BY <1>1, <1>3, <1>4, <2>2, <2>3
<1>7. QED
  BY <1>3, <1>5, <1>6 DEF Mul, q

\* A part as a fraction of the whole is at most one.
LEMMA QuotOfPart ==
    ASSUME VenuesAssumption, NEW f \in Nat, NEW g \in Nat \ {0}
    PROVE  Quot(f, g) \in Nat /\ (f <= g => Quot(f, g) <= ONE)
<1>1. ONE \in Nat \ {0}
  BY DEF VenuesAssumption
<1>2. f * ONE \in Nat
  BY <1>1, Times
<1>3. Quot(f, g) \in Nat
  BY <1>2, Divided DEF Quot
<1>4. f <= g => Quot(f, g) <= ONE
  BY <1>1, PartLeq DEF Quot
<1>5. QED
  BY <1>3, <1>4

\* Rounded up, a quotient is at most s when s can pay for it.
LEMMA CeilLeq ==
    ASSUME NEW a \in Nat, NEW d \in Nat \ {0}, NEW s \in Nat
    PROVE  /\ (a + d - 1) \div d \in Nat
           /\ (a + d - 1) \div d <= s <=> a <= d * s
<1> DEFINE q == (a + d - 1) \div d
<1>1. a + d - 1 \in Nat
  OBVIOUS
<1>2. q \in Nat /\ d * q <= a + d - 1 /\ a + d - 1 < d * q + d
  BY <1>1, Divided
<1> HIDE DEF q
<1>3. d * q \in Nat /\ d * s \in Nat /\ d * (s + 1) = d * s + d
  BY <1>2, Times
<1>4. ASSUME q <= s PROVE a <= d * s
  <2>1. d * q <= d * s
    BY <1>2, <1>4, Times
  <2>2. QED
    BY <1>2, <1>3, <2>1
<1>5. ASSUME a <= d * s PROVE q <= s
  <2>1. SUFFICES ASSUME s + 1 <= q PROVE FALSE
    BY <1>2
  <2>2. d * (s + 1) <= d * q
    BY <1>2, <2>1, Times
  <2>3. QED
    BY <1>2, <1>3, <1>5, <2>2
<1>6. QED
  BY <1>2, <1>4, <1>5 DEF q

\* What the bank and the balance are, at any time.
BankInv ==
    /\ asset_share_value \in Nat /\ ONE <= asset_share_value
    /\ liability_share_value \in Nat /\ ONE <= liability_share_value
    /\ other_asset_shares \in Nat \ {0} /\ total_liability_shares \in Nat
    /\ asset_shares \in Nat /\ marginfi_lend_assets \in Nat
    /\ last_update \in Nat /\ now \in Nat /\ last_update <= now /\ now <= MaxNow
    /\ LoansCovered

LEMMA BankInit == VenuesAssumption /\ Init => BankInv
<1> SUFFICES ASSUME VenuesAssumption, Init PROVE BankInv
  OBVIOUS
<1>1. /\ asset_share_value = ONE /\ liability_share_value = ONE
      /\ other_asset_shares \in BankShares /\ total_liability_shares = 0
      /\ asset_shares = 0 /\ last_update = 0 /\ marginfi_lend_assets = 0 /\ now = 0
  BY Zenon DEF Init
<1>2. /\ ONE \in Nat \ {0} /\ other_asset_shares \in Nat \ {0} /\ MaxNow \in Nat
  BY <1>1 DEF VenuesAssumption
<1>3. LoansCovered
  <2>1. Mul(0, ONE) = 0
    BY <1>2, MulByOne
  <2>2. other_asset_shares + asset_shares \in Nat
    BY <1>1, <1>2
  <2>3. TotalAssets \in Nat
    BY <1>1, <1>2, <2>2, MulType DEF TotalAssets, get_asset_amount
  <2>4. get_asset_amount(liability_share_value, total_liability_shares) = 0
    BY <1>1, <2>1 DEF get_asset_amount
  <2>5. QED
    BY <2>3, <2>4 DEF LoansCovered
<1>4. QED
  BY <1>1, <1>2, <1>3 DEF BankInv

LEMMA SharesForType ==
    ASSUME VenuesAssumption, BankInv, NEW amount \in Nat
    PROVE  /\ SharesFor(amount) \in Nat
           /\ Withdrawable(amount) <=> amount * ONE * ONE <= asset_share_value * asset_shares
<1>1. ONE \in Nat \ {0} /\ asset_share_value \in Nat \ {0} /\ asset_shares \in Nat
  BY DEF VenuesAssumption, BankInv
<1>2. amount * ONE * ONE \in Nat
  <2>1. amount * ONE \in Nat
    BY <1>1, Times
  <2>2. QED
    BY <1>1, <2>1, Times
<1> DEFINE a == amount * ONE * ONE
<1> HIDE DEF a
<1>3. /\ (a + asset_share_value - 1) \div asset_share_value \in Nat
      /\ (a + asset_share_value - 1) \div asset_share_value <= asset_shares
            <=> a <= asset_share_value * asset_shares
  BY <1>1, <1>2, CeilLeq DEF a
<1>4. QED
  BY <1>3 DEF a, SharesFor, Withdrawable

LEMMA AddedMono ==
    ASSUME NEW k \in Nat, NEW a \in Nat, NEW b \in Nat, a <= b
    PROVE  k + a \in Nat /\ k + b \in Nat /\ k + a <= k + b
OBVIOUS

\* One step per operation of the bank and of the treasury's balance.
LEMMA LendStep ==
    ASSUME VenuesAssumption, BankInv, NEW amount \in Amounts, MarginfiLend(amount)
    PROVE  BankInv' /\ asset_shares <= asset_shares'
<1> DEFINE q == Quot(amount * ONE, asset_share_value)
<1>1. /\ asset_shares' = asset_shares + q
      /\ last_update' \in {last_update, now}
      /\ UNCHANGED <<bank, treasury, now>>
  BY Zenon DEF MarginfiLend, Stamped
<1>2. /\ ONE \in Nat \ {0} /\ asset_share_value \in Nat \ {0} /\ amount \in Nat
      /\ asset_shares \in Nat /\ other_asset_shares \in Nat
  BY DEF VenuesAssumption, BankInv
<1>3. q \in Nat
  BY <1>2, Times, QuotOfPart
<1> HIDE DEF q
<1>4. asset_shares' \in Nat /\ asset_shares <= asset_shares'
  BY <1>1, <1>2, <1>3
<1>5. /\ other_asset_shares + asset_shares \in Nat
      /\ other_asset_shares + asset_shares' \in Nat
      /\ other_asset_shares + asset_shares <= other_asset_shares + asset_shares'
  BY <1>2, <1>4, AddedMono
<1>6. Mul(asset_share_value, other_asset_shares + asset_shares)
          <= Mul(asset_share_value, other_asset_shares + asset_shares')
  BY <1>2, <1>5, MulGrows
<1>7. TotalAssets <= TotalAssets'
  <2>1. /\ TotalAssets = Mul(other_asset_shares + asset_shares, asset_share_value)
        /\ TotalAssets' = Mul(other_asset_shares + asset_shares', asset_share_value)
    BY <1>1 DEF TotalAssets, get_asset_amount, bank, Mul
  <2>2. QED
    BY <1>2, <1>5, <1>6, <2>1, MulType
<1>8. LoansCovered'
  <2> DEFINE loans == get_asset_amount(liability_share_value, total_liability_shares)
             old == TotalAssets
             new == TotalAssets'
  <2>1. loans' = loans
    BY <1>1 DEF bank, get_asset_amount, Mul
  <2>2. loans <= old /\ old <= new
    BY <1>7 DEF BankInv, LoansCovered
  <2>3. loans \in Nat /\ old \in Nat /\ new \in Nat
    <3>1. loans \in Nat
      BY MulType DEF get_asset_amount, BankInv
    <3>2. old \in Nat
      BY <1>2, <1>5, MulType DEF TotalAssets, get_asset_amount
    <3>3. new = Mul(other_asset_shares + asset_shares', asset_share_value)
      BY <1>1 DEF TotalAssets, get_asset_amount, bank, Mul
    <3>4. new \in Nat
      BY <1>2, <1>5, <3>3, MulType
    <3>5. QED
      BY <3>1, <3>2, <3>4
  <2> HIDE DEF loans, old, new
  <2>4. loans <= new
    BY <2>2, <2>3
  <2>5. QED
    BY <2>1, <2>4 DEF LoansCovered, loans, new
<1>9. QED
  BY <1>1, <1>4, <1>8 DEF BankInv, bank, treasury

LEMMA WithdrawalStep ==
    ASSUME VenuesAssumption, BankInv, NEW amount \in Amounts, MarginfiWithdraw(amount)
    PROVE  BankInv'
<1>1. /\ asset_shares' = asset_shares - SharesFor(amount)
      /\ SharesFor(amount) <= asset_shares
      /\ last_update' \in {last_update, now}
      /\ UNCHANGED <<bank, treasury, now>>
      /\ LoansCovered'
  BY Zenon DEF MarginfiWithdraw, Stamped, Withdrawable
<1>2. amount \in Nat /\ asset_shares \in Nat
  BY DEF VenuesAssumption, BankInv
<1>3. SharesFor(amount) \in Nat
  BY <1>2, SharesForType
<1>4. asset_shares' \in Nat
  BY <1>1, <1>2, <1>3
<1>5. QED
  BY <1>1, <1>4 DEF BankInv, bank, treasury

LEMMA BankStep ==
    ASSUME VenuesAssumption, BankInv, BankMoves
    PROVE  /\ BankInv'
           /\ asset_share_value <= asset_share_value' /\ asset_shares' = asset_shares
           /\ marginfi_lend_assets' = marginfi_lend_assets
<1>1. /\ asset_share_value' \in asset_share_value..MaxShareValue
      /\ liability_share_value' \in liability_share_value..MaxShareValue
      /\ other_asset_shares' \in BankShares /\ total_liability_shares' \in Liabilities
      /\ asset_shares' = asset_shares /\ last_update' = last_update
      /\ marginfi_lend_assets' = marginfi_lend_assets /\ now' = now
      /\ LoansCovered'
  BY Zenon DEF BankMoves, balance, treasury
<1>2. /\ ONE \in Nat /\ MaxShareValue \in Nat
      /\ other_asset_shares' \in Nat \ {0} /\ total_liability_shares' \in Nat
  BY <1>1 DEF VenuesAssumption
<1>3. /\ asset_share_value' \in Nat /\ asset_share_value <= asset_share_value'
      /\ ONE <= asset_share_value'
      /\ liability_share_value' \in Nat /\ ONE <= liability_share_value'
  BY <1>1, <1>2 DEF BankInv
<1>4. QED
  BY <1>1, <1>2, <1>3 DEF BankInv

LEMMA ValueStep ==
    ASSUME VenuesAssumption, BankInv, GetValueInMarginfi
    PROVE  BankInv' /\ Withdrawable(marginfi_lend_assets)'
<1>1. /\ marginfi_lend_assets' = asset_shares \div ONE
      /\ UNCHANGED <<bank, balance, now>>
  BY Zenon DEF GetValueInMarginfi, RecordedAssets, ToNum
<1>2. /\ ONE \in Nat \ {0} /\ asset_shares \in Nat /\ asset_share_value \in Nat
      /\ ONE <= asset_share_value
  BY DEF VenuesAssumption, BankInv
<1> DEFINE n == asset_shares \div ONE
<1>3. n \in Nat /\ ONE * n <= asset_shares
  BY <1>2, Divided
<1> HIDE DEF n
<1>4. BankInv'
  BY <1>1, <1>3 DEF BankInv, bank, balance, LoansCovered, TotalAssets, get_asset_amount, Mul, n
<1>5. n * ONE * ONE <= asset_share_value * asset_shares
  <2>1. ONE * n \in Nat /\ n * ONE = ONE * n
    BY <1>2, <1>3, Times
  <2>2. ONE * (ONE * n) <= ONE * asset_shares
    BY <1>2, <1>3, <2>1, Times
  <2>3. ONE * asset_shares <= asset_share_value * asset_shares
    BY <1>2, Times
  <2>4. n * ONE * ONE = ONE * (ONE * n)
    <3> DEFINE k == ONE * n
    <3>1. k \in Nat
      BY <2>1
    <3> HIDE DEF k
    <3>2. k * ONE = ONE * k
      BY <1>2, <3>1
    <3>3. QED
      BY <2>1, <3>2 DEF k
  <2>5. /\ ONE * (ONE * n) \in Nat /\ ONE * asset_shares \in Nat
        /\ asset_share_value * asset_shares \in Nat
    BY <1>2, <2>1, Times
  <2>6. QED
    BY <2>2, <2>3, <2>4, <2>5
<1>6. Withdrawable(n)
  BY <1>3, <1>5, SharesForType
<1>7. QED
  BY <1>1, <1>4, <1>6 DEF Withdrawable, SharesFor, bank, balance, n

\* The vault and the clock leave the bank alone.
LEMMA ElsewhereStep ==
    ASSUME VenuesAssumption, BankInv,
           \/ \E amount \in Amounts : VaultDeposit(amount)
           \/ \E share \in Amounts : VaultWithdraw(share)
           \/ \E profit \in Profits, fee \in Fees : VaultReport(profit, fee)
           \/ \E amount \in Amounts : Lock(amount)
           \/ Tick
           \/ UNCHANGED vars
    PROVE  /\ BankInv'
           /\ asset_share_value' = asset_share_value /\ asset_shares' = asset_shares
           /\ marginfi_lend_assets' = marginfi_lend_assets
<1>1. /\ UNCHANGED <<bank, balance, treasury>>
      /\ now' = now \/ (now < MaxNow /\ now' = now + 1)
  BY Zenon DEF VaultDeposit, VaultWithdraw, VaultReport, Lock, Tick, vars
<1>2. /\ now' \in Nat /\ now <= now' /\ now' <= MaxNow
  BY <1>1 DEF BankInv, VenuesAssumption
<1>3. last_update \in Nat /\ last_update <= now /\ now \in Nat
  BY DEF BankInv
<1>4. last_update' \in Nat /\ last_update' <= now'
  BY <1>1, <1>2, <1>3 DEF balance
<1>5. QED
  BY <1>1, <1>2, <1>4 DEF BankInv, bank, balance, treasury, LoansCovered, TotalAssets,
     get_asset_amount, Mul

LEMMA BankNext ==
    ASSUME VenuesAssumption, BankInv, [Next]_vars
    PROVE  BankInv'
<1>1. ASSUME NEW amount \in Amounts, MarginfiLend(amount) PROVE BankInv'
  BY <1>1, LendStep, Zenon
<1>2. ASSUME NEW amount \in Amounts, MarginfiWithdraw(amount) PROVE BankInv'
  BY <1>2, WithdrawalStep, Zenon
<1>3. CASE BankMoves
  BY <1>3, BankStep, Zenon
<1>4. CASE GetValueInMarginfi
  BY <1>4, ValueStep, Zenon
<1>5. ASSUME \/ \E amount \in Amounts : VaultDeposit(amount)
             \/ \E share \in Amounts : VaultWithdraw(share)
             \/ \E profit \in Profits, fee \in Fees : VaultReport(profit, fee)
             \/ \E amount \in Amounts : Lock(amount)
             \/ Tick
             \/ UNCHANGED vars
      PROVE  BankInv'
  BY <1>5, ElsewhereStep, Zenon
<1>6. QED
  BY <1>1, <1>2, <1>3, <1>4, <1>5, Zenon DEF Next, MarginfiNext, VaultNext

LEMMA Transitive ==
    ASSUME NEW a \in Nat, NEW b \in Nat, NEW c \in Nat, a <= b, b <= c
    PROVE  a <= c
OBVIOUS

\* What can be paid for at one share value can be paid for at a higher one.
LEMMA CeilFalls ==
    ASSUME NEW a \in Nat, NEW d \in Nat \ {0}, NEW e \in Nat \ {0}, d <= e, NEW s \in Nat,
           (a + d - 1) \div d <= s
    PROVE  (a + e - 1) \div e <= s
<1>1. a <= d * s
  BY CeilLeq
<1>2. d * s <= e * s /\ d * s \in Nat /\ e * s \in Nat
  BY Times
<1>3. a <= e * s
  BY <1>1, <1>2
<1>4. QED
  BY <1>3, CeilLeq

LEMMA WithdrawableKept ==
    ASSUME VenuesAssumption, BankInv, Withdrawable(marginfi_lend_assets),
           asset_share_value' \in Nat, asset_share_value <= asset_share_value',
           asset_shares' \in Nat, asset_shares <= asset_shares',
           marginfi_lend_assets' = marginfi_lend_assets
    PROVE  Withdrawable(marginfi_lend_assets)'
<1> DEFINE a == marginfi_lend_assets * ONE * ONE
           d == asset_share_value
           e == asset_share_value'
           q == (a + d - 1) \div d
           r == (a + e - 1) \div e
<1>1. /\ ONE \in Nat \ {0} /\ d \in Nat \ {0} /\ asset_shares \in Nat
      /\ marginfi_lend_assets \in Nat
  BY DEF VenuesAssumption, BankInv
<1>2. a \in Nat
  <2>1. marginfi_lend_assets * ONE \in Nat
    BY <1>1, Times
  <2>2. QED
    BY <1>1, <2>1, Times
<1>3. e \in Nat \ {0} /\ d <= e
  BY <1>1
<1>4. q <= asset_shares
  BY DEF Withdrawable, SharesFor
<1>5. (Withdrawable(marginfi_lend_assets))' <=> r <= asset_shares'
  BY DEF Withdrawable, SharesFor
<1> HIDE DEF a
<1>6. r <= asset_shares /\ r \in Nat
  BY <1>1, <1>2, <1>3, <1>4, CeilFalls, CeilLeq
<1> HIDE DEF q, r, d, e
<1>7. r <= asset_shares'
  BY <1>1, <1>6, Transitive
<1>8. QED
  BY <1>5, <1>7

\* An amount recorded by get_value_in_marginfi stays withdrawable until something is
\* withdrawn, for any amounts, any interest and any moves of the bank that do not lower
\* its share value, and every new record is withdrawable at once: what is recorded is
\* at most what a share was worth at first for each share.
THEOREM RecordedAssetsStayWithdrawable == Spec => RecordedAssetsWithdrawable
<1>1. Init => BankInv
  BY BankInit, VenuesAssumption
<1>2. BankInv /\ [Next]_vars => BankInv'
  BY BankNext, VenuesAssumption, Zenon
<1>3. BankInv /\ BankInv' /\ [Next]_vars =>
          (Withdrawable(marginfi_lend_assets) =>
              \/ Withdrawable(marginfi_lend_assets)'
              \/ \E amount \in Amounts : MarginfiWithdraw(amount))
  <2> SUFFICES ASSUME BankInv, BankInv', [Next]_vars, Withdrawable(marginfi_lend_assets),
                      ~ \E amount \in Amounts : MarginfiWithdraw(amount)
      PROVE  Withdrawable(marginfi_lend_assets)'
    BY Zenon
  <2>1. /\ asset_share_value' \in Nat /\ asset_shares' \in Nat
        /\ asset_share_value \in Nat /\ asset_shares \in Nat
    BY Zenon DEF BankInv
  <2>2. ASSUME NEW amount \in Amounts, MarginfiLend(amount)
        PROVE  Withdrawable(marginfi_lend_assets)'
    <3>1. /\ asset_shares <= asset_shares' /\ asset_share_value' = asset_share_value
          /\ marginfi_lend_assets' = marginfi_lend_assets
      BY <2>2, LendStep, VenuesAssumption, Zenon DEF MarginfiLend, bank, treasury
    <3>2. asset_share_value <= asset_share_value'
      BY <2>1, <3>1
    <3>3. QED
      BY <2>1, <3>1, <3>2, WithdrawableKept, VenuesAssumption, Zenon
  <2>3. CASE BankMoves
    <3>1. /\ asset_share_value <= asset_share_value' /\ asset_shares' = asset_shares
          /\ marginfi_lend_assets' = marginfi_lend_assets
      BY <2>3, BankStep, VenuesAssumption, Zenon
    <3>2. asset_shares <= asset_shares'
      BY <2>1, <3>1
    <3>3. QED
      BY <2>1, <3>1, <3>2, WithdrawableKept, VenuesAssumption, Zenon
  <2>4. CASE GetValueInMarginfi
    BY <2>4, ValueStep, VenuesAssumption, Zenon
  <2>5. ASSUME \/ \E amount \in Amounts : VaultDeposit(amount)
               \/ \E share \in Amounts : VaultWithdraw(share)
               \/ \E profit \in Profits, fee \in Fees : VaultReport(profit, fee)
               \/ \E amount \in Amounts : Lock(amount)
               \/ Tick
               \/ UNCHANGED vars
        PROVE  Withdrawable(marginfi_lend_assets)'
    <3>1. /\ asset_share_value' = asset_share_value /\ asset_shares' = asset_shares
          /\ marginfi_lend_assets' = marginfi_lend_assets
      BY <2>5, ElsewhereStep, VenuesAssumption, Zenon
    <3>2. asset_shares <= asset_shares' /\ asset_share_value <= asset_share_value'
      BY <2>1, <3>1
    <3>3. QED
      BY <2>1, <3>1, <3>2, WithdrawableKept, VenuesAssumption, Zenon
  <2>6. QED
    BY <2>2, <2>3, <2>4, <2>5, Zenon DEF Next, MarginfiNext, VaultNext
<1>4. QED
  BY <1>1, <1>2, <1>3, PTL DEF Spec, RecordedAssetsWithdrawable

-----------------------------------------------------------------------------
(* The estimate of the treasury's assets in marginfi *)

LEMMA Tenths ==
    ASSUME VenuesAssumption
    PROVE  ONE \div 10 \in Nat \ {0} /\ ONE = 10 * (ONE \div 10)
BY DEF VenuesAssumption

\* Up to full use the rate is at most 300 %.
LEMMA RateAtMost ==
    ASSUME VenuesAssumption, NEW ur \in Nat, ur <= ONE
    PROVE  interest_rate_curve(ur) \in Nat /\ interest_rate_curve(ur) <= 3 * ONE
<1> DEFINE t == ONE \div 10
           optimal == 6 * t
           plateau == 4 * t
           rest == 3 * ONE - plateau
           p == Quot(ur, optimal)
           q == Quot(ur - optimal, ONE - optimal)
<1>1. t \in Nat \ {0} /\ ONE = 10 * t
  BY Tenths
<1> HIDE DEF t
<1>2. /\ optimal \in Nat \ {0} /\ plateau \in Nat /\ ONE - optimal \in Nat \ {0}
      /\ rest \in Nat /\ rest + plateau = 3 * ONE /\ plateau <= 3 * ONE /\ 3 * ONE \in Nat
      /\ ONE \in Nat
  BY <1>1
<1>3. interest_rate_curve(ur) = IF ur <= optimal THEN Mul(p, plateau) ELSE Mul(q, rest) + plateau
  BY DEF interest_rate_curve, t
<1> HIDE DEF optimal, plateau, rest
<1>4. CASE ur <= optimal
  <2>1. p \in Nat /\ p <= ONE
    BY <1>2, <1>4, QuotOfPart
  <2> HIDE DEF p
  <2>2. Mul(plateau, p) <= Mul(plateau, ONE) /\ Mul(plateau, p) \in Nat
    BY <1>2, <2>1, MulGrows, MulType
  <2>3. Mul(plateau, ONE) = plateau /\ Mul(p, plateau) = Mul(plateau, p)
    BY <1>2, <2>1, MulByOne, MulType
  <2>4. QED
    BY <1>2, <1>3, <1>4, <2>2, <2>3
<1>5. CASE ~(ur <= optimal)
  <2>1. /\ ur - optimal \in Nat /\ ur - optimal <= ONE - optimal
    BY <1>2, <1>5
  <2>2. q \in Nat /\ q <= ONE
    BY <1>2, <2>1, QuotOfPart
  <2> HIDE DEF q
  <2>3. Mul(rest, q) <= Mul(rest, ONE) /\ Mul(rest, q) \in Nat
    BY <1>2, <2>2, MulGrows, MulType
  <2>4. Mul(rest, ONE) = rest /\ Mul(q, rest) = Mul(rest, q)
    BY <1>2, <2>2, MulByOne, MulType
  <2>5. QED
    BY <1>2, <1>3, <1>5, <2>3, <2>4
<1>6. QED
  BY <1>4, <1>5

LEMMA InterestAtMost ==
    ASSUME VenuesAssumption, NEW ur \in Nat, ur <= ONE
    PROVE  calc_interest_rate(ur) \in Nat /\ calc_interest_rate(ur) <= 3 * ONE
<1> DEFINE c == interest_rate_curve(ur)
<1>1. c \in Nat /\ c <= 3 * ONE
  BY RateAtMost
<1> HIDE DEF c
<1>2. ONE \in Nat
  BY DEF VenuesAssumption
<1>3. Mul(c, ur) \in Nat /\ Mul(c, ur) <= Mul(c, ONE) /\ Mul(c, ONE) = c
  BY <1>1, <1>2, MulType, MulGrows, MulByOne
<1>4. QED
  BY <1>1, <1>2, <1>3 DEF calc_interest_rate, c

\* A bank that lends no more than it has is used to at most one.
LEMMA UseAtMostOne ==
    ASSUME VenuesAssumption, BankInv
    PROVE  UtilizationRate \in Nat /\ UtilizationRate <= ONE
<1> DEFINE shares == total_liability_shares
           value == liability_share_value
           loan == Quot(shares, value)
           all == other_asset_shares + asset_shares
<1>1. /\ ONE \in Nat \ {0} /\ shares \in Nat /\ value \in Nat \ {0} /\ ONE <= value
      /\ all \in Nat \ {0} /\ asset_share_value \in Nat /\ ONE <= asset_share_value
      /\ LoansCovered
  BY DEF VenuesAssumption, BankInv
<1>2. loan \in Nat /\ loan <= shares
  <2>1. shares * ONE \in Nat /\ ONE * shares <= value * shares /\ value * shares \in Nat
    BY <1>1, Times
  <2>2. loan \in Nat /\ value * loan <= shares * ONE
    BY <1>1, <2>1, Divided DEF Quot
  <2> HIDE DEF loan, shares, value
  <2>3. SUFFICES ASSUME shares + 1 <= loan PROVE FALSE
    BY <1>1, <2>2
  <2>4. value * (shares + 1) <= value * loan
    BY <1>1, <2>2, <2>3, Times
  <2>5. value * (shares + 1) = value * shares + value /\ shares * ONE = ONE * shares
    BY <1>1
  <2>6. value * loan \in Nat
    BY <1>1, <2>2, Times
  <2>7. QED
    BY <1>1, <2>1, <2>2, <2>4, <2>5, <2>6
<1>3. Mul(shares, value) \in Nat /\ shares <= Mul(shares, value)
  <2>1. Mul(shares, ONE) <= Mul(shares, value)
    BY <1>1, MulGrows
  <2>2. QED
    BY <1>1, <2>1, MulType, MulByOne
<1>4. Mul(all, asset_share_value) \in Nat /\ all <= Mul(all, asset_share_value)
  <2>1. Mul(all, ONE) <= Mul(all, asset_share_value)
    BY <1>1, MulGrows
  <2>2. QED
    BY <1>1, <2>1, MulType, MulByOne
<1>5. TotalAssets = Mul(all, asset_share_value)
  BY DEF TotalAssets, get_asset_amount
<1>6. Mul(shares, value) <= TotalAssets
  BY <1>1 DEF LoansCovered, get_asset_amount
<1>7. UtilizationRate = Quot(loan, TotalAssets)
  BY DEF UtilizationRate, get_liability_amount
<1> HIDE DEF shares, value, loan, all
<1>8. TotalAssets \in Nat \ {0} /\ loan <= TotalAssets
  BY <1>1, <1>2, <1>3, <1>4, <1>5, <1>6
<1>9. QED
  BY <1>2, <1>7, <1>8, QuotOfPart

LEMMA ValueBounded ==
    ASSUME VenuesAssumption, BankInv
    PROVE  MarginfiValueBounded
<1> DEFINE rate == calc_interest_rate(UtilizationRate)
           since == now - last_update
           gain == (rate * since) \div SECONDS_PER_YEAR
           limit == (3 * ONE * since) \div SECONDS_PER_YEAR
           v == asset_share_value
<1>1. /\ ONE \in Nat \ {0} /\ SECONDS_PER_YEAR \in Nat \ {0} /\ U64 \in Nat /\ U64 > MaxNow
      /\ MaxNow \in Nat
      /\ v \in Nat /\ asset_shares \in Nat /\ since \in Nat /\ since <= MaxNow
  BY DEF VenuesAssumption, BankInv
<1>2. TimeDelta = since
  <2> HIDE DEF since
  <2>1. since % U64 = since
    BY <1>1
  <2>2. QED
    BY <2>1 DEF TimeDelta, since
<1>3. rate \in Nat /\ rate <= 3 * ONE
  BY UseAtMostOne, InterestAtMost
<1>4. MarginfiValue = Mul(asset_shares, Mul(v, ONE + gain))
  BY <1>2, Zenon DEF MarginfiValue, get_asset_amount, calc_accrued_interest
<1> HIDE DEF rate, since
<1>5. /\ rate * since \in Nat /\ 3 * ONE * since \in Nat
      /\ rate * since <= 3 * ONE * since
  <2>1. 3 * ONE \in Nat
    BY <1>1
  <2>2. QED
    BY <1>1, <1>3, <2>1, Times
<1>6. gain \in Nat /\ limit \in Nat /\ gain <= limit
  BY <1>1, <1>5, Divided, DividedMono
<1> HIDE DEF gain, limit, v
<1>7. /\ ONE + gain \in Nat /\ ONE + limit \in Nat
      /\ ONE <= ONE + gain /\ ONE + gain <= ONE + limit
  BY <1>1, <1>6
<1>8. /\ Mul(v, ONE + gain) \in Nat /\ Mul(v, ONE + limit) \in Nat
      /\ Mul(v, ONE) = v /\ Mul(v, ONE) <= Mul(v, ONE + gain)
      /\ Mul(v, ONE + gain) <= Mul(v, ONE + limit)
  BY <1>1, <1>7, MulType, MulByOne, MulGrows
<1> DEFINE x == Mul(v, ONE + gain)
           y == Mul(v, ONE + limit)
<1>9. x \in Nat /\ y \in Nat /\ v <= x /\ x <= y
  BY <1>8
<1> HIDE DEF x, y
<1>10. /\ Mul(asset_shares, v) <= Mul(asset_shares, x)
       /\ Mul(asset_shares, x) <= Mul(asset_shares, y)
       /\ Mul(asset_shares, y) = Mul(y, asset_shares)
       /\ Mul(asset_shares, v) \in Nat /\ Mul(asset_shares, x) \in Nat
       /\ Mul(y, asset_shares) \in Nat
  BY <1>1, <1>9, MulGrows, MulType
<1>11. /\ MarginfiValue >= Mul(asset_shares, v)
       /\ MarginfiValue <= Mul(y, asset_shares)
  BY <1>4, <1>10 DEF x
<1>12. QED
  BY <1>11, Zenon DEF MarginfiValueBounded, get_asset_amount, y, v, limit, since

\* For any share values and loans a sound bank can have, and any time since the balance
\* was touched: the amount get_value_in_marginfi records is at least what the bank would
\* pay at the share value it has stored, and at most that with interest at 300 % a year,
\* without a wrap of the time or a use of the bank above one.
THEOREM MarginfiValueStaysBounded == Spec => []MarginfiValueBounded
<1>1. Init => BankInv
  BY BankInit, VenuesAssumption
<1>2. BankInv /\ [Next]_vars => BankInv'
  BY BankNext, VenuesAssumption, Zenon
<1>3. BankInv => MarginfiValueBounded
  BY ValueBounded, VenuesAssumption, Zenon
<1>4. QED
  BY <1>1, <1>2, <1>3, PTL DEF Spec

-----------------------------------------------------------------------------
(* The lending rate *)

LEMMA QuotGrows ==
    ASSUME VenuesAssumption, NEW f \in Nat, NEW g \in Nat, f <= g, NEW h \in Nat \ {0}
    PROVE  Quot(f, h) \in Nat /\ Quot(g, h) \in Nat /\ Quot(f, h) <= Quot(g, h)
<1>1. ONE \in Nat
  BY DEF VenuesAssumption
<1>2. f * ONE \in Nat /\ g * ONE \in Nat /\ f * ONE <= g * ONE
  BY <1>1, Times
<1>3. QED
  BY <1>2, Divided, DividedMono DEF Quot

LEMMA ScaledGrows ==
    ASSUME VenuesAssumption, NEW f \in Nat, NEW g \in Nat, f <= g, NEW h \in Nat \ {0},
           NEW k \in Nat
    PROVE  /\ Mul(Quot(f, h), k) \in Nat /\ Mul(Quot(g, h), k) \in Nat
           /\ Mul(Quot(f, h), k) <= Mul(Quot(g, h), k)
<1> DEFINE p == Quot(f, h)
           q == Quot(g, h)
<1>1. p \in Nat /\ q \in Nat /\ p <= q
  BY QuotGrows
<1> HIDE DEF p, q
<1>2. /\ Mul(p, k) \in Nat /\ Mul(q, k) \in Nat
      /\ Mul(p, k) = Mul(k, p) /\ Mul(q, k) = Mul(k, q)
      /\ Mul(k, p) <= Mul(k, q)
  BY <1>1, MulType, MulGrows
<1>3. QED
  BY <1>2 DEF p, q

\* Both lines of the curve rise, and the second starts where the first is at most.
LEMMA CurveGrows ==
    ASSUME VenuesAssumption, NEW u \in Nat, NEW v \in Nat, u <= v
    PROVE  /\ interest_rate_curve(u) \in Nat /\ interest_rate_curve(v) \in Nat
           /\ interest_rate_curve(u) <= interest_rate_curve(v)
<1> DEFINE t == ONE \div 10
           optimal == 6 * t
           plateau == 4 * t
           rest == 3 * ONE - plateau
           above == ONE - optimal
           First(ur) == Mul(Quot(ur, optimal), plateau)
           Second(ur) == Mul(Quot(ur - optimal, above), rest) + plateau
<1>1. t \in Nat \ {0} /\ ONE = 10 * t
  BY Tenths
<1> HIDE DEF t
<1>2. /\ optimal \in Nat \ {0} /\ plateau \in Nat /\ above \in Nat \ {0} /\ rest \in Nat
      /\ optimal <= ONE
  BY <1>1
<1>3. \A ur \in Nat :
          interest_rate_curve(ur) = IF ur <= optimal THEN First(ur) ELSE Second(ur)
  BY DEF interest_rate_curve, t
<1> HIDE DEF optimal, plateau, above, rest
<1>4. CASE v <= optimal
  <2>1. u <= optimal
    BY <1>2, <1>4
  <2>2. First(u) \in Nat /\ First(v) \in Nat /\ First(u) <= First(v)
    BY <1>2, ScaledGrows
  <2>3. QED
    BY <1>3, <1>4, <2>1, <2>2
<1>5. CASE u <= optimal /\ ~(v <= optimal)
  <2>1. v - optimal \in Nat
    BY <1>2, <1>5
  <2>2. Mul(Quot(v - optimal, above), rest) \in Nat
    BY <1>2, <2>1, ScaledGrows
  <2>3. Second(v) \in Nat /\ plateau <= Second(v)
    BY <1>2, <2>2
  <2>4. First(u) \in Nat /\ First(u) <= plateau
    <3> DEFINE p == Quot(u, optimal)
    <3>1. p \in Nat /\ p <= ONE
      BY <1>2, <1>5, QuotOfPart
    <3> HIDE DEF p
    <3>2. ONE \in Nat
      BY DEF VenuesAssumption
    <3>3. /\ Mul(p, plateau) \in Nat /\ Mul(p, plateau) = Mul(plateau, p)
          /\ Mul(plateau, p) <= Mul(plateau, ONE) /\ Mul(plateau, ONE) = plateau
      BY <1>2, <3>1, <3>2, MulType, MulGrows, MulByOne
    <3>4. QED
      BY <3>3 DEF p
  <2> HIDE DEF First, Second
  <2>5. interest_rate_curve(u) = First(u) /\ interest_rate_curve(v) = Second(v)
    BY <1>3, <1>5
  <2>6. QED
    BY <1>2, <2>3, <2>4, <2>5
<1>6. CASE ~(u <= optimal) /\ ~(v <= optimal)
  <2>1. u - optimal \in Nat /\ v - optimal \in Nat /\ u - optimal <= v - optimal
    BY <1>2, <1>6
  <2>2. /\ Mul(Quot(u - optimal, above), rest) \in Nat
        /\ Mul(Quot(v - optimal, above), rest) \in Nat
        /\ Mul(Quot(u - optimal, above), rest) <= Mul(Quot(v - optimal, above), rest)
    BY <1>2, <2>1, ScaledGrows
  <2>3. Second(u) \in Nat /\ Second(v) \in Nat /\ Second(u) <= Second(v)
    BY <1>2, <2>2
  <2> HIDE DEF First, Second
  <2>4. QED
    BY <1>3, <1>6, <2>3
<1>7. QED
  BY <1>4, <1>5, <1>6

\* For every width of the numbers in which a tenth is exact: the lending rate never
\* falls as more of the bank is borrowed, whatever the two lines and the product round.
THEOREM LendingRateGrowsWithUse == Spec => []RateGrowsWithUse
<1>1. ASSUME NEW u \in Nat, NEW v \in Nat, u <= v
      PROVE  calc_interest_rate(u) <= calc_interest_rate(v)
  <2> DEFINE c == interest_rate_curve(u)
             d == interest_rate_curve(v)
  <2>1. c \in Nat /\ d \in Nat /\ c <= d
    BY <1>1, CurveGrows, VenuesAssumption
  <2> HIDE DEF c, d
  <2>2. /\ Mul(c, u) \in Nat /\ Mul(c, v) \in Nat /\ Mul(d, v) \in Nat
        /\ Mul(c, v) = Mul(v, c) /\ Mul(d, v) = Mul(v, d)
    BY <2>1, MulType, VenuesAssumption
  <2>3. Mul(c, u) <= Mul(c, v) /\ Mul(v, c) <= Mul(v, d)
    BY <1>1, <2>1, MulGrows, VenuesAssumption
  <2>4. QED
    BY <2>2, <2>3 DEF calc_interest_rate, c, d
<1>2. \A ur \in 0..(2 * ONE) : calc_interest_rate(ur) <= calc_interest_rate(ur + 1)
  <2> TAKE ur \in 0..(2 * ONE)
  <2>1. ur \in Nat /\ ur + 1 \in Nat /\ ur <= ur + 1
    BY VenuesAssumption DEF VenuesAssumption
  <2>2. QED
    BY <1>1, <2>1
<1>3. RateGrowsWithUse
  BY <1>2, Zenon DEF RateGrowsWithUse
<1>4. QED
  BY <1>3, PTL

-----------------------------------------------------------------------------
(* The type of the state *)

\* What the bank and the vault have no need of: the bounds of the model, and the value
\* recorded.
Bounds ==
    /\ asset_share_value <= MaxShareValue /\ liability_share_value <= MaxShareValue
    /\ other_asset_shares \in BankShares /\ total_liability_shares \in Liabilities \cup {0}
    /\ marginfi_lend_value \in Nat
    /\ total_amount <= MaxTotal

LEMMA ValueType ==
    ASSUME VenuesAssumption, BankInv
    PROVE  MarginfiValue \in Nat
<1> DEFINE rate == calc_interest_rate(UtilizationRate)
           gain == (rate * TimeDelta) \div SECONDS_PER_YEAR
           v == asset_share_value
<1>1. /\ ONE \in Nat /\ SECONDS_PER_YEAR \in Nat \ {0} /\ U64 \in Nat \ {0}
      /\ v \in Nat /\ asset_shares \in Nat /\ now - last_update \in Nat
  BY DEF VenuesAssumption, BankInv
<1>2. TimeDelta \in Nat
  BY <1>1 DEF TimeDelta
<1>3. rate \in Nat
  BY UseAtMostOne, InterestAtMost
<1>4. MarginfiValue = Mul(asset_shares, Mul(v, ONE + gain))
  BY Zenon DEF MarginfiValue, get_asset_amount, calc_accrued_interest
<1> HIDE DEF rate
<1>5. rate * TimeDelta \in Nat
  BY <1>2, <1>3, Times
<1>6. gain \in Nat
  BY <1>1, <1>5, Divided
<1> HIDE DEF gain, v
<1>7. ONE + gain \in Nat
  BY <1>1, <1>6
<1>8. Mul(v, ONE + gain) \in Nat
  BY <1>1, <1>7, MulType
<1>9. QED
  BY <1>1, <1>4, <1>8, MulType

LEMMA BoundsNext ==
    ASSUME VenuesAssumption, BankInv, VaultInv, Bounds, [Next]_vars
    PROVE  Bounds'
<1>1. ASSUME UNCHANGED bank PROVE /\ asset_share_value' <= MaxShareValue
                                  /\ liability_share_value' <= MaxShareValue
                                  /\ other_asset_shares' \in BankShares
                                  /\ total_liability_shares' \in Liabilities \cup {0}
  BY <1>1 DEF bank, Bounds
<1>2. ASSUME UNCHANGED treasury PROVE marginfi_lend_value' \in Nat
  BY <1>2 DEF treasury, Bounds
<1>3. ASSUME UNCHANGED vault PROVE total_amount' <= MaxTotal
  BY <1>3 DEF vault, Bounds
<1>4. CASE GetValueInMarginfi
  <2>1. UNCHANGED <<bank, vault>> /\ marginfi_lend_value' = MarginfiValue
    BY <1>4, Zenon DEF GetValueInMarginfi
  <2>2. marginfi_lend_value' \in Nat
    BY <2>1, ValueType
  <2>3. QED
    BY <1>1, <1>3, <2>1, <2>2, Zenon DEF Bounds
<1>5. CASE BankMoves
  <2>1. /\ asset_share_value' \in asset_share_value..MaxShareValue
        /\ liability_share_value' \in liability_share_value..MaxShareValue
        /\ other_asset_shares' \in BankShares /\ total_liability_shares' \in Liabilities
        /\ UNCHANGED <<treasury, vault>>
    BY <1>5, Zenon DEF BankMoves
  <2>2. asset_share_value' <= MaxShareValue /\ liability_share_value' <= MaxShareValue
    BY <2>1 DEF BankInv, VenuesAssumption
  <2>3. total_liability_shares' \in Liabilities \cup {0}
    BY <2>1
  <2>4. QED
    BY <1>2, <1>3, <2>1, <2>2, <2>3, Zenon DEF Bounds
<1>6. ASSUME NEW amount \in Amounts, VaultDeposit(amount) PROVE Bounds'
  <2>1. /\ total_amount + amount <= MaxTotal /\ total_amount' = total_amount + amount
        /\ UNCHANGED <<bank, treasury>>
    BY <1>6, Zenon DEF VaultDeposit
  <2>2. total_amount' <= MaxTotal
    BY <2>1
  <2>3. QED
    BY <1>1, <1>2, <2>1, <2>2, Zenon DEF Bounds
<1>7. ASSUME NEW share \in Amounts, VaultWithdraw(share) PROVE Bounds'
  <2> DEFINE paid == get_amount_by_share(share)
  <2>1. /\ total_amount' = total_amount - paid
        /\ UNCHANGED <<bank, treasury>> /\ lp_supply > 0
    BY <1>7, Zenon DEF VaultWithdraw
  <2>2. paid \in Nat
    <3>1. share \in Nat /\ UnlockedAmount(now) \in Nat /\ lp_supply \in Nat \ {0}
      BY <2>1, Unlocked DEF VenuesAssumption, VaultInv
    <3>2. share * UnlockedAmount(now) \in Nat
      BY <3>1, Times
    <3>3. QED
      BY <3>1, <3>2, Divided DEF get_amount_by_share
  <2> HIDE DEF paid
  <2>3. total_amount' <= MaxTotal
    BY <2>1, <2>2 DEF Bounds, VaultInv, VenuesAssumption
  <2>4. QED
    BY <1>1, <1>2, <2>1, <2>3, Zenon DEF Bounds
<1>8. ASSUME NEW profit \in Profits, NEW fee \in Fees, VaultReport(profit, fee)
      PROVE  Bounds'
  <2>1. /\ total_amount + profit <= MaxTotal /\ total_amount' = total_amount + profit
        /\ UNCHANGED <<bank, treasury>>
    BY <1>8, Zenon DEF VaultReport
  <2>2. total_amount' <= MaxTotal
    BY <2>1
  <2>3. QED
    BY <1>1, <1>2, <2>1, <2>2, Zenon DEF Bounds
<1>9. ASSUME \/ \E amount \in Amounts : MarginfiLend(amount)
             \/ \E amount \in Amounts : MarginfiWithdraw(amount)
             \/ \E amount \in Amounts : Lock(amount)
             \/ Tick
             \/ UNCHANGED vars
      PROVE  Bounds'
  <2>1. UNCHANGED <<bank, treasury, vault>>
    BY <1>9, Zenon DEF MarginfiLend, MarginfiWithdraw, Lock, Tick, vars
  <2>2. QED
    BY <1>1, <1>2, <1>3, <2>1, Zenon DEF Bounds
<1>10. QED
  BY <1>4, <1>5, <1>6, <1>7, <1>8, <1>9, Zenon DEF Next, MarginfiNext, VaultNext

\* For any amounts, profits, fees and times: no amount, share or recorded value is
\* negative, no share value falls below one, and no balance was touched and no profit
\* reported later than now.
THEOREM VenueTypes == Spec => []TypeOK
<1> DEFINE Inv == BankInv /\ VaultInv /\ Bounds /\ total_locked_lp \in 0..MaxTotal
<1>1. Init => Inv
  <2> SUFFICES ASSUME Init PROVE Bounds /\ total_locked_lp \in 0..MaxTotal
    BY BankInit, VaultInit, VenuesAssumption
  <2>1. /\ asset_share_value = ONE /\ liability_share_value = ONE
        /\ other_asset_shares \in BankShares /\ total_liability_shares = 0
        /\ marginfi_lend_value = 0 /\ total_amount = 0 /\ total_locked_lp = 0
    BY Zenon DEF Init
  <2>2. QED
    BY <2>1, VenuesAssumption DEF VenuesAssumption, Bounds
<1>2. Inv /\ [Next]_vars => Inv'
  <2> SUFFICES ASSUME Inv, [Next]_vars PROVE Inv'
    OBVIOUS
  <2>1. BankInv'
    BY BankNext, VenuesAssumption, Zenon
  <2>2. VaultInv'
    BY VaultNextKept, VenuesAssumption, Zenon DEF Kept
  <2>3. Bounds'
    BY BoundsNext, VenuesAssumption, Zenon
  <2>4. total_locked_lp' \in 0..MaxTotal
    BY LockedNext, VenuesAssumption, Zenon
  <2>5. QED
    BY <2>1, <2>2, <2>3, <2>4, Zenon
<1>3. Inv => TypeOK
  BY VenuesAssumption DEF VenuesAssumption, BankInv, VaultInv, Bounds, TypeOK
<1>4. QED
  BY <1>1, <1>2, <1>3, PTL DEF Spec
=============================================================================
