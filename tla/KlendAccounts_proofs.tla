------------------------- MODULE KlendAccounts_proofs -------------------------
(***************************************************************************)
(* For any number of reserves and customers, any configuration, amounts    *)
(* and readings of the oracles: the lending market's books, its token      *)
(* accounts and its customers' collateral agree, the fees stay covered, a  *)
(* share keeps its worth, a limit once crossed is remembered, a round trip *)
(* makes no profit, the fee of a loan of all there is fits into the loan,  *)
(* and what the customers owe drifts from what the reserve has lent by     *)
(* rounding alone.                                                         *)
(*                                                                         *)
(* All of it needs every number of the state to be one: no quotient by     *)
(* zero, no segment of the curve missing, no debt below zero.              *)
(***************************************************************************)
EXTENDS KlendMarket_proofs, KlendMath_proofs, Sums_proofs

Books ==
    /\ available_amount \in [Reserves -> Nat] /\ mint_total_supply \in [Reserves -> Nat]
    /\ supply_vault \in [Reserves -> Int]
    /\ BooksMatchTokens
Debts ==
    /\ borrowed_amount_sf \in [Reserves -> Nat]
    /\ cumulative_borrow_rate_bsf \in [Reserves -> Nat \ {0}]
Fees ==
    /\ accumulated_protocol_fees_sf \in [Reserves -> Nat]
    /\ accumulated_referrer_fees_sf \in [Reserves -> Nat]
    /\ pending_referrer_fees_sf \in [Reserves -> Nat]
    /\ amount_unclaimed_sf \in [Reserves -> Nat]

\* A loan in use knows the rate it was last brought up to.
GoodLoan(b) ==
    /\ b \in ObligationLiquidity
    /\ b.borrow_reserve # NoReserve => b.cumulative_borrow_rate_bsf > 0
Loans == \A o \in Obligations, i \in 1..MaxBorrows : GoodLoan(borrows[o][i])
Prices == market_price_sf \in [Reserves -> Nat]
Accounts == Books /\ Debts /\ Fees /\ Loans /\ Prices

-----------------------------------------------------------------------------
(* What a reserve computes from its books *)

LEMMA ConfigTypes ==
    ASSUME NEW r \in Reserves
    PROVE  /\ Config[r].protocol_take_rate_pct \in 0..100
           /\ Config[r].host_fixed_interest_rate_bps \in Nat
           /\ Config[r].borrow_factor_pct \in Nat /\ Config[r].borrow_fee_sf \in Nat
           /\ Config[r].borrow_limit \in Nat
           /\ Config[r].decimals \in Nat /\ Config[r].decimals > 0
           /\ CurveValid(Config[r].borrow_rate_curve)
<1>1. Config[r] \in ReserveConfig /\ CurveValid(Config[r].borrow_rate_curve)
  BY KlendMarketAssumption
<1>2. QED
  BY <1>1 DEF ReserveConfig

LEMMA TotalSupplyNat ==
    ASSUME Books, Debts, Fees, NEW r \in Reserves
    PROVE  TotalSupply(r) \in Nat
<1>1. /\ available_amount[r] \in Nat /\ borrowed_amount_sf[r] \in Nat
      /\ accumulated_protocol_fees_sf[r] \in Int /\ accumulated_referrer_fees_sf[r] \in Int
      /\ pending_referrer_fees_sf[r] \in Int
  BY DEF Books, Debts, Fees
<1>2. FromNum(available_amount[r]) \in Nat
  BY <1>1, FromNumNat
<1> DEFINE d == Assets(r) - FeesOwed(r)
<1>3. d \in Int
  BY <1>1, <1>2 DEF Assets, FeesOwed
<1>4. FRACTION_MOD \in Nat /\ FRACTION_MOD > 0
  BY KlendMarketAssumption
<1>5. TotalSupply(r) = d % FRACTION_MOD
  BY Zenon DEF TotalSupply
<1> HIDE DEF d
<1>6. d % FRACTION_MOD \in Nat
  BY <1>3, <1>4
<1>7. QED
  BY <1>5, <1>6

LEMMA UtilizationNat ==
    ASSUME Books, Debts, Fees, NEW r \in Reserves
    PROVE  UtilizationRate(r) \in Nat
<1>1. TotalSupply(r) \in Nat /\ borrowed_amount_sf[r] \in Nat
  BY TotalSupplyNat DEF Debts
<1>2. TotalSupply(r) # 0 => Quot(borrowed_amount_sf[r], TotalSupply(r)) \in Nat
  BY <1>1, QuotNat
<1>3. QED
  BY <1>2 DEF UtilizationRate

LEMMA RateNat ==
    ASSUME Books, Debts, Fees, NEW r \in Reserves
    PROVE  CollateralExchangeRate(r) \in Nat
<1>1. TotalSupply(r) \in Nat /\ mint_total_supply[r] \in Nat
  BY TotalSupplyNat DEF Books
<1>2. QED
  BY <1>1, ExchangeRateNat DEF CollateralExchangeRate

\* A percentage and a number of basis points are at most one.
LEMMA ShareOfOne ==
    ASSUME NEW p \in Nat, NEW q \in Nat, q > 0, p <= q
    PROVE  (p * ONE) \div q \in Nat /\ (p * ONE) \div q <= ONE
<1>1. ONE \in Nat /\ p * ONE \in Nat /\ q * ONE \in Nat /\ p * ONE <= q * ONE
  BY TimesNat, TimesBoth, KlendMathAssumption
<1> DEFINE a == p * ONE
           b == q * ONE
<1>2. b \div q = ONE
  BY <1>1
<1> HIDE DEF a, b
<1>3. a \in Nat /\ b \in Nat /\ a <= b
  BY <1>1 DEF a, b
<1>4. a \div q <= b \div q
  BY <1>3, DivMono
<1>5. QED
  BY <1>2, <1>3, <1>4, DivNat DEF a

LEMMA TakeAndReferral ==
    ASSUME NEW r \in Reserves
    PROVE  /\ FromPercent(Config[r].protocol_take_rate_pct) \in Nat
           /\ FromPercent(Config[r].protocol_take_rate_pct) <= ONE
           /\ FromBps(ReferralFeeBps) \in Nat /\ FromBps(ReferralFeeBps) <= ONE
<1> DEFINE p == Config[r].protocol_take_rate_pct
<1>1. p \in 0..100
  BY ConfigTypes
<1> HIDE DEF p
<1>2. p \in Nat /\ p <= 100
  BY <1>1
<1>3. (p * ONE) \div 100 \in Nat /\ (p * ONE) \div 100 <= ONE
  BY <1>2, ShareOfOne
<1>4. ReferralFeeBps \in Nat /\ ReferralFeeBps <= FULL_BPS
  <2>1. ReferralFeeBps \in 0..FULL_BPS
    BY KlendMarketAssumption, Zenon
  <2>2. FULL_BPS \in Nat
    BY DEF FULL_BPS
  <2> HIDE DEF FULL_BPS
  <2>3. QED
    BY <2>1, <2>2
<1>5. FULL_BPS \in Nat /\ FULL_BPS > 0
  BY DEF FULL_BPS
<1> HIDE DEF FULL_BPS
<1>6. (ReferralFeeBps * ONE) \div FULL_BPS \in Nat /\ (ReferralFeeBps * ONE) \div FULL_BPS <= ONE
  BY <1>4, <1>5, ShareOfOne
<1>7. QED
  BY <1>3, <1>6, Zenon DEF p, FromPercent, FromBps

\* Interest never lowers a debt, and the fees are a part of it.
LEMMA InterestFacts ==
    ASSUME Books, Debts, Fees, NEW r \in Reserves, slot \in Nat, last_update[r].slot \in Nat,
           slot > last_update[r].slot
    PROVE  /\ Interest(r).rate \in Nat /\ Interest(r).rate >= ONE
           /\ Interest(r).debt \in Nat
           /\ Interest(r).protocol \in Nat /\ Interest(r).referrers \in Nat
           /\ Interest(r).protocol + Interest(r).referrers <= Interest(r).debt
<1> DEFINE n == slot - last_update[r].slot
           debt == borrowed_amount_sf[r]
           fixed_rate == FromBps(Config[r].host_fixed_interest_rate_bps)
           curve == GetBorrowRate(Config[r].borrow_rate_curve, UtilizationRate(r))
           rate == ApproximateCompoundedInterest(curve + fixed_rate, n)
           fixed_growth == ApproximateCompoundedInterest(fixed_rate, n)
           take == FromPercent(Config[r].protocol_take_rate_pct)
           gained == Mul(debt, rate) - debt
           fixed == Mul(debt, fixed_growth) - debt
           share == Mul(take, FromBps(ReferralFeeBps))
           referrers == Mul(gained - fixed, share)
           protocol == fixed + Mul(gained - fixed, take) - referrers
<1>1. n \in Nat /\ debt \in Nat
  BY DEF Debts
<1> DEFINE referral == FromBps(ReferralFeeBps)
<1>2. fixed_rate \in Nat /\ take \in Nat /\ take <= ONE /\ referral \in Nat /\ referral <= ONE
  BY ConfigTypes, BpsNat, TakeAndReferral
<1>3. curve \in Nat
  BY ConfigTypes, UtilizationNat, BorrowRateDefined
<1> HIDE DEF n, debt, fixed_rate, curve, take, referral
<1>4. rate \in Nat /\ rate >= ONE
  <2>1. curve + fixed_rate \in Nat
    BY <1>2, <1>3
  <2>2. QED
    BY <1>1, <2>1, CompoundingGrows
<1>5. fixed_growth \in Nat /\ fixed_growth >= ONE
  BY <1>1, <1>2, CompoundingGrows
<1>6. fixed_growth <= rate
  <2>1. curve + fixed_rate \in Nat /\ fixed_rate <= curve + fixed_rate
    BY <1>2, <1>3
  <2>2. QED
    BY <1>1, <1>2, <2>1, CompoundingRisesWithRate
<1> HIDE DEF rate, fixed_growth
<1>7. /\ Mul(debt, rate) \in Nat /\ Mul(debt, fixed_growth) \in Nat
      /\ Mul(debt, fixed_growth) >= debt /\ Mul(debt, fixed_growth) <= Mul(debt, rate)
  <2>1. debt <= debt
    BY <1>1
  <2>2. QED
    BY <1>1, <1>4, <1>5, <1>6, <2>1, MulGrows, MulMonoBoth
<1>8. gained \in Nat /\ fixed \in Nat /\ gained - fixed \in Nat
  BY <1>1, <1>7
<1> DEFINE variable == gained - fixed
<1>9. /\ Mul(variable, take) \in Nat /\ Mul(variable, Mul(take, referral)) \in Nat
      /\ Mul(variable, Mul(take, referral)) <= Mul(variable, take) /\ Mul(variable, take) <= variable
  <2>1. variable \in Nat
    BY <1>8
  <2> HIDE DEF variable
  <2>2. QED
    BY <1>2, <2>1, InterestShared
<1>10. /\ protocol \in Nat /\ referrers \in Nat /\ protocol + referrers <= gained
  <2> DEFINE taken == Mul(variable, take)
  <2>1. /\ taken \in Nat /\ referrers \in Nat /\ referrers <= taken /\ taken <= gained - fixed
        /\ protocol = fixed + taken - referrers
    BY <1>9 DEF referral
  <2> HIDE DEF taken, gained, fixed, referrers, protocol
  <2>2. QED
    BY <1>8, <2>1
<1> HIDE DEF gained, fixed
<1> DEFINE interest == [rate |-> rate, debt |-> gained, protocol |-> protocol,
                        referrers |-> referrers]
<1>11. Interest(r) = interest
  BY Zenon DEF Interest, n, debt, fixed_rate, curve, rate, take, gained, fixed, fixed_growth, share
<1> HIDE DEF protocol, referrers
<1>12. /\ interest.rate = rate /\ interest.debt = gained
       /\ interest.protocol = protocol /\ interest.referrers = referrers
  OBVIOUS
<1> HIDE DEF interest
<1>13. QED
  BY <1>4, <1>8, <1>10, <1>11, <1>12
-----------------------------------------------------------------------------
(* Loans *)

LEMMA AllItMayNat ==
    ASSUME Books, Debts, Prices, NEW r \in Reserves, NEW m \in Nat, market_price_sf[r] > 0
    PROVE  AllItMay(r, m) \in Nat
<1>1. /\ market_price_sf[r] \in Nat /\ borrowed_amount_sf[r] \in Nat
      /\ available_amount[r] \in Nat
  BY DEF Prices, Debts, Books
<1>2. BorrowFactor(r) \in Nat /\ BorrowFactor(r) > 0
  <2>1. FromPercent(Config[r].borrow_factor_pct) \in Nat
    BY ConfigTypes, PercentNat
  <2>2. QED
    BY <2>1, KlendMathAssumption DEF BorrowFactor, Greatest
<1> DEFINE worth == Quot(Quot(m * Config[r].decimals, market_price_sf[r]), BorrowFactor(r))
           below_limit == Greatest(0, FromNum(Config[r].borrow_limit) - borrowed_amount_sf[r])
<1>3. worth \in Nat
  <2>1. m * Config[r].decimals \in Nat
    BY ConfigTypes, TimesNat
  <2>2. Quot(m * Config[r].decimals, market_price_sf[r]) \in Nat
    BY <1>1, <2>1, QuotNat
  <2>3. QED
    BY <1>2, <2>2, QuotNat
<1>4. below_limit \in Nat
  <2>1. FromNum(Config[r].borrow_limit) \in Nat
    BY ConfigTypes, FromNumNat
  <2>2. QED
    BY <1>1, <2>1 DEF Greatest
<1>5. FromNum(available_amount[r]) \in Nat
  BY <1>1, FromNumNat
<1>6. AllItMay(r, m) = Least(Least(worth, below_limit), FromNum(available_amount[r]))
  BY Zenon DEF AllItMay
<1> HIDE DEF worth, below_limit
<1>7. Least(worth, below_limit) \in Nat
  BY <1>3, <1>4, LeastNat
<1>8. Least(Least(worth, below_limit), FromNum(available_amount[r])) \in Nat
  BY <1>5, <1>7, LeastNat
<1>9. QED
  BY <1>6, <1>8, Zenon

\* What leaves the vault for a loan, the fee included, is the whole units booked out.
LEMMA LoanFacts ==
    ASSUME Books, Debts, Prices, NEW r \in Reserves, NEW a \in Nat, NEW m \in Nat,
           a = U64MAX => market_price_sf[r] > 0
    PROVE  LET b == CalculateBorrow(r, a, m)
           IN  /\ b.borrow_amount_f \in Nat /\ b.receive_amount \in Int /\ b.borrow_fee \in Nat
               /\ ToFloor(b.borrow_amount_f) = b.receive_amount + b.borrow_fee
<1> DEFINE all == a = U64MAX
           asked == IF all THEN AllItMay(r, m) ELSE FromNum(a)
           fee == BorrowFees(r, asked, all).borrow_fee
           borrowed == IF all THEN asked ELSE asked + FromNum(fee)
           receive == IF all THEN ToFloor(asked) - fee ELSE a
           too_small == BorrowTooSmall(asked, Config[r].borrow_fee_sf, all)
           too_large == ~all /\ Mul(Mul(borrowed, market_price_sf[r]) \div Config[r].decimals,
                                    BorrowFactor(r)) > m
           b == [borrow_amount_f |-> borrowed, receive_amount |-> receive, borrow_fee |-> fee,
                 too_small |-> too_small, too_large |-> too_large]
<1>1. asked \in Nat
  BY AllItMayNat, FromNumNat
<1>2. fee \in Nat
  <2> HIDE DEF all, asked
  <2>1. BorrowFees(r, asked, all) =
            CalculateFees(asked, Config[r].borrow_fee_sf, all, ReferralFeeBps, FALSE)
    BY Zenon DEF BorrowFees
  <2>2. QED
    BY <1>1, <2>1, ConfigTypes, FeeNat
<1>3. CalculateBorrow(r, a, m) = b
  BY Zenon DEF CalculateBorrow
<1> HIDE DEF fee, too_small, too_large
<1>4. /\ borrowed \in Nat /\ receive \in Int
      /\ ToFloor(borrowed) = receive + fee
  <2>1. CASE all
    <3>1. borrowed = asked /\ receive = ToFloor(asked) - fee
      BY <2>1
    <3>2. ToFloor(asked) \in Nat
      BY <1>1, FloorNat
    <3> HIDE DEF borrowed, receive, asked
    <3>3. QED
      BY <1>1, <1>2, <3>1, <3>2
  <2>2. CASE ~all
    <3>1. borrowed = FromNum(a) + FromNum(fee) /\ receive = a
      BY <2>2
    <3>2. FromNum(a) + FromNum(fee) = FromNum(a + fee)
      BY <1>2, KlendMathAssumption DEF FromNum
    <3>3. FromNum(a + fee) \in Nat /\ ToFloor(FromNum(a + fee)) = a + fee
      BY <1>2, FromNumNat, FloorOfWhole
    <3> HIDE DEF borrowed, receive
    <3>4. QED
      BY <3>1, <3>2, <3>3
  <2>3. QED
    BY <2>1, <2>2
<1> HIDE DEF borrowed, receive
<1>5. b.borrow_amount_f = borrowed /\ b.receive_amount = receive /\ b.borrow_fee = fee
  OBVIOUS
<1> HIDE DEF b
<1>6. QED
  BY <1>2, <1>3, <1>4, <1>5

LEMMA LoanAmountChanged ==
    ASSUME NEW l \in ObligationLiquidity, NEW x \in Nat
    PROVE  /\ [l EXCEPT !.borrowed_amount_sf = x] \in ObligationLiquidity
           /\ [l EXCEPT !.borrowed_amount_sf = x].cumulative_borrow_rate_bsf
                 = l.cumulative_borrow_rate_bsf
BY DEF ObligationLiquidity

LEMMA LoanRateChanged ==
    ASSUME NEW l \in ObligationLiquidity, NEW y \in Nat
    PROVE  /\ [l EXCEPT !.cumulative_borrow_rate_bsf = y] \in ObligationLiquidity
           /\ [l EXCEPT !.cumulative_borrow_rate_bsf = y].cumulative_borrow_rate_bsf = y
BY DEF ObligationLiquidity

\* A loan brought up to date is still a loan in use.
LEMMA AccruedLoan ==
    ASSUME NEW l, GoodLoan(l), l.borrow_reserve \in Reserves, NEW rate \in Nat \ {0},
           KlendMarketAssumption
    PROVE  GoodLoan(Accrued(l, rate))
<1>1. /\ l \in ObligationLiquidity /\ l.borrowed_amount_sf \in Nat
      /\ l.cumulative_borrow_rate_bsf \in Nat /\ l.cumulative_borrow_rate_bsf > 0
  BY DEF GoodLoan, ObligationLiquidity, KlendMarketAssumption
<1>2. CASE rate > l.cumulative_borrow_rate_bsf
  <2> DEFINE d == (l.borrowed_amount_sf * rate) \div l.cumulative_borrow_rate_bsf
  <2>1. d \in Nat
    <3>1. l.borrowed_amount_sf * rate \in Nat
      BY <1>1, TimesNat
    <3>2. QED
      BY <1>1, <3>1, DivNat
  <2>2. Accrued(l, rate) = [l EXCEPT !.borrowed_amount_sf = d, !.cumulative_borrow_rate_bsf = rate]
    BY <1>2 DEF Accrued
  <2> HIDE DEF d
  <2> DEFINE w == [l EXCEPT !.borrowed_amount_sf = d]
             v == [w EXCEPT !.cumulative_borrow_rate_bsf = rate]
  <2>3. w \in ObligationLiquidity
    BY <1>1, <2>1, LoanAmountChanged
  <2>4. Accrued(l, rate) = v
    BY <2>2, Zenon
  <2> HIDE DEF w
  <2>5. v \in ObligationLiquidity /\ v.cumulative_borrow_rate_bsf = rate
    BY <2>3, LoanRateChanged
  <2> HIDE DEF v
  <2>6. GoodLoan(v)
    BY <2>5 DEF GoodLoan
  <2>7. QED
    BY <2>4, <2>6, Zenon
<1>3. CASE ~(rate > l.cumulative_borrow_rate_bsf)
  BY <1>3, Zenon DEF Accrued
<1>4. QED
  BY <1>2, <1>3

LEMMA CurrentLoan ==
    ASSUME BorrowTable, Loans, Debts, NEW o \in Obligations, NEW r \in Reserves,
           HasSlot(BorrowReserves(o), r)
    PROVE  /\ GoodLoan(CurrentBorrow(o, r))
           /\ CurrentBorrow(o, r).borrow_reserve = r
<1> DEFINE i == SlotFor(BorrowReserves(o), r)
<1>1. KlendMarketAssumption
  BY KlendMarketAssumption, Zenon DEF KlendMarketAssumption
<1>2. cumulative_borrow_rate_bsf[r] \in Nat \ {0}
  BY DEF Debts
<1>3. CASE SlotsOf(BorrowReserves(o), r) # {}
  <2>1. i \in 1..MaxBorrows /\ borrows[o][i].borrow_reserve = r
    BY <1>1, <1>3, BorrowSlotChosen, Zenon
  <2>2. GoodLoan(borrows[o][i])
    BY <2>1, Zenon DEF Loans
  <2>3. CurrentBorrow(o, r) = Accrued(borrows[o][i], cumulative_borrow_rate_bsf[r])
    BY <1>3, Zenon DEF CurrentBorrow
  <2> HIDE DEF i
  <2>4. GoodLoan(Accrued(borrows[o][i], cumulative_borrow_rate_bsf[r]))
    BY <1>1, <1>2, <2>1, <2>2, AccruedLoan
  <2>5. QED
    BY <1>1, <2>3, <2>4, CurrentBorrowReserve, Zenon
<1>4. CASE SlotsOf(BorrowReserves(o), r) = {}
  <2>1. CurrentBorrow(o, r) = [borrow_reserve |-> r, borrowed_amount_sf |-> 0,
                               cumulative_borrow_rate_bsf |-> cumulative_borrow_rate_bsf[r]]
    BY <1>4 DEF CurrentBorrow
  <2>2. QED
    BY <1>2, <2>1 DEF GoodLoan, ObligationLiquidity
<1>5. QED
  BY <1>3, <1>4
LEMMA RepaymentFacts ==
    ASSUME NEW a \in Nat, NEW debt \in Nat
    PROVE  /\ Settled(a, debt) \in Nat /\ Settled(a, debt) <= debt
           /\ RepayAmount(Settled(a, debt)) \in Nat
<1>1. Settled(a, debt) \in Nat /\ Settled(a, debt) <= debt
  <2>1. FromNum(a) \in Nat
    BY FromNumNat
  <2>2. Least(FromNum(a), debt) \in Nat /\ Least(FromNum(a), debt) <= debt
    BY <2>1, LeastNat
  <2>3. QED
    BY <2>2 DEF Settled
<1>2. QED
  BY <1>1, CeilNat DEF RepayAmount

LEMMA EmptyLoan == KlendMarketAssumption => GoodLoan(EmptyBorrow)
<1> SUFFICES ASSUME KlendMarketAssumption PROVE GoodLoan(EmptyBorrow)
  OBVIOUS
<1>1. EmptyBorrow \in ObligationLiquidity /\ EmptyBorrow.borrow_reserve = NoReserve
  BY DEF EmptyBorrow, ObligationLiquidity
<1>2. QED
  BY <1>1, Zenon DEF GoodLoan

LEMMA LoanAdjusted ==
    ASSUME NEW l, GoodLoan(l), l.borrow_reserve \in Reserves, KlendMarketAssumption, NEW x \in Nat
    PROVE  GoodLoan([l EXCEPT !.borrowed_amount_sf = x])
<1> DEFINE v == [l EXCEPT !.borrowed_amount_sf = x]
<1>1. l \in ObligationLiquidity /\ l.cumulative_borrow_rate_bsf > 0
  BY DEF GoodLoan, KlendMarketAssumption
<1>2. v \in ObligationLiquidity /\ v.cumulative_borrow_rate_bsf = l.cumulative_borrow_rate_bsf
  BY <1>1, LoanAmountChanged
<1> HIDE DEF v
<1>3. GoodLoan(v)
  BY <1>1, <1>2 DEF GoodLoan
<1>4. QED
  BY <1>3 DEF v

-----------------------------------------------------------------------------
(* What a step leaves alone, and what it writes *)

LEMMA BooksWritten ==
    ASSUME Books, NEW r \in Reserves, NEW n \in Nat,
           available_amount' = [available_amount EXCEPT ![r] = n],
           supply_vault' = [supply_vault EXCEPT ![r] = n],
           mint_total_supply' \in [Reserves -> Nat]
    PROVE  Books'
<1>1. /\ available_amount \in [Reserves -> Nat] /\ supply_vault \in [Reserves -> Int]
      /\ \A p \in Reserves : supply_vault[p] = available_amount[p]
  BY Zenon DEF Books, BooksMatchTokens
<1>2. available_amount' \in [Reserves -> Nat] /\ supply_vault' \in [Reserves -> Int]
  BY <1>1
<1>3. \A p \in Reserves : supply_vault'[p] = available_amount'[p]
  BY <1>1
<1>4. QED
  BY <1>2, <1>3, Zenon DEF Books, BooksMatchTokens

LEMMA BooksKept ==
    ASSUME Books, UNCHANGED <<available_amount, mint_total_supply, supply_vault>>
    PROVE  Books'
BY DEF Books, BooksMatchTokens

LEMMA DebtWritten ==
    ASSUME Debts, NEW r \in Reserves, NEW n \in Nat,
           borrowed_amount_sf' = [borrowed_amount_sf EXCEPT ![r] = n],
           cumulative_borrow_rate_bsf' = cumulative_borrow_rate_bsf
    PROVE  Debts'
BY DEF Debts

LEMMA DebtsKept ==
    ASSUME Debts, UNCHANGED <<borrowed_amount_sf, cumulative_borrow_rate_bsf>>
    PROVE  Debts'
BY DEF Debts

LEMMA FeesKept ==
    ASSUME Fees, UNCHANGED fees
    PROVE  Fees'
BY DEF Fees, fees

LEMMA LoanWritten ==
    ASSUME Loans, BorrowTable, NEW o \in Obligations, NEW i \in 1..MaxBorrows,
           NEW v, GoodLoan(v), borrows' = [borrows EXCEPT ![o][i] = v]
    PROVE  Loans'
<1>1. DOMAIN borrows = Obligations /\ \A p \in Obligations : DOMAIN borrows[p] = 1..MaxBorrows
  BY Zenon DEF BorrowTable, BorrowDomains
<1>2. ASSUME NEW p \in Obligations, NEW j \in 1..MaxBorrows PROVE GoodLoan(borrows'[p][j])
  <2>1. borrows'[p][j] = IF p = o /\ j = i THEN v ELSE borrows[p][j]
    BY <1>1
  <2>2. GoodLoan(borrows[p][j])
    BY Zenon DEF Loans
  <2>3. QED
    BY <2>1, <2>2, Zenon
<1>3. QED
  BY <1>2, Zenon DEF Loans, GoodLoan, ObligationLiquidity

LEMMA LoansKept ==
    ASSUME Loans, borrows' = borrows
    PROVE  Loans'
BY Zenon DEF Loans, GoodLoan, ObligationLiquidity

LEMMA PricesSame ==
    ASSUME Prices, UNCHANGED prices
    PROVE  Prices'
BY DEF Prices, prices
-----------------------------------------------------------------------------
(* One step per instruction *)

LEMMA InterestAccrued ==
    ASSUME Books, Debts, Fees, PricesInv, NEW r \in Reserves, AccrueInterest(r),
           UNCHANGED <<accumulated_referrer_fees_sf, amount_unclaimed_sf>>
    PROVE  /\ Debts' /\ Fees'
           /\ borrowed_amount_sf'[r] >= borrowed_amount_sf[r]
           /\ \A p \in Reserves : p # r => borrowed_amount_sf'[p] = borrowed_amount_sf[p]
<1>1. /\ borrowed_amount_sf \in [Reserves -> Nat]
      /\ cumulative_borrow_rate_bsf \in [Reserves -> Nat \ {0}]
      /\ accumulated_protocol_fees_sf \in [Reserves -> Nat]
      /\ pending_referrer_fees_sf \in [Reserves -> Nat]
  BY DEF Debts, Fees
<1>2. CASE slot > last_update[r].slot
  <2> DEFINE rate == Interest(r).rate
             debt == Interest(r).debt
             protocol == Interest(r).protocol
             referrers == Interest(r).referrers
  <2>1. slot \in Nat /\ last_update[r].slot \in Nat
    BY Zenon DEF PricesInv, Refreshed
  <2>2. /\ rate \in Nat /\ rate >= ONE /\ debt \in Nat
        /\ protocol \in Nat /\ referrers \in Nat
    BY <1>2, <2>1, InterestFacts
  <2>3. /\ cumulative_borrow_rate_bsf' =
              [cumulative_borrow_rate_bsf EXCEPT ![r] = Mul(@, rate)]
        /\ borrowed_amount_sf' = [borrowed_amount_sf EXCEPT ![r] = @ + debt]
        /\ accumulated_protocol_fees_sf' = [accumulated_protocol_fees_sf EXCEPT ![r] = @ + protocol]
        /\ pending_referrer_fees_sf' = [pending_referrer_fees_sf EXCEPT ![r] = @ + referrers]
    BY <1>2, Zenon DEF AccrueInterest
  <2> HIDE DEF rate, debt, protocol, referrers
  <2>4. Mul(cumulative_borrow_rate_bsf[r], rate) \in Nat \ {0}
    <3>1. cumulative_borrow_rate_bsf[r] \in Nat /\ cumulative_borrow_rate_bsf[r] > 0
      BY <1>1
    <3>2. /\ Mul(cumulative_borrow_rate_bsf[r], rate) \in Nat
          /\ Mul(cumulative_borrow_rate_bsf[r], rate) >= cumulative_borrow_rate_bsf[r]
      BY <2>2, <3>1, MulGrows
    <3>3. QED
      BY <3>1, <3>2
  <2>5. cumulative_borrow_rate_bsf' \in [Reserves -> Nat \ {0}]
    BY <1>1, <2>3, <2>4
  <2>6. /\ borrowed_amount_sf' \in [Reserves -> Nat]
        /\ borrowed_amount_sf'[r] >= borrowed_amount_sf[r]
        /\ \A p \in Reserves : p # r => borrowed_amount_sf'[p] = borrowed_amount_sf[p]
    BY <1>1, <2>2, <2>3
  <2>7. /\ accumulated_protocol_fees_sf' \in [Reserves -> Nat]
        /\ pending_referrer_fees_sf' \in [Reserves -> Nat]
    BY <1>1, <2>2, <2>3
  <2>8. QED
    BY <2>5, <2>6, <2>7 DEF Debts, Fees
<1>3. CASE ~(slot > last_update[r].slot)
  <2>1. UNCHANGED <<cumulative_borrow_rate_bsf, borrowed_amount_sf,
                    accumulated_protocol_fees_sf, pending_referrer_fees_sf>>
    BY <1>3, Zenon DEF AccrueInterest
  <2>2. QED
    BY <1>1, <2>1 DEF Debts, Fees
<1>4. QED
  BY <1>2, <1>3

LEMMA RefreshAccounts ==
    ASSUME Accounts, PricesInv, NEW r \in Reserves, NEW readings \in Readings,
           RefreshReserve(r, readings)
    PROVE  /\ Accounts'
           /\ borrowed_amount_sf'[r] >= borrowed_amount_sf[r]
           /\ \A p \in Reserves : p # r => borrowed_amount_sf'[p] = borrowed_amount_sf[p]
<1> DEFINE token_info == Config[r].token_info
           price == GetPrice(token_info, readings, slot)
<1>1. /\ AccrueInterest(r)
      /\ UNCHANGED <<available_amount, mint_total_supply, accumulated_referrer_fees_sf,
                     amount_unclaimed_sf, obligations, tokens>>
      /\ ~NoPriceFeed(token_info, readings)
      /\ market_price_sf' = IF price # <<>> THEN [market_price_sf EXCEPT ![r] = price[1].price]
                            ELSE market_price_sf
  BY Zenon DEF RefreshReserve, prices
<1>2. /\ Debts' /\ Fees' /\ borrowed_amount_sf'[r] >= borrowed_amount_sf[r]
      /\ \A p \in Reserves : p # r => borrowed_amount_sf'[p] = borrowed_amount_sf[p]
  BY <1>1, InterestAccrued DEF Accounts
<1>3. Books'
  BY <1>1, BooksKept DEF Accounts, tokens
<1>4. Loans'
  BY <1>1, LoansKept DEF Accounts, obligations
<1>5. ReadingsValid(readings)
  BY KlendMarketAssumption
<1>6. Prices'
  <2>1. market_price_sf \in [Reserves -> Nat]
    BY DEF Accounts, Prices
  <2>2. price # <<>> => price[1].price \in Nat
    BY <1>1, <1>5, PriceDefined, Zenon
  <2> HIDE DEF price
  <2>3. market_price_sf' \in [Reserves -> Nat]
    BY <1>1, <2>1, <2>2
  <2>4. QED
    BY <2>3 DEF Prices
<1>7. QED
  BY <1>2, <1>3, <1>4, <1>6, Zenon DEF Accounts

LEMMA DepositAccounts ==
    ASSUME Accounts, NEW o \in Obligations, NEW r \in Reserves, NEW a \in DepositAmounts,
           DepositReserveLiquidityAndObligationCollateral(o, r, a)
    PROVE  Accounts'
<1> DEFINE minted == LiquidityToCollateral(CollateralExchangeRate(r), a)
<1>1. /\ LiquidityDeposit(r, a) /\ Mint(r, minted) /\ DepositTransfer(o, r, a, minted)
      /\ UNCHANGED <<fees, prices, limits, borrowed_amount_sf, cumulative_borrow_rate_bsf,
                     borrows, borrows_asset_tiers, has_debt, slot>>
  BY Zenon DEF DepositReserveLiquidityAndObligationCollateral
<1>2. a \in Nat
  BY KlendMarketAssumption
<1>3. minted \in Nat
  <2>1. CollateralExchangeRate(r) * a \in Nat
    BY <1>2, RateNat, TimesNat DEF Accounts
  <2>2. QED
    BY <2>1, FloorNat DEF LiquidityToCollateral
<1> HIDE DEF minted
<1>4. Books'
  <2> DEFINE n == available_amount[r] + a
  <2>1. /\ available_amount' = [available_amount EXCEPT ![r] = @ + a]
        /\ supply_vault' = [supply_vault EXCEPT ![r] = @ + a]
        /\ mint_total_supply' = [mint_total_supply EXCEPT ![r] = @ + minted]
    BY <1>1, Zenon DEF LiquidityDeposit, Mint, DepositTransfer
  <2>2. /\ available_amount[r] \in Nat /\ supply_vault[r] = available_amount[r]
        /\ mint_total_supply \in [Reserves -> Nat]
    BY DEF Accounts, Books, BooksMatchTokens
  <2>3. mint_total_supply' \in [Reserves -> Nat]
    BY <1>3, <2>1, <2>2
  <2>4. n \in Nat
    BY <1>2, <2>2
  <2>5. available_amount' = [available_amount EXCEPT ![r] = n]
    BY <2>1
  <2>6. supply_vault' = [supply_vault EXCEPT ![r] = n]
    BY <2>1, <2>2
  <2> HIDE DEF n
  <2>7. QED
    BY <2>3, <2>4, <2>5, <2>6, BooksWritten DEF Accounts
<1>5. Debts' /\ Fees' /\ Loans' /\ Prices'
  BY <1>1, DebtsKept, FeesKept, LoansKept, PricesSame, Zenon DEF Accounts
<1>6. QED
  BY <1>4, <1>5, Zenon DEF Accounts

LEMMA WithdrawAccounts ==
    ASSUME Accounts, NEW o \in Obligations, NEW r \in Reserves, NEW c \in RedeemAmounts,
           WithdrawObligationCollateralAndRedeemReserveCollateral(o, r, c)
    PROVE  Accounts'
<1> DEFINE rate == CollateralExchangeRate(r)
           a == CollateralToLiquidity(rate, c)
<1>1. /\ rate > 0 /\ Burn(r, c) /\ LiquidityWithdraw(r, a)
      /\ WithdrawAndRedeemTransfer(o, r, c, a)
      /\ UNCHANGED <<fees, prices, limits, borrowed_amount_sf, cumulative_borrow_rate_bsf,
                     borrows, borrows_asset_tiers, has_debt, slot>>
  BY Zenon DEF WithdrawObligationCollateralAndRedeemReserveCollateral
<1>2. c \in Nat
  BY KlendMarketAssumption
<1>3. a \in Nat
  <2>1. rate \in Nat /\ FromNum(c) \in Nat
    BY <1>2, RateNat, FromNumNat DEF Accounts
  <2> HIDE DEF rate
  <2>2. Quot(FromNum(c), rate) \in Nat
    BY <1>1, <2>1, QuotNat
  <2>3. QED
    BY <2>2, FloorNat DEF CollateralToLiquidity
<1> HIDE DEF a
<1>4. Books'
  <2> DEFINE n == available_amount[r] - a
  <2>1. /\ a <= available_amount[r] /\ c <= mint_total_supply[r]
        /\ available_amount' = [available_amount EXCEPT ![r] = @ - a]
        /\ supply_vault' = [supply_vault EXCEPT ![r] = @ - a]
        /\ mint_total_supply' = [mint_total_supply EXCEPT ![r] = @ - c]
    BY <1>1, Zenon DEF LiquidityWithdraw, Burn, WithdrawAndRedeemTransfer
  <2>2. /\ available_amount[r] \in Nat /\ supply_vault[r] = available_amount[r]
        /\ mint_total_supply \in [Reserves -> Nat]
    BY DEF Accounts, Books, BooksMatchTokens
  <2>3. mint_total_supply' \in [Reserves -> Nat]
    BY <1>2, <2>1, <2>2
  <2>4. n \in Nat
    BY <1>3, <2>1, <2>2
  <2>5. available_amount' = [available_amount EXCEPT ![r] = n]
    BY <2>1
  <2>6. supply_vault' = [supply_vault EXCEPT ![r] = n]
    BY <2>1, <2>2
  <2> HIDE DEF n
  <2>7. QED
    BY <2>3, <2>4, <2>5, <2>6, BooksWritten DEF Accounts
<1>5. Debts' /\ Fees' /\ Loans' /\ Prices'
  BY <1>1, DebtsKept, FeesKept, LoansKept, PricesSame, Zenon DEF Accounts
<1>6. QED
  BY <1>4, <1>5, Zenon DEF Accounts
LEMMA BorrowAccounts ==
    ASSUME Accounts, BorrowTable, NEW o \in Obligations, NEW r \in Reserves,
           NEW a \in BorrowAmounts, NEW m \in MaxDebtValues, BorrowObligationLiquidity(o, r, a, m)
    PROVE  Accounts'
<1> DEFINE b == CalculateBorrow(r, a, m)
           f == b.borrow_amount_f
           i == SlotFor(BorrowReserves(o), r)
           l == CurrentBorrow(o, r)
           v == [l EXCEPT !.borrowed_amount_sf = @ + f]
<1>1. /\ a = U64MAX => market_price_sf[r] > 0
      /\ HasSlot(BorrowReserves(o), r)
      /\ LiquidityBorrow(r, f) /\ BorrowTransfer(o, r, b.receive_amount, b.borrow_fee)
      /\ borrows' = [borrows EXCEPT ![o][i] = v]
      /\ UNCHANGED <<fees, prices, limits, cumulative_borrow_rate_bsf, mint_total_supply,
                     deposits, deposits_asset_tiers, slot>>
  BY Zenon DEF BorrowObligationLiquidity
<1>2. a \in Nat /\ m \in Nat /\ KlendMarketAssumption
  BY KlendMarketAssumption DEF KlendMarketAssumption
<1>3. /\ f \in Nat /\ b.receive_amount \in Int /\ b.borrow_fee \in Nat
      /\ ToFloor(f) = b.receive_amount + b.borrow_fee
  BY <1>1, <1>2, LoanFacts, Zenon DEF Accounts
<1>4. GoodLoan(l) /\ l.borrow_reserve = r
  BY <1>1, CurrentLoan, Zenon DEF Accounts
<1>5. /\ available_amount[r] \in Nat /\ supply_vault[r] = available_amount[r]
      /\ mint_total_supply \in [Reserves -> Nat] /\ borrowed_amount_sf[r] \in Nat
  BY DEF Accounts, Books, BooksMatchTokens, Debts
<1>6. /\ ToFloor(f) <= available_amount[r]
      /\ available_amount' = [available_amount EXCEPT ![r] = @ - ToFloor(f)]
      /\ borrowed_amount_sf' = [borrowed_amount_sf EXCEPT ![r] = @ + f]
      /\ supply_vault' = [supply_vault EXCEPT ![r] = @ - b.receive_amount - b.borrow_fee]
  BY <1>1, Zenon DEF LiquidityBorrow, LiquidityWithdraw, BorrowTransfer
<1> HIDE DEF b, l
<1>7. Books'
  <2> DEFINE n == available_amount[r] - ToFloor(f)
  <2>1. ToFloor(f) \in Nat
    BY <1>3, FloorNat
  <2>2. n \in Nat
    BY <1>5, <1>6, <2>1
  <2>3. supply_vault[r] - b.receive_amount - b.borrow_fee = n
    BY <1>3, <1>5, <2>1
  <2>4. available_amount' = [available_amount EXCEPT ![r] = n]
    BY <1>6
  <2>5. supply_vault' = [supply_vault EXCEPT ![r] = n]
    BY <1>6, <2>3
  <2>6. mint_total_supply' \in [Reserves -> Nat]
    BY <1>1, <1>5
  <2> HIDE DEF n
  <2>7. QED
    BY <2>2, <2>4, <2>5, <2>6, BooksWritten DEF Accounts
<1> HIDE DEF f
<1>8. Debts'
  <2> DEFINE n == borrowed_amount_sf[r] + f
  <2>1. n \in Nat /\ borrowed_amount_sf' = [borrowed_amount_sf EXCEPT ![r] = n]
    BY <1>3, <1>5, <1>6
  <2> HIDE DEF n
  <2>2. QED
    BY <1>1, <2>1, DebtWritten DEF Accounts
<1>9. Loans'
  <2>1. l.borrowed_amount_sf \in Nat
    BY <1>4 DEF GoodLoan, ObligationLiquidity
  <2>2. l.borrowed_amount_sf + f \in Nat
    BY <1>3, <2>1
  <2> DEFINE x == l.borrowed_amount_sf + f
             w == [l EXCEPT !.borrowed_amount_sf = x]
  <2>3. GoodLoan(w)
    <3> HIDE DEF x
    <3>1. QED
      BY <1>2, <1>4, <2>2, LoanAdjusted DEF x
  <2>4. v = w
    OBVIOUS
  <2>5. i \in 1..MaxBorrows
    BY <1>1, <1>2, BorrowSlotChosen, Zenon
  <2> HIDE DEF i, v, w
  <2>6. QED
    BY <1>1, <2>3, <2>4, <2>5, LoanWritten DEF Accounts
<1>10. Fees' /\ Prices'
  BY <1>1, FeesKept, PricesSame, Zenon DEF Accounts
<1>11. QED
  BY <1>7, <1>8, <1>9, <1>10, Zenon DEF Accounts

LEMMA RepayAccounts ==
    ASSUME Accounts, BorrowTable, NEW o \in Obligations, NEW r \in Reserves,
           NEW a \in RepayAmounts, RepayObligationLiquidity(o, r, a)
    PROVE  Accounts'
<1> DEFINE i == SlotFor(BorrowReserves(o), r)
           l == CurrentBorrow(o, r)
           settled == Settled(a, l.borrowed_amount_sf)
           paid == RepayAmount(settled)
           v == AfterRepay(l, settled)
<1>1. /\ SlotsOf(BorrowReserves(o), r) # {}
      /\ LiquidityRepay(r, paid, settled) /\ RepayTransfer(o, r, paid)
      /\ borrows' = [borrows EXCEPT ![o][i] = v]
      /\ UNCHANGED <<fees, prices, limits, cumulative_borrow_rate_bsf, mint_total_supply,
                     deposits, deposits_asset_tiers, slot>>
  BY Zenon DEF RepayObligationLiquidity
<1>2. a \in Nat /\ KlendMarketAssumption
  BY KlendMarketAssumption DEF KlendMarketAssumption
<1>3. GoodLoan(l) /\ l.borrow_reserve = r /\ i \in 1..MaxBorrows
  BY <1>1, <1>2, CurrentLoan, BorrowSlotChosen, Zenon DEF Accounts, HasSlot
<1>4. l.borrowed_amount_sf \in Nat
  BY <1>3 DEF GoodLoan, ObligationLiquidity
<1> HIDE DEF l
<1>5. settled \in Nat /\ settled <= l.borrowed_amount_sf /\ paid \in Nat
  BY <1>2, <1>4, RepaymentFacts
<1>6. /\ available_amount[r] \in Nat /\ supply_vault[r] = available_amount[r]
      /\ mint_total_supply \in [Reserves -> Nat] /\ borrowed_amount_sf[r] \in Nat
  BY DEF Accounts, Books, BooksMatchTokens, Debts
<1>7. /\ available_amount' = [available_amount EXCEPT ![r] = @ + paid]
      /\ borrowed_amount_sf' = [borrowed_amount_sf EXCEPT ![r] = BorrowedAfterRepay(@, settled)]
      /\ supply_vault' = [supply_vault EXCEPT ![r] = @ + paid]
  BY <1>1, Zenon DEF LiquidityRepay, LiquidityDeposit, RepayTransfer
<1> HIDE DEF paid
<1>8. Books'
  <2> DEFINE n == available_amount[r] + paid
  <2>1. /\ n \in Nat /\ available_amount' = [available_amount EXCEPT ![r] = n]
        /\ supply_vault' = [supply_vault EXCEPT ![r] = n]
        /\ mint_total_supply' \in [Reserves -> Nat]
    BY <1>1, <1>5, <1>6, <1>7
  <2> HIDE DEF n
  <2>2. QED
    BY <2>1, BooksWritten DEF Accounts
<1>9. Debts'
  <2> DEFINE n == BorrowedAfterRepay(borrowed_amount_sf[r], settled)
  <2> HIDE DEF settled
  <2>1. n \in Nat
    BY <1>5, <1>6 DEF BorrowedAfterRepay, Least
  <2>2. borrowed_amount_sf' = [borrowed_amount_sf EXCEPT ![r] = n]
    BY <1>7
  <2> HIDE DEF n
  <2>3. QED
    BY <1>1, <2>1, <2>2, DebtWritten DEF Accounts
<1>10. GoodLoan(v)
  <2> HIDE DEF settled
  <2>1. CASE settled = l.borrowed_amount_sf
    BY <1>2, <2>1, EmptyLoan, Zenon DEF AfterRepay
  <2>2. CASE settled # l.borrowed_amount_sf
    <3> DEFINE x == l.borrowed_amount_sf - settled
    <3>1. v = [l EXCEPT !.borrowed_amount_sf = x]
      BY <2>2 DEF AfterRepay
    <3>2. x \in Nat
      BY <1>4, <1>5
    <3> HIDE DEF x
    <3>3. GoodLoan([l EXCEPT !.borrowed_amount_sf = x])
      BY <1>2, <1>3, <3>2, LoanAdjusted
    <3>4. QED
      BY <3>1, <3>3, Zenon
  <2>3. QED
    BY <2>1, <2>2
<1> HIDE DEF v, i
<1>11. Loans'
  BY <1>1, <1>3, <1>10, LoanWritten DEF Accounts
<1>12. Fees' /\ Prices'
  BY <1>1, FeesKept, PricesSame, Zenon DEF Accounts
<1>13. QED
  BY <1>8, <1>9, <1>11, <1>12, Zenon DEF Accounts

LEMMA ForgiveAccounts ==
    ASSUME Accounts, BorrowTable, NEW o \in Obligations, NEW r \in Reserves, ForgiveDebt(o, r)
    PROVE  Accounts'
<1> DEFINE i == SlotFor(BorrowReserves(o), r)
           l == CurrentBorrow(o, r)
           n == (borrowed_amount_sf[r] - l.borrowed_amount_sf) % FRACTION_MOD
<1>1. /\ SlotsOf(BorrowReserves(o), r) # {}
      /\ borrowed_amount_sf' = [borrowed_amount_sf EXCEPT ![r] = n]
      /\ borrows' = [borrows EXCEPT ![o][i] = EmptyBorrow]
      /\ UNCHANGED <<fees, prices, limits, available_amount, cumulative_borrow_rate_bsf,
                     mint_total_supply, deposits, deposits_asset_tiers, tokens, slot>>
  BY Zenon DEF ForgiveDebt
<1>2. KlendMarketAssumption
  BY KlendMarketAssumption DEF KlendMarketAssumption
<1>3. GoodLoan(l) /\ i \in 1..MaxBorrows
  BY <1>1, <1>2, CurrentLoan, BorrowSlotChosen, Zenon DEF Accounts, HasSlot
<1>4. l.borrowed_amount_sf \in Nat /\ borrowed_amount_sf[r] \in Nat
  BY <1>3 DEF GoodLoan, ObligationLiquidity, Accounts, Debts
<1> HIDE DEF l, i
<1>5. n \in Nat
  BY <1>2, <1>4 DEF KlendMarketAssumption
<1> HIDE DEF n
<1>6. Debts'
  BY <1>1, <1>5, DebtWritten DEF Accounts
<1>7. GoodLoan(EmptyBorrow)
  BY <1>2, EmptyLoan, Zenon
<1>8. Loans'
  BY <1>1, <1>3, <1>7, LoanWritten DEF Accounts
<1>9. Books' /\ Fees' /\ Prices'
  BY <1>1, BooksKept, FeesKept, PricesSame, Zenon DEF Accounts, tokens
<1>10. QED
  BY <1>6, <1>8, <1>9, Zenon DEF Accounts
\* Fees are paid out of what is available.
LEMMA FeesPaid ==
    ASSUME Accounts, NEW r \in Reserves, NEW n \in Nat, LiquidityWithdraw(r, n),
           WithdrawFeesTransfer(r, n), mint_total_supply' = mint_total_supply
    PROVE  Books'
<1> DEFINE left == available_amount[r] - n
<1>1. /\ n <= available_amount[r]
      /\ available_amount' = [available_amount EXCEPT ![r] = @ - n]
      /\ supply_vault' = [supply_vault EXCEPT ![r] = @ - n]
  BY Zenon DEF LiquidityWithdraw, WithdrawFeesTransfer
<1>2. /\ available_amount[r] \in Nat /\ supply_vault[r] = available_amount[r]
      /\ mint_total_supply \in [Reserves -> Nat]
  BY DEF Accounts, Books, BooksMatchTokens
<1>3. /\ left \in Nat /\ available_amount' = [available_amount EXCEPT ![r] = left]
      /\ supply_vault' = [supply_vault EXCEPT ![r] = left]
      /\ mint_total_supply' \in [Reserves -> Nat]
  BY <1>1, <1>2
<1> HIDE DEF left
<1>4. QED
  BY <1>3, BooksWritten DEF Accounts

LEMMA FeeTypes ==
    ASSUME Accounts, NEW r \in Reserves
    PROVE  /\ accumulated_protocol_fees_sf[r] \in Nat /\ accumulated_referrer_fees_sf[r] \in Nat
           /\ pending_referrer_fees_sf[r] \in Nat /\ amount_unclaimed_sf[r] \in Nat
           /\ available_amount[r] \in Nat
BY DEF Accounts, Fees, Books

\* The whole units of a sum, or fewer, are no more than it.
LEMMA FloorLeast ==
    ASSUME NEW owed \in Nat, NEW available \in Nat, NEW n,
           n = Least(available, ToFloor(owed)) \/ n = Least(ToFloor(owed), available)
    PROVE  n \in Nat /\ FromNum(n) <= owed
<1> DEFINE whole == ToFloor(owed)
<1>1. ONE \in Nat /\ ONE > 0
  BY KlendMathAssumption
<1>2. whole \in Nat /\ whole * ONE <= owed
  BY <1>1, FloorNat, DivBelow DEF ToFloor
<1> HIDE DEF whole
<1>3. n \in Nat /\ n <= whole
  BY <1>2 DEF Least, whole
<1>4. n * ONE <= whole * ONE /\ n * ONE \in Nat /\ whole * ONE \in Nat
  BY <1>1, <1>2, <1>3, TimesBoth, TimesNat
<1> DEFINE a == n * ONE
           b == whole * ONE
<1> HIDE DEF a, b
<1>5. a \in Nat /\ b \in Nat /\ a <= b /\ b <= owed
  BY <1>2, <1>4 DEF a, b
<1>6. a <= owed
  BY <1>5
<1>7. QED
  BY <1>3, <1>6 DEF a, FromNum

LEMMA RedeemFeesAccounts ==
    ASSUME Accounts, NEW r \in Reserves, RedeemFees(r)
    PROVE  Accounts'
<1> DEFINE n == CalculateRedeemFees(r)
<1>1. /\ n > 0 /\ LiquidityWithdraw(r, n) /\ WithdrawFeesTransfer(r, n)
      /\ accumulated_protocol_fees_sf' =
            [accumulated_protocol_fees_sf EXCEPT ![r] = @ - FromNum(n)]
      /\ UNCHANGED <<prices, limits, borrowed_amount_sf, cumulative_borrow_rate_bsf,
                     mint_total_supply, accumulated_referrer_fees_sf, pending_referrer_fees_sf,
                     amount_unclaimed_sf, obligations, slot>>
  BY Zenon DEF RedeemFees
<1>2. n \in Nat /\ FromNum(n) <= accumulated_protocol_fees_sf[r]
  <2> DEFINE owed == accumulated_protocol_fees_sf[r]
             available == available_amount[r]
  <2>1. owed \in Nat /\ available \in Nat
    BY FeeTypes
  <2>2. n = Least(available, ToFloor(owed))
    BY Zenon DEF CalculateRedeemFees
  <2> HIDE DEF n, owed, available
  <2>3. QED
    BY <2>1, <2>2, FloorLeast DEF owed
<1> HIDE DEF n
<1>3. Books'
  BY <1>1, <1>2, FeesPaid
<1>4. Fees'
  <2>1. FromNum(n) \in Nat
    BY <1>2, FromNumNat
  <2>2. accumulated_protocol_fees_sf[r] - FromNum(n) \in Nat
    BY <1>2, <2>1, FeeTypes
  <2>3. accumulated_protocol_fees_sf' \in [Reserves -> Nat]
    BY <1>1, <2>2 DEF Accounts, Fees
  <2>4. QED
    BY <1>1, <2>3 DEF Accounts, Fees
<1>5. Debts' /\ Loans' /\ Prices'
  BY <1>1, DebtsKept, LoansKept, PricesSame, Zenon DEF Accounts, obligations
<1>6. QED
  BY <1>3, <1>4, <1>5, Zenon DEF Accounts

LEMMA AccumulateAccounts ==
    ASSUME Accounts, NEW r \in Reserves, AccumulateReferrerFees(r)
    PROVE  Accounts'
<1>1. /\ pending_referrer_fees_sf' = [pending_referrer_fees_sf EXCEPT ![r] = 0]
      /\ accumulated_referrer_fees_sf' =
            [accumulated_referrer_fees_sf EXCEPT ![r] = @ + pending_referrer_fees_sf[r]]
      /\ amount_unclaimed_sf' =
            [amount_unclaimed_sf EXCEPT ![r] = @ + pending_referrer_fees_sf[r]]
      /\ UNCHANGED <<prices, books, accumulated_protocol_fees_sf, obligations, tokens>>
  BY Zenon DEF AccumulateReferrerFees
<1>2. pending_referrer_fees_sf' \in [Reserves -> Nat]
  BY <1>1 DEF Accounts, Fees
<1>3. /\ accumulated_referrer_fees_sf' \in [Reserves -> Nat]
      /\ amount_unclaimed_sf' \in [Reserves -> Nat]
  BY <1>1, FeeTypes DEF Accounts, Fees
<1>4. Fees'
  BY <1>1, <1>2, <1>3 DEF Accounts, Fees
<1>5. Books' /\ Debts' /\ Loans' /\ Prices'
  BY <1>1, BooksKept, DebtsKept, LoansKept, PricesSame, Zenon DEF Accounts, books, obligations, tokens
<1>6. QED
  BY <1>4, <1>5, Zenon DEF Accounts

LEMMA WithdrawReferrerAccounts ==
    ASSUME Accounts, NEW r \in Reserves, WithdrawReferrerFees(r)
    PROVE  Accounts'
<1> DEFINE n == GetWithdrawReferrerFees(r)
<1>1. /\ n > 0 /\ LiquidityWithdraw(r, n) /\ WithdrawFeesTransfer(r, n)
      /\ accumulated_referrer_fees_sf' =
            [accumulated_referrer_fees_sf EXCEPT ![r] = @ - FromNum(n)]
      /\ amount_unclaimed_sf' = [amount_unclaimed_sf EXCEPT ![r] = @ - FromNum(n)]
      /\ UNCHANGED <<prices, limits, borrowed_amount_sf, cumulative_borrow_rate_bsf,
                     mint_total_supply, accumulated_protocol_fees_sf, pending_referrer_fees_sf,
                     obligations, slot>>
  BY Zenon DEF WithdrawReferrerFees
<1>2. /\ n \in Nat /\ FromNum(n) <= amount_unclaimed_sf[r]
      /\ FromNum(n) <= accumulated_referrer_fees_sf[r]
  <2> DEFINE unclaimed == amount_unclaimed_sf[r]
             accumulated == accumulated_referrer_fees_sf[r]
             owed == Least(unclaimed, accumulated)
             available == available_amount[r]
  <2>1. unclaimed \in Nat /\ accumulated \in Nat /\ available \in Nat
    BY FeeTypes
  <2>2. n = Least(ToFloor(owed), available)
    BY Zenon DEF GetWithdrawReferrerFees
  <2> HIDE DEF n, unclaimed, accumulated, available
  <2>3. owed \in Nat /\ owed <= unclaimed /\ owed <= accumulated
    BY <2>1, LeastNat
  <2> HIDE DEF owed
  <2>4. n \in Nat /\ FromNum(n) <= owed
    BY <2>1, <2>2, <2>3, FloorLeast
  <2>5. FromNum(n) \in Nat
    BY <2>4, FromNumNat
  <2>6. FromNum(n) <= unclaimed /\ FromNum(n) <= accumulated
    BY <2>1, <2>3, <2>4, <2>5
  <2>7. QED
    BY <2>4, <2>6 DEF unclaimed, accumulated
<1> HIDE DEF n
<1>3. Books'
  BY <1>1, <1>2, FeesPaid
<1>4. Fees'
  <2>1. FromNum(n) \in Nat
    BY <1>2, FromNumNat
  <2>2. /\ accumulated_referrer_fees_sf[r] - FromNum(n) \in Nat
        /\ amount_unclaimed_sf[r] - FromNum(n) \in Nat
    BY <1>2, <2>1, FeeTypes
  <2>3. /\ accumulated_referrer_fees_sf' \in [Reserves -> Nat]
        /\ amount_unclaimed_sf' \in [Reserves -> Nat]
    BY <1>1, <2>2 DEF Accounts, Fees
  <2>4. QED
    BY <1>1, <2>3 DEF Accounts, Fees
<1>5. Debts' /\ Loans' /\ Prices'
  BY <1>1, DebtsKept, LoansKept, PricesSame, Zenon DEF Accounts, obligations
<1>6. QED
  BY <1>3, <1>4, <1>5, Zenon DEF Accounts

-----------------------------------------------------------------------------
LEMMA AccountsInit ==
    ASSUME Init
    PROVE  Accounts
<1>1. /\ available_amount = [r \in Reserves |-> 0] /\ mint_total_supply = [r \in Reserves |-> 0]
      /\ supply_vault = [r \in Reserves |-> 0] /\ borrowed_amount_sf = [r \in Reserves |-> 0]
      /\ cumulative_borrow_rate_bsf = [r \in Reserves |-> ONE]
      /\ accumulated_protocol_fees_sf = [r \in Reserves |-> 0]
      /\ accumulated_referrer_fees_sf = [r \in Reserves |-> 0]
      /\ pending_referrer_fees_sf = [r \in Reserves |-> 0]
      /\ amount_unclaimed_sf = [r \in Reserves |-> 0]
      /\ market_price_sf = [r \in Reserves |-> 0]
      /\ borrows = [o \in Obligations |-> [i \in 1..MaxBorrows |-> EmptyBorrow]]
  BY Zenon DEF Init, InitLiquidity, InitReserves, InitObligations
<1>2. Books
  BY <1>1 DEF Books, BooksMatchTokens
<1>3. Debts
  BY <1>1, KlendMathAssumption DEF Debts
<1>4. Fees
  BY <1>1 DEF Fees
<1>5. Loans
  <2>1. KlendMarketAssumption
    BY KlendMarketAssumption DEF KlendMarketAssumption
  <2>2. GoodLoan(EmptyBorrow)
    BY <2>1, EmptyLoan, Zenon
  <2>3. \A o \in Obligations, i \in 1..MaxBorrows : borrows[o][i] = EmptyBorrow
    BY <1>1
  <2>4. QED
    BY <2>2, <2>3, Zenon DEF Loans
<1>6. Prices
  BY <1>1 DEF Prices
<1>7. QED
  BY <1>2, <1>3, <1>4, <1>5, <1>6, Zenon DEF Accounts

LEMMA AccountsNext ==
    ASSUME Accounts, BorrowTable, PricesInv, [Next]_vars
    PROVE  Accounts'
<1>1. ASSUME NEW r \in Reserves, NEW readings \in Readings, RefreshReserve(r, readings)
      PROVE  Accounts'
  BY <1>1, RefreshAccounts
<1>2. ASSUME NEW r \in Reserves, RedeemFees(r) \/ AccumulateReferrerFees(r) \/ WithdrawReferrerFees(r)
      PROVE  Accounts'
  BY <1>2, RedeemFeesAccounts, AccumulateAccounts, WithdrawReferrerAccounts, Zenon
<1>3. ASSUME NEW r \in Reserves, NEW o \in Obligations, NEW a \in DepositAmounts,
             DepositReserveLiquidityAndObligationCollateral(o, r, a)
      PROVE  Accounts'
  BY <1>3, DepositAccounts
<1>4. ASSUME NEW r \in Reserves, NEW o \in Obligations, NEW a \in RedeemAmounts,
             WithdrawObligationCollateralAndRedeemReserveCollateral(o, r, a)
      PROVE  Accounts'
  BY <1>4, WithdrawAccounts
<1>5. ASSUME NEW r \in Reserves, NEW o \in Obligations, NEW a \in BorrowAmounts,
             NEW v \in MaxDebtValues, BorrowObligationLiquidity(o, r, a, v)
      PROVE  Accounts'
  BY <1>5, BorrowAccounts
<1>6. ASSUME NEW r \in Reserves, NEW o \in Obligations, NEW a \in RepayAmounts,
             RepayObligationLiquidity(o, r, a)
      PROVE  Accounts'
  BY <1>6, RepayAccounts
<1>7. ASSUME NEW r \in Reserves, NEW o \in Obligations, ForgiveDebt(o, r)
      PROVE  Accounts'
  BY <1>7, ForgiveAccounts
<1>8. CASE Tick \/ UNCHANGED vars
  <2>1. UNCHANGED <<fees, prices, books, obligations, tokens>>
    BY <1>8, Zenon DEF Tick, vars
  <2>2. QED
    BY <2>1, BooksKept, DebtsKept, FeesKept, LoansKept, PricesSame, Zenon
       DEF Accounts, books, obligations, tokens
<1>9. QED
  BY <1>1, <1>2, <1>3, <1>4, <1>5, <1>6, <1>7, <1>8, Zenon DEF Next

\* The slots in which limits were crossed, one per reserve.
Remembered == DOMAIN borrow_limit_crossed_slot = Reserves

MarketInv == DepositTable /\ BorrowTable /\ PricesInv /\ Accounts /\ Remembered

\* Only a refresh writes the slots in which limits were crossed.
LEMMA LimitsWritten ==
    ASSUME Next
    PROVE  \/ UNCHANGED limits
           \/ \E r \in Reserves, readings \in Readings : RefreshReserve(r, readings)
<1>1. ASSUME NEW r \in Reserves, RedeemFees(r) \/ AccumulateReferrerFees(r) \/ WithdrawReferrerFees(r)
      PROVE  UNCHANGED limits
  BY <1>1, Zenon DEF RedeemFees, AccumulateReferrerFees, WithdrawReferrerFees
<1>2. ASSUME NEW r \in Reserves, NEW o \in Obligations,
             \/ \E a \in DepositAmounts : DepositReserveLiquidityAndObligationCollateral(o, r, a)
             \/ \E a \in RedeemAmounts : WithdrawObligationCollateralAndRedeemReserveCollateral(o, r, a)
             \/ \E a \in BorrowAmounts, v \in MaxDebtValues : BorrowObligationLiquidity(o, r, a, v)
             \/ \E a \in RepayAmounts : RepayObligationLiquidity(o, r, a)
             \/ ForgiveDebt(o, r)
      PROVE  UNCHANGED limits
  BY <1>2, Zenon DEF DepositReserveLiquidityAndObligationCollateral,
     WithdrawObligationCollateralAndRedeemReserveCollateral, BorrowObligationLiquidity,
     RepayObligationLiquidity, ForgiveDebt
<1>3. CASE Tick
  BY <1>3, Zenon DEF Tick
<1>4. QED
  BY <1>1, <1>2, <1>3, Zenon DEF Next

LEMMA RememberedNext ==
    ASSUME Remembered, [Next]_vars
    PROVE  Remembered'
<1>1. CASE UNCHANGED limits
  BY <1>1, Zenon DEF Remembered, limits
<1>2. ASSUME NEW r \in Reserves, NEW readings, RefreshReserve(r, readings)
      PROVE  Remembered'
  <2>1. borrow_limit_crossed_slot' = [borrow_limit_crossed_slot EXCEPT
            ![r] = CrossedSlot(@, BorrowLimitCrossed(r)')]
    BY <1>2, Zenon DEF RefreshReserve
  <2>2. QED
    BY <2>1, Zenon DEF Remembered
<1>3. CASE UNCHANGED vars
  BY <1>3, <1>1, Zenon DEF vars
<1>4. QED
  BY <1>1, <1>2, <1>3, LimitsWritten, Zenon

LEMMA MarketInvInit == Init => MarketInv
<1>1. KlendMarketAssumption
  BY KlendMarketAssumption DEF KlendMarketAssumption
<1>2. ASSUME Init PROVE MarketInv
  <2>1. Remembered
    BY <1>2, Zenon DEF Init, InitLiquidity, Remembered
  <2>2. QED
    BY <1>1, <1>2, <2>1, TablesInit, PricesInit, AccountsInit, Zenon DEF MarketInv
<1>3. QED
  BY <1>2

LEMMA MarketInvNext == MarketInv /\ [Next]_vars => MarketInv'
<1>1. KlendMarketAssumption
  BY KlendMarketAssumption DEF KlendMarketAssumption
<1>2. QED
  BY <1>1, TablesNext, PricesNext, AccountsNext, RememberedNext, Zenon DEF MarketInv

\* For any reserves, customers, amounts, rates and prices: however deposits, redemptions,
\* loans of a number or of all there is, repayments and fee payments round, each on its
\* own, what a reserve believes it has available is in its vault, to the unit.
THEOREM VaultsHoldTheBooks == Spec => []BooksMatchTokens
<1>1. MarketInv => BooksMatchTokens
  BY Zenon DEF MarketInv, Accounts, Books
<1>2. QED
  BY <1>1, MarketInvInit, MarketInvNext, PTL DEF Spec

-----------------------------------------------------------------------------
(* The collateral of the reserves and the slots that hold it *)

DepositSlots == Obligations \X (1..MaxDeposits)
InSlot(d, r) == IF d.deposit_reserve = r THEN d.deposited_amount ELSE 0
DepositedIn(r) == [p \in DepositSlots |-> InSlot(deposits[p[1]][p[2]], r)]
Held == \A o \in Obligations, i \in 1..MaxDeposits : deposits[o][i] \in ObligationCollateral
Collateral ==
    /\ Held
    /\ mint_total_supply \in [Reserves -> Nat] /\ collateral_vault = mint_total_supply
    /\ \A r \in Reserves : SumOf(DepositedIn(r), DepositSlots) = mint_total_supply[r]

LEMMA DepositSlotsFinite ==
    ASSUME KlendMarketAssumption
    PROVE  IsFiniteSet(DepositSlots)
<1>1. IsFiniteSet(1..MaxDeposits)
  BY FS_Interval DEF KlendMarketAssumption
<1>2. QED
  BY <1>1, ObligationsAssumption, FS_Product DEF ObligationsAssumption, DepositSlots

LEMMA InSlotNat ==
    ASSUME NEW d \in ObligationCollateral, NEW r
    PROVE  InSlot(d, r) \in Nat
BY DEF InSlot, ObligationCollateral

\* What a reserve's own slots hold, as a sum over all slots.
LEMMA DepositedOverAll ==
    ASSUME KlendMarketAssumption, Held, NEW r \in Reserves
    PROVE  Deposited(r) = SumOf(DepositedIn(r), DepositSlots)
<1> DEFINE f == [p \in DepositsOf(r) |-> deposits[p[1]][p[2]].deposited_amount]
<1>1. /\ DepositsOf(r) \in SUBSET DepositSlots
      /\ \A p \in DepositSlots :
            p \in DepositsOf(r) <=> deposits[p[1]][p[2]].deposit_reserve = r
  BY DEF DepositsOf, DepositSlots
<1>2. \A p \in DepositSlots : deposits[p[1]][p[2]] \in ObligationCollateral
  BY DEF Held, DepositSlots
<1>3. ASSUME NEW p \in DepositsOf(r) PROVE f[p] \in Int /\ DepositedIn(r)[p] = f[p]
  <2>1. p \in DepositSlots /\ deposits[p[1]][p[2]].deposit_reserve = r
    BY <1>1
  <2>2. f[p] = deposits[p[1]][p[2]].deposited_amount
    BY Zenon
  <2>3. DepositedIn(r)[p] = deposits[p[1]][p[2]].deposited_amount
    BY <2>1, Zenon DEF DepositedIn, InSlot
  <2>4. deposits[p[1]][p[2]].deposited_amount \in Nat
    BY <1>2, <2>1 DEF ObligationCollateral
  <2>5. QED
    BY <2>2, <2>3, <2>4
<1>4. ASSUME NEW p \in DepositSlots \ DepositsOf(r) PROVE DepositedIn(r)[p] = 0
  BY <1>1, <1>4, Zenon DEF DepositedIn, InSlot
<1>5. PartOf(f, DepositsOf(r), DepositedIn(r), DepositSlots)
  BY <1>1, <1>3, <1>4, DepositSlotsFinite, Zenon DEF PartOf
<1>6. SumOf(f, DepositsOf(r)) = SumOf(DepositedIn(r), DepositSlots)
  BY <1>5, SumOverPart
<1>7. QED
  BY <1>6, Zenon DEF Deposited

\* An instruction that writes one slot, which held nothing or collateral of r, and holds
\* nothing or collateral of r after it.
LEMMA CollateralMoved ==
    ASSUME KlendMarketAssumption, DepositTable, Collateral,
           NEW o \in Obligations, NEW i \in 1..MaxDeposits, NEW r \in Reserves, NEW d \in Int,
           NEW v \in ObligationCollateral, v.deposit_reserve \in {r, NoReserve},
           deposits[o][i].deposit_reserve \in {r, NoReserve},
           deposits' = [deposits EXCEPT ![o][i] = v],
           InSlot(v, r) = InSlot(deposits[o][i], r) + d,
           mint_total_supply[r] + d \in Nat,
           mint_total_supply' = [mint_total_supply EXCEPT ![r] = @ + d],
           collateral_vault' = [collateral_vault EXCEPT ![r] = @ + d]
    PROVE  Collateral'
<1>1. DOMAIN deposits = Obligations /\ \A p \in Obligations : DOMAIN deposits[p] = 1..MaxDeposits
  BY Zenon DEF DepositTable, DepositDomains
<1>2. \A p \in Obligations, j \in 1..MaxDeposits :
         deposits'[p][j] = IF p = o /\ j = i THEN v ELSE deposits[p][j]
  BY <1>1
<1>3. Held'
  BY <1>2 DEF Collateral, Held, ObligationCollateral
<1>4. /\ mint_total_supply \in [Reserves -> Nat] /\ collateral_vault = mint_total_supply
      /\ \A q \in Reserves : SumOf(DepositedIn(q), DepositSlots) = mint_total_supply[q]
  BY Zenon DEF Collateral
<1>5. mint_total_supply' \in [Reserves -> Nat] /\ collateral_vault' = mint_total_supply'
  BY <1>4
<1>6. ASSUME NEW q \in Reserves
      PROVE  SumOf(DepositedIn(q)', DepositSlots) = mint_total_supply'[q]
  <2> DEFINE e == IF q = r THEN d ELSE 0
             s == <<o, i>>
             before == DepositedIn(q)
             after == DepositedIn(q)'
  <2>1. s \in DepositSlots /\ s[1] = o /\ s[2] = i
    BY DEF DepositSlots
  <2>2. ASSUME NEW p \in DepositSlots
        PROVE  /\ p[1] \in Obligations /\ p[2] \in 1..MaxDeposits
               /\ before[p] = InSlot(deposits[p[1]][p[2]], q)
               /\ after[p] = InSlot(deposits'[p[1]][p[2]], q)
               /\ p # s => p[1] # o \/ p[2] # i
    BY DEF DepositSlots, DepositedIn
  <2> HIDE DEF before, after, s
  <2>3. \A p \in DepositSlots : before[p] \in Int /\ after[p] \in Int
    <3>1. \A b \in ObligationCollateral : InSlot(b, q) \in Int
      BY InSlotNat
    <3>2. ASSUME NEW p \in DepositSlots
          PROVE  /\ deposits[p[1]][p[2]] \in ObligationCollateral
                 /\ deposits'[p[1]][p[2]] \in ObligationCollateral
      <4>1. \A u \in Obligations, j \in 1..MaxDeposits :
               deposits[u][j] \in ObligationCollateral /\ deposits'[u][j] \in ObligationCollateral
        BY <1>2 DEF Collateral, Held
      <4>2. QED
        BY <2>2, <4>1
    <3>3. ASSUME NEW p \in DepositSlots PROVE before[p] \in Int /\ after[p] \in Int
      BY <2>2, <3>1, <3>2
    <3>4. QED
      BY <3>3
  <2>4. ASSUME NEW p \in DepositSlots, p # s PROVE after[p] = before[p]
    <3>1. deposits'[p[1]][p[2]] = deposits[p[1]][p[2]]
      BY <1>2, <2>2, <2>4
    <3>2. QED
      BY <2>2, <3>1
  <2>5. InSlot(v, q) = InSlot(deposits[o][i], q) + e
    <3>1. CASE q = r
      BY <3>1, Zenon
    <3>2. CASE q # r
      <4>1. q # NoReserve
        BY DEF KlendMarketAssumption
      <4>2. InSlot(v, q) = 0 /\ InSlot(deposits[o][i], q) = 0
        BY <3>2, <4>1, Zenon DEF InSlot
      <4>3. QED
        BY <3>2, <4>2
    <3>3. QED
      BY <3>1, <3>2
  <2>6. after[s] = before[s] + e
    <3>1. deposits'[o][i] = v
      BY <1>2, Zenon
    <3>2. after[s] = InSlot(v, q) /\ before[s] = InSlot(deposits[o][i], q)
      BY <2>1, <2>2, <3>1
    <3>3. QED
      BY <2>5, <3>2, Zenon
  <2>7. e \in Int /\ mint_total_supply'[q] = mint_total_supply[q] + e
    <3>1. mint_total_supply'[q] = IF q = r THEN mint_total_supply[q] + d ELSE mint_total_supply[q]
      BY <1>4
    <3>2. mint_total_supply[q] \in Nat
      BY <1>4
    <3>3. QED
      BY <3>1, <3>2
  <2>8. \A f, g : DiffersAt(f, g, DepositSlots, s, e)
                     => SumOf(g, DepositSlots) = SumOf(f, DepositSlots) + e
    BY SumChanged
  <2> HIDE DEF e
  <2>9. DiffersAt(before, after, DepositSlots, s, e)
    BY <2>1, <2>3, <2>4, <2>6, <2>7, DepositSlotsFinite, Zenon DEF DiffersAt
  <2>10. SumOf(after, DepositSlots) = SumOf(before, DepositSlots) + e
    BY <2>8, <2>9, Zenon
  <2>11. SumOf(before, DepositSlots) = mint_total_supply[q]
    BY <1>4, Zenon DEF before
  <2>12. QED
    BY <2>7, <2>10, <2>11, Zenon DEF after
<1>7. QED
  BY <1>3, <1>5, <1>6, Zenon DEF Collateral, DepositSlots

LEMMA CollateralKept ==
    ASSUME Collateral, UNCHANGED <<deposits, mint_total_supply, collateral_vault>>
    PROVE  Collateral'
<1>1. Held'
  BY DEF Collateral, Held, ObligationCollateral
<1>2. \A r : DepositedIn(r)' = DepositedIn(r)
  BY Zenon DEF DepositedIn, InSlot, DepositSlots
<1>3. QED
  BY <1>1, <1>2, Zenon DEF Collateral, DepositSlots

LEMMA DepositCollateral ==
    ASSUME KlendMarketAssumption, DepositTable, Collateral, Accounts,
           NEW o \in Obligations, NEW r \in Reserves, NEW a \in DepositAmounts,
           DepositReserveLiquidityAndObligationCollateral(o, r, a)
    PROVE  Collateral'
<1> DEFINE minted == LiquidityToCollateral(CollateralExchangeRate(r), a)
           i == SlotFor(DepositReserves(o), r)
           old == deposits[o][i]
           v == [deposit_reserve |-> r, deposited_amount |-> old.deposited_amount + minted]
<1>1. /\ HasSlot(DepositReserves(o), r)
      /\ deposits' = [deposits EXCEPT ![o][i] = [deposit_reserve |-> r,
                           deposited_amount |-> @.deposited_amount + minted]]
      /\ mint_total_supply' = [mint_total_supply EXCEPT ![r] = @ + minted]
      /\ collateral_vault' = [collateral_vault EXCEPT ![r] = @ + minted]
  BY Zenon DEF DepositReserveLiquidityAndObligationCollateral, Mint, DepositTransfer
<1>2. minted \in Nat
  <2>1. a \in Nat
    BY DEF KlendMarketAssumption
  <2>2. CollateralExchangeRate(r) * a \in Nat
    BY <2>1, RateNat, TimesNat DEF Accounts
  <2>3. QED
    BY <2>2, FloorNat DEF LiquidityToCollateral
<1>3. i \in 1..MaxDeposits /\ old.deposit_reserve \in {r, NoReserve}
  <2>1. i \in 1..MaxDeposits
    BY <1>1, DepositSlotChosen, Zenon
  <2>2. DepositReserves(o)[i] \in {r, NoReserve}
    <3> DEFINE table == DepositReserves(o)
    <3>1. DOMAIN table = 1..MaxDeposits /\ \A j \in 1..MaxDeposits : table[j] = deposits[o][j].deposit_reserve
      BY DEF DepositReserves
    <3>2. \A j, k \in 1..MaxDeposits : table[j] = r /\ table[k] = r => j = k
      <4>1. DepositsDistinct(o)
        BY Zenon DEF DepositTable
      <4>2. QED
        BY <3>1, <4>1, Zenon DEF DepositsDistinct
    <3> HIDE DEF table
    <3>3. MaxDeposits \in Nat /\ HasSlot(table, r)
      BY <1>1 DEF KlendMarketAssumption, table
    <3>4. table[SlotFor(table, r)] \in {r, NoReserve}
      BY <3>1, <3>2, <3>3, SlotForFacts
    <3>5. QED
      BY <3>4, Zenon DEF table
  <2>3. QED
    BY <2>1, <2>2 DEF DepositReserves
<1>4. old \in ObligationCollateral
  BY <1>3, Zenon DEF Collateral, Held
<1>5. deposits' = [deposits EXCEPT ![o][i] = v]
  BY <1>1
<1>6. old.deposit_reserve = NoReserve => old.deposited_amount = 0
  <2>1. DepositSlot(o, i)
    BY <1>3, Zenon DEF DepositTable
  <2>2. old.deposit_reserve = NoReserve => old = EmptyDeposit
    BY <2>1, Zenon DEF DepositSlot
  <2>3. EmptyDeposit.deposited_amount = 0
    BY DEF EmptyDeposit
  <2>4. QED
    BY <2>2, <2>3, Zenon
<1> HIDE DEF i, minted
<1> HIDE DEF old
<1>7. v \in ObligationCollateral /\ v.deposit_reserve = r
      /\ v.deposited_amount = old.deposited_amount + minted
  BY <1>2, <1>4 DEF ObligationCollateral
<1> HIDE DEF v
<1>8. r # NoReserve
  BY DEF KlendMarketAssumption
<1>9. InSlot(v, r) = InSlot(old, r) + minted
  BY <1>2, <1>3, <1>4, <1>6, <1>7, <1>8 DEF InSlot, ObligationCollateral
<1>10. mint_total_supply[r] + minted \in Nat /\ minted \in Int
  BY <1>2 DEF Collateral
<1>11. QED
  BY <1>1, <1>3, <1>5, <1>7, <1>9, <1>10, CollateralMoved DEF old

LEMMA WithdrawCollateral ==
    ASSUME KlendMarketAssumption, DepositTable, Collateral,
           NEW o \in Obligations, NEW r \in Reserves, NEW c \in RedeemAmounts,
           WithdrawObligationCollateralAndRedeemReserveCollateral(o, r, c)
    PROVE  Collateral'
<1> DEFINE i == SlotFor(DepositReserves(o), r)
           old == deposits[o][i]
           v == AfterWithdraw(old, c)
<1>1. /\ SlotsOf(DepositReserves(o), r) # {}
      /\ c <= deposits[o][i].deposited_amount
      /\ c <= mint_total_supply[r]
      /\ deposits' = [deposits EXCEPT ![o][i] = AfterWithdraw(@, c)]
      /\ mint_total_supply' = [mint_total_supply EXCEPT ![r] = @ - c]
      /\ collateral_vault' = [collateral_vault EXCEPT ![r] = @ - c]
  BY Zenon DEF WithdrawObligationCollateralAndRedeemReserveCollateral, Burn,
     WithdrawAndRedeemTransfer
<1>2. i \in 1..MaxDeposits /\ old.deposit_reserve = r
  BY <1>1, DepositSlotChosen, Zenon DEF HasSlot
<1>3. c \in Nat /\ r # NoReserve
  BY DEF KlendMarketAssumption
<1>4. old \in ObligationCollateral
  BY <1>2, Zenon DEF Collateral, Held
<1>5. deposits' = [deposits EXCEPT ![o][i] = v]
  BY <1>1
<1>6. c <= old.deposited_amount
  BY <1>1
<1> HIDE DEF i, old, v
<1>7. /\ v \in ObligationCollateral /\ v.deposit_reserve \in {r, NoReserve}
      /\ InSlot(v, r) = InSlot(old, r) + (0 - c)
  <2>1. old.deposited_amount \in Nat /\ InSlot(old, r) = old.deposited_amount
    BY <1>2, <1>4 DEF ObligationCollateral, InSlot
  <2>2. CASE c = old.deposited_amount
    <3>1. v = EmptyDeposit
      BY <2>2, Zenon DEF v, AfterWithdraw
    <3>2. EmptyDeposit \in ObligationCollateral /\ EmptyDeposit.deposit_reserve = NoReserve
      BY DEF EmptyDeposit, ObligationCollateral
    <3>3. InSlot(v, r) = 0
      BY <1>3, <3>1, <3>2 DEF InSlot
    <3>4. QED
      BY <1>3, <2>1, <2>2, <3>1, <3>2, <3>3
  <2>3. CASE c # old.deposited_amount
    <3> DEFINE x == old.deposited_amount - c
    <3>1. v = [old EXCEPT !.deposited_amount = x]
      BY <2>3 DEF v, AfterWithdraw
    <3>2. x \in Nat
      BY <1>3, <1>6, <2>1
    <3> HIDE DEF x
    <3>3. v \in ObligationCollateral /\ v.deposit_reserve = r /\ v.deposited_amount = x
      BY <1>2, <1>4, <3>1, <3>2 DEF ObligationCollateral
    <3>4. InSlot(v, r) = x
      BY <3>3, Zenon DEF InSlot
    <3>5. QED
      BY <1>3, <2>1, <3>3, <3>4 DEF x
  <2>4. QED
    BY <2>2, <2>3
<1> DEFINE d == 0 - c
<1>8. d \in Int /\ mint_total_supply[r] + d \in Nat
  BY <1>1, <1>3 DEF Collateral
<1>9. /\ mint_total_supply' = [mint_total_supply EXCEPT ![r] = @ + d]
      /\ collateral_vault' = [collateral_vault EXCEPT ![r] = @ + d]
  <2>1. mint_total_supply[r] \in Nat /\ collateral_vault = mint_total_supply
    BY DEF Collateral
  <2>2. mint_total_supply[r] - c = mint_total_supply[r] + d
    BY <1>3, <2>1
  <2>3. QED
    BY <1>1, <2>1, <2>2, Zenon
<1>10. InSlot(v, r) = InSlot(old, r) + d
  BY <1>7
<1> HIDE DEF d
<1>11. QED
  BY <1>2, <1>5, <1>7, <1>8, <1>9, <1>10, CollateralMoved DEF old

LEMMA CollateralInit ==
    ASSUME KlendMarketAssumption, Init
    PROVE  Collateral
<1>1. /\ mint_total_supply = [r \in Reserves |-> 0]
      /\ collateral_vault = [r \in Reserves |-> 0]
      /\ deposits = [o \in Obligations |-> [i \in 1..MaxDeposits |-> EmptyDeposit]]
  BY Zenon DEF Init, InitReserves, InitObligations
<1>2. EmptyDeposit \in ObligationCollateral /\ \A r : InSlot(EmptyDeposit, r) = 0
  BY DEF EmptyDeposit, ObligationCollateral, InSlot
<1>3. Held
  BY <1>1, <1>2 DEF Held
<1>4. ASSUME NEW r \in Reserves PROVE SumOf(DepositedIn(r), DepositSlots) = 0
  <2>1. \A p \in DepositSlots : deposits[p[1]][p[2]] = EmptyDeposit
    BY <1>1 DEF DepositSlots
  <2>2. DepositedIn(r) = [p \in DepositSlots |-> 0]
    BY <1>2, <2>1, Zenon DEF DepositedIn
  <2> DEFINE f == [p \in DepositSlots |-> 0]
  <2>3. \A p \in DepositSlots : f[p] = 0
    OBVIOUS
  <2> HIDE DEF f
  <2>4. SumOf(f, DepositSlots) = Cardinality(DepositSlots) * 0
    BY <2>3, DepositSlotsFinite, SumConstant
  <2>5. Cardinality(DepositSlots) \in Nat
    BY DepositSlotsFinite, FS_CardinalityType
  <2>6. Cardinality(DepositSlots) * 0 = 0
    BY <2>5
  <2>7. QED
    BY <2>2, <2>4, <2>6, Zenon DEF f
<1>5. QED
  BY <1>1, <1>3, <1>4 DEF Collateral

LEMMA CollateralNext ==
    ASSUME DepositTable, Accounts, Collateral, [Next]_vars
    PROVE  Collateral'
<1>0. KlendMarketAssumption
  BY KlendMarketAssumption DEF KlendMarketAssumption
<1>1. ASSUME NEW r \in Reserves,
             \/ \E readings \in Readings : RefreshReserve(r, readings)
             \/ RedeemFees(r) \/ AccumulateReferrerFees(r) \/ WithdrawReferrerFees(r)
      PROVE  Collateral'
  <2>1. UNCHANGED <<deposits, mint_total_supply, collateral_vault>>
    BY <1>1, Zenon DEF RefreshReserve, RedeemFees, AccumulateReferrerFees, WithdrawReferrerFees,
       WithdrawFeesTransfer, obligations, books, tokens
  <2>2. QED
    BY <2>1, CollateralKept
<1>2. ASSUME NEW r \in Reserves, NEW o \in Obligations, NEW a \in DepositAmounts,
             DepositReserveLiquidityAndObligationCollateral(o, r, a)
      PROVE  Collateral'
  BY <1>0, <1>2, DepositCollateral
<1>3. ASSUME NEW r \in Reserves, NEW o \in Obligations, NEW a \in RedeemAmounts,
             WithdrawObligationCollateralAndRedeemReserveCollateral(o, r, a)
      PROVE  Collateral'
  BY <1>0, <1>3, WithdrawCollateral
<1>4. ASSUME NEW r \in Reserves, NEW o \in Obligations,
             \/ \E a \in BorrowAmounts, v \in MaxDebtValues : BorrowObligationLiquidity(o, r, a, v)
             \/ \E a \in RepayAmounts : RepayObligationLiquidity(o, r, a)
             \/ ForgiveDebt(o, r)
      PROVE  Collateral'
  <2>1. UNCHANGED <<deposits, mint_total_supply, collateral_vault>>
    BY <1>4, Zenon DEF BorrowObligationLiquidity, RepayObligationLiquidity, ForgiveDebt,
       BorrowTransfer, RepayTransfer, tokens
  <2>2. QED
    BY <2>1, CollateralKept
<1>5. CASE Tick \/ UNCHANGED vars
  <2>1. UNCHANGED <<deposits, mint_total_supply, collateral_vault>>
    BY <1>5, Zenon DEF Tick, vars, obligations, books, tokens
  <2>2. QED
    BY <2>1, CollateralKept
<1>6. QED
  BY <1>1, <1>2, <1>3, <1>4, <1>5, Zenon DEF Next

\* However many customers and reserves there are, and however deposits and redemptions
\* round: every collateral token a reserve has minted is in its vault and belongs to a
\* slot of some obligation.  Mint, burn, the two transfers and the table of the
\* obligation, whose slots are found, filled and emptied on their own, stay in step.
THEOREM CollateralIsAccounted == Spec => []CollateralAccounted
<1>1. KlendMarketAssumption
  BY KlendMarketAssumption DEF KlendMarketAssumption
<1>2. Init => MarketInv /\ Collateral
  BY <1>1, MarketInvInit, CollateralInit, Zenon
<1>3. MarketInv /\ Collateral /\ [Next]_vars => MarketInv' /\ Collateral'
  BY MarketInvNext, CollateralNext, Zenon DEF MarketInv
<1>4. Collateral => CollateralAccounted
  <2>1. Collateral => \A r \in Reserves : Deposited(r) = mint_total_supply[r]
    BY <1>1, DepositedOverAll, Zenon DEF Collateral
  <2>2. QED
    BY <2>1 DEF Collateral, CollateralAccounted
<1>5. QED
  BY <1>2, <1>3, <1>4, PTL DEF Spec

-----------------------------------------------------------------------------
(* What a share of the reserve is worth *)

\* What the reserve owns and is owed, less the fees.
Net(r) == Assets(r) - FeesOwed(r)

\* What a step does to it and to the collateral: it grows, liquidity comes in for the
\* collateral it is worth, liquidity is paid out for collateral, or a debt is forgiven.
Grows(r) == Net(r)' >= Net(r) /\ mint_total_supply'[r] = mint_total_supply[r]
Deposits(r) ==
    \E l \in Nat :
        LET minted == LiquidityToCollateral(CollateralExchangeRate(r), l)
        IN  /\ Net(r)' = Net(r) + FromNum(l)
            /\ mint_total_supply'[r] = mint_total_supply[r] + minted
Redeems(r) ==
    \E c \in Nat \ {0} :
        LET rate == CollateralExchangeRate(r)
        IN  /\ rate > 0 /\ c <= mint_total_supply[r]
            /\ Net(r)' = Net(r) - FromNum(CollateralToLiquidity(rate, c))
            /\ mint_total_supply'[r] = mint_total_supply[r] - c
Moved(r) == Grows(r) \/ Deposits(r) \/ Redeems(r) \/ \E o \in Obligations : ForgiveDebt(o, r)

\* A step that concerns the numbers of one reserve.
OnlyAt(r) ==
    \A p \in Reserves : p # r =>
        /\ available_amount'[p] = available_amount[p]
        /\ borrowed_amount_sf'[p] = borrowed_amount_sf[p]
        /\ accumulated_protocol_fees_sf'[p] = accumulated_protocol_fees_sf[p]
        /\ accumulated_referrer_fees_sf'[p] = accumulated_referrer_fees_sf[p]
        /\ pending_referrer_fees_sf'[p] = pending_referrer_fees_sf[p]
        /\ mint_total_supply'[p] = mint_total_supply[p]

LEMMA NetTypes ==
    ASSUME Accounts, NEW r \in Reserves
    PROVE  /\ Assets(r) \in Nat /\ FeesOwed(r) \in Nat /\ Net(r) \in Int
           /\ available_amount[r] \in Nat /\ borrowed_amount_sf[r] \in Nat
           /\ mint_total_supply[r] \in Nat
<1>1. available_amount[r] \in Nat /\ borrowed_amount_sf[r] \in Nat /\ mint_total_supply[r] \in Nat
  BY DEF Accounts, Books, Debts
<1>2. FromNum(available_amount[r]) \in Nat
  BY <1>1, FromNumNat
<1>3. Assets(r) \in Nat /\ FeesOwed(r) \in Nat
  BY <1>1, <1>2, FeeTypes DEF Assets, FeesOwed
<1>4. QED
  BY <1>1, <1>3 DEF Net

LEMMA NextNetTypes ==
    ASSUME Accounts'
    PROVE  \A r \in Reserves : /\ Assets(r)' \in Nat /\ FeesOwed(r)' \in Nat
                               /\ mint_total_supply'[r] \in Nat
<1> SUFFICES ASSUME NEW r \in Reserves
             PROVE  /\ Assets(r)' \in Nat /\ FeesOwed(r)' \in Nat
                    /\ mint_total_supply'[r] \in Nat
  OBVIOUS
<1>1. /\ available_amount'[r] \in Nat /\ borrowed_amount_sf'[r] \in Nat
      /\ mint_total_supply'[r] \in Nat
      /\ accumulated_protocol_fees_sf'[r] \in Nat /\ accumulated_referrer_fees_sf'[r] \in Nat
      /\ pending_referrer_fees_sf'[r] \in Nat
  BY DEF Accounts, Books, Debts, Fees
<1>2. FromNum(available_amount'[r]) \in Nat
  BY <1>1, FromNumNat
<1>3. QED
  BY <1>1, <1>2 DEF Assets, FeesOwed

LEMMA NetElsewhere ==
    ASSUME Accounts, NEW r, NEW p \in Reserves, p # r, OnlyAt(r)
    PROVE  Moved(p)
<1>1. Net(p)' = Net(p) /\ mint_total_supply'[p] = mint_total_supply[p]
  BY Zenon DEF OnlyAt, Net, Assets, FeesOwed
<1>2. Net(p) \in Int
  BY NetTypes
<1> DEFINE n == Net(p)
<1> HIDE DEF n
<1>3. n \in Int /\ Net(p)' = n
  BY <1>1, <1>2 DEF n
<1>4. Net(p)' >= n
  BY <1>3
<1>5. QED
  BY <1>1, <1>4, Zenon DEF Moved, Grows, n

\* The numbers of a reserve, less what the fees are owed, as one difference.
LEMMA NetChanged ==
    ASSUME Accounts, NEW r \in Reserves, NEW a \in Int, NEW b \in Int, NEW f \in Int,
           available_amount'[r] = available_amount[r] + a,
           borrowed_amount_sf'[r] = borrowed_amount_sf[r] + b,
           FeesOwed(r)' = FeesOwed(r) + f
    PROVE  Net(r)' = Net(r) + a * ONE + b - f
<1>1. /\ available_amount[r] \in Nat /\ borrowed_amount_sf[r] \in Nat /\ FeesOwed(r) \in Nat
      /\ ONE \in Nat
  BY NetTypes, KlendMathAssumption
<1> DEFINE x == available_amount[r]
           y == borrowed_amount_sf[r]
           z == FeesOwed(r)
<1>2. Net(r) = (x * ONE + y) - z
  <2>1. Net(r) = Assets(r) - FeesOwed(r) /\ Assets(r) = available_amount[r] * ONE + borrowed_amount_sf[r]
    BY Zenon DEF Net, Assets, FromNum
  <2>2. QED
    BY <2>1, Zenon
<1>3. Net(r)' = ((x + a) * ONE + (y + b)) - (z + f)
  <2>1. /\ Net(r)' = Assets(r)' - FeesOwed(r)'
        /\ Assets(r)' = available_amount'[r] * ONE + borrowed_amount_sf'[r]
    BY Zenon DEF Net, Assets, FromNum
  <2>2. QED
    BY <2>1, Zenon
<1> HIDE DEF x, y, z
<1>4. x \in Nat /\ y \in Nat /\ z \in Nat
  BY <1>1 DEF x, y, z
<1>5. (x + a) * ONE = x * ONE + a * ONE /\ x * ONE \in Int /\ a * ONE \in Int
  BY <1>1, <1>4
<1> DEFINE p == x * ONE
           q == a * ONE
<1> HIDE DEF p, q
<1>6. /\ p \in Int /\ q \in Int /\ Net(r) = (p + y) - z
      /\ Net(r)' = ((p + q) + (y + b)) - (z + f)
  BY <1>2, <1>3, <1>5 DEF p, q
<1>7. Net(r)' = Net(r) + q + b - f
  BY <1>4, <1>6
<1>8. QED
  BY <1>7 DEF q

\* The same where nothing is lent or repaid.
LEMMA NetPaid ==
    ASSUME Accounts, NEW r \in Reserves, NEW a \in Int, NEW f \in Int,
           available_amount'[r] = available_amount[r] + a,
           borrowed_amount_sf'[r] = borrowed_amount_sf[r],
           FeesOwed(r)' = FeesOwed(r) + f
    PROVE  Net(r)' = Net(r) + a * ONE - f
<1> DEFINE none == 0
<1>1. borrowed_amount_sf'[r] = borrowed_amount_sf[r] + none /\ none \in Int
  BY NetTypes
<1>2. Net(r) \in Int /\ a * ONE \in Int
  BY NetTypes, KlendMathAssumption
<1> DEFINE q == a * ONE
<1>3. Net(r)' = Net(r) + q + none - f
  <2> HIDE DEF none
  <2>1. QED
    BY <1>1, NetChanged
<1> HIDE DEF q
<1>4. q \in Int
  BY <1>2 DEF q
<1>5. Net(r)' = Net(r) + q - f
  BY <1>2, <1>3, <1>4
<1>6. QED
  BY <1>5 DEF q

LEMMA FeesSame ==
    ASSUME Accounts, NEW r \in Reserves, UNCHANGED fees
    PROVE  FeesOwed(r)' = FeesOwed(r) + 0
<1>1. FeesOwed(r)' = FeesOwed(r)
  BY Zenon DEF fees, FeesOwed
<1>2. FeesOwed(r) \in Nat
  BY NetTypes
<1>3. QED
  BY <1>1, <1>2

LEMMA InterestMoves ==
    ASSUME Accounts, PricesInv, NEW r \in Reserves, NEW readings \in Readings,
           RefreshReserve(r, readings)
    PROVE  Grows(r) /\ OnlyAt(r)
<1>1. /\ AccrueInterest(r)
      /\ UNCHANGED <<available_amount, mint_total_supply, accumulated_referrer_fees_sf>>
  BY Zenon DEF RefreshReserve
<1>2. /\ borrowed_amount_sf \in [Reserves -> Nat]
      /\ accumulated_protocol_fees_sf \in [Reserves -> Nat]
      /\ accumulated_referrer_fees_sf[r] \in Nat
      /\ pending_referrer_fees_sf \in [Reserves -> Nat]
      /\ available_amount[r] \in Nat
  BY DEF Accounts, Debts, Fees, Books
<1>3. PICK debt \in Nat, protocol \in Nat, referrers \in Nat :
         /\ protocol + referrers <= debt
         /\ borrowed_amount_sf' = [borrowed_amount_sf EXCEPT ![r] = @ + debt]
         /\ accumulated_protocol_fees_sf' = [accumulated_protocol_fees_sf EXCEPT ![r] = @ + protocol]
         /\ pending_referrer_fees_sf' = [pending_referrer_fees_sf EXCEPT ![r] = @ + referrers]
  <2>1. CASE slot > last_update[r].slot
    <3>1. slot \in Nat /\ last_update[r].slot \in Nat
      BY Zenon DEF PricesInv, Refreshed
    <3>2. /\ Interest(r).debt \in Nat
          /\ Interest(r).protocol \in Nat /\ Interest(r).referrers \in Nat
          /\ Interest(r).protocol + Interest(r).referrers <= Interest(r).debt
      BY <2>1, <3>1, InterestFacts DEF Accounts
    <3>3. QED
      BY <1>1, <2>1, <3>2, Zenon DEF AccrueInterest
  <2>2. CASE ~(slot > last_update[r].slot)
    <3>1. UNCHANGED <<borrowed_amount_sf, accumulated_protocol_fees_sf, pending_referrer_fees_sf>>
      BY <1>1, <2>2, Zenon DEF AccrueInterest
    <3>2. /\ borrowed_amount_sf' = [borrowed_amount_sf EXCEPT ![r] = @ + 0]
          /\ accumulated_protocol_fees_sf' = [accumulated_protocol_fees_sf EXCEPT ![r] = @ + 0]
          /\ pending_referrer_fees_sf' = [pending_referrer_fees_sf EXCEPT ![r] = @ + 0]
      BY <1>2, <3>1
    <3>3. 0 \in Nat /\ 0 + 0 <= 0
      OBVIOUS
    <3>4. QED
      BY <3>2, <3>3, Zenon
  <2>3. QED
    BY <2>1, <2>2
<1>4. OnlyAt(r)
  BY <1>1, <1>2, <1>3 DEF OnlyAt
<1>5. FeesOwed(r)' = FeesOwed(r) + (protocol + referrers)
  BY <1>1, <1>2, <1>3 DEF FeesOwed
<1>6. available_amount'[r] = available_amount[r] + 0
  BY <1>1, <1>2
<1>7. borrowed_amount_sf'[r] = borrowed_amount_sf[r] + debt
  BY <1>2, <1>3
<1> DEFINE f == protocol + referrers
<1>8. f \in Int /\ debt \in Int /\ 0 \in Int
  OBVIOUS
<1>9. FeesOwed(r)' = FeesOwed(r) + f
  BY <1>5
<1> HIDE DEF f
<1>10. Net(r)' = Net(r) + 0 * ONE + debt - f
  BY <1>6, <1>7, <1>8, <1>9, NetChanged
<1>11. Net(r)' >= Net(r)
  <2>1. Net(r) \in Int /\ f <= debt /\ f \in Nat /\ 0 * ONE = 0
    BY <1>3, NetTypes, KlendMathAssumption DEF f
  <2>2. QED
    BY <1>10, <2>1
<1>12. QED
  BY <1>1, <1>4, <1>11, Zenon DEF Grows

LEMMA DepositMoves ==
    ASSUME Accounts, NEW o \in Obligations, NEW r \in Reserves, NEW a \in DepositAmounts,
           DepositReserveLiquidityAndObligationCollateral(o, r, a)
    PROVE  Deposits(r) /\ OnlyAt(r)
<1> DEFINE minted == LiquidityToCollateral(CollateralExchangeRate(r), a)
<1>1. /\ available_amount' = [available_amount EXCEPT ![r] = @ + a]
      /\ mint_total_supply' = [mint_total_supply EXCEPT ![r] = @ + minted]
      /\ UNCHANGED <<fees, borrowed_amount_sf>>
  BY Zenon DEF DepositReserveLiquidityAndObligationCollateral, LiquidityDeposit, Mint
<1>2. a \in Nat
  BY KlendMarketAssumption
<1> HIDE DEF minted
<1>3. /\ available_amount'[r] = available_amount[r] + a
      /\ mint_total_supply'[r] = mint_total_supply[r] + minted
      /\ borrowed_amount_sf'[r] = borrowed_amount_sf[r]
  BY <1>1 DEF Accounts, Books, Debts
<1>4. Net(r)' = Net(r) + a * ONE - 0
  BY <1>1, <1>2, <1>3, FeesSame, NetPaid
<1>5. Net(r)' = Net(r) + FromNum(a)
  <2>1. Net(r) \in Int /\ FromNum(a) \in Nat /\ FromNum(a) = a * ONE
    BY <1>2, NetTypes, FromNumNat DEF FromNum
  <2>2. QED
    BY <1>4, <2>1
<1>6. Deposits(r)
  BY <1>2, <1>3, <1>5, Zenon DEF Deposits, minted
<1>7. OnlyAt(r)
  BY <1>1 DEF OnlyAt, fees, Accounts, Books
<1>8. QED
  BY <1>6, <1>7

LEMMA WithdrawMoves ==
    ASSUME Accounts, NEW o \in Obligations, NEW r \in Reserves, NEW c \in RedeemAmounts,
           WithdrawObligationCollateralAndRedeemReserveCollateral(o, r, c)
    PROVE  Redeems(r) /\ OnlyAt(r)
<1> DEFINE rate == CollateralExchangeRate(r)
           a == CollateralToLiquidity(rate, c)
<1>1. /\ c > 0 /\ rate > 0 /\ c <= mint_total_supply[r]
      /\ available_amount' = [available_amount EXCEPT ![r] = @ - a]
      /\ mint_total_supply' = [mint_total_supply EXCEPT ![r] = @ - c]
      /\ UNCHANGED <<fees, borrowed_amount_sf>>
  BY Zenon DEF WithdrawObligationCollateralAndRedeemReserveCollateral, LiquidityWithdraw, Burn
<1>2. c \in Nat \ {0}
  BY <1>1, KlendMarketAssumption
<1>3. a \in Nat
  <2>1. rate \in Nat /\ FromNum(c) \in Nat
    BY <1>2, RateNat, FromNumNat DEF Accounts
  <2> HIDE DEF rate
  <2>2. Quot(FromNum(c), rate) \in Nat
    BY <1>1, <2>1, QuotNat
  <2>3. QED
    BY <2>2, FloorNat DEF CollateralToLiquidity
<1> DEFINE d == 0 - a
<1> HIDE DEF rate, a
<1>4. d \in Int
  BY <1>3
<1>5. /\ available_amount'[r] = available_amount[r] + d
      /\ mint_total_supply'[r] = mint_total_supply[r] - c
      /\ borrowed_amount_sf'[r] = borrowed_amount_sf[r]
  BY <1>1, <1>3 DEF Accounts, Books, Debts
<1> HIDE DEF d
<1>6. Net(r)' = Net(r) + d * ONE - 0
  BY <1>1, <1>4, <1>5, FeesSame, NetPaid
<1>7. Net(r)' = Net(r) - FromNum(a)
  <2>1. Net(r) \in Int /\ FromNum(a) \in Nat /\ FromNum(a) = a * ONE /\ ONE \in Nat
    BY <1>3, NetTypes, FromNumNat, KlendMathAssumption DEF FromNum
  <2>2. d * ONE = 0 - a * ONE
    BY <1>3, <2>1 DEF d
  <2>3. QED
    BY <1>6, <2>1, <2>2
<1>8. Redeems(r)
  BY <1>1, <1>2, <1>5, <1>7, Zenon DEF Redeems, rate, a
<1>9. OnlyAt(r)
  BY <1>1 DEF OnlyAt, fees, Accounts, Books
<1>10. QED
  BY <1>8, <1>9

\* The whole units of a loan are no more than its debt, and those paid for a debt no less.
LEMMA FloorBelow ==
    ASSUME NEW f \in Nat
    PROVE  ToFloor(f) \in Nat /\ ToFloor(f) * ONE <= f
BY FloorNat, DivBelow, KlendMathAssumption DEF ToFloor

LEMMA CeilAbove ==
    ASSUME NEW f \in Nat
    PROVE  ToCeil(f) \in Nat /\ f <= ToCeil(f) * ONE
<1>1. ONE \in Nat /\ ONE > 0 /\ f + ONE - 1 \in Nat
  BY KlendMathAssumption
<1> DEFINE g == f + ONE - 1
<1>2. g < (g \div ONE) * ONE + ONE
  <2> HIDE DEF g
  <2>1. g \in Nat
    BY <1>1 DEF g
  <2>2. QED
    BY <1>1, <2>1
<1>3. g \div ONE \in Nat
  BY <1>1, DivNat
<1> DEFINE q == g \div ONE
           p == q * ONE
<1>4. p \in Nat /\ g < p + ONE
  BY <1>1, <1>2, <1>3, TimesNat
<1> HIDE DEF q, p
<1>5. f <= p
  BY <1>1, <1>4
<1>6. QED
  BY <1>5, CeilNat DEF ToCeil, p, q

LEMMA BorrowMoves ==
    ASSUME Accounts, NEW o \in Obligations, NEW r \in Reserves,
           NEW a \in BorrowAmounts, NEW m \in MaxDebtValues, BorrowObligationLiquidity(o, r, a, m)
    PROVE  Grows(r) /\ OnlyAt(r)
<1> DEFINE b == CalculateBorrow(r, a, m)
           f == b.borrow_amount_f
           out == ToFloor(f)
           d == 0 - out
<1>1. /\ a = U64MAX => market_price_sf[r] > 0
      /\ available_amount' = [available_amount EXCEPT ![r] = @ - out]
      /\ borrowed_amount_sf' = [borrowed_amount_sf EXCEPT ![r] = @ + f]
      /\ UNCHANGED <<fees, mint_total_supply>>
  BY Zenon DEF BorrowObligationLiquidity, LiquidityBorrow, LiquidityWithdraw
<1>2. a \in Nat /\ m \in Nat
  BY KlendMarketAssumption
<1>3. f \in Nat
  BY <1>1, <1>2, LoanFacts, Zenon DEF Accounts
<1> HIDE DEF f
<1>4. out \in Nat /\ out * ONE <= f
  BY <1>3, FloorBelow
<1> HIDE DEF out
<1>5. d \in Int /\ f \in Int
  BY <1>3, <1>4
<1>6. /\ available_amount'[r] = available_amount[r] + d
      /\ borrowed_amount_sf'[r] = borrowed_amount_sf[r] + f
  BY <1>1, <1>3, <1>4 DEF Accounts, Books, Debts
<1> HIDE DEF d
<1>7. Net(r)' = Net(r) + d * ONE + f - 0
  BY <1>1, <1>5, <1>6, FeesSame, NetChanged
<1>8. Net(r)' >= Net(r)
  <2>1. Net(r) \in Int /\ ONE \in Nat
    BY NetTypes, KlendMathAssumption
  <2>2. d * ONE = 0 - out * ONE /\ out * ONE \in Nat
    BY <1>4, <2>1 DEF d
  <2>3. QED
    BY <1>3, <1>4, <1>7, <2>1, <2>2
<1>9. OnlyAt(r)
  BY <1>1 DEF OnlyAt, fees, Accounts, Books, Debts
<1>10. QED
  BY <1>1, <1>8, <1>9, Zenon DEF Grows

LEMMA RepayMoves ==
    ASSUME Accounts, BorrowTable, NEW o \in Obligations, NEW r \in Reserves,
           NEW a \in RepayAmounts, RepayObligationLiquidity(o, r, a)
    PROVE  Grows(r) /\ OnlyAt(r)
<1> DEFINE l == CurrentBorrow(o, r)
           settled == Settled(a, l.borrowed_amount_sf)
           paid == RepayAmount(settled)
           taken == Least(settled, borrowed_amount_sf[r])
           d == 0 - taken
<1>1. /\ SlotsOf(BorrowReserves(o), r) # {}
      /\ available_amount' = [available_amount EXCEPT ![r] = @ + paid]
      /\ borrowed_amount_sf' = [borrowed_amount_sf EXCEPT ![r] = @ - taken]
      /\ UNCHANGED <<fees, mint_total_supply>>
  <2>1. /\ SlotsOf(BorrowReserves(o), r) # {}
        /\ available_amount' = [available_amount EXCEPT ![r] = @ + paid]
        /\ borrowed_amount_sf' = [borrowed_amount_sf EXCEPT ![r] = BorrowedAfterRepay(@, settled)]
        /\ UNCHANGED <<fees, mint_total_supply>>
    BY Zenon DEF RepayObligationLiquidity, LiquidityRepay, LiquidityDeposit
  <2>2. BorrowedAfterRepay(borrowed_amount_sf[r], settled) = borrowed_amount_sf[r] - taken
    BY Zenon DEF BorrowedAfterRepay
  <2>3. QED
    BY <2>1, <2>2, Zenon
<1>2. a \in Nat
  BY KlendMarketAssumption
<1>3. l.borrowed_amount_sf \in Nat
  <2>1. GoodLoan(l)
    BY <1>1, CurrentLoan, Zenon DEF Accounts, HasSlot
  <2>2. QED
    BY <2>1 DEF GoodLoan, ObligationLiquidity
<1> HIDE DEF l
<1>4. settled \in Nat
  BY <1>2, <1>3, RepaymentFacts
<1> HIDE DEF settled
<1>5. paid \in Nat /\ settled <= paid * ONE
  BY <1>4, CeilAbove DEF RepayAmount
<1> HIDE DEF paid
<1>6. taken \in Nat /\ taken <= settled
  <2>1. borrowed_amount_sf[r] \in Nat
    BY NetTypes
  <2>2. QED
    BY <1>4, <2>1, LeastNat
<1> HIDE DEF taken
<1>7. d \in Int /\ paid \in Int
  BY <1>5, <1>6
<1>8. /\ available_amount'[r] = available_amount[r] + paid
      /\ borrowed_amount_sf'[r] = borrowed_amount_sf[r] + d
  BY <1>1, <1>5, <1>6 DEF Accounts, Books, Debts
<1> HIDE DEF d
<1>9. Net(r)' = Net(r) + paid * ONE + d - 0
  BY <1>1, <1>7, <1>8, FeesSame, NetChanged
<1>10. Net(r)' >= Net(r)
  <2> DEFINE p == paid * ONE
  <2>1. Net(r) \in Int /\ p \in Nat /\ settled <= p
    BY <1>5, NetTypes, TimesNat, KlendMathAssumption
  <2>2. d = 0 - taken /\ Net(r)' = Net(r) + p + d - 0
    BY <1>9 DEF d
  <2> HIDE DEF p
  <2>3. QED
    BY <1>4, <1>6, <2>1, <2>2
<1>11. OnlyAt(r)
  BY <1>1 DEF OnlyAt, fees, Accounts, Books, Debts
<1>12. QED
  BY <1>1, <1>10, <1>11, Zenon DEF Grows

\* Fees that are paid out are owed no longer.
LEMMA FeesPaidMove ==
    ASSUME Accounts, NEW r \in Reserves, NEW n \in Nat,
           available_amount' = [available_amount EXCEPT ![r] = @ - n],
           FeesOwed(r)' = FeesOwed(r) + (0 - FromNum(n)),
           UNCHANGED <<borrowed_amount_sf, mint_total_supply>>
    PROVE  Grows(r)
<1> DEFINE d == 0 - n
           f == 0 - FromNum(n)
<1>1. FromNum(n) \in Nat /\ FromNum(n) = n * ONE /\ ONE \in Nat
  BY FromNumNat, KlendMathAssumption DEF FromNum
<1>2. d \in Int /\ f \in Int
  BY <1>1
<1>3. /\ available_amount'[r] = available_amount[r] + d
      /\ borrowed_amount_sf'[r] = borrowed_amount_sf[r]
      /\ FeesOwed(r)' = FeesOwed(r) + f
  BY DEF Accounts, Books, Debts
<1> HIDE DEF d, f
<1>4. Net(r)' = Net(r) + d * ONE - f
  BY <1>2, <1>3, NetPaid
<1>5. d * ONE = 0 - n * ONE /\ f = 0 - n * ONE /\ n * ONE \in Nat
  BY <1>1 DEF d, f
<1>6. Net(r) \in Int
  BY NetTypes
<1>7. Net(r)' >= Net(r)
  BY <1>4, <1>5, <1>6
<1>8. QED
  BY <1>7, Zenon DEF Grows

LEMMA RedeemFeesMoves ==
    ASSUME Accounts, NEW r \in Reserves, RedeemFees(r)
    PROVE  Grows(r) /\ OnlyAt(r)
<1> DEFINE n == CalculateRedeemFees(r)
<1>1. /\ available_amount' = [available_amount EXCEPT ![r] = @ - n]
      /\ accumulated_protocol_fees_sf' =
            [accumulated_protocol_fees_sf EXCEPT ![r] = @ - FromNum(n)]
      /\ UNCHANGED <<borrowed_amount_sf, mint_total_supply, accumulated_referrer_fees_sf,
                     pending_referrer_fees_sf>>
  BY Zenon DEF RedeemFees, LiquidityWithdraw
<1>2. n \in Nat
  <2> DEFINE owed == accumulated_protocol_fees_sf[r]
             available == available_amount[r]
  <2>1. owed \in Nat /\ available \in Nat
    BY FeeTypes
  <2>2. n = Least(available, ToFloor(owed))
    BY Zenon DEF CalculateRedeemFees
  <2> HIDE DEF n, owed, available
  <2>3. QED
    BY <2>1, <2>2, FloorLeast
<1> HIDE DEF n
<1>3. FromNum(n) \in Nat
  BY <1>2, FromNumNat
<1>4. FeesOwed(r)' = FeesOwed(r) + (0 - FromNum(n))
  BY <1>1, <1>3 DEF Accounts, Fees, FeesOwed
<1>5. Grows(r)
  BY <1>1, <1>2, <1>4, FeesPaidMove
<1>6. OnlyAt(r)
  BY <1>1 DEF OnlyAt, Accounts, Books, Fees
<1>7. QED
  BY <1>5, <1>6

LEMMA AccumulateMoves ==
    ASSUME Accounts, NEW r \in Reserves, AccumulateReferrerFees(r)
    PROVE  Grows(r) /\ OnlyAt(r)
<1>1. /\ pending_referrer_fees_sf' = [pending_referrer_fees_sf EXCEPT ![r] = 0]
      /\ accumulated_referrer_fees_sf' =
            [accumulated_referrer_fees_sf EXCEPT ![r] = @ + pending_referrer_fees_sf[r]]
      /\ UNCHANGED <<books, accumulated_protocol_fees_sf>>
  BY Zenon DEF AccumulateReferrerFees
<1>2. FeesOwed(r)' = FeesOwed(r) + 0
  BY <1>1 DEF Accounts, Fees, FeesOwed
<1>3. /\ available_amount'[r] = available_amount[r] + 0
      /\ borrowed_amount_sf'[r] = borrowed_amount_sf[r] + 0
  BY <1>1 DEF books, Accounts, Books, Debts
<1>4. Net(r)' = Net(r) + 0 * ONE + 0 - 0
  BY <1>2, <1>3, NetChanged
<1>5. Net(r)' >= Net(r)
  BY <1>4, NetTypes, KlendMathAssumption
<1>6. OnlyAt(r)
  BY <1>1 DEF OnlyAt, books, Accounts, Fees
<1>7. QED
  BY <1>1, <1>5, <1>6, Zenon DEF Grows, books

LEMMA WithdrawReferrerMoves ==
    ASSUME Accounts, NEW r \in Reserves, WithdrawReferrerFees(r)
    PROVE  Grows(r) /\ OnlyAt(r)
<1> DEFINE n == GetWithdrawReferrerFees(r)
<1>1. /\ available_amount' = [available_amount EXCEPT ![r] = @ - n]
      /\ accumulated_referrer_fees_sf' =
            [accumulated_referrer_fees_sf EXCEPT ![r] = @ - FromNum(n)]
      /\ UNCHANGED <<borrowed_amount_sf, mint_total_supply, accumulated_protocol_fees_sf,
                     pending_referrer_fees_sf>>
  BY Zenon DEF WithdrawReferrerFees, LiquidityWithdraw
<1>2. n \in Nat
  <2> DEFINE owed == Least(amount_unclaimed_sf[r], accumulated_referrer_fees_sf[r])
             available == available_amount[r]
  <2>1. owed \in Nat /\ available \in Nat
    BY FeeTypes, LeastNat
  <2>2. n = Least(ToFloor(owed), available)
    BY Zenon DEF GetWithdrawReferrerFees
  <2> HIDE DEF n, owed, available
  <2>3. QED
    BY <2>1, <2>2, FloorLeast
<1> HIDE DEF n
<1>3. FromNum(n) \in Nat
  BY <1>2, FromNumNat
<1>4. FeesOwed(r)' = FeesOwed(r) + (0 - FromNum(n))
  BY <1>1, <1>3 DEF Accounts, Fees, FeesOwed
<1>5. Grows(r)
  BY <1>1, <1>2, <1>4, FeesPaidMove
<1>6. OnlyAt(r)
  BY <1>1 DEF OnlyAt, Accounts, Books, Fees
<1>7. QED
  BY <1>5, <1>6

LEMMA ForgiveOnly ==
    ASSUME Accounts, NEW o \in Obligations, NEW r \in Reserves, ForgiveDebt(o, r)
    PROVE  OnlyAt(r)
<1>1. /\ borrowed_amount_sf' = [borrowed_amount_sf EXCEPT
             ![r] = (@ - CurrentBorrow(o, r).borrowed_amount_sf) % FRACTION_MOD]
      /\ UNCHANGED <<fees, available_amount, mint_total_supply>>
  BY Zenon DEF ForgiveDebt
<1>2. QED
  BY <1>1 DEF OnlyAt, fees, Accounts, Debts

\* Every step moves every reserve in one of these ways.
LEMMA EveryStepMoves ==
    ASSUME MarketInv, Next, NEW r \in Reserves
    PROVE  Moved(r)
<1>0. Accounts /\ PricesInv /\ BorrowTable
  BY DEF MarketInv
<1>1. ASSUME NEW p \in Reserves,
             Grows(p) \/ Deposits(p) \/ Redeems(p) \/ (\E o \in Obligations : ForgiveDebt(o, p)),
             OnlyAt(p)
      PROVE  Moved(r)
  <2>1. CASE r = p
    BY <1>1, <2>1, Zenon DEF Moved
  <2>2. CASE r # p
    BY <1>0, <1>1, <2>2, NetElsewhere
  <2>3. QED
    BY <2>1, <2>2
<1>2. ASSUME NEW p \in Reserves, NEW readings \in Readings, RefreshReserve(p, readings)
      PROVE  Moved(r)
  BY <1>0, <1>1, <1>2, InterestMoves, Zenon
<1>3. ASSUME NEW p \in Reserves, RedeemFees(p) \/ AccumulateReferrerFees(p) \/ WithdrawReferrerFees(p)
      PROVE  Moved(r)
  BY <1>0, <1>1, <1>3, RedeemFeesMoves, AccumulateMoves, WithdrawReferrerMoves, Zenon
<1>4. ASSUME NEW p \in Reserves, NEW o \in Obligations, NEW a \in DepositAmounts,
             DepositReserveLiquidityAndObligationCollateral(o, p, a)
      PROVE  Moved(r)
  BY <1>0, <1>1, <1>4, DepositMoves, Zenon
<1>5. ASSUME NEW p \in Reserves, NEW o \in Obligations, NEW a \in RedeemAmounts,
             WithdrawObligationCollateralAndRedeemReserveCollateral(o, p, a)
      PROVE  Moved(r)
  BY <1>0, <1>1, <1>5, WithdrawMoves, Zenon
<1>6. ASSUME NEW p \in Reserves, NEW o \in Obligations, NEW a \in BorrowAmounts,
             NEW v \in MaxDebtValues, BorrowObligationLiquidity(o, p, a, v)
      PROVE  Moved(r)
  BY <1>0, <1>1, <1>6, BorrowMoves, Zenon
<1>7. ASSUME NEW p \in Reserves, NEW o \in Obligations, NEW a \in RepayAmounts,
             RepayObligationLiquidity(o, p, a)
      PROVE  Moved(r)
  BY <1>0, <1>1, <1>7, RepayMoves, Zenon
<1>8. ASSUME NEW p \in Reserves, NEW o \in Obligations, ForgiveDebt(o, p)
      PROVE  Moved(r)
  BY <1>0, <1>1, <1>8, ForgiveOnly, Zenon
<1>9. ASSUME Tick PROVE Moved(r)
  <2>1. UNCHANGED <<fees, books>>
    BY <1>9, Zenon DEF Tick
  <2>2. OnlyAt(NoReserve)
    BY <2>1, Zenon DEF OnlyAt, fees, books
  <2>3. r # NoReserve
    BY KlendMarketAssumption
  <2>4. QED
    BY <1>0, <2>2, <2>3, NetElsewhere
<1>10. QED
  BY <1>2, <1>3, <1>4, <1>5, <1>6, <1>7, <1>8, <1>9, Zenon DEF Next

\* total_supply when the fees are covered and a Fraction can hold the assets.
LEMMA TotalSupplyIsNet ==
    ASSUME Accounts, NEW r \in Reserves, Assets(r) > FeesOwed(r), Assets(r) < FRACTION_MOD
    PROVE  TotalSupply(r) = Net(r) /\ TotalSupply(r) \in Nat /\ TotalSupply(r) > 0
<1>1. /\ Assets(r) \in Nat /\ FeesOwed(r) \in Nat /\ FRACTION_MOD \in Nat /\ FRACTION_MOD > 0
  BY NetTypes, KlendMarketAssumption
<1>2. Net(r) = Assets(r) - FeesOwed(r) /\ TotalSupply(r) = Net(r) % FRACTION_MOD
  BY Zenon DEF Net, TotalSupply
<1> DEFINE n == Net(r)
<1> HIDE DEF n
<1>3. n \in Nat /\ n > 0 /\ n < FRACTION_MOD
  BY <1>1, <1>2 DEF n
<1>4. n % FRACTION_MOD = n
  BY <1>1, <1>3
<1>5. QED
  BY <1>2, <1>3, <1>4 DEF n

\* What the redemption of some but not all collateral pays leaves the fees covered.
LEMMA RedemptionCovered ==
    ASSUME Accounts, NEW r \in Reserves, Assets(r) > FeesOwed(r), Precise(r), Redeems(r),
           mint_total_supply'[r] # 0
    PROVE  Net(r)' >= 0
<1> DEFINE M == mint_total_supply[r]
           T == TotalSupply(r)
           rate == CollateralExchangeRate(r)
<1>1. PICK c \in Nat \ {0} :
         /\ rate > 0 /\ c <= M
         /\ Net(r)' = Net(r) - FromNum(CollateralToLiquidity(rate, c))
         /\ mint_total_supply'[r] = M - c
  BY Zenon DEF Redeems
<1>2. T = Net(r) /\ T \in Nat /\ T > 0 /\ T <= ONE * ONE /\ M \in Nat
  <2>1. /\ Assets(r) \in Nat /\ FeesOwed(r) \in Nat /\ FRACTION_MOD \in Nat /\ ONE * ONE \in Nat
        /\ Assets(r) <= ONE * ONE /\ ONE * ONE < FRACTION_MOD
    BY NetTypes, FractionAssumption, KlendMarketAssumption, KlendMathAssumption, TimesNat DEF Precise
  <2> DEFINE x == ONE * ONE
  <2> HIDE DEF x
  <2>2. Assets(r) < FRACTION_MOD /\ Assets(r) <= x /\ x \in Nat
    BY <2>1 DEF x
  <2>3. T = Net(r) /\ T \in Nat /\ T > 0
    BY <2>2, TotalSupplyIsNet
  <2>4. T <= x
    BY <2>1, <2>2, <2>3 DEF Net
  <2>5. QED
    BY <2>3, <2>4, NetTypes DEF x
<1>3. rate = ExchangeRate(M, T) /\ rate \in Nat
  BY RateNat DEF CollateralExchangeRate, Accounts
<1> HIDE DEF M, T, rate
<1>4. c < M /\ c \in Nat
  BY <1>1, <1>2
<1> DEFINE a == CollateralToLiquidity(rate, c)
<1>5. a \in Nat
  <2>1. Quot(FromNum(c), rate) \in Nat
    BY <1>1, <1>3, <1>4, FromNumNat, QuotNat
  <2>2. QED
    BY <2>1, FloorNat DEF CollateralToLiquidity
<1> HIDE DEF a
<1>6. a * ONE <= T
  BY <1>1, <1>2, <1>3, <1>4, <1>5, RedemptionLeavesFees DEF a
<1>7. FromNum(a) = a * ONE /\ FromNum(a) \in Nat
  BY <1>5, FromNumNat DEF FromNum
<1>8. Net(r)' = T - a * ONE
  BY <1>1, <1>2, <1>7, Zenon DEF a
<1>9. QED
  BY <1>2, <1>6, <1>7, <1>8

\* As long as the exchange rate has the precision for it: whatever interest, loans, fees
\* and redemptions do, each with a rounding of its own, what the reserve holds and is owed
\* covers its fees, so that total_supply, a difference of two u128, does not wrap.
THEOREM FeesAreCovered == Spec => FeesStayCovered
<1> DEFINE covered(r) ==
              Assets(r) > FeesOwed(r) /\ Precise(r) =>
                  \/ Assets(r)' >= FeesOwed(r)'
                  \/ mint_total_supply[r] > 0 /\ mint_total_supply'[r] = 0
                  \/ \E o \in Obligations : ForgiveDebt(o, r)
           all == \A r \in Reserves : covered(r)
<1>1. ASSUME MarketInv, MarketInv', Next, NEW r \in Reserves PROVE covered(r)
  <2> SUFFICES ASSUME Assets(r) > FeesOwed(r), Precise(r)
               PROVE  \/ Assets(r)' >= FeesOwed(r)'
                      \/ mint_total_supply[r] > 0 /\ mint_total_supply'[r] = 0
                      \/ \E o \in Obligations : ForgiveDebt(o, r)
    BY Zenon
  <2>1. Accounts /\ Accounts' /\ Moved(r)
    BY <1>1, EveryStepMoves DEF MarketInv
  <2>2. /\ Assets(r)' \in Nat /\ FeesOwed(r)' \in Nat /\ Net(r)' = Assets(r)' - FeesOwed(r)'
    <3>1. \A p \in Reserves : Assets(p)' \in Nat /\ FeesOwed(p)' \in Nat
      BY <2>1, NextNetTypes
    <3>2. Net(r)' = Assets(r)' - FeesOwed(r)'
      BY DEF Net
    <3>3. QED
      BY <3>1, <3>2
  <2>3. Net(r) \in Nat
    BY <2>1, NetTypes DEF Net
  <2>4. CASE Grows(r)
    <3>1. Net(r)' >= Net(r)
      BY <2>4, Zenon DEF Grows
    <3>2. QED
      BY <2>2, <2>3, <3>1
  <2>5. CASE Deposits(r)
    <3>1. PICK l \in Nat : Net(r)' = Net(r) + FromNum(l)
      BY <2>5, Zenon DEF Deposits
    <3>2. FromNum(l) \in Nat
      BY FromNumNat
    <3>3. QED
      BY <2>2, <2>3, <3>1, <3>2
  <2>6. CASE Redeems(r)
    <3>1. CASE mint_total_supply'[r] = 0
      <4>1. mint_total_supply[r] > 0
        BY <2>1, <2>6, NetTypes DEF Redeems
      <4>2. QED
        BY <3>1, <4>1
    <3>2. CASE mint_total_supply'[r] # 0
      <4>1. Net(r)' >= 0
        BY <2>1, <2>6, <3>2, RedemptionCovered
      <4>2. QED
        BY <2>2, <4>1
    <3>3. QED
      BY <3>1, <3>2
  <2>7. QED
    BY <2>1, <2>4, <2>5, <2>6, Zenon DEF Moved
<1>2. MarketInv /\ MarketInv' /\ [Next]_vars => [all]_vars
  BY <1>1, Zenon
<1>3. QED
  BY <1>2, MarketInvInit, MarketInvNext, PTL DEF Spec, FeesStayCovered

\* A Fraction can hold what each reserve has and is owed: 2^68 units of liquidity, where
\* a token account holds less than 2^64 and debts are of the order of the deposits.
AssetsFit == \A r \in Reserves : Assets(r) < FRACTION_MOD

\* total_supply is no less than the difference it stores.
LEMMA TotalSupplyAtLeast ==
    ASSUME Accounts, Accounts', AssetsFit', NEW r \in Reserves
    PROVE  /\ TotalSupply(r)' \in Nat /\ Net(r)' \in Int /\ TotalSupply(r)' >= Net(r)'
           /\ mint_total_supply'[r] \in Nat
<1>1. /\ Assets(r)' \in Nat /\ FeesOwed(r)' \in Nat /\ mint_total_supply'[r] \in Nat
  BY NextNetTypes
<1>2. FRACTION_MOD \in Nat /\ FRACTION_MOD > 0
  BY KlendMarketAssumption
<1>3. Assets(r)' < FRACTION_MOD
  BY Zenon DEF AssetsFit
<1>4. Net(r)' = Assets(r)' - FeesOwed(r)' /\ TotalSupply(r)' = Net(r)' % FRACTION_MOD
  BY Zenon DEF Net, TotalSupply
<1> DEFINE n == Net(r)'
<1> HIDE DEF n
<1>5. n \in Int /\ n < FRACTION_MOD
  BY <1>1, <1>2, <1>3, <1>4 DEF n
<1>6. n % FRACTION_MOD \in Nat /\ n % FRACTION_MOD >= n
  BY <1>2, <1>5
<1>7. QED
  BY <1>1, <1>4, <1>5, <1>6 DEF n

\* More worth for the same collateral.
LEMMA GrowthKeepsWorth ==
    ASSUME NEW T \in Nat, NEW n \in Nat, NEW M \in Nat, T <= n
    PROVE  n * M >= T * M
BY TimesBoth, TimesNat

\* A deposit adds at least as much worth as the collateral it mints.
LEMMA DepositKeepsWorth ==
    ASSUME NEW T \in Nat, NEW M \in Nat, M > 0, NEW l \in Nat, NEW m \in Nat, NEW n \in Nat,
           m * T <= (M * ONE) * l, T + l * ONE <= n
    PROVE  n * M >= T * (M + m)
<1> DEFINE h == l * ONE
           d == h * M
           t == T * M
           u == T * m
<1>1. ONE \in Nat
  BY KlendMathAssumption
<1>2. h \in Nat
  BY <1>1, TimesNat
<1>3. (M * ONE) * l = d
  BY <1>1
<1>4. T * (M + m) = t + u /\ u = m * T
  OBVIOUS
<1> HIDE DEF h
<1>5. (T + h) * M = t + d /\ d \in Nat /\ t \in Nat /\ u \in Nat
  BY <1>2, TimesNat
<1>6. T + h <= n
  BY DEF h
<1>7. (T + h) * M <= n * M /\ n * M \in Nat
  BY <1>2, <1>6, TimesBoth, TimesNat
<1> DEFINE w == n * M
           v == T * (M + m)
<1> HIDE DEF d, t, u, w, v
<1>8. u <= d /\ t + d <= w /\ w \in Nat /\ v = t + u
  BY <1>3, <1>4, <1>5, <1>7 DEF w, v, d, t, u
<1>9. w >= v
  BY <1>5, <1>8
<1>10. QED
  BY <1>9 DEF w, v

\* The value of a share: as long as a Fraction can hold the reserve's assets, interest,
\* fees and loans never lower it, a deposit does not, and a redemption costs those who
\* stay less than a unit, whatever the rounding of the rate, the fees and the amounts.
THEOREM ShareOfReserveIsKept == Spec /\ []AssetsFit => ShareValueKept
<1> DEFINE kept(r) ==
              Assets(r) > FeesOwed(r) /\ mint_total_supply[r] > 0 =>
                  \/ TotalSupply(r)' * mint_total_supply[r] >= TotalSupply(r) * mint_total_supply'[r]
                  \/ /\ mint_total_supply'[r] < mint_total_supply[r]
                     /\ TotalSupply(r) <= ONE * CollateralExchangeRate(r) =>
                           (TotalSupply(r)' + ONE) * mint_total_supply[r]
                               > TotalSupply(r) * mint_total_supply'[r]
                  \/ mint_total_supply'[r] = 0
                  \/ \E o \in Obligations : ForgiveDebt(o, r)
           all == \A r \in Reserves : kept(r)
<1>1. ASSUME MarketInv, MarketInv', AssetsFit, AssetsFit', Next, NEW r \in Reserves PROVE kept(r)
  <2> SUFFICES ASSUME Assets(r) > FeesOwed(r), mint_total_supply[r] > 0
               PROVE  \/ TotalSupply(r)' * mint_total_supply[r]
                             >= TotalSupply(r) * mint_total_supply'[r]
                      \/ /\ mint_total_supply'[r] < mint_total_supply[r]
                         /\ TotalSupply(r) <= ONE * CollateralExchangeRate(r) =>
                               (TotalSupply(r)' + ONE) * mint_total_supply[r]
                                   > TotalSupply(r) * mint_total_supply'[r]
                      \/ mint_total_supply'[r] = 0
                      \/ \E o \in Obligations : ForgiveDebt(o, r)
    BY Zenon
  <2> DEFINE T == TotalSupply(r)
             M == mint_total_supply[r]
             n == TotalSupply(r)'
             k == mint_total_supply'[r]
             rate == CollateralExchangeRate(r)
  <2>1. Accounts /\ Accounts' /\ Moved(r)
    BY <1>1, EveryStepMoves DEF MarketInv
  <2>2. T = Net(r) /\ T \in Nat /\ T > 0 /\ M \in Nat /\ M > 0
    <3>1. Assets(r) < FRACTION_MOD
      BY <1>1, Zenon DEF AssetsFit
    <3>2. QED
      BY <2>1, <3>1, TotalSupplyIsNet, NetTypes
  <2>3. n \in Nat /\ Net(r)' \in Int /\ n >= Net(r)' /\ k \in Nat
    BY <1>1, <2>1, TotalSupplyAtLeast
  <2>4. rate = ExchangeRate(M, T) /\ rate \in Nat /\ ONE \in Nat
    BY <2>1, RateNat, KlendMathAssumption DEF CollateralExchangeRate, Accounts
  <2> HIDE DEF T, M, n, k, rate
  <2>5. CASE Grows(r)
    <3>1. Net(r)' >= T /\ k = M
      BY <2>2, <2>5 DEF Grows, k, M
    <3>2. T <= n
      BY <2>2, <2>3, <3>1
    <3>3. n * M >= T * k
      BY <2>2, <2>3, <3>1, <3>2, GrowthKeepsWorth
    <3>4. QED
      BY <3>3 DEF n, M, T, k
  <2>6. CASE Deposits(r)
    <3> DEFINE minted(l) == LiquidityToCollateral(rate, l)
    <3>1. PICK l \in Nat : Net(r)' = T + FromNum(l) /\ k = M + minted(l)
      BY <2>2, <2>6, Zenon DEF Deposits, T, M, k, rate
    <3> DEFINE m == minted(l)
    <3>2. m \in Nat
      <4>1. rate * l \in Nat
        BY <2>4, TimesNat
      <4>2. QED
        BY <4>1, FloorNat DEF LiquidityToCollateral
    <3>3. m = LiquidityToCollateral(ExchangeRate(M, T), l)
      BY <2>4, Zenon
    <3> HIDE DEF m, minted
    <3>4. m * T <= (M * ONE) * l
      BY <2>2, <3>2, <3>3, MintedAtMost
    <3>5. T + l * ONE <= n
      <4>1. FromNum(l) = l * ONE /\ FromNum(l) \in Nat
        BY FromNumNat DEF FromNum
      <4>2. QED
        BY <2>2, <2>3, <3>1, <4>1
    <3>6. n * M >= T * (M + m)
      BY <2>2, <2>3, <3>2, <3>4, <3>5, DepositKeepsWorth
    <3>7. n * M >= T * k
      BY <3>1, <3>6, Zenon DEF m
    <3>8. QED
      BY <3>7 DEF n, M, T, k
  <2>7. CASE Redeems(r)
    <3>1. PICK c \in Nat \ {0} :
             /\ rate > 0 /\ c <= M
             /\ Net(r)' = T - FromNum(CollateralToLiquidity(rate, c))
             /\ k = M - c
      BY <2>2, <2>7, Zenon DEF Redeems, T, M, k, rate
    <3> DEFINE a == CollateralToLiquidity(rate, c)
    <3>2. a \in Nat /\ FromNum(a) = a * ONE /\ a * ONE \in Nat
      <4>1. Quot(FromNum(c), rate) \in Nat
        BY <2>4, <3>1, FromNumNat, QuotNat
      <4>2. a \in Nat
        BY <4>1, FloorNat DEF CollateralToLiquidity
      <4>3. QED
        BY <2>4, <4>2, TimesNat DEF FromNum
    <3>3. a = CollateralToLiquidity(ExchangeRate(M, T), c)
      BY <2>4, Zenon
    <3>4. Net(r)' = T - a * ONE
      BY <3>1, <3>2, Zenon
    <3> HIDE DEF a
    <3>5. k < M
      BY <2>2, <3>1
    <3>6. ASSUME T <= ONE * rate PROVE (n + ONE) * M > T * k
      <4>1. T * (M - c) < (T - a * ONE + ONE) * M
        BY <2>2, <2>4, <3>1, <3>2, <3>3, <3>6, RedemptionKeepsWorth
      <4> DEFINE u == T - a * ONE + ONE
      <4>2. u \in Int /\ u <= n + ONE /\ n + ONE \in Nat
        BY <2>2, <2>3, <2>4, <3>2, <3>4
      <4> DEFINE v == n + ONE
      <4>3. T * k < u * M
        BY <3>1, <4>1, Zenon
      <4> HIDE DEF u, v
      <4>4. u \in Int /\ v \in Nat /\ u <= v
        BY <4>2 DEF v
      <4>5. u * M <= v * M /\ u * M \in Int /\ v * M \in Int
        BY <2>2, <4>4, TimesIntBoth
      <4>6. T * k \in Nat
        BY <2>2, <2>3, TimesNat
      <4>7. v * M > T * k
        BY <4>3, <4>5, <4>6
      <4>8. QED
        BY <4>7 DEF v
    <3>7. QED
      BY <3>5, <3>6 DEF n, M, T, k, rate
  <2>8. QED
    BY <2>1, <2>5, <2>6, <2>7, Zenon DEF Moved
<1>2. /\ MarketInv /\ MarketInv' /\ AssetsFit /\ AssetsFit' /\ [Next]_vars => [all]_vars
  BY <1>1, Zenon
<1>3. QED
  BY <1>2, MarketInvInit, MarketInvNext, PTL DEF Spec, ShareValueKept

-----------------------------------------------------------------------------
(* The type of the state *)

Amounts ==
    /\ available_amount \in [Reserves -> 0..U64MAX] /\ mint_total_supply \in [Reserves -> 0..U64MAX]
    /\ fee_vault \in [Reserves -> Nat]
    /\ wallet \in [Obligations -> [Reserves -> Nat]]
Refreshes ==
    /\ slot \in 0..MaxSlot
    /\ last_update \in [Reserves -> LastUpdate]
    /\ market_price_last_updated_ts \in [Reserves -> Nat]
    /\ deposit_limit_crossed_slot \in [Reserves -> Nat]
    /\ borrow_limit_crossed_slot \in [Reserves -> Nat]
Tables ==
    /\ deposits \in [Obligations -> [1..MaxDeposits -> ObligationCollateral]]
    /\ borrows \in [Obligations -> [1..MaxBorrows -> ObligationLiquidity]]
    /\ deposits_asset_tiers \in [Obligations -> [1..MaxDeposits -> Tiers]]
    /\ borrows_asset_tiers \in [Obligations -> [1..MaxBorrows -> Tiers]]
    /\ has_debt \in [Obligations -> BOOLEAN]

\* What a step may move: liquidity in or out of a reserve, collateral in or out of
\* existence, a fee to its receiver and the tokens of one customer.
Moves(r, o) ==
    /\ \E n \in Nat : LiquidityDeposit(r, n) \/ LiquidityWithdraw(r, n)
    /\ UNCHANGED mint_total_supply \/ \E n \in Nat : Mint(r, n) \/ Burn(r, n)
    /\ UNCHANGED fee_vault \/ \E n \in Nat : fee_vault' = [fee_vault EXCEPT ![r] = @ + n]
    /\ UNCHANGED wallet \/ \E n \in Nat : wallet' = [wallet EXCEPT ![o][r] = n]

LEMMA MovesKeepAmounts ==
    ASSUME KlendMarketAssumption, Amounts, NEW r \in Reserves, NEW o, Moves(r, o)
    PROVE  Amounts'
<1>1. U64MAX \in Nat
  BY DEF KlendMarketAssumption
<1>2. available_amount' \in [Reserves -> 0..U64MAX]
  <2>1. available_amount \in [Reserves -> 0..U64MAX]
    BY DEF Amounts
  <2>2. PICK n \in Nat : LiquidityDeposit(r, n) \/ LiquidityWithdraw(r, n)
    BY Zenon DEF Moves
  <2>3. PICK m \in 0..U64MAX : available_amount' = [available_amount EXCEPT ![r] = m]
    <3> DEFINE p == available_amount[r] + n
               q == available_amount[r] - n
    <3>1. CASE LiquidityDeposit(r, n)
      <4>1. p \in 0..U64MAX /\ available_amount' = [available_amount EXCEPT ![r] = p]
        BY <1>1, <2>1, <3>1 DEF LiquidityDeposit
      <4>2. QED
        BY <4>1, Zenon
    <3>2. CASE LiquidityWithdraw(r, n)
      <4>1. q \in 0..U64MAX /\ available_amount' = [available_amount EXCEPT ![r] = q]
        BY <1>1, <2>1, <3>2 DEF LiquidityWithdraw
      <4>2. QED
        BY <4>1, Zenon
    <3>3. QED
      BY <2>2, <3>1, <3>2
  <2>4. QED
    BY <2>1, <2>3
<1>3. mint_total_supply' \in [Reserves -> 0..U64MAX]
  <2>1. mint_total_supply \in [Reserves -> 0..U64MAX]
    BY DEF Amounts
  <2>2. CASE UNCHANGED mint_total_supply
    BY <2>1, <2>2
  <2>3. CASE \E n \in Nat : Mint(r, n) \/ Burn(r, n)
    <3>1. PICK n \in Nat : Mint(r, n) \/ Burn(r, n)
      BY <2>3
    <3> DEFINE p == mint_total_supply[r] + n
               q == mint_total_supply[r] - n
    <3>2. CASE Mint(r, n)
      <4>1. p \in 0..U64MAX /\ mint_total_supply' = [mint_total_supply EXCEPT ![r] = p]
        BY <1>1, <2>1, <3>2 DEF Mint
      <4> HIDE DEF p
      <4>2. QED
        BY <2>1, <4>1
    <3>3. CASE Burn(r, n)
      <4>1. q \in 0..U64MAX /\ mint_total_supply' = [mint_total_supply EXCEPT ![r] = q]
        BY <1>1, <2>1, <3>3 DEF Burn
      <4> HIDE DEF q
      <4>2. QED
        BY <2>1, <4>1
    <3>4. QED
      BY <3>1, <3>2, <3>3
  <2>4. QED
    BY <2>2, <2>3, Zenon DEF Moves
<1>4. fee_vault' \in [Reserves -> Nat]
  BY DEF Amounts, Moves
<1>5. wallet' \in [Obligations -> [Reserves -> Nat]]
  BY DEF Amounts, Moves
<1>6. QED
  BY <1>2, <1>3, <1>4, <1>5 DEF Amounts

LEMMA AmountsKept ==
    ASSUME Amounts, UNCHANGED <<available_amount, mint_total_supply, tokens>>
    PROVE  Amounts'
BY DEF Amounts, tokens

LEMMA DepositAmountsMove ==
    ASSUME Accounts, NEW o \in Obligations, NEW r \in Reserves, NEW a \in DepositAmounts, Amounts,
           DepositReserveLiquidityAndObligationCollateral(o, r, a)
    PROVE  Moves(r, o)
<1> DEFINE rate == CollateralExchangeRate(r)
           minted == LiquidityToCollateral(rate, a)
           n == wallet[o][r] - a
<1>1. /\ LiquidityDeposit(r, a) /\ Mint(r, minted) /\ a <= wallet[o][r]
      /\ wallet' = [wallet EXCEPT ![o][r] = n] /\ UNCHANGED fee_vault
  BY DEF DepositReserveLiquidityAndObligationCollateral, DepositTransfer
<1>2. a \in Nat
  BY KlendMarketAssumption
<1>3. minted \in Nat
  <2>1. rate * a \in Nat
    BY <1>2, RateNat, TimesNat DEF Accounts
  <2>2. QED
    BY <2>1, FloorNat DEF LiquidityToCollateral
<1>4. n \in Nat
  BY <1>1, <1>2 DEF Amounts
<1> HIDE DEF n, minted
<1>5. QED
  BY <1>1, <1>2, <1>3, <1>4, Zenon DEF Moves

LEMMA WithdrawAmountsMove ==
    ASSUME Accounts, NEW o \in Obligations, NEW r \in Reserves, NEW c \in RedeemAmounts, Amounts,
           WithdrawObligationCollateralAndRedeemReserveCollateral(o, r, c)
    PROVE  Moves(r, o)
<1> DEFINE rate == CollateralExchangeRate(r)
           a == CollateralToLiquidity(rate, c)
           n == wallet[o][r] + a
<1>1. /\ rate > 0 /\ Burn(r, c) /\ LiquidityWithdraw(r, a)
      /\ wallet' = [wallet EXCEPT ![o][r] = n] /\ UNCHANGED fee_vault
  BY DEF WithdrawObligationCollateralAndRedeemReserveCollateral, WithdrawAndRedeemTransfer
<1>2. c \in Nat
  BY KlendMarketAssumption
<1>3. a \in Nat
  <2>1. rate \in Nat /\ FromNum(c) \in Nat
    BY <1>2, RateNat, FromNumNat DEF Accounts
  <2> HIDE DEF rate
  <2>2. Quot(FromNum(c), rate) \in Nat
    BY <1>1, <2>1, QuotNat
  <2>3. QED
    BY <2>2, FloorNat DEF CollateralToLiquidity
<1> HIDE DEF a
<1>4. n \in Nat
  BY <1>3 DEF Amounts
<1> HIDE DEF n
<1>5. QED
  BY <1>1, <1>2, <1>3, <1>4, Zenon DEF Moves

LEMMA BorrowAmountsMove ==
    ASSUME Accounts, NEW o \in Obligations, NEW r \in Reserves, Amounts,
           NEW a \in BorrowAmounts, NEW m \in MaxDebtValues, BorrowObligationLiquidity(o, r, a, m)
    PROVE  Moves(r, o)
<1> DEFINE b == CalculateBorrow(r, a, m)
           out == ToFloor(b.borrow_amount_f)
           fee == b.borrow_fee
           n == wallet[o][r] + b.receive_amount
<1>1. /\ a = U64MAX => market_price_sf[r] > 0
      /\ LiquidityWithdraw(r, out) /\ b.receive_amount >= 0 /\ UNCHANGED mint_total_supply
      /\ fee_vault' = [fee_vault EXCEPT ![r] = @ + fee]
      /\ wallet' = [wallet EXCEPT ![o][r] = @ + b.receive_amount]
  BY Zenon DEF BorrowObligationLiquidity, LiquidityBorrow, BorrowTransfer
<1>2. a \in Nat /\ m \in Nat
  BY KlendMarketAssumption
<1>3. b.borrow_amount_f \in Nat /\ b.receive_amount \in Int /\ fee \in Nat
  BY <1>1, <1>2, LoanFacts, Zenon DEF Accounts
<1> HIDE DEF b
<1>4. out \in Nat
  BY <1>3, FloorNat
<1>5. n \in Nat /\ wallet' = [wallet EXCEPT ![o][r] = n]
  BY <1>1, <1>3 DEF Amounts
<1> HIDE DEF out, fee, n
<1>6. QED
  BY <1>1, <1>3, <1>4, <1>5, Zenon DEF Moves

LEMMA RepayAmountsMove ==
    ASSUME Accounts, BorrowTable, NEW o \in Obligations, NEW r \in Reserves, Amounts,
           NEW a \in RepayAmounts, RepayObligationLiquidity(o, r, a)
    PROVE  Moves(r, o)
<1> DEFINE l == CurrentBorrow(o, r)
           settled == Settled(a, l.borrowed_amount_sf)
           paid == RepayAmount(settled)
           n == wallet[o][r] - paid
<1>1. /\ SlotsOf(BorrowReserves(o), r) # {}
      /\ LiquidityDeposit(r, paid) /\ paid <= wallet[o][r]
      /\ wallet' = [wallet EXCEPT ![o][r] = @ - paid]
      /\ UNCHANGED <<mint_total_supply, fee_vault>>
  BY Zenon DEF RepayObligationLiquidity, LiquidityRepay, RepayTransfer
<1>2. l.borrowed_amount_sf \in Nat
  <2>1. GoodLoan(l)
    BY <1>1, CurrentLoan, Zenon DEF Accounts, HasSlot
  <2>2. QED
    BY <2>1 DEF GoodLoan, ObligationLiquidity
<1> HIDE DEF l
<1>3. settled \in Nat
  BY <1>2, RepaymentFacts, KlendMarketAssumption
<1> HIDE DEF settled
<1>4. paid \in Nat
  BY <1>3, CeilAbove DEF RepayAmount
<1> HIDE DEF paid
<1>5. n \in Nat /\ wallet' = [wallet EXCEPT ![o][r] = n]
  BY <1>1, <1>4 DEF Amounts
<1> HIDE DEF n
<1>6. QED
  BY <1>1, <1>4, <1>5, Zenon DEF Moves

LEMMA FeeAmountsMove ==
    ASSUME Accounts, NEW r \in Reserves, RedeemFees(r) \/ WithdrawReferrerFees(r), NEW o
    PROVE  Moves(r, o)
<1>1. PICK n \in Nat : /\ LiquidityWithdraw(r, n) /\ UNCHANGED <<mint_total_supply, wallet>>
                       /\ fee_vault' = [fee_vault EXCEPT ![r] = @ + n]
  <2>1. CASE RedeemFees(r)
    <3> DEFINE n == CalculateRedeemFees(r)
               owed == accumulated_protocol_fees_sf[r]
    <3>1. LiquidityWithdraw(r, n) /\ WithdrawFeesTransfer(r, n) /\ UNCHANGED mint_total_supply
      BY <2>1, Zenon DEF RedeemFees
    <3>2. owed \in Nat /\ available_amount[r] \in Nat
      BY FeeTypes
    <3>3. n = Least(available_amount[r], ToFloor(owed))
      BY Zenon DEF CalculateRedeemFees
    <3> HIDE DEF n, owed
    <3>4. n \in Nat
      BY <3>2, <3>3, FloorLeast
    <3>5. QED
      BY <3>1, <3>4, Zenon DEF WithdrawFeesTransfer
  <2>2. CASE WithdrawReferrerFees(r)
    <3> DEFINE n == GetWithdrawReferrerFees(r)
               owed == Least(amount_unclaimed_sf[r], accumulated_referrer_fees_sf[r])
    <3>1. LiquidityWithdraw(r, n) /\ WithdrawFeesTransfer(r, n) /\ UNCHANGED mint_total_supply
      BY <2>2, Zenon DEF WithdrawReferrerFees
    <3>2. owed \in Nat /\ available_amount[r] \in Nat
      BY FeeTypes, LeastNat
    <3>3. n = Least(ToFloor(owed), available_amount[r])
      BY Zenon DEF GetWithdrawReferrerFees
    <3> HIDE DEF n, owed
    <3>4. n \in Nat
      BY <3>2, <3>3, FloorLeast
    <3>5. QED
      BY <3>1, <3>4, Zenon DEF WithdrawFeesTransfer
  <2>3. QED
    BY <2>1, <2>2
<1>2. QED
  BY <1>1, Zenon DEF Moves

LEMMA AmountsNext ==
    ASSUME KlendMarketAssumption, MarketInv, Amounts, [Next]_vars
    PROVE  Amounts'
<1>0. Accounts /\ BorrowTable
  BY DEF MarketInv
<1>1. ASSUME NEW r \in Reserves, NEW o \in Obligations, NEW a \in DepositAmounts,
             DepositReserveLiquidityAndObligationCollateral(o, r, a)
      PROVE  Amounts'
  BY <1>0, <1>1, DepositAmountsMove, MovesKeepAmounts
<1>2. ASSUME NEW r \in Reserves, NEW o \in Obligations, NEW a \in RedeemAmounts,
             WithdrawObligationCollateralAndRedeemReserveCollateral(o, r, a)
      PROVE  Amounts'
  BY <1>0, <1>2, WithdrawAmountsMove, MovesKeepAmounts
<1>3. ASSUME NEW r \in Reserves, NEW o \in Obligations, NEW a \in BorrowAmounts,
             NEW v \in MaxDebtValues, BorrowObligationLiquidity(o, r, a, v)
      PROVE  Amounts'
  BY <1>0, <1>3, BorrowAmountsMove, MovesKeepAmounts
<1>4. ASSUME NEW r \in Reserves, NEW o \in Obligations, NEW a \in RepayAmounts,
             RepayObligationLiquidity(o, r, a)
      PROVE  Amounts'
  BY <1>0, <1>4, RepayAmountsMove, MovesKeepAmounts
<1>5. ASSUME NEW r \in Reserves, RedeemFees(r) \/ WithdrawReferrerFees(r)
      PROVE  Amounts'
  BY <1>0, <1>5, FeeAmountsMove, MovesKeepAmounts
<1>6. ASSUME NEW r \in Reserves,
             \/ \E readings \in Readings : RefreshReserve(r, readings)
             \/ AccumulateReferrerFees(r)
             \/ \E o \in Obligations : ForgiveDebt(o, r)
      PROVE  Amounts'
  <2>1. UNCHANGED <<available_amount, mint_total_supply, tokens>>
    BY <1>6, Zenon DEF RefreshReserve, AccumulateReferrerFees, ForgiveDebt, books
  <2>2. QED
    BY <2>1, AmountsKept
<1>7. CASE Tick \/ UNCHANGED vars
  <2>1. UNCHANGED <<available_amount, mint_total_supply, tokens>>
    BY <1>7, Zenon DEF Tick, vars, books
  <2>2. QED
    BY <2>1, AmountsKept
<1>8. QED
  BY <1>1, <1>2, <1>3, <1>4, <1>5, <1>6, <1>7, Zenon DEF Next

\* The flags a refresh leaves are among those there are.
LEMMA StatusFlags ==
    ASSUME NEW source, NEW reading, NEW token_info, NEW now
    PROVE  PriceStatus(source, reading, token_info, now) \in SUBSET Flags
<1>1. /\ AgeStatus(reading, token_info, now) \in SUBSET Flags
      /\ HeuristicStatus(reading, token_info) \in SUBSET Flags
      /\ UsageStatus(token_info) \in SUBSET Flags
  BY DEF AgeStatus, HeuristicStatus, UsageStatus, Flags
<1>2. TwapStatus(source, reading, token_info, now) \in SUBSET Flags
  BY DEF TwapStatus, Flags
<1>3. QED
  BY <1>1, <1>2 DEF PriceStatus, Flags

LEMMA MarkedStale ==
    ASSUME last_update \in [Reserves -> LastUpdate], NEW r \in Reserves, MarkStale(r)
    PROVE  last_update' \in [Reserves -> LastUpdate]
<1>1. last_update[r] \in LastUpdate
  OBVIOUS
<1> DEFINE u == [last_update[r] EXCEPT !.stale = TRUE]
<1>2. u \in LastUpdate
  BY <1>1 DEF LastUpdate
<1>3. last_update' = [last_update EXCEPT ![r] = u]
  BY DEF MarkStale
<1> HIDE DEF u
<1>4. QED
  BY <1>2, <1>3

LEMMA RefreshedTyped ==
    ASSUME KlendMarketAssumption, Refreshes, NEW r \in Reserves, NEW readings \in Readings,
           RefreshReserve(r, readings)
    PROVE  Refreshes'
<1> DEFINE token_info == Config[r].token_info
           price == GetPrice(token_info, readings, slot)
           status_after == StatusAfter(r, price)
<1>1. /\ ~NoPriceFeed(token_info, readings) /\ slot' = slot
      /\ IF price # <<>>
         THEN market_price_last_updated_ts' =
                  [market_price_last_updated_ts EXCEPT ![r] = price[1].timestamp]
         ELSE UNCHANGED market_price_last_updated_ts
      /\ last_update' = [last_update EXCEPT
            ![r] = [slot |-> slot, stale |-> FALSE, price_status |-> status_after]]
  BY Zenon DEF RefreshReserve, prices
<1>2. ReadingsValid(readings)
  BY Zenon DEF KlendMarketAssumption
<1>3. slot \in 0..MaxSlot /\ slot \in Nat /\ last_update \in [Reserves -> LastUpdate]
  BY DEF Refreshes, KlendMarketAssumption
<1>4. market_price_last_updated_ts' \in [Reserves -> Nat]
  <2>1. market_price_last_updated_ts \in [Reserves -> Nat]
    BY DEF Refreshes
  <2>2. price # <<>> => price[1].timestamp \in Nat
    BY <1>1, <1>2, PriceDefined
  <2> HIDE DEF price
  <2>3. QED
    BY <1>1, <2>1, <2>2
<1>5. last_update' \in [Reserves -> LastUpdate]
  <2>1. price # <<>> => price[1].status \in SUBSET Flags
    <3> DEFINE chosen == MostRecent(Candidates(token_info, readings))
               status == PriceStatus(chosen.source, chosen.reading, token_info, slot)
               loaded == [price |-> chosen.reading.price, timestamp |-> chosen.reading.timestamp,
                          status |-> status]
    <3>1. price # <<>> => price = <<loaded>>
      BY Zenon DEF GetPrice
    <3>2. status \in SUBSET Flags
      BY StatusFlags
    <3> HIDE DEF price, status, chosen
    <3>3. loaded.status = status /\ <<loaded>>[1] = loaded
      OBVIOUS
    <3> HIDE DEF loaded
    <3>4. QED
      BY <3>1, <3>2, <3>3
  <2>2. last_update[r].price_status \in SUBSET Flags
    BY <1>3 DEF LastUpdate
  <2> HIDE DEF price
  <2>3. status_after \in SUBSET Flags
    BY <2>1, <2>2 DEF StatusAfter
  <2> HIDE DEF status_after
  <2> DEFINE u == [slot |-> slot, stale |-> FALSE, price_status |-> status_after]
  <2>4. u \in LastUpdate
    BY <1>3, <2>3 DEF LastUpdate
  <2>5. last_update' = [last_update EXCEPT ![r] = u]
    BY <1>1, Zenon
  <2> HIDE DEF u
  <2>6. QED
    BY <1>3, <2>4, <2>5
<1>6. /\ deposit_limit_crossed_slot' \in [Reserves -> Nat]
      /\ borrow_limit_crossed_slot' \in [Reserves -> Nat]
  <2>1. \A old \in Nat : \A crossed : CrossedSlot(old, crossed) \in Nat
    BY <1>3 DEF CrossedSlot
  <2>2. /\ deposit_limit_crossed_slot \in [Reserves -> Nat]
        /\ borrow_limit_crossed_slot \in [Reserves -> Nat]
    BY DEF Refreshes
  <2> DEFINE d == CrossedSlot(deposit_limit_crossed_slot[r], DepositLimitCrossed(r)')
             b == CrossedSlot(borrow_limit_crossed_slot[r], BorrowLimitCrossed(r)')
  <2>3. /\ deposit_limit_crossed_slot' = [deposit_limit_crossed_slot EXCEPT ![r] = d]
        /\ borrow_limit_crossed_slot' = [borrow_limit_crossed_slot EXCEPT ![r] = b]
    BY Zenon DEF RefreshReserve
  <2>4. d \in Nat /\ b \in Nat
    <3>1. deposit_limit_crossed_slot[r] \in Nat /\ borrow_limit_crossed_slot[r] \in Nat
      BY <2>2
    <3>2. QED
      BY <2>1, <3>1, Zenon
  <2> HIDE DEF d, b
  <2>5. QED
    BY <2>2, <2>3, <2>4
<1>7. QED
  BY <1>1, <1>3, <1>4, <1>5, <1>6, Zenon DEF Refreshes

LEMMA RefreshesNext ==
    ASSUME KlendMarketAssumption, Refreshes, [Next]_vars
    PROVE  Refreshes'
<1>1. ASSUME NEW r \in Reserves, NEW readings \in Readings, RefreshReserve(r, readings)
      PROVE  Refreshes'
  BY <1>1, RefreshedTyped
<1>2. ASSUME NEW r \in Reserves, MarkStale(r) \/ UNCHANGED last_update,
             UNCHANGED <<prices, limits, slot>>
      PROVE  Refreshes'
  BY <1>2, MarkedStale DEF Refreshes, prices, limits
<1>3. ASSUME NEW r \in Reserves, RedeemFees(r) \/ AccumulateReferrerFees(r) \/ WithdrawReferrerFees(r)
      PROVE  Refreshes'
  <2>1. (MarkStale(r) \/ UNCHANGED last_update) /\ UNCHANGED <<prices, limits, slot>>
    BY <1>3, Zenon DEF RedeemFees, AccumulateReferrerFees, WithdrawReferrerFees
  <2>2. QED
    BY <1>2, <2>1
<1>4. ASSUME NEW r \in Reserves, NEW o \in Obligations,
             \/ \E a \in DepositAmounts : DepositReserveLiquidityAndObligationCollateral(o, r, a)
             \/ \E a \in RedeemAmounts : WithdrawObligationCollateralAndRedeemReserveCollateral(o, r, a)
             \/ \E a \in BorrowAmounts, v \in MaxDebtValues : BorrowObligationLiquidity(o, r, a, v)
             \/ \E a \in RepayAmounts : RepayObligationLiquidity(o, r, a)
             \/ ForgiveDebt(o, r)
      PROVE  Refreshes'
  <2>1. MarkStale(r) /\ UNCHANGED <<prices, limits, slot>>
    BY <1>4, Zenon DEF DepositReserveLiquidityAndObligationCollateral,
       WithdrawObligationCollateralAndRedeemReserveCollateral, BorrowObligationLiquidity,
       RepayObligationLiquidity, ForgiveDebt
  <2>2. QED
    BY <1>2, <2>1
<1>5. CASE Tick
  BY <1>5 DEF Tick, Refreshes, prices, limits, KlendMarketAssumption
<1>6. CASE UNCHANGED vars
  BY <1>6 DEF vars, Refreshes, prices, limits
<1>7. QED
  BY <1>1, <1>3, <1>4, <1>5, <1>6, Zenon DEF Next

LEMMA TiersTyped ==
    ASSUME KlendMarketAssumption
    PROVE  \A r \in Reserves \cup {NoReserve} : TierOf(r) \in Tiers
BY TierOfReserve DEF Tiers

\* What the slots hold after a step.
LEMMA NextSlots ==
    ASSUME KlendMarketAssumption, DepositTable', BorrowTable', Loans', Held'
    PROVE  /\ \A o \in Obligations, i \in 1..MaxDeposits :
                 deposits'[o][i] \in ObligationCollateral /\ deposits_asset_tiers'[o][i] \in Tiers
           /\ \A o \in Obligations, i \in 1..MaxBorrows :
                 borrows'[o][i] \in ObligationLiquidity /\ borrows_asset_tiers'[o][i] \in Tiers
<1>1. ASSUME NEW o \in Obligations, NEW i \in 1..MaxDeposits
      PROVE  deposits'[o][i] \in ObligationCollateral /\ deposits_asset_tiers'[o][i] \in Tiers
  <2>1. DepositSlot(o, i)'
    BY Zenon DEF DepositTable
  <2>2. /\ deposits'[o][i].deposit_reserve \in Reserves \cup {NoReserve}
        /\ deposits_asset_tiers'[o][i] = TierOf(deposits'[o][i].deposit_reserve)
    BY <2>1, Zenon DEF DepositSlot, TierOf
  <2>3. deposits'[o][i] \in ObligationCollateral
    BY Zenon DEF Held, ObligationCollateral
  <2>4. QED
    BY <2>2, <2>3, TiersTyped, Zenon
<1>2. ASSUME NEW o \in Obligations, NEW i \in 1..MaxBorrows
      PROVE  borrows'[o][i] \in ObligationLiquidity /\ borrows_asset_tiers'[o][i] \in Tiers
  <2>1. BorrowSlot(o, i)'
    BY Zenon DEF BorrowTable
  <2>2. /\ borrows'[o][i].borrow_reserve \in Reserves \cup {NoReserve}
        /\ borrows_asset_tiers'[o][i] = TierOf(borrows'[o][i].borrow_reserve)
    BY <2>1, Zenon DEF BorrowSlot, TierOf
  <2>3. borrows'[o][i] \in ObligationLiquidity
    BY Zenon DEF Loans, GoodLoan, ObligationLiquidity
  <2>4. QED
    BY <2>2, <2>3, TiersTyped, Zenon
<1>3. QED
  BY <1>1, <1>2

LEMMA TablesTyped ==
    ASSUME KlendMarketAssumption, DepositTable', BorrowTable', Loans', Held', Tables, [Next]_vars
    PROVE  Tables'
<1>1. /\ \A o \in Obligations, i \in 1..MaxDeposits :
            deposits'[o][i] \in ObligationCollateral /\ deposits_asset_tiers'[o][i] \in Tiers
      /\ \A o \in Obligations, i \in 1..MaxBorrows :
            borrows'[o][i] \in ObligationLiquidity /\ borrows_asset_tiers'[o][i] \in Tiers
  BY NextSlots
<1>2. ASSUME NEW o, NEW i, NEW v, NEW t, UNCHANGED <<borrows, borrows_asset_tiers, has_debt>>,
             deposits' = [deposits EXCEPT ![o][i] = v],
             deposits_asset_tiers' = [deposits_asset_tiers EXCEPT ![o][i] = t]
      PROVE  Tables'
  <2>1. deposits' \in [Obligations -> [1..MaxDeposits -> ObligationCollateral]]
    <3>1. deposits \in [Obligations -> [1..MaxDeposits -> ObligationCollateral]]
      BY Zenon DEF Tables
    <3>2. QED
      BY <1>1, <1>2, <3>1
  <2>2. deposits_asset_tiers' \in [Obligations -> [1..MaxDeposits -> Tiers]]
    <3>1. deposits_asset_tiers \in [Obligations -> [1..MaxDeposits -> Tiers]]
      BY Zenon DEF Tables
    <3>2. QED
      BY <1>1, <1>2, <3>1
  <2>3. QED
    BY <1>2, <2>1, <2>2, Zenon DEF Tables
<1>3. ASSUME NEW o, NEW i, NEW v, NEW t, UNCHANGED <<deposits, deposits_asset_tiers>>,
             borrows' = [borrows EXCEPT ![o][i] = v],
             borrows_asset_tiers' = [borrows_asset_tiers EXCEPT ![o][i] = t], UpdateHasDebt(o)
      PROVE  Tables'
  <2>1. borrows' \in [Obligations -> [1..MaxBorrows -> ObligationLiquidity]]
    <3>1. borrows \in [Obligations -> [1..MaxBorrows -> ObligationLiquidity]]
      BY Zenon DEF Tables
    <3>2. QED
      BY <1>1, <1>3, <3>1
  <2>2. borrows_asset_tiers' \in [Obligations -> [1..MaxBorrows -> Tiers]]
    <3>1. borrows_asset_tiers \in [Obligations -> [1..MaxBorrows -> Tiers]]
      BY Zenon DEF Tables
    <3>2. QED
      BY <1>1, <1>3, <3>1
  <2>3. has_debt' \in [Obligations -> BOOLEAN]
    <3> DEFINE b == \E j \in 1..MaxBorrows : borrows'[o][j].borrow_reserve # NoReserve
    <3>1. has_debt' = [has_debt EXCEPT ![o] = b] /\ b \in BOOLEAN
      BY <1>3, Zenon DEF UpdateHasDebt
    <3> HIDE DEF b
    <3>2. has_debt \in [Obligations -> BOOLEAN]
      BY DEF Tables
    <3>3. QED
      BY <3>1, <3>2
  <2>4. QED
    BY <1>3, <2>1, <2>2, <2>3, Zenon DEF Tables
<1>4. ASSUME NEW r \in Reserves, NEW o \in Obligations,
             \/ \E a \in DepositAmounts : DepositReserveLiquidityAndObligationCollateral(o, r, a)
             \/ \E a \in RedeemAmounts : WithdrawObligationCollateralAndRedeemReserveCollateral(o, r, a)
      PROVE  Tables'
  <2>1. \E i, v, t : /\ UNCHANGED <<borrows, borrows_asset_tiers, has_debt>>
                     /\ deposits' = [deposits EXCEPT ![o][i] = v]
                     /\ deposits_asset_tiers' = [deposits_asset_tiers EXCEPT ![o][i] = t]
    BY <1>4, Zenon DEF DepositReserveLiquidityAndObligationCollateral,
       WithdrawObligationCollateralAndRedeemReserveCollateral
  <2>2. QED
    BY <1>2, <2>1, Zenon
<1>5. ASSUME NEW r \in Reserves, NEW o \in Obligations,
             \/ \E a \in BorrowAmounts, v \in MaxDebtValues : BorrowObligationLiquidity(o, r, a, v)
             \/ \E a \in RepayAmounts : RepayObligationLiquidity(o, r, a)
             \/ ForgiveDebt(o, r)
      PROVE  Tables'
  <2>1. \E i, v, t : /\ UNCHANGED <<deposits, deposits_asset_tiers>>
                     /\ borrows' = [borrows EXCEPT ![o][i] = v]
                     /\ borrows_asset_tiers' = [borrows_asset_tiers EXCEPT ![o][i] = t]
                     /\ UpdateHasDebt(o)
    BY <1>5, Zenon DEF BorrowObligationLiquidity, RepayObligationLiquidity, ForgiveDebt
  <2>2. QED
    BY <1>3, <2>1, Zenon
<1>6. ASSUME UNCHANGED obligations PROVE Tables'
  BY <1>6, Zenon DEF Tables, obligations, tiers
<1>7. ASSUME NEW r \in Reserves,
             \/ \E readings \in Readings : RefreshReserve(r, readings)
             \/ RedeemFees(r) \/ AccumulateReferrerFees(r) \/ WithdrawReferrerFees(r)
      PROVE  Tables'
  <2>1. UNCHANGED obligations
    BY <1>7, Zenon DEF RefreshReserve, RedeemFees, AccumulateReferrerFees, WithdrawReferrerFees
  <2>2. QED
    BY <1>6, <2>1
<1>8. CASE Tick \/ UNCHANGED vars
  <2>1. UNCHANGED obligations
    BY <1>8, Zenon DEF Tick, vars
  <2>2. QED
    BY <1>6, <2>1
<1>9. QED
  BY <1>4, <1>5, <1>7, <1>8, Zenon DEF Next

\* A reserve whose total of debts has wrapped stays stale: no instruction that needs
\* it fresh runs, until a refresh, and those the model follows no further.
Overdrafts ==
    /\ overdrawn \in [Reserves -> Nat]
    /\ \A r \in Reserves : last_update[r].stale = FALSE => overdrawn[r] = 0

LEMMA StaleAfter ==
    ASSUME last_update \in [Reserves -> LastUpdate], NEW r \in Reserves, MarkStale(r)
    PROVE  /\ last_update'[r].stale = TRUE
           /\ \A p \in Reserves : p # r => last_update'[p] = last_update[p]
<1> DEFINE u == [last_update[r] EXCEPT !.stale = TRUE]
<1>1. last_update[r] \in LastUpdate
  OBVIOUS
<1>2. u.stale = TRUE
  BY <1>1 DEF LastUpdate
<1>3. last_update' = [last_update EXCEPT ![r] = u]
  BY DEF MarkStale
<1> HIDE DEF u
<1>4. QED
  BY <1>2, <1>3

LEMMA OverdraftsMarked ==
    ASSUME Refreshes, Overdrafts, NEW r \in Reserves, MarkStale(r), NEW e \in Nat,
           overdrawn' = [overdrawn EXCEPT ![r] = e]
    PROVE  Overdrafts'
<1>1. /\ last_update'[r].stale = TRUE
      /\ \A p \in Reserves : p # r => last_update'[p] = last_update[p]
  BY StaleAfter DEF Refreshes
<1>2. overdrawn' \in [Reserves -> Nat] /\ \A p \in Reserves : p # r => overdrawn'[p] = overdrawn[p]
  BY DEF Overdrafts
<1>3. ASSUME NEW p \in Reserves, last_update'[p].stale = FALSE PROVE overdrawn'[p] = 0
  <2>1. p # r
    BY <1>1, <1>3
  <2>2. QED
    BY <1>1, <1>2, <1>3, <2>1 DEF Overdrafts
<1>4. QED
  BY <1>2, <1>3 DEF Overdrafts

LEMMA OverdraftsKept ==
    ASSUME Refreshes, Overdrafts, NEW r \in Reserves, MarkStale(r) \/ UNCHANGED last_update,
           overdrawn' = overdrawn
    PROVE  Overdrafts'
<1>1. CASE MarkStale(r)
  <2>1. overdrawn[r] \in Nat /\ overdrawn' = [overdrawn EXCEPT ![r] = overdrawn[r]]
    BY DEF Overdrafts
  <2>2. QED
    BY <1>1, <2>1, OverdraftsMarked
<1>2. CASE UNCHANGED last_update
  BY <1>2 DEF Overdrafts
<1>3. QED
  BY <1>1, <1>2

LEMMA OverdraftsNext ==
    ASSUME KlendMarketAssumption, BorrowTable, Accounts, Refreshes, Overdrafts, [Next]_vars
    PROVE  Overdrafts'
<1>1. ASSUME NEW r \in Reserves, NEW readings \in Readings, RefreshReserve(r, readings)
      PROVE  Overdrafts'
  <2> DEFINE status == StatusAfter(r, GetPrice(Config[r].token_info, readings, slot))
  <2>1. /\ overdrawn[r] = 0 /\ overdrawn' = overdrawn
        /\ last_update' = [last_update EXCEPT
              ![r] = [slot |-> slot, stale |-> FALSE, price_status |-> status]]
    BY <1>1, Zenon DEF RefreshReserve
  <2> HIDE DEF status
  <2>2. \A p \in Reserves : p # r => last_update'[p] = last_update[p]
    BY <2>1 DEF Refreshes
  <2>3. QED
    BY <2>1, <2>2 DEF Overdrafts
<1>2. ASSUME NEW r \in Reserves, RedeemFees(r) \/ AccumulateReferrerFees(r) \/ WithdrawReferrerFees(r)
      PROVE  Overdrafts'
  <2>1. (MarkStale(r) \/ UNCHANGED last_update) /\ overdrawn' = overdrawn
    BY <1>2, Zenon DEF RedeemFees, AccumulateReferrerFees, WithdrawReferrerFees
  <2>2. QED
    BY <2>1, OverdraftsKept
<1>3. ASSUME NEW r \in Reserves, NEW o \in Obligations,
             \/ \E a \in DepositAmounts : DepositReserveLiquidityAndObligationCollateral(o, r, a)
             \/ \E a \in RedeemAmounts : WithdrawObligationCollateralAndRedeemReserveCollateral(o, r, a)
             \/ \E a \in BorrowAmounts, v \in MaxDebtValues : BorrowObligationLiquidity(o, r, a, v)
             \/ \E a \in RepayAmounts : RepayObligationLiquidity(o, r, a)
      PROVE  Overdrafts'
  <2>1. MarkStale(r) /\ overdrawn' = overdrawn
    BY <1>3, Zenon DEF DepositReserveLiquidityAndObligationCollateral,
       WithdrawObligationCollateralAndRedeemReserveCollateral, BorrowObligationLiquidity,
       RepayObligationLiquidity
  <2>2. QED
    BY <2>1, OverdraftsKept
<1>4. ASSUME NEW r \in Reserves, NEW o \in Obligations, ForgiveDebt(o, r)
      PROVE  Overdrafts'
  <2> DEFINE x == CurrentBorrow(o, r).borrowed_amount_sf
             e == Greatest(0, x - borrowed_amount_sf[r])
  <2>1. /\ MarkStale(r) /\ HasSlot(BorrowReserves(o), r)
        /\ overdrawn' = [overdrawn EXCEPT ![r] = e]
    BY <1>4, Zenon DEF ForgiveDebt, HasSlot
  <2>2. x \in Nat
    BY <2>1, CurrentLoan, Zenon DEF Accounts, GoodLoan, ObligationLiquidity
  <2>3. borrowed_amount_sf[r] \in Nat
    BY DEF Accounts, Debts
  <2> HIDE DEF x
  <2>4. e \in Nat
    BY <2>2, <2>3 DEF Greatest
  <2> HIDE DEF e
  <2>5. QED
    BY <2>1, <2>4, OverdraftsMarked
<1>5. CASE Tick \/ UNCHANGED vars
  <2>1. overdrawn' = overdrawn /\ last_update' = last_update
    BY <1>5, Zenon DEF Tick, vars
  <2>2. QED
    BY <2>1 DEF Overdrafts
<1>6. QED
  BY <1>1, <1>2, <1>3, <1>4, <1>5, Zenon DEF Next

LEMMA TypesInit ==
    ASSUME KlendMarketAssumption, Init
    PROVE  Amounts /\ Refreshes /\ Tables /\ Overdrafts
<1>1. Amounts
  BY DEF Init, InitLiquidity, InitReserves, Amounts, KlendMarketAssumption
<1>2. Refreshes
  <2>1. [slot |-> 0, stale |-> TRUE, price_status |-> {}] \in LastUpdate
    BY DEF LastUpdate
  <2>2. QED
    BY <2>1 DEF Init, InitLiquidity, InitReserves, Refreshes, KlendMarketAssumption
<1>3. Tables
  <2>1. EmptyDeposit \in ObligationCollateral /\ EmptyBorrow \in ObligationLiquidity
    BY DEF EmptyDeposit, EmptyBorrow, ObligationCollateral, ObligationLiquidity
  <2>2. NoTier \in Tiers
    BY DEF Tiers
  <2>3. QED
    BY <2>1, <2>2 DEF Init, InitObligations, Tables
<1>4. Overdrafts
  <2>1. overdrawn = [r \in Reserves |-> 0]
    BY Zenon DEF Init
  <2>2. QED
    BY <2>1 DEF Overdrafts
<1>5. QED
  BY <1>1, <1>2, <1>3, <1>4

\* Every number, table and flag of the lending market keeps its type, through interest,
\* loans, fees and forgiven debts: amounts fit a u64, no balance of a vault or of a
\* customer is below zero, and the tables hold reserves, amounts and tiers that exist.
THEOREM MarketTypes == Spec => []TypeOK
<1>1. KlendMarketAssumption
  BY KlendMarketAssumption DEF KlendMarketAssumption
<1> DEFINE typed == Amounts /\ Refreshes /\ Tables /\ Overdrafts
<1>2. Init => MarketInv /\ Collateral /\ typed
  BY <1>1, MarketInvInit, CollateralInit, TypesInit, Zenon
<1>3. MarketInv /\ Collateral /\ typed /\ [Next]_vars => MarketInv' /\ Collateral' /\ typed'
  <2> SUFFICES ASSUME MarketInv, Collateral, typed, [Next]_vars
               PROVE  MarketInv' /\ Collateral' /\ typed'
    OBVIOUS
  <2>1. MarketInv' /\ Collateral'
    BY MarketInvNext, CollateralNext, Zenon DEF MarketInv
  <2>2. Amounts'
    BY <1>1, AmountsNext
  <2>3. Refreshes'
    BY <1>1, RefreshesNext
  <2>4. Tables'
    BY <1>1, <2>1, TablesTyped DEF MarketInv, Accounts, Collateral
  <2>5. Overdrafts'
    BY <1>1, OverdraftsNext DEF MarketInv
  <2>6. QED
    BY <2>1, <2>2, <2>3, <2>4, <2>5
<1>4. MarketInv /\ Collateral /\ typed => TypeOK
  <2> SUFFICES ASSUME MarketInv, Collateral, typed PROVE TypeOK
    OBVIOUS
  <2>1. /\ available_amount \in [Reserves -> Nat] /\ supply_vault \in [Reserves -> Int]
        /\ BooksMatchTokens /\ mint_total_supply \in [Reserves -> Nat]
        /\ collateral_vault = mint_total_supply
    BY DEF MarketInv, Accounts, Books, Collateral
  <2>2. supply_vault \in [Reserves -> Nat] /\ collateral_vault \in [Reserves -> Nat]
    BY <2>1 DEF BooksMatchTokens
  <2>3. Debts /\ Fees /\ Prices
    BY DEF MarketInv, Accounts
  <2>4. cumulative_borrow_rate_bsf \in [Reserves -> Nat]
    BY <2>3 DEF Debts
  <2>5. QED
    BY <2>2, <2>3, <2>4, Zenon
       DEF TypeOK, Amounts, Refreshes, Tables, Overdrafts, Debts, Fees, Prices
<1>5. QED
  BY <1>2, <1>3, <1>4, PTL DEF Spec

\* Whatever interest, fees, loans and forgiven debts have made of the exchange rate:
\* whoever deposits and withdraws at once gets back no more than was deposited, when
\* the collateral received has the precision for it, with three roundings in between.
THEOREM NoProfitFromRoundTrips == Spec => []NoProfitAtOnce
<1>1. ASSUME MarketInv, NEW r \in Reserves, mint_total_supply[r] > 0, NEW o \in Obligations,
             NEW l \in 1..wallet[o][r],
             NEW m, m = LiquidityToCollateral(CollateralExchangeRate(r), l), m > 0, m * ONE >= l * l,
             NEW rate, rate = ExchangeRate(mint_total_supply[r] + m, TotalSupply(r) + FromNum(l))
      PROVE  rate > 0 /\ CollateralToLiquidity(rate, m) <= l
  <2> DEFINE M == mint_total_supply[r]
             T == TotalSupply(r)
  <2>1. M \in Nat /\ M > 0 /\ T \in Nat /\ CollateralExchangeRate(r) \in Nat
    BY <1>1, TotalSupplyNat, RateNat DEF MarketInv, Accounts, Books
  <2>2. l \in Nat /\ l > 0
    OBVIOUS
  <2>3. m \in Nat
    <3>1. CollateralExchangeRate(r) * l \in Nat
      BY <2>1, <2>2, TimesNat
    <3>2. QED
      BY <1>1, <3>1, FloorNat DEF LiquidityToCollateral
  <2>4. m = LiquidityToCollateral(ExchangeRate(M, T), l) /\ rate = ExchangeRate(M + m, T + FromNum(l))
    BY <1>1, Zenon DEF CollateralExchangeRate
  <2> HIDE DEF M, T
  <2>5. FromNum(l) \in Nat
    BY <2>2, FromNumNat
  <2>6. rate \in Nat
    <3>1. M + m \in Nat /\ T + FromNum(l) \in Nat
      BY <2>1, <2>3, <2>5
    <3>2. QED
      BY <2>4, <3>1, ExchangeRateNat
  <2>7. l * l <= m * ONE
    <3>1. l * l \in Nat /\ m * ONE \in Nat
      BY <2>2, <2>3, TimesNat, KlendMathAssumption
    <3>2. QED
      BY <1>1, <3>1
  <2>8. QED
    BY <1>1, <2>1, <2>2, <2>3, <2>4, <2>6, <2>7, RoundTrip
<1>2. MarketInv => NoProfitAtOnce
  BY <1>1, Zenon DEF NoProfitAtOnce
<1>3. QED
  BY <1>2, MarketInvInit, MarketInvNext, PTL DEF Spec

\* Whatever the debt limit, the price and the books leave to be lent: the fee taken out
\* of "all of it" is never more than the whole units of it, so receive_amount, a u64,
\* does not wrap, at a fee of at most a half.
THEOREM ReceiveNeverBelowZero == Spec => []ReceiveNeverWraps
<1>1. ASSUME MarketInv, NEW r \in Reserves, NEW v \in MaxDebtValues, market_price_sf[r] > 0,
             2 * Config[r].borrow_fee_sf <= ONE, ~CalculateBorrow(r, U64MAX, v).too_small
      PROVE  CalculateBorrow(r, U64MAX, v).receive_amount >= 0
  <2> DEFINE asked == AllItMay(r, v)
             fee_sf == Config[r].borrow_fee_sf
             fee == CalculateFees(asked, fee_sf, TRUE, ReferralFeeBps, FALSE).borrow_fee
             b == CalculateBorrow(r, U64MAX, v)
  <2>1. v \in Nat
    BY KlendMarketAssumption
  <2>2. asked \in Nat /\ fee_sf \in Nat
    BY <1>1, <2>1, AllItMayNat, ConfigTypes DEF MarketInv, Accounts
  <2>3. b.receive_amount = ToFloor(asked) - fee /\ b.too_small = BorrowTooSmall(asked, fee_sf, TRUE)
    BY DEF CalculateBorrow, BorrowFees
  <2> HIDE DEF asked, b
  <2>4. ~BorrowTooSmall(asked, fee_sf, TRUE)
    BY <1>1, <2>3, Zenon DEF b
  <2>5. fee <= ToFloor(asked) /\ fee \in Nat
    <3> HIDE DEF fee_sf
    <3>1. 2 * fee_sf <= ONE
      BY <1>1 DEF fee_sf
    <3>2. fee <= ToFloor(asked)
      BY <2>2, <2>4, <3>1, FeeLeavesRest
    <3>3. fee \in Nat
      BY <2>2, FeeNat
    <3>4. QED
      BY <3>2, <3>3
  <2> HIDE DEF fee
  <2>6. ToFloor(asked) \in Nat
    BY <2>2, FloorNat
  <2>7. b.receive_amount >= 0
    BY <2>3, <2>5, <2>6
  <2>8. QED
    BY <2>7 DEF b
<1>2. MarketInv => ReceiveNeverWraps
  BY <1>1, Zenon DEF ReceiveNeverWraps
<1>3. QED
  BY <1>2, MarketInvInit, MarketInvNext, PTL DEF Spec

\* Whatever the rates and however long between refreshes: a margin call's period does
\* not start over while the reserve stays over its borrow limit, for interest only adds
\* to the debt that refresh_reserve compares with the limit.
THEOREM CrossingIsRemembered == Spec => CrossingRemembered
<1> DEFINE kept(r) ==
        LET crossed == borrowed_amount_sf[r] > FromNum(Config[r].borrow_limit)
        IN  borrow_limit_crossed_slot[r] > 0 =>
                \/ borrow_limit_crossed_slot'[r] = borrow_limit_crossed_slot[r]
                \/ ~crossed /\ ~crossed'
           all == \A r \in Reserves : kept(r)
<1>1. ASSUME MarketInv, NEW p \in Reserves, NEW readings \in Readings,
             RefreshReserve(p, readings), NEW r \in Reserves
      PROVE  kept(r)
  <2>1. borrow_limit_crossed_slot' = [borrow_limit_crossed_slot EXCEPT
            ![p] = CrossedSlot(@, BorrowLimitCrossed(p)')]
    BY <1>1, Zenon DEF RefreshReserve
  <2>2. DOMAIN borrow_limit_crossed_slot = Reserves
    BY <1>1, Zenon DEF MarketInv, Remembered
  <2>3. CASE r # p
    BY <2>1, <2>2, <2>3, Zenon
  <2>4. CASE r = p
    <3>1. /\ borrowed_amount_sf[r] \in Nat /\ borrowed_amount_sf'[r] \in Nat
          /\ borrowed_amount_sf'[r] >= borrowed_amount_sf[r]
      BY <1>1, <2>4, RefreshAccounts DEF MarketInv, Accounts, Debts
    <3>2. FromNum(Config[r].borrow_limit) \in Nat
      BY ConfigTypes, FromNumNat
    <3>3. CASE borrowed_amount_sf'[r] > FromNum(Config[r].borrow_limit)
      <4>1. BorrowLimitCrossed(r)'
        BY <3>3 DEF BorrowLimitCrossed
      <4>2. borrow_limit_crossed_slot'[r] = CrossedSlot(borrow_limit_crossed_slot[r], TRUE)
        BY <2>1, <2>2, <2>4, <4>1, Zenon
      <4>3. ~ (0 > 0)
        OBVIOUS
      <4>4. QED
        BY <4>2, <4>3, Zenon DEF CrossedSlot
    <3>4. CASE ~ (borrowed_amount_sf'[r] > FromNum(Config[r].borrow_limit))
      BY <3>1, <3>2, <3>4
    <3>5. QED
      BY <3>3, <3>4
  <2>5. QED
    BY <2>3, <2>4
<1>2. ASSUME UNCHANGED limits PROVE all
  BY <1>2, Zenon DEF limits
<1> HIDE DEF kept
<1>3. ASSUME MarketInv, Next PROVE all
  BY <1>1, <1>2, <1>3, LimitsWritten, Zenon
<1>4. MarketInv /\ [Next]_vars => [all]_vars
  BY <1>3
<1>5. [all]_vars <=> [\A r \in Reserves :
          LET crossed == borrowed_amount_sf[r] > FromNum(Config[r].borrow_limit)
          IN  borrow_limit_crossed_slot[r] > 0 =>
                  \/ borrow_limit_crossed_slot'[r] = borrow_limit_crossed_slot[r]
                  \/ ~crossed /\ ~crossed']_vars
  BY Zenon DEF kept
<1>6. QED
  BY <1>4, <1>5, MarketInvInit, MarketInvNext, PTL DEF Spec, CrossingRemembered

-----------------------------------------------------------------------------
(* The curves of the reserves *)

\* For numbers as fine as the code's, the curve of every reserve and the legacy ones
\* that the run judges: no rate falls as the use rises.
THEOREM BorrowRateGrowsWithUse ==
    ASSUME Fine
    PROVE  Spec => []RateGrowsWithUse
<1>1. ASSUME NEW curve \in LegacyCurves \cup {Config[r].borrow_rate_curve : r \in Reserves}
      PROVE  CurveValid(curve)
  <2>1. CASE curve \in LegacyCurves
    <3> DEFINE U == {0, 40, 80, 100}
               B == {0, 10}
               O == {10, 60}
               M == {60, 250}
               Ordered(u, b, o, m) ==
                   u \in 0..100 /\ b \in Nat /\ o \in Nat /\ m \in Nat /\ b <= o /\ o <= m
    <3>1. \A u, b, o, m : Ordered(u, b, o, m) => CurveValid(FromLegacyParameters(u, b, o, m))
      BY LegacyCurveIsValid, Zenon
    <3>2. \A u \in U, b \in B, o \in O, m \in M :
              Ordered(u, b, o, m)
      OBVIOUS
    <3>3. \E u \in U, b \in B, o \in O, m \in M :
              curve = FromLegacyParameters(u, b, o, m)
      BY <2>1 DEF LegacyCurves
    <3> HIDE DEF U, B, O, M, Ordered
    <3>4. QED
      BY <3>1, <3>2, <3>3, Zenon
  <2>2. CASE curve \in {Config[r].borrow_rate_curve : r \in Reserves}
    <3>1. PICK r \in Reserves : curve = Config[r].borrow_rate_curve
      BY <2>2
    <3>2. QED
      BY <3>1, ConfigTypes
  <2>3. QED
    BY <1>1, <2>1, <2>2
<1>2. \A curve \in LegacyCurves \cup {Config[r].borrow_rate_curve : r \in Reserves} :
          /\ CurveValid(curve)
          /\ \A u \in 0..(ONE + 1) : GetBorrowRate(curve, u) <= GetBorrowRate(curve, u + 1)
  <2> TAKE curve \in LegacyCurves \cup {Config[r].borrow_rate_curve : r \in Reserves}
  <2>1. CurveValid(curve)
    BY <1>1, Zenon
  <2>2. ASSUME NEW u \in 0..(ONE + 1)
        PROVE  GetBorrowRate(curve, u) <= GetBorrowRate(curve, u + 1)
    <3>1. u \in Nat /\ u + 1 \in Nat /\ u <= u + 1
      BY KlendMathAssumption
    <3>2. QED
      BY <2>1, <3>1, BorrowRateGrows
  <2>3. QED
    BY <2>1, <2>2, Zenon
<1>3. RateGrowsWithUse
  BY <1>2, Zenon DEF RateGrowsWithUse
<1>4. QED
  BY <1>3, PTL

-----------------------------------------------------------------------------
(* Compounding, as the run states it *)

LEMMA Powers ==
    ASSUME NEW x \in Nat
    PROVE  /\ Power(x, 0) = 1 /\ Power(x, 1) = x /\ Power(x, 2) = x * x
           /\ Power(x, 3) = x * x * x /\ Power(x, 4) = x * x * x * x
           /\ Power(x, 5) = x * x * x * x * x /\ Power(x, 6) = x * x * x * x * x * x
BY DEF Power

\* Where a Fraction has four bits or more, compound interest never exceeds the exact
\* power, and a longer time never costs less; with fewer bits the second is false (with
\* ONE = 5 four slots at two fifths a slot cost more than five).
THEOREM CompoundingStaysOrdered ==
    ASSUME ONE >= 16
    PROVE  Spec => []CompoundingIsOrdered
<1> DEFINE Rate(base) == base * SLOTS_PER_YEAR
           approx(base, k) == ApproximateCompoundedInterest(Rate(base), k)
<1>1. ASSUME NEW base \in 0..ONE
      PROVE  Rate(base) \in Nat /\ Rate(base) \div SLOTS_PER_YEAR = base /\ base \in Nat /\ base <= ONE
  BY KlendMathAssumption
<1>2. ASSUME NEW base \in 0..ONE, NEW n \in 0..6, n < 6
      PROVE  approx(base, n) <= approx(base, n + 1)
  <2>1. n \in Nat /\ Rate(base) \in Nat /\ Rate(base) \div SLOTS_PER_YEAR <= ONE
    BY <1>1
  <2> HIDE DEF Rate
  <2>2. QED
    BY <2>1, CompoundingRisesWithTime
<1>3. ASSUME NEW base \in 0..ONE, NEW n \in 0..6, n > 0
      PROVE  approx(base, n) * Power(ONE, n - 1) <= Power(ONE + base, n)
  <2> DEFINE x == ONE + base
             y == ONE
             a == approx(base, n)
  <2>1. n \in 1..6 /\ Rate(base) \in Nat /\ Rate(base) \div SLOTS_PER_YEAR = base
    BY <1>1, <1>3
  <2> HIDE DEF Rate
  <2>2. /\ n = 1 => a <= x
        /\ n = 2 => a * y <= x * x
        /\ n = 3 => a * (y * y) <= x * x * x
        /\ n = 4 => a * (y * y * y) <= x * x * x * x
        /\ n = 5 => a * (y * y * y * y) <= x * x * x * x * x
        /\ n = 6 => a * (y * y * y * y * y) <= x * x * x * x * x * x
    BY <2>1, CompoundingBelowPower
  <2>3. a \in Nat
    <3>1. n \in Nat
      OBVIOUS
    <3>2. QED
      BY <2>1, <3>1, CompoundingGrows, Zenon
  <2> HIDE DEF a, x, y
  <2>4. /\ n = 1 => Power(y, n - 1) = 1 /\ Power(x, n) = x
        /\ n = 2 => Power(y, n - 1) = y /\ Power(x, n) = x * x
        /\ n = 3 => Power(y, n - 1) = y * y /\ Power(x, n) = x * x * x
        /\ n = 4 => Power(y, n - 1) = y * y * y /\ Power(x, n) = x * x * x * x
        /\ n = 5 => Power(y, n - 1) = y * y * y * y /\ Power(x, n) = x * x * x * x * x
        /\ n = 6 => Power(y, n - 1) = y * y * y * y * y /\ Power(x, n) = x * x * x * x * x * x
    <3>1. x \in Nat /\ y \in Nat
      BY <1>1, KlendMathAssumption DEF x, y
    <3>2. /\ n = 1 => n - 1 = 0
          /\ n = 2 => n - 1 = 1
          /\ n = 3 => n - 1 = 2
          /\ n = 4 => n - 1 = 3
          /\ n = 5 => n - 1 = 4
          /\ n = 6 => n - 1 = 5
      OBVIOUS
    <3>3. QED
      BY <3>1, <3>2, Powers, Zenon
  <2>5. n = 1 \/ n = 2 \/ n = 3 \/ n = 4 \/ n = 5 \/ n = 6
    BY <2>1
  <2>6. a * 1 = a
    BY <2>3
  <2>7. a * Power(y, n - 1) <= Power(x, n)
    BY <2>2, <2>4, <2>5, <2>6, Zenon
  <2>8. QED
    BY <2>7 DEF a, x, y
<1>4. CompoundingIsOrdered
  <2> SUFFICES ASSUME NEW base \in 0..ONE, NEW n \in 0..6
               PROVE  /\ n > 0 => approx(base, n) * Power(ONE, n - 1) <= Power(ONE + base, n)
                      /\ n < 6 => approx(base, n) <= approx(base, n + 1)
    BY Zenon DEF CompoundingIsOrdered
  <2>1. QED
    BY <1>2, <1>3, Zenon
<1>5. QED
  BY <1>4, PTL

-----------------------------------------------------------------------------
(* What the customers owe and what the reserve believes it has lent *)

BorrowSlots == Obligations \X (1..MaxBorrows)
InDebt(b, r, rate) == IF b.borrow_reserve = r THEN Accrued(b, rate).borrowed_amount_sf ELSE 0
OwedIn(r) ==
    [p \in BorrowSlots |-> InDebt(borrows[p[1]][p[2]], r, cumulative_borrow_rate_bsf[r])]
TotalOwed(r) == SumOf(OwedIn(r), BorrowSlots)

\* No loan is ahead of the cumulative rate of its reserve, which is at least one.
NotAhead ==
    /\ \A r \in Reserves : cumulative_borrow_rate_bsf[r] >= ONE
    /\ \A r \in Reserves, o \in Obligations, i \in 1..MaxBorrows :
          borrows[o][i].borrow_reserve = r =>
              borrows[o][i].cumulative_borrow_rate_bsf <= cumulative_borrow_rate_bsf[r]

LEMMA BorrowSlotsFinite ==
    ASSUME KlendMarketAssumption
    PROVE  IsFiniteSet(BorrowSlots)
<1>1. IsFiniteSet(1..MaxBorrows)
  BY FS_Interval DEF KlendMarketAssumption
<1>2. QED
  BY <1>1, ObligationsAssumption, FS_Product DEF ObligationsAssumption, BorrowSlots

LEMMA LoanBoth ==
    ASSUME NEW l \in ObligationLiquidity, NEW x \in Nat, NEW y \in Nat
    PROVE  [l EXCEPT !.borrowed_amount_sf = x, !.cumulative_borrow_rate_bsf = y].borrowed_amount_sf = x
BY DEF ObligationLiquidity

\* A loan that is not ahead, brought up to date.
LEMMA AccruedDebt ==
    ASSUME KlendMarketAssumption, NEW b, GoodLoan(b), NEW r \in Reserves, b.borrow_reserve = r,
           NEW rate \in Nat, b.cumulative_borrow_rate_bsf <= rate
    PROVE  /\ b.borrowed_amount_sf \in Nat
           /\ b.cumulative_borrow_rate_bsf \in Nat /\ b.cumulative_borrow_rate_bsf > 0
           /\ InDebt(b, r, rate) = (b.borrowed_amount_sf * rate) \div b.cumulative_borrow_rate_bsf
<1>1. /\ b \in ObligationLiquidity /\ b.borrowed_amount_sf \in Nat
      /\ b.cumulative_borrow_rate_bsf \in Nat /\ b.cumulative_borrow_rate_bsf > 0
  BY DEF GoodLoan, ObligationLiquidity, KlendMarketAssumption
<1> DEFINE x == b.borrowed_amount_sf
           w == b.cumulative_borrow_rate_bsf
           d == (x * rate) \div w
<1>2. InDebt(b, r, rate) = Accrued(b, rate).borrowed_amount_sf
  BY Zenon DEF InDebt
<1>3. CASE rate > w
  <2>1. Accrued(b, rate) = [b EXCEPT !.borrowed_amount_sf = d, !.cumulative_borrow_rate_bsf = rate]
    BY <1>3 DEF Accrued
  <2>2. x * rate \in Nat
    BY <1>1, TimesNat
  <2>3. d \in Nat
    BY <1>1, <2>2, DivNat
  <2> HIDE DEF d
  <2>4. Accrued(b, rate).borrowed_amount_sf = d
    BY <1>1, <2>1, <2>3, LoanBoth
  <2>5. QED
    BY <1>1, <1>2, <2>4, Zenon DEF d
<1>4. CASE ~ (rate > w)
  <2>1. Accrued(b, rate) = b
    BY <1>4, Zenon DEF Accrued
  <2>2. rate = w
    <3>1. w \in Nat /\ w <= rate
      BY <1>1
    <3> HIDE DEF w
    <3>2. QED
      BY <1>4, <3>1
  <2>3. d = x
    <3>1. x \in Nat /\ w \in Nat /\ w > 0
      BY <1>1
    <3> HIDE DEF x, w
    <3>2. (x * w) \div w = x
      BY <3>1
    <3>3. QED
      BY <2>2, <3>2
  <2>4. QED
    BY <1>1, <1>2, <2>1, <2>3, Zenon
<1>5. QED
  BY <1>3, <1>4

LEMMA InDebtNat ==
    ASSUME KlendMarketAssumption, NEW b, GoodLoan(b), NEW r \in Reserves, NEW rate \in Nat \ {0}
    PROVE  InDebt(b, r, rate) \in Nat
<1>1. CASE b.borrow_reserve = r
  <2>1. GoodLoan(Accrued(b, rate))
    BY <1>1, AccruedLoan
  <2>2. QED
    BY <1>1, <2>1 DEF InDebt, GoodLoan, ObligationLiquidity
<1>2. CASE b.borrow_reserve # r
  BY <1>2 DEF InDebt
<1>3. QED
  BY <1>1, <1>2

\* The slots of all obligations, each with what it owes.
LEMMA OwedInNat ==
    ASSUME KlendMarketAssumption, Loans, Debts, NEW r \in Reserves
    PROVE  /\ \A p \in BorrowSlots : OwedIn(r)[p] \in Nat
           /\ TotalOwed(r) \in Nat
<1>1. ASSUME NEW p \in BorrowSlots PROVE OwedIn(r)[p] \in Nat
  <2>1. p[1] \in Obligations /\ p[2] \in 1..MaxBorrows
    BY DEF BorrowSlots
  <2>2. GoodLoan(borrows[p[1]][p[2]])
    BY <2>1, Zenon DEF Loans
  <2>3. cumulative_borrow_rate_bsf[r] \in Nat \ {0}
    BY DEF Debts
  <2>4. InDebt(borrows[p[1]][p[2]], r, cumulative_borrow_rate_bsf[r]) \in Nat
    BY <2>2, <2>3, InDebtNat
  <2>5. QED
    BY <2>4, Zenon DEF OwedIn
<1> DEFINE f == OwedIn(r)
<1>2. \A p \in BorrowSlots : f[p] \in Nat
  BY <1>1
<1> HIDE DEF f
<1>3. SumOf(f, BorrowSlots) \in Nat
  BY <1>2, BorrowSlotsFinite, SumNat
<1>4. QED
  BY <1>1, <1>3 DEF f, TotalOwed

\* What is owed to a reserve by the slots that name it, as a sum over all slots.
LEMMA OwedOverAll ==
    ASSUME KlendMarketAssumption, Loans, Debts, NEW r \in Reserves
    PROVE  Owed(r) = TotalOwed(r)
<1> DEFINE f == [p \in BorrowsOf(r) |->
                   Accrued(borrows[p[1]][p[2]], cumulative_borrow_rate_bsf[r]).borrowed_amount_sf]
<1>1. /\ BorrowsOf(r) \in SUBSET BorrowSlots
      /\ \A p \in BorrowSlots :
            p \in BorrowsOf(r) <=> borrows[p[1]][p[2]].borrow_reserve = r
  BY DEF BorrowsOf, BorrowSlots
<1>2. ASSUME NEW p \in BorrowsOf(r) PROVE f[p] \in Int /\ OwedIn(r)[p] = f[p]
  <2>1. p \in BorrowSlots /\ borrows[p[1]][p[2]].borrow_reserve = r
    BY <1>1
  <2>2. OwedIn(r)[p] = f[p]
    BY <2>1, Zenon DEF OwedIn, InDebt
  <2>3. OwedIn(r)[p] \in Nat
    BY <2>1, OwedInNat
  <2> HIDE DEF f
  <2>4. QED
    BY <2>2, <2>3
<1>3. ASSUME NEW p \in BorrowSlots \ BorrowsOf(r) PROVE OwedIn(r)[p] = 0
  BY <1>1, <1>3, Zenon DEF OwedIn, InDebt
<1>4. PartOf(f, BorrowsOf(r), OwedIn(r), BorrowSlots)
  BY <1>1, <1>2, <1>3, BorrowSlotsFinite, Zenon DEF PartOf
<1>5. SumOf(f, BorrowsOf(r)) = SumOf(OwedIn(r), BorrowSlots)
  BY <1>4, SumOverPart
<1>6. QED
  BY <1>5, Zenon DEF Owed, TotalOwed

\* The loan a customer's slot holds, brought up to date, is what its slot owes.
LEMMA CurrentDebt ==
    ASSUME KlendMarketAssumption, BorrowTable, Loans, Debts, NotAhead,
           NEW o \in Obligations, NEW r \in Reserves, HasSlot(BorrowReserves(o), r)
    PROVE  LET i == SlotFor(BorrowReserves(o), r)
               l == CurrentBorrow(o, r)
           IN  /\ l.borrowed_amount_sf \in Nat
               /\ l.cumulative_borrow_rate_bsf = cumulative_borrow_rate_bsf[r]
               /\ i \in 1..MaxBorrows /\ borrows[o][i].borrow_reserve \in {r, NoReserve}
               /\ InDebt(borrows[o][i], r, cumulative_borrow_rate_bsf[r]) = l.borrowed_amount_sf
<1> DEFINE i == SlotFor(BorrowReserves(o), r)
           l == CurrentBorrow(o, r)
           rate == cumulative_borrow_rate_bsf[r]
           b == borrows[o][i]
<1>1. GoodLoan(l) /\ l.borrowed_amount_sf \in Nat
  <2>1. GoodLoan(l)
    BY CurrentLoan
  <2>2. QED
    BY <2>1 DEF GoodLoan, ObligationLiquidity
<1>2. rate \in Nat /\ rate > 0
  BY DEF Debts
<1>3. i \in 1..MaxBorrows
  BY BorrowSlotChosen
<1>4. CASE SlotsOf(BorrowReserves(o), r) # {}
  <2>1. b.borrow_reserve = r
    BY <1>4, BorrowSlotChosen, Zenon
  <2>2. l = Accrued(b, rate)
    BY <1>4, Zenon DEF CurrentBorrow
  <2>3. GoodLoan(b) /\ b.cumulative_borrow_rate_bsf <= rate
    BY <1>3, <2>1, Zenon DEF Loans, NotAhead
  <2>4. b \in ObligationLiquidity /\ b.cumulative_borrow_rate_bsf \in Nat
    BY <2>3 DEF GoodLoan, ObligationLiquidity
  <2>5. l.cumulative_borrow_rate_bsf = rate
    <3> HIDE DEF l, b, rate
    <3>1. CASE rate > b.cumulative_borrow_rate_bsf
      <4> DEFINE d == (b.borrowed_amount_sf * rate) \div b.cumulative_borrow_rate_bsf
                 w == [b EXCEPT !.borrowed_amount_sf = d]
                 v == [w EXCEPT !.cumulative_borrow_rate_bsf = rate]
      <4>1. l = v
        BY <2>2, <3>1 DEF Accrued
      <4>2. b.borrowed_amount_sf * rate \in Nat
        BY <1>2, <2>4, TimesNat DEF ObligationLiquidity
      <4>3. b.cumulative_borrow_rate_bsf > 0
        BY <2>1, <2>3, Zenon DEF GoodLoan, KlendMarketAssumption
      <4>4. d \in Nat
        BY <2>4, <4>2, <4>3, DivNat
      <4> HIDE DEF d
      <4>5. w \in ObligationLiquidity
        BY <2>4, <4>4, LoanAmountChanged
      <4> HIDE DEF w
      <4>6. v.cumulative_borrow_rate_bsf = rate
        BY <1>2, <4>5, LoanRateChanged
      <4>7. QED
        BY <4>1, <4>6
    <3>2. CASE ~ (rate > b.cumulative_borrow_rate_bsf)
      <4>1. l = b
        BY <2>2, <3>2, Zenon DEF Accrued
      <4> DEFINE w == b.cumulative_borrow_rate_bsf
      <4>2. w \in Nat /\ w <= rate /\ ~ (rate > w) /\ l.cumulative_borrow_rate_bsf = w
        BY <2>3, <2>4, <3>2, <4>1
      <4> HIDE DEF w
      <4>3. QED
        BY <1>2, <4>2
    <3>3. QED
      BY <3>1, <3>2
  <2>6. InDebt(b, r, rate) = l.borrowed_amount_sf
    BY <2>1, <2>2, Zenon DEF InDebt
  <2>7. QED
    BY <1>1, <1>3, <2>1, <2>5, <2>6
<1>5. CASE SlotsOf(BorrowReserves(o), r) = {}
  <2>1. l = [borrow_reserve |-> r, borrowed_amount_sf |-> 0, cumulative_borrow_rate_bsf |-> rate]
    BY <1>5 DEF CurrentBorrow
  <2>2. BorrowReserves(o)[i] # r
    BY <1>3, <1>5 DEF SlotsOf, BorrowReserves
  <2>3. b.borrow_reserve \in {r, NoReserve}
    <3> DEFINE table == BorrowReserves(o)
    <3>1. DOMAIN table = 1..MaxBorrows /\ \A j \in 1..MaxBorrows : table[j] = borrows[o][j].borrow_reserve
      BY DEF BorrowReserves
    <3>2. \A j, k \in 1..MaxBorrows : table[j] = r /\ table[k] = r => j = k
      <4>1. BorrowsDistinct(o)
        BY Zenon DEF BorrowTable
      <4>2. QED
        BY <3>1, <4>1, Zenon DEF BorrowsDistinct
    <3> HIDE DEF table
    <3>3. MaxBorrows \in Nat /\ HasSlot(table, r)
      BY DEF KlendMarketAssumption, table
    <3>4. table[SlotFor(table, r)] \in {r, NoReserve}
      BY <3>1, <3>2, <3>3, SlotForFacts
    <3>5. QED
      BY <1>3, <3>1, <3>4, Zenon DEF table
  <2>4. b.borrow_reserve # r
    BY <1>3, <2>2 DEF BorrowReserves
  <2>5. InDebt(b, r, rate) = 0
    BY <2>4, Zenon DEF InDebt
  <2>6. l.borrowed_amount_sf = 0 /\ l.cumulative_borrow_rate_bsf = rate
    BY <2>1
  <2>7. QED
    BY <1>1, <1>3, <2>3, <2>5, <2>6
<1>6. QED
  BY <1>4, <1>5

\* One slot is written: it held nothing or a loan of r, holds nothing or an up-to-date loan
\* of r afterwards, and owes d more.
SlotWritten(o, i, r, v, d) ==
    /\ o \in Obligations /\ i \in 1..MaxBorrows /\ r \in Reserves /\ d \in Int
    /\ GoodLoan(v) /\ v.borrow_reserve \in {r, NoReserve}
    /\ v.borrow_reserve = r => v.cumulative_borrow_rate_bsf = cumulative_borrow_rate_bsf[r]
    /\ borrows[o][i].borrow_reserve \in {r, NoReserve}
    /\ borrows' = [borrows EXCEPT ![o][i] = v]
    /\ cumulative_borrow_rate_bsf' = cumulative_borrow_rate_bsf
    /\ InDebt(v, r, cumulative_borrow_rate_bsf[r])
           = InDebt(borrows[o][i], r, cumulative_borrow_rate_bsf[r]) + d

\* The debts to the other reserves stay, the debt to r changes by what the slot owes.
LEMMA OwedMoved ==
    ASSUME KlendMarketAssumption, BorrowTable, Loans, Loans', Debts, NotAhead,
           NEW o, NEW i, NEW r, NEW v, NEW d, SlotWritten(o, i, r, v, d)
    PROVE  /\ NotAhead'
           /\ \A q \in Reserves :
                 TotalOwed(q)' = TotalOwed(q) + (IF q = r THEN d ELSE 0)
<1>0. /\ o \in Obligations /\ i \in 1..MaxBorrows /\ r \in Reserves /\ d \in Int
      /\ GoodLoan(v) /\ v.borrow_reserve \in {r, NoReserve}
      /\ v.borrow_reserve = r => v.cumulative_borrow_rate_bsf = cumulative_borrow_rate_bsf[r]
      /\ borrows[o][i].borrow_reserve \in {r, NoReserve}
      /\ borrows' = [borrows EXCEPT ![o][i] = v]
      /\ cumulative_borrow_rate_bsf' = cumulative_borrow_rate_bsf
      /\ InDebt(v, r, cumulative_borrow_rate_bsf[r])
             = InDebt(borrows[o][i], r, cumulative_borrow_rate_bsf[r]) + d
  BY Zenon DEF SlotWritten
<1> USE <1>0
<1>1. DOMAIN borrows = Obligations /\ \A p \in Obligations : DOMAIN borrows[p] = 1..MaxBorrows
  BY Zenon DEF BorrowTable, BorrowDomains
<1>2. \A p \in Obligations, j \in 1..MaxBorrows :
         borrows'[p][j] = IF p = o /\ j = i THEN v ELSE borrows[p][j]
  BY <1>1
<1>3. r # NoReserve /\ NoReserve \notin Reserves /\ \A q \in Reserves : q # NoReserve
  BY DEF KlendMarketAssumption
<1>4. NotAhead'
  <2>1. ASSUME NEW q \in Reserves, NEW p \in Obligations, NEW j \in 1..MaxBorrows,
               borrows'[p][j].borrow_reserve = q
        PROVE  borrows'[p][j].cumulative_borrow_rate_bsf <= cumulative_borrow_rate_bsf'[q]
    <3>1. cumulative_borrow_rate_bsf[q] \in Nat
      BY DEF Debts
    <3>2. CASE p = o /\ j = i
      <4>1. borrows'[p][j] = v
        BY <1>2, <3>2, Zenon
      <4>2. v.cumulative_borrow_rate_bsf = cumulative_borrow_rate_bsf[q]
        BY <1>3, <2>1, <4>1
      <4>3. QED
        BY <3>1, <4>1, <4>2
    <3>3. CASE ~ (p = o /\ j = i)
      <4>1. borrows'[p][j] = borrows[p][j]
        BY <1>2, <3>3, Zenon
      <4>2. QED
        BY <2>1, <4>1, Zenon DEF NotAhead
    <3>4. QED
      BY <3>2, <3>3
  <2>2. \A q \in Reserves : cumulative_borrow_rate_bsf'[q] >= ONE
    BY Zenon DEF NotAhead
  <2>3. QED
    BY <2>1, <2>2, Zenon DEF NotAhead
<1>5. ASSUME NEW q \in Reserves
      PROVE  TotalOwed(q)' = TotalOwed(q) + (IF q = r THEN d ELSE 0)
  <2> DEFINE e == IF q = r THEN d ELSE 0
             s == <<o, i>>
             rate == cumulative_borrow_rate_bsf[q]
             before == OwedIn(q)
             after == OwedIn(q)'
  <2>1. s \in BorrowSlots /\ s[1] = o /\ s[2] = i
    BY DEF BorrowSlots
  <2>2. ASSUME NEW p \in BorrowSlots
        PROVE  /\ p[1] \in Obligations /\ p[2] \in 1..MaxBorrows
               /\ before[p] = InDebt(borrows[p[1]][p[2]], q, rate)
               /\ after[p] = InDebt(borrows'[p[1]][p[2]], q, rate)
               /\ p # s => p[1] # o \/ p[2] # i
    BY DEF BorrowSlots, OwedIn, InDebt, Accrued
  <2>3. rate \in Nat \ {0}
    BY DEF Debts
  <2> HIDE DEF before, after, s, rate
  <2>4. ASSUME NEW p \in BorrowSlots PROVE before[p] \in Int /\ after[p] \in Int
    <3>1. GoodLoan(borrows[p[1]][p[2]]) /\ GoodLoan(borrows'[p[1]][p[2]])
      BY <2>2, Zenon DEF Loans, GoodLoan, ObligationLiquidity
    <3>2. /\ InDebt(borrows[p[1]][p[2]], q, rate) \in Nat
          /\ InDebt(borrows'[p[1]][p[2]], q, rate) \in Nat
      BY <2>3, <3>1, InDebtNat
    <3>3. QED
      BY <2>2, <3>2
  <2>5. ASSUME NEW p \in BorrowSlots, p # s PROVE after[p] = before[p]
    <3>1. borrows'[p[1]][p[2]] = borrows[p[1]][p[2]]
      BY <1>2, <2>2, <2>5
    <3>2. QED
      BY <2>2, <3>1
  <2>6. InDebt(v, q, rate) = InDebt(borrows[o][i], q, rate) + e
    <3>1. CASE q = r
      BY <3>1, Zenon DEF rate
    <3>2. CASE q # r
      <4>1. InDebt(v, q, rate) = 0 /\ InDebt(borrows[o][i], q, rate) = 0
        BY <1>3, <3>2, Zenon DEF InDebt
      <4>2. QED
        BY <3>2, <4>1
    <3>3. QED
      BY <3>1, <3>2
  <2>7. after[s] = before[s] + e
    <3>1. borrows'[o][i] = v
      BY <1>2, Zenon
    <3>2. after[s] = InDebt(v, q, rate) /\ before[s] = InDebt(borrows[o][i], q, rate)
      BY <2>1, <2>2, <3>1
    <3>3. QED
      BY <2>6, <3>2, Zenon
  <2>8. e \in Int
    OBVIOUS
  <2>9. \A f, g : DiffersAt(f, g, BorrowSlots, s, e)
                     => SumOf(g, BorrowSlots) = SumOf(f, BorrowSlots) + e
    BY SumChanged
  <2> HIDE DEF e
  <2>10. DiffersAt(before, after, BorrowSlots, s, e)
    BY <2>1, <2>4, <2>5, <2>7, <2>8, BorrowSlotsFinite, Zenon DEF DiffersAt
  <2>11. SumOf(after, BorrowSlots) = SumOf(before, BorrowSlots) + e
    BY <2>9, <2>10, Zenon
  <2>12. TotalOwed(q)' = SumOf(after, BorrowSlots) /\ TotalOwed(q) = SumOf(before, BorrowSlots)
    BY Zenon DEF TotalOwed, before, after, BorrowSlots
  <2>13. QED
    BY <2>11, <2>12, Zenon DEF e
<1>6. QED
  BY <1>4, <1>5

LEMMA OwedKept ==
    ASSUME NotAhead, UNCHANGED <<borrows, cumulative_borrow_rate_bsf>>
    PROVE  NotAhead' /\ \A q \in Reserves : TotalOwed(q)' = TotalOwed(q)
<1>1. NotAhead'
  BY Zenon DEF NotAhead
<1>2. ASSUME NEW q \in Reserves PROVE TotalOwed(q)' = TotalOwed(q)
  <2>1. OwedIn(q)' = OwedIn(q)
    BY DEF OwedIn, InDebt, Accrued, BorrowSlots
  <2>2. QED
    BY <2>1, Zenon DEF TotalOwed, BorrowSlots
<1>3. QED
  BY <1>1, <1>2

\* Interest on one reserve: the debts to the others stay, and those to r follow its rate,
\* but for a bit lost in every slot.
LEMMA OwedAccrues ==
    ASSUME KlendMarketAssumption, Loans, Debts, Debts', NotAhead, NEW r \in Reserves,
           borrows' = borrows,
           cumulative_borrow_rate_bsf'[r] >= cumulative_borrow_rate_bsf[r],
           \A q \in Reserves :
               q # r => cumulative_borrow_rate_bsf'[q] = cumulative_borrow_rate_bsf[q]
    PROVE  LET before == cumulative_borrow_rate_bsf[r]
               after == cumulative_borrow_rate_bsf'[r]
               M == Cardinality(BorrowSlots)
           IN  /\ NotAhead'
               /\ \A q \in Reserves : q # r => TotalOwed(q)' = TotalOwed(q)
               /\ before * TotalOwed(r)' <= after * (TotalOwed(r) + M)
               /\ after * TotalOwed(r) <= before * (TotalOwed(r)' + M)
<1> DEFINE c == cumulative_borrow_rate_bsf[r]
           d == cumulative_borrow_rate_bsf'[r]
           M == Cardinality(BorrowSlots)
<1>1. c \in Nat /\ d \in Nat /\ c > 0 /\ d > 0 /\ d >= c /\ c >= ONE /\ ONE \in Nat
  BY KlendMathAssumption DEF Debts, NotAhead
<1>2. NotAhead'
  <2>1. ASSUME NEW q \in Reserves, NEW p \in Obligations, NEW j \in 1..MaxBorrows,
               borrows'[p][j].borrow_reserve = q
        PROVE  borrows'[p][j].cumulative_borrow_rate_bsf <= cumulative_borrow_rate_bsf'[q]
    <3>1. borrows[p][j].cumulative_borrow_rate_bsf <= cumulative_borrow_rate_bsf[q]
      BY <2>1, Zenon DEF NotAhead
    <3>2. GoodLoan(borrows[p][j])
      BY Zenon DEF Loans
    <3>3. borrows[p][j].cumulative_borrow_rate_bsf \in Nat
      BY <3>2 DEF GoodLoan, ObligationLiquidity
    <3>4. cumulative_borrow_rate_bsf'[q] >= cumulative_borrow_rate_bsf[q]
          /\ cumulative_borrow_rate_bsf'[q] \in Nat /\ cumulative_borrow_rate_bsf[q] \in Nat
      BY DEF Debts
    <3>5. QED
      BY <3>1, <3>3, <3>4
  <2>2. ASSUME NEW q \in Reserves PROVE cumulative_borrow_rate_bsf'[q] >= ONE
    <3>1. CASE q = r
      BY <1>1, <3>1
    <3>2. CASE q # r
      BY <3>2, Zenon DEF NotAhead
    <3>3. QED
      BY <3>1, <3>2
  <2>3. QED
    BY <2>1, <2>2, Zenon DEF NotAhead
<1>3. ASSUME NEW q \in Reserves, q # r PROVE TotalOwed(q)' = TotalOwed(q)
  <2>1. cumulative_borrow_rate_bsf'[q] = cumulative_borrow_rate_bsf[q]
    BY <1>3, Zenon
  <2>2. OwedIn(q)' = OwedIn(q)
    BY <2>1 DEF OwedIn, InDebt, Accrued, BorrowSlots
  <2>3. QED
    BY <2>2, Zenon DEF TotalOwed, BorrowSlots
<1> DEFINE before == OwedIn(r)
           after == OwedIn(r)'
<1>4. ASSUME NEW p \in BorrowSlots
      PROVE  /\ before[p] \in Int /\ after[p] \in Int
             /\ c * after[p] <= d * (before[p] + 1)
             /\ d * before[p] <= c * (after[p] + 1)
  <2> DEFINE b == borrows[p[1]][p[2]]
             x == b.borrowed_amount_sf
             w == b.cumulative_borrow_rate_bsf
  <2>1. p[1] \in Obligations /\ p[2] \in 1..MaxBorrows
    BY DEF BorrowSlots
  <2>2. before[p] = InDebt(b, r, c) /\ after[p] = InDebt(b, r, d)
    BY DEF OwedIn, InDebt, Accrued, BorrowSlots
  <2>3. GoodLoan(b)
    BY <2>1, Zenon DEF Loans
  <2>4. CASE b.borrow_reserve = r
    <3>1. w <= c
      BY <2>1, <2>4, Zenon DEF NotAhead
    <3>2. w \in Nat
      BY <2>3 DEF GoodLoan, ObligationLiquidity
    <3>3. w <= d
      <4> HIDE DEF w, c, d
      <4>1. QED
        BY <1>1, <3>1, <3>2
    <3> HIDE DEF b, c, d
    <3>4. /\ x \in Nat /\ w > 0
          /\ InDebt(b, r, c) = (x * c) \div w /\ InDebt(b, r, d) = (x * d) \div w
      BY <1>1, <2>3, <2>4, <3>1, <3>3, AccruedDebt
    <3> HIDE DEF x, w, before, after
    <3> DEFINE m == (x * c) \div w
               n == (x * d) \div w
    <3>5. m \in Nat /\ n \in Nat /\ c * n <= d * (m + 1) /\ d * m <= c * (n + 1)
      BY <1>1, <3>2, <3>4, DebtFollowsRate
    <3> HIDE DEF m, n
    <3>6. before[p] = m /\ after[p] = n
      BY <2>2, <3>4, Zenon DEF m, n
    <3>7. QED
      BY <3>5, <3>6
  <2>5. CASE b.borrow_reserve # r
    <3>1. before[p] = 0 /\ after[p] = 0
      BY <2>2, <2>5, Zenon DEF InDebt
    <3> HIDE DEF c, d, before, after
    <3>2. c * 0 <= d * (0 + 1) /\ d * 0 <= c * (0 + 1)
      BY <1>1
    <3>3. QED
      BY <3>1, <3>2
  <2>6. QED
    BY <2>4, <2>5
<1> HIDE DEF before, after, c, d
<1>5. BoundedBy(after, before, BorrowSlots, c, d) /\ BoundedBy(before, after, BorrowSlots, d, c)
  BY <1>1, <1>4, BorrowSlotsFinite DEF BoundedBy
<1>6. /\ c * SumOf(after, BorrowSlots) <= d * (SumOf(before, BorrowSlots) + M)
      /\ d * SumOf(before, BorrowSlots) <= c * (SumOf(after, BorrowSlots) + M)
  BY <1>5, SumBounded
<1>7. TotalOwed(r)' = SumOf(after, BorrowSlots) /\ TotalOwed(r) = SumOf(before, BorrowSlots)
  BY Zenon DEF TotalOwed, before, after, BorrowSlots
<1> HIDE DEF M
<1>8. /\ c * TotalOwed(r)' <= d * (TotalOwed(r) + M)
      /\ d * TotalOwed(r) <= c * (TotalOwed(r)' + M)
  BY <1>6, <1>7, Zenon
<1>9. QED
  BY <1>2, <1>3, <1>8 DEF c, d, M

\* What a step may do to the debts to r.  Between two refreshes a loan, a repayment and a
\* forgiven debt change both totals alike, or bring them together; a refresh in a later
\* slot makes both follow the rate.
Settles(r) ==
    LET before == TotalOwed(r) - Booked(r)
        after == TotalOwed(r)' - Booked(r)'
    IN  /\ cumulative_borrow_rate_bsf'[r] = cumulative_borrow_rate_bsf[r]
        /\ last_update'[r].slot = last_update[r].slot
        /\ after = before \/ (0 <= after /\ after <= before)
Accrues(r) ==
    LET M == Cardinality(BorrowSlots)
    IN  /\ \E rate \in Nat :
              /\ rate >= ONE
              /\ cumulative_borrow_rate_bsf'[r] = Mul(cumulative_borrow_rate_bsf[r], rate)
              /\ Booked(r) \in Nat /\ Booked(r)' = Mul(Booked(r), rate)
        /\ last_update[r].slot < last_update'[r].slot
        /\ cumulative_borrow_rate_bsf[r] * TotalOwed(r)'
              <= cumulative_borrow_rate_bsf'[r] * (TotalOwed(r) + M)
        /\ cumulative_borrow_rate_bsf'[r] * TotalOwed(r)
              <= cumulative_borrow_rate_bsf[r] * (TotalOwed(r)' + M)
DebtStep == NotAhead' /\ \A r \in Reserves : Settles(r) \/ Accrues(r)

\* The total of the debts fits a Fraction, as it does in the code, wrapped or not.
DebtsFit == \A r \in Reserves : borrowed_amount_sf[r] < FRACTION_MOD

\* What is booked of a reserve whose total has not wrapped, and of one that is left alone.
LEMMA BookedTotal ==
    ASSUME Debts, NEW r \in Reserves, overdrawn[r] = 0
    PROVE  Booked(r) = borrowed_amount_sf[r] /\ Booked(r) \in Nat
BY DEF Booked, Debts

LEMMA BookedNextTotal ==
    ASSUME Debts', NEW r \in Reserves, overdrawn'[r] = 0
    PROVE  Booked(r)' = borrowed_amount_sf'[r] /\ Booked(r)' \in Nat
BY DEF Booked, Debts

LEMMA BookedKept ==
    ASSUME NEW r, borrowed_amount_sf'[r] = borrowed_amount_sf[r], overdrawn'[r] = overdrawn[r]
    PROVE  Booked(r)' = Booked(r)
BY Zenon DEF Booked

LEMMA BookedInt ==
    ASSUME Debts, Overdrafts, NEW r \in Reserves
    PROVE  Booked(r) \in Int
BY DEF Booked, Debts, Overdrafts

LEMMA BookedNextInt ==
    ASSUME Debts', Overdrafts', NEW r \in Reserves
    PROVE  Booked(r)' \in Int
BY DEF Booked, Debts, Overdrafts

\* An instruction that needs the reserve fresh finds its total as it should be.
LEMMA FreshIsBooked ==
    ASSUME Refreshes, Debts, Overdrafts, NEW r \in Reserves, NEW checks, ~IsStale(r, checks)
    PROVE  overdrawn[r] = 0 /\ Booked(r) = borrowed_amount_sf[r]
<1>1. last_update[r].stale = FALSE
  <2>1. last_update[r] \in LastUpdate
    BY DEF Refreshes
  <2>2. last_update[r].stale \in BOOLEAN
    BY <2>1 DEF LastUpdate
  <2>3. QED
    BY <2>2, Zenon DEF IsStale
<1>2. overdrawn[r] = 0
  BY <1>1 DEF Overdrafts
<1>3. QED
  BY <1>2, BookedTotal

LEMMA SlotKept ==
    ASSUME last_update \in [Reserves -> LastUpdate], NEW r \in Reserves,
           MarkStale(r) \/ UNCHANGED last_update
    PROVE  \A q \in Reserves : last_update'[q].slot = last_update[q].slot
<1>1. CASE MarkStale(r)
  <2> DEFINE u == [last_update[r] EXCEPT !.stale = TRUE]
  <2>1. last_update[r] \in LastUpdate
    OBVIOUS
  <2>2. u.slot = last_update[r].slot
    BY <2>1 DEF LastUpdate
  <2>3. last_update' = [last_update EXCEPT ![r] = u]
    BY <1>1 DEF MarkStale
  <2> HIDE DEF u
  <2>4. QED
    BY <2>2, <2>3
<1>2. CASE UNCHANGED last_update
  BY <1>2
<1>3. QED
  BY <1>1, <1>2

\* A step that leaves the debts alone.
LEMMA DebtsAlone ==
    ASSUME KlendMarketAssumption, MarketInv, Refreshes, NotAhead, NEW r \in Reserves,
           MarkStale(r) \/ UNCHANGED last_update,
           UNCHANGED <<borrows, borrowed_amount_sf, cumulative_borrow_rate_bsf, overdrawn>>
    PROVE  DebtStep
<1>1. NotAhead' /\ \A q \in Reserves : TotalOwed(q)' = TotalOwed(q)
  BY OwedKept
<1>2. \A q \in Reserves : last_update'[q].slot = last_update[q].slot
  BY SlotKept DEF Refreshes
<1>3. ASSUME NEW q \in Reserves PROVE Settles(q)
  <2>1. TotalOwed(q)' - Booked(q)' = TotalOwed(q) - Booked(q)
    BY <1>1, BookedKept
  <2>2. QED
    BY <1>2, <2>1 DEF Settles
<1>4. QED
  BY <1>1, <1>3, Zenon DEF DebtStep

\* A step that changes the debt of one slot by d and the total of the reserve by the same,
\* or by less when that would take it below zero.
LEMMA DebtsTogether ==
    ASSUME Refreshes, NEW r \in Reserves, NEW d \in Int, NEW b \in Int,
           MarkStale(r), cumulative_borrow_rate_bsf' = cumulative_borrow_rate_bsf,
           \A q \in Reserves : /\ Booked(q) \in Int
                              /\ Booked(q)' = IF q = r THEN b ELSE Booked(q),
           \A q \in Reserves : TotalOwed(q) \in Nat /\ TotalOwed(q)' \in Nat,
           NotAhead',
           \A q \in Reserves : TotalOwed(q)' = TotalOwed(q) + (IF q = r THEN d ELSE 0),
           \/ b = Booked(r) + d
           \/ b = 0 /\ Booked(r) + d < 0
    PROVE  DebtStep
<1>1. \A q \in Reserves : last_update'[q].slot = last_update[q].slot
  BY SlotKept DEF Refreshes
<1>2. ASSUME NEW q \in Reserves PROVE Settles(q)
  <2> DEFINE a == TotalOwed(q)
             a1 == TotalOwed(q)'
             c == Booked(q)
             c1 == Booked(q)'
  <2>1. a \in Nat /\ a1 \in Nat /\ c \in Int
    OBVIOUS
  <2>2. a1 = a + (IF q = r THEN d ELSE 0)
    BY Zenon
  <2>3. c1 = IF q = r THEN b ELSE c
    BY Zenon
  <2>4. q = r => b = c + d \/ (b = 0 /\ c + d < 0)
    BY Zenon
  <2>5. /\ cumulative_borrow_rate_bsf'[q] = cumulative_borrow_rate_bsf[q]
        /\ last_update'[q].slot = last_update[q].slot
    BY <1>1
  <2> HIDE DEF a, a1, c, c1
  <2>6. a1 - c1 = a - c \/ (0 <= a1 - c1 /\ a1 - c1 <= a - c)
    BY <2>1, <2>2, <2>3, <2>4
  <2>7. QED
    BY <2>5, <2>6, Zenon DEF Settles, a, a1, c, c1
<1>3. QED
  BY <1>2, Zenon DEF DebtStep

\* The totals after a loan or a repayment.
LEMMA BookedWritten ==
    ASSUME Debts, Overdrafts, NEW r \in Reserves, overdrawn[r] = 0, overdrawn' = overdrawn,
           NEW n \in Nat, borrowed_amount_sf' = [borrowed_amount_sf EXCEPT ![r] = n]
    PROVE  \A q \in Reserves : /\ Booked(q) \in Int
                              /\ Booked(q)' = IF q = r THEN n ELSE Booked(q)
<1>1. ASSUME NEW q \in Reserves
      PROVE  borrowed_amount_sf'[q] = IF q = r THEN n ELSE borrowed_amount_sf[q]
  BY DEF Debts
<1>2. ASSUME NEW q \in Reserves PROVE Booked(q)' = IF q = r THEN n ELSE Booked(q)
  <2>1. CASE q = r
    BY <1>1, <2>1 DEF Booked
  <2>2. CASE q # r
    BY <1>1, <2>2, BookedKept
  <2>3. QED
    BY <2>1, <2>2
<1>3. QED
  BY <1>2, BookedInt

LEMMA RefreshDebts ==
    ASSUME KlendMarketAssumption, MarketInv, MarketInv', Refreshes, Overdrafts, NotAhead,
           NEW r \in Reserves, NEW readings \in Readings, RefreshReserve(r, readings)
    PROVE  DebtStep
<1>1. /\ AccrueInterest(r) /\ borrows' = borrows /\ overdrawn[r] = 0 /\ overdrawn' = overdrawn
      /\ \E status : last_update' = [last_update EXCEPT
                ![r] = [slot |-> slot, stale |-> FALSE, price_status |-> status]]
  BY Zenon DEF RefreshReserve, obligations
<1>2. /\ last_update \in [Reserves -> LastUpdate] /\ slot \in Nat
      /\ last_update[r].slot \in Nat /\ last_update[r].slot <= slot
  BY DEF MarketInv, PricesInv, Refreshed, Refreshes
<1>3. last_update'[r].slot = slot
      /\ \A q \in Reserves : q # r => last_update'[q].slot = last_update[q].slot
  BY <1>1, <1>2
<1>4. /\ Books /\ Debts /\ Fees /\ Loans /\ Debts'
      /\ borrowed_amount_sf \in [Reserves -> Nat]
      /\ cumulative_borrow_rate_bsf \in [Reserves -> Nat \ {0}]
  BY DEF MarketInv, Accounts, Debts
<1>5. CASE slot > last_update[r].slot
  <2> DEFINE rate == Interest(r).rate
             debt == Interest(r).debt
  <2>1. rate \in Nat /\ rate >= ONE
    BY <1>2, <1>4, <1>5, InterestFacts
  <2>2. debt = Mul(borrowed_amount_sf[r], rate) - borrowed_amount_sf[r]
    BY DEF Interest
  <2>3. /\ cumulative_borrow_rate_bsf' = [cumulative_borrow_rate_bsf EXCEPT ![r] = Mul(@, rate)]
        /\ borrowed_amount_sf' = [borrowed_amount_sf EXCEPT ![r] = @ + debt]
    BY <1>1, <1>5, Zenon DEF AccrueInterest
  <2> HIDE DEF rate, debt
  <2>4. /\ Mul(cumulative_borrow_rate_bsf[r], rate) \in Nat
        /\ Mul(cumulative_borrow_rate_bsf[r], rate) >= cumulative_borrow_rate_bsf[r]
        /\ Mul(borrowed_amount_sf[r], rate) \in Nat
    BY <1>4, <2>1, MulGrows
  <2>5. /\ cumulative_borrow_rate_bsf'[r] = Mul(cumulative_borrow_rate_bsf[r], rate)
        /\ \A q \in Reserves : q # r => /\ cumulative_borrow_rate_bsf'[q] = cumulative_borrow_rate_bsf[q]
                                        /\ borrowed_amount_sf'[q] = borrowed_amount_sf[q]
    BY <1>4, <2>3
  <2>6. borrowed_amount_sf'[r] = Mul(borrowed_amount_sf[r], rate)
    <3>1. borrowed_amount_sf'[r] = borrowed_amount_sf[r] + debt
      BY <1>4, <2>3
    <3>2. borrowed_amount_sf[r] \in Nat
      BY <1>4
    <3>3. QED
      BY <2>2, <2>4, <3>1, <3>2
  <2>7. /\ NotAhead'
        /\ \A q \in Reserves : q # r => TotalOwed(q)' = TotalOwed(q)
        /\ cumulative_borrow_rate_bsf[r] * TotalOwed(r)'
              <= cumulative_borrow_rate_bsf'[r] * (TotalOwed(r) + Cardinality(BorrowSlots))
        /\ cumulative_borrow_rate_bsf'[r] * TotalOwed(r)
              <= cumulative_borrow_rate_bsf[r] * (TotalOwed(r)' + Cardinality(BorrowSlots))
    BY <1>1, <1>4, <2>4, <2>5, OwedAccrues
  <2>8. Accrues(r)
    <3>1. last_update[r].slot < last_update'[r].slot
      BY <1>2, <1>3, <1>5
    <3>2. Booked(r) \in Nat /\ Booked(r)' = Mul(Booked(r), rate)
      <4>1. overdrawn'[r] = 0
        BY <1>1
      <4>2. QED
        BY <1>1, <1>4, <2>6, <4>1, BookedTotal, BookedNextTotal
    <3>3. QED
      BY <2>1, <2>5, <2>7, <3>1, <3>2, Zenon DEF Accrues
  <2>9. ASSUME NEW q \in Reserves, q # r PROVE Settles(q)
    <3>1. Booked(q)' = Booked(q)
      BY <1>1, <2>5, <2>9, BookedKept
    <3>2. QED
      BY <1>3, <2>5, <2>7, <2>9, <3>1, Zenon DEF Settles
  <2>10. QED
    BY <2>7, <2>8, <2>9, Zenon DEF DebtStep
<1>6. CASE ~ (slot > last_update[r].slot)
  <2>1. UNCHANGED <<cumulative_borrow_rate_bsf, borrowed_amount_sf>>
    BY <1>1, <1>6, Zenon DEF AccrueInterest
  <2>2. NotAhead' /\ \A q \in Reserves : TotalOwed(q)' = TotalOwed(q)
    BY <1>1, <2>1, OwedKept
  <2>3. \A q \in Reserves : last_update'[q].slot = last_update[q].slot
    <3>1. last_update[r].slot = slot
      <4> DEFINE s == last_update[r].slot
      <4>1. s \in Nat /\ s <= slot /\ ~ (slot > s) /\ slot \in Nat
        BY <1>2, <1>6
      <4> HIDE DEF s
      <4>2. s = slot
        BY <4>1
      <4>3. QED
        BY <4>2 DEF s
    <3>2. QED
      BY <1>3, <3>1, Zenon
  <2>4. \A q \in Reserves : Booked(q)' = Booked(q)
    BY <1>1, <2>1, BookedKept
  <2>5. \A q \in Reserves : Settles(q)
    BY <2>1, <2>2, <2>3, <2>4, Zenon DEF Settles
  <2>6. QED
    BY <2>2, <2>5, Zenon DEF DebtStep
<1>7. QED
  BY <1>5, <1>6

LEMMA OwedNextNat ==
    ASSUME KlendMarketAssumption, Loans', Debts', NEW r \in Reserves
    PROVE  TotalOwed(r)' \in Nat
<1> DEFINE f == OwedIn(r)'
           rate == cumulative_borrow_rate_bsf'[r]
<1>1. ASSUME NEW p \in BorrowSlots PROVE f[p] \in Nat
  <2>1. p[1] \in Obligations /\ p[2] \in 1..MaxBorrows
    BY DEF BorrowSlots
  <2>2. GoodLoan(borrows'[p[1]][p[2]])
    BY <2>1, Zenon DEF Loans, GoodLoan, ObligationLiquidity
  <2>3. rate \in Nat \ {0}
    BY DEF Debts
  <2>4. f[p] = InDebt(borrows'[p[1]][p[2]], r, rate)
    BY DEF OwedIn, InDebt, Accrued, BorrowSlots
  <2> HIDE DEF f, rate
  <2>5. InDebt(borrows'[p[1]][p[2]], r, rate) \in Nat
    BY <2>2, <2>3, InDebtNat
  <2>6. QED
    BY <2>4, <2>5
<1> HIDE DEF f
<1>2. SumOf(f, BorrowSlots) \in Nat
  BY <1>1, BorrowSlotsFinite, SumNat
<1>3. QED
  BY <1>2, Zenon DEF f, TotalOwed, BorrowSlots

LEMMA LoanKept ==
    ASSUME NEW l \in ObligationLiquidity, NEW x \in Nat
    PROVE  LET v == [l EXCEPT !.borrowed_amount_sf = x]
           IN  /\ v.borrowed_amount_sf = x
               /\ v.borrow_reserve = l.borrow_reserve
               /\ v.cumulative_borrow_rate_bsf = l.cumulative_borrow_rate_bsf
BY DEF ObligationLiquidity

\* What a slot owes that has just been written: the amount in it, nothing when it is empty.
LEMMA WrittenOwes ==
    ASSUME KlendMarketAssumption, NEW l, GoodLoan(l), NEW r \in Reserves, l.borrow_reserve = r,
           NEW rate \in Nat, l.cumulative_borrow_rate_bsf = rate, NEW x \in Nat
    PROVE  LET v == [l EXCEPT !.borrowed_amount_sf = x]
           IN  /\ GoodLoan(v) /\ v.borrow_reserve = r /\ v.cumulative_borrow_rate_bsf = rate
               /\ InDebt(v, r, rate) = x
<1> DEFINE v == [l EXCEPT !.borrowed_amount_sf = x]
<1>1. GoodLoan(v)
  BY LoanAdjusted
<1>2. v.borrowed_amount_sf = x /\ v.borrow_reserve = r /\ v.cumulative_borrow_rate_bsf = rate
  <2>1. l \in ObligationLiquidity
    BY Zenon DEF GoodLoan
  <2>2. QED
    BY <2>1, LoanKept
<1> HIDE DEF v
<1>3. InDebt(v, r, rate) = x
  <2>1. ~ (rate > v.cumulative_borrow_rate_bsf)
    BY <1>2
  <2>2. Accrued(v, rate) = v
    BY <2>1, Zenon DEF Accrued
  <2>3. QED
    BY <1>2, <2>2, Zenon DEF InDebt
<1>4. QED
  BY <1>1, <1>2, <1>3 DEF v

LEMMA EmptyOwes ==
    ASSUME KlendMarketAssumption, NEW r \in Reserves, NEW rate
    PROVE  GoodLoan(EmptyBorrow) /\ EmptyBorrow.borrow_reserve = NoReserve
           /\ InDebt(EmptyBorrow, r, rate) = 0
<1>1. EmptyBorrow.borrow_reserve = NoReserve /\ r # NoReserve
  BY DEF EmptyBorrow, KlendMarketAssumption
<1>2. QED
  BY <1>1, EmptyLoan, Zenon DEF InDebt

LEMMA BorrowDebts ==
    ASSUME KlendMarketAssumption, MarketInv, MarketInv', Refreshes, Overdrafts, NotAhead,
           NEW o \in Obligations, NEW r \in Reserves, NEW a \in BorrowAmounts,
           NEW m \in MaxDebtValues, BorrowObligationLiquidity(o, r, a, m)
    PROVE  DebtStep
<1> DEFINE f == CalculateBorrow(r, a, m).borrow_amount_f
           i == SlotFor(BorrowReserves(o), r)
           l == CurrentBorrow(o, r)
           rate == cumulative_borrow_rate_bsf[r]
           x == l.borrowed_amount_sf + f
           v == [l EXCEPT !.borrowed_amount_sf = x]
           n == borrowed_amount_sf[r] + f
<1>1. /\ a = U64MAX => market_price_sf[r] > 0
      /\ HasSlot(BorrowReserves(o), r) /\ MarkStale(r)
      /\ ~IsStale(r, ALL_CHECKS) /\ overdrawn' = overdrawn
      /\ LiquidityBorrow(r, f)
      /\ borrows' = [borrows EXCEPT ![o][i] = [l EXCEPT !.borrowed_amount_sf = @ + f]]
      /\ cumulative_borrow_rate_bsf' = cumulative_borrow_rate_bsf
  BY Zenon DEF BorrowObligationLiquidity
<1>2. Books /\ Debts /\ Prices /\ Loans /\ Loans' /\ Debts' /\ BorrowTable
  BY Zenon DEF MarketInv, Accounts
<1>3. f \in Nat
  <2>1. a \in Nat /\ m \in Nat
    BY DEF KlendMarketAssumption
  <2>2. QED
    BY <1>1, <1>2, <2>1, LoanFacts, Zenon
<1>4. borrowed_amount_sf' = [borrowed_amount_sf EXCEPT ![r] = n]
  BY <1>1, Zenon DEF LiquidityBorrow
<1>5. borrowed_amount_sf[r] \in Nat /\ rate \in Nat
  BY <1>2 DEF Debts
<1>6. GoodLoan(l) /\ l.borrow_reserve = r
  BY <1>1, <1>2, CurrentLoan, Zenon
<1>7. /\ l.borrowed_amount_sf \in Nat /\ l.cumulative_borrow_rate_bsf = rate
      /\ i \in 1..MaxBorrows /\ borrows[o][i].borrow_reserve \in {r, NoReserve}
      /\ InDebt(borrows[o][i], r, rate) = l.borrowed_amount_sf
  BY <1>1, <1>2, CurrentDebt
<1>8. borrows' = [borrows EXCEPT ![o][i] = v]
  BY <1>1
<1> HIDE DEF f, i, l
<1>9. x \in Nat /\ n \in Nat
  BY <1>3, <1>5, <1>7
<1> HIDE DEF x, rate
<1>10. /\ GoodLoan(v) /\ v.borrow_reserve = r /\ v.cumulative_borrow_rate_bsf = rate
       /\ InDebt(v, r, rate) = x
  BY <1>5, <1>6, <1>7, <1>9, WrittenOwes
<1> HIDE DEF v
<1>11. InDebt(v, r, rate) = InDebt(borrows[o][i], r, rate) + f
  BY <1>7, <1>10 DEF x
<1>12. f \in Int
  BY <1>3
<1>13. /\ NotAhead'
       /\ \A q \in Reserves : TotalOwed(q)' = TotalOwed(q) + (IF q = r THEN f ELSE 0)
  <2>1. SlotWritten(o, i, r, v, f)
    BY <1>1, <1>7, <1>8, <1>10, <1>11, <1>12, r \in {r, NoReserve}, Zenon DEF SlotWritten, rate
  <2>2. QED
    BY <1>2, <2>1, OwedMoved
<1>14. \A q \in Reserves : TotalOwed(q) \in Nat /\ TotalOwed(q)' \in Nat
  BY <1>2, OwedInNat, OwedNextNat
<1>15. overdrawn[r] = 0 /\ n = Booked(r) + f
  BY <1>1, <1>2, FreshIsBooked
<1> HIDE DEF n
<1>16. \A q \in Reserves : /\ Booked(q) \in Int
                          /\ Booked(q)' = IF q = r THEN n ELSE Booked(q)
  BY <1>1, <1>2, <1>4, <1>9, <1>15, BookedWritten
<1>17. n \in Int
  BY <1>9
<1>18. QED
  BY <1>1, <1>12, <1>13, <1>14, <1>15, <1>16, <1>17, DebtsTogether

LEMMA RepayDebts ==
    ASSUME KlendMarketAssumption, MarketInv, MarketInv', Refreshes, Overdrafts, NotAhead,
           NEW o \in Obligations, NEW r \in Reserves, NEW a \in RepayAmounts,
           RepayObligationLiquidity(o, r, a)
    PROVE  DebtStep
<1> DEFINE i == SlotFor(BorrowReserves(o), r)
           l == CurrentBorrow(o, r)
           settled == Settled(a, l.borrowed_amount_sf)
           rate == cumulative_borrow_rate_bsf[r]
           v == AfterRepay(l, settled)
           n == BorrowedAfterRepay(borrowed_amount_sf[r], settled)
           d == 0 - settled
<1>1. /\ HasSlot(BorrowReserves(o), r) /\ MarkStale(r)
      /\ ~IsStale(r, {}) /\ overdrawn' = overdrawn
      /\ LiquidityRepay(r, RepayAmount(settled), settled)
      /\ borrows' = [borrows EXCEPT ![o][i] = v]
      /\ cumulative_borrow_rate_bsf' = cumulative_borrow_rate_bsf
  BY Zenon DEF RepayObligationLiquidity, HasSlot
<1>2. Books /\ Debts /\ Loans /\ Loans' /\ Debts' /\ BorrowTable
  BY Zenon DEF MarketInv, Accounts
<1>3. borrowed_amount_sf' = [borrowed_amount_sf EXCEPT ![r] = n]
  BY <1>1, Zenon DEF LiquidityRepay
<1>4. borrowed_amount_sf[r] \in Nat /\ rate \in Nat
  BY <1>2 DEF Debts
<1>5. GoodLoan(l) /\ l.borrow_reserve = r
  BY <1>1, <1>2, CurrentLoan, Zenon
<1>6. /\ l.borrowed_amount_sf \in Nat /\ l.cumulative_borrow_rate_bsf = rate
      /\ i \in 1..MaxBorrows /\ borrows[o][i].borrow_reserve \in {r, NoReserve}
      /\ InDebt(borrows[o][i], r, rate) = l.borrowed_amount_sf
  BY <1>1, <1>2, CurrentDebt
<1>7. settled \in Nat /\ settled <= l.borrowed_amount_sf
  <2>1. a \in Nat
    BY DEF KlendMarketAssumption
  <2> HIDE DEF l
  <2>2. QED
    BY <1>6, <2>1, RepaymentFacts
<1> HIDE DEF i, l, settled
<1>8. /\ GoodLoan(v) /\ v.borrow_reserve \in {r, NoReserve}
      /\ v.borrow_reserve = r => v.cumulative_borrow_rate_bsf = rate
      /\ InDebt(v, r, rate) = l.borrowed_amount_sf - settled
  <2>1. CASE settled = l.borrowed_amount_sf
    <3>1. v = EmptyBorrow
      BY <2>1, Zenon DEF AfterRepay
    <3>2. r # NoReserve
      BY DEF KlendMarketAssumption
    <3> HIDE DEF v
    <3>3. InDebt(v, r, rate) = 0
      BY <3>1, EmptyOwes, Zenon
    <3>4. l.borrowed_amount_sf - settled = 0
      BY <1>6, <2>1
    <3>5. QED
      BY <3>1, <3>2, <3>3, <3>4, EmptyOwes, Zenon
  <2>2. CASE settled # l.borrowed_amount_sf
    <3> DEFINE x == l.borrowed_amount_sf - settled
    <3>1. v = [l EXCEPT !.borrowed_amount_sf = x]
      BY <2>2 DEF AfterRepay
    <3>2. x \in Nat
      BY <1>6, <1>7
    <3> HIDE DEF x, v, rate
    <3>3. QED
      BY <1>4, <1>5, <1>6, <3>1, <3>2, WrittenOwes DEF x
  <2>3. QED
    BY <2>1, <2>2
<1>9. n \in Nat /\ (n = borrowed_amount_sf[r] + d \/ (n = 0 /\ borrowed_amount_sf[r] + d < 0))
  BY <1>4, <1>7 DEF BorrowedAfterRepay, Least
<1> HIDE DEF v, n
<1>10. d \in Int /\ InDebt(v, r, rate) = InDebt(borrows[o][i], r, rate) + d
  BY <1>6, <1>7, <1>8
<1> HIDE DEF d
<1>11. /\ NotAhead'
       /\ \A q \in Reserves : TotalOwed(q)' = TotalOwed(q) + (IF q = r THEN d ELSE 0)
  <2>1. SlotWritten(o, i, r, v, d)
    BY <1>1, <1>6, <1>8, <1>10, Zenon DEF SlotWritten
  <2>2. QED
    BY <1>2, <2>1, OwedMoved
<1>12. \A q \in Reserves : TotalOwed(q) \in Nat /\ TotalOwed(q)' \in Nat
  BY <1>2, OwedInNat, OwedNextNat
<1>13. overdrawn[r] = 0 /\ Booked(r) = borrowed_amount_sf[r]
  BY <1>1, <1>2, FreshIsBooked
<1>14. \A q \in Reserves : /\ Booked(q) \in Int
                          /\ Booked(q)' = IF q = r THEN n ELSE Booked(q)
  BY <1>1, <1>2, <1>3, <1>9, <1>13, BookedWritten
<1>15. n \in Int /\ (n = Booked(r) + d \/ (n = 0 /\ Booked(r) + d < 0))
  BY <1>9, <1>13
<1>16. QED
  BY <1>1, <1>10, <1>11, <1>12, <1>14, <1>15, DebtsTogether

LEMMA NoWrap ==
    ASSUME NEW y \in Nat, NEW m \in Nat, m > 0, y < m
    PROVE  y % m = y
OBVIOUS

\* The totals after a forgiven debt, also when it takes the total below zero.
LEMMA BookedForgiven ==
    ASSUME KlendMarketAssumption, Debts, Overdrafts, DebtsFit, NEW r \in Reserves,
           overdrawn[r] = 0, NEW x \in Nat,
           borrowed_amount_sf' =
               [borrowed_amount_sf EXCEPT ![r] = (borrowed_amount_sf[r] - x) % FRACTION_MOD],
           overdrawn' = [overdrawn EXCEPT ![r] = Greatest(0, x - borrowed_amount_sf[r])]
    PROVE  \A q \in Reserves :
               /\ Booked(q) \in Int
               /\ Booked(q)' = IF q = r THEN borrowed_amount_sf[r] - x ELSE Booked(q)
<1> DEFINE b == borrowed_amount_sf[r]
           n == (b - x) % FRACTION_MOD
           e == Greatest(0, x - b)
<1>1. b \in Nat /\ b < FRACTION_MOD /\ FRACTION_MOD \in Nat \ {0}
  BY DEF Debts, DebtsFit, KlendMarketAssumption
<1>2. ASSUME NEW q \in Reserves
      PROVE  /\ borrowed_amount_sf'[q] = IF q = r THEN n ELSE borrowed_amount_sf[q]
             /\ overdrawn'[q] = IF q = r THEN e ELSE overdrawn[q]
  BY DEF Debts, Overdrafts
<1>3. (IF e > 0 THEN -e ELSE n) = b - x
  <2> HIDE DEF b
  <2>1. CASE x <= b
    <3>1. e = 0
      BY <1>1, <2>1 DEF Greatest
    <3> DEFINE y == b - x
    <3>2. y \in Nat /\ y < FRACTION_MOD
      BY <1>1, <2>1
    <3>3. n = y % FRACTION_MOD
      BY Zenon
    <3>4. FRACTION_MOD \in Nat /\ FRACTION_MOD > 0
      BY <1>1
    <3> HIDE DEF e, n, y
    <3>5. y % FRACTION_MOD = y
      BY <3>2, <3>4, NoWrap
    <3>6. (IF e > 0 THEN -e ELSE n) = y
      BY <3>1, <3>3, <3>5
    <3>7. QED
      BY <3>6, Zenon DEF e, n, y
  <2>2. CASE x > b
    BY <1>1, <2>2 DEF Greatest
  <2>3. QED
    BY <1>1, <2>1, <2>2
<1> HIDE DEF n, e
<1>4. ASSUME NEW q \in Reserves PROVE Booked(q)' = IF q = r THEN b - x ELSE Booked(q)
  <2>1. CASE q = r
    <3>1. Booked(q)' = IF e > 0 THEN -e ELSE n
      BY <1>2, <2>1 DEF Booked
    <3>2. QED
      BY <1>3, <2>1, <3>1
  <2>2. CASE q # r
    BY <1>2, <2>2, BookedKept
  <2>3. QED
    BY <2>1, <2>2
<1>5. QED
  BY <1>4, BookedInt

LEMMA ForgiveDebts ==
    ASSUME KlendMarketAssumption, MarketInv, MarketInv', Refreshes, Overdrafts, DebtsFit, NotAhead,
           NEW o \in Obligations, NEW r \in Reserves, ForgiveDebt(o, r)
    PROVE  DebtStep
<1> DEFINE i == SlotFor(BorrowReserves(o), r)
           l == CurrentBorrow(o, r)
           rate == cumulative_borrow_rate_bsf[r]
           x == l.borrowed_amount_sf
           b == borrowed_amount_sf[r] - x
           d == 0 - x
<1>1. /\ HasSlot(BorrowReserves(o), r) /\ MarkStale(r) /\ ~IsStale(r, ALL_CHECKS)
      /\ borrowed_amount_sf' =
            [borrowed_amount_sf EXCEPT ![r] = (borrowed_amount_sf[r] - x) % FRACTION_MOD]
      /\ overdrawn' = [overdrawn EXCEPT ![r] = Greatest(0, x - borrowed_amount_sf[r])]
      /\ borrows' = [borrows EXCEPT ![o][i] = EmptyBorrow]
      /\ cumulative_borrow_rate_bsf' = cumulative_borrow_rate_bsf
  BY Zenon DEF ForgiveDebt, HasSlot
<1>2. Books /\ Debts /\ Loans /\ Loans' /\ Debts' /\ BorrowTable
  BY Zenon DEF MarketInv, Accounts
<1>3. borrowed_amount_sf[r] \in Nat /\ rate \in Nat
  BY <1>2 DEF Debts
<1>4. /\ x \in Nat
      /\ i \in 1..MaxBorrows /\ borrows[o][i].borrow_reserve \in {r, NoReserve}
      /\ InDebt(borrows[o][i], r, rate) = x
  BY <1>1, <1>2, CurrentDebt
<1> HIDE DEF i, l, x
<1>5. /\ GoodLoan(EmptyBorrow) /\ EmptyBorrow.borrow_reserve = NoReserve /\ r # NoReserve
      /\ InDebt(EmptyBorrow, r, rate) = 0
  BY EmptyOwes DEF KlendMarketAssumption
<1>6. overdrawn[r] = 0 /\ Booked(r) = borrowed_amount_sf[r]
  BY <1>1, <1>2, FreshIsBooked
<1>7. \A q \in Reserves : /\ Booked(q) \in Int
                         /\ Booked(q)' = IF q = r THEN b ELSE Booked(q)
  BY <1>1, <1>2, <1>4, <1>6, BookedForgiven
<1>8. /\ b \in Int /\ d \in Int /\ b = Booked(r) + d
      /\ InDebt(EmptyBorrow, r, rate) = InDebt(borrows[o][i], r, rate) + d
  <2>1. b \in Int /\ d \in Int /\ b = borrowed_amount_sf[r] + d
    BY <1>3, <1>4
  <2>2. 0 = x + d
    BY <1>4
  <2> HIDE DEF b, d, rate
  <2>3. QED
    BY <1>4, <1>5, <1>6, <2>1, <2>2
<1> HIDE DEF b, d
<1>9. /\ NotAhead'
      /\ \A q \in Reserves : TotalOwed(q)' = TotalOwed(q) + (IF q = r THEN d ELSE 0)
  <2> DEFINE v == EmptyBorrow
  <2>1. /\ GoodLoan(v) /\ v.borrow_reserve \in {r, NoReserve} /\ v.borrow_reserve # r
        /\ borrows' = [borrows EXCEPT ![o][i] = v]
        /\ InDebt(v, r, rate) = InDebt(borrows[o][i], r, rate) + d
    BY <1>1, <1>5, <1>8
  <2> HIDE DEF v
  <2>2. SlotWritten(o, i, r, v, d)
    BY <1>1, <1>4, <1>8, <2>1, Zenon DEF SlotWritten
  <2>3. QED
    BY <1>2, <2>2, OwedMoved
<1>10. \A q \in Reserves : TotalOwed(q) \in Nat /\ TotalOwed(q)' \in Nat
  BY <1>2, OwedInNat, OwedNextNat
<1>11. QED
  BY <1>1, <1>7, <1>8, <1>9, <1>10, DebtsTogether

LEMMA DebtStepNext ==
    ASSUME KlendMarketAssumption, MarketInv, MarketInv', Refreshes, Overdrafts, DebtsFit, NotAhead,
           [Next]_vars
    PROVE  NotAhead' /\ ((\A r \in Reserves : Settles(r) \/ Accrues(r)) \/ UNCHANGED vars)
<1>1. ASSUME NEW r \in Reserves, NEW readings \in Readings, RefreshReserve(r, readings)
      PROVE  DebtStep
  BY <1>1, RefreshDebts
<1>2. ASSUME NEW r \in Reserves, RedeemFees(r) \/ AccumulateReferrerFees(r) \/ WithdrawReferrerFees(r)
      PROVE  DebtStep
  <2>1. /\ MarkStale(r) \/ UNCHANGED last_update
        /\ UNCHANGED <<borrows, borrowed_amount_sf, cumulative_borrow_rate_bsf, overdrawn>>
    BY <1>2, Zenon DEF RedeemFees, AccumulateReferrerFees, WithdrawReferrerFees, obligations, books
  <2>2. QED
    BY <2>1, DebtsAlone
<1>3. ASSUME NEW r \in Reserves, NEW o \in Obligations,
             \/ \E a \in DepositAmounts : DepositReserveLiquidityAndObligationCollateral(o, r, a)
             \/ \E a \in RedeemAmounts : WithdrawObligationCollateralAndRedeemReserveCollateral(o, r, a)
      PROVE  DebtStep
  <2>1. /\ MarkStale(r)
        /\ UNCHANGED <<borrows, borrowed_amount_sf, cumulative_borrow_rate_bsf, overdrawn>>
    BY <1>3, Zenon DEF DepositReserveLiquidityAndObligationCollateral,
       WithdrawObligationCollateralAndRedeemReserveCollateral
  <2>2. QED
    BY <2>1, DebtsAlone
<1>4. ASSUME NEW r \in Reserves, NEW o \in Obligations,
             \/ \E a \in BorrowAmounts, v \in MaxDebtValues : BorrowObligationLiquidity(o, r, a, v)
             \/ \E a \in RepayAmounts : RepayObligationLiquidity(o, r, a)
             \/ ForgiveDebt(o, r)
      PROVE  DebtStep
  BY <1>4, BorrowDebts, RepayDebts, ForgiveDebts
<1>5. CASE Tick \/ UNCHANGED vars
  <2>1. UNCHANGED <<borrows, borrowed_amount_sf, cumulative_borrow_rate_bsf, last_update, overdrawn>>
    BY <1>5, Zenon DEF Tick, vars, obligations, books
  <2>2. /\ NotAhead'
        /\ \A q \in Reserves : TotalOwed(q)' = TotalOwed(q) /\ Booked(q)' = Booked(q)
    BY <2>1, OwedKept, BookedKept
  <2>3. \A q \in Reserves : Settles(q)
    BY <2>1, <2>2, Zenon DEF Settles
  <2>4. QED
    BY <2>2, <2>3, Zenon
<1>6. QED
  BY <1>1, <1>2, <1>3, <1>4, <1>5, Zenon DEF Next, DebtStep

\* Two amounts no further apart than K times a rate allows.
Within(x, y, K, C) == (x - y) * ONE <= K * C /\ (y - x) * ONE <= K * C

\* How far a slot with a refresh may drive the two totals apart, where D bounds the whole
\* units owed to a reserve, and how far apart they may be by now.
Drift(D) == 2 * (Cardinality(BorrowSlots) + D + 2)
DebtsDrift(D) ==
    \A r \in Reserves :
        Within(Owed(r), Booked(r),
               last_update[r].slot * Drift(D), cumulative_borrow_rate_bsf[r])
DebtsBelow(D) == \A r \in Reserves : Owed(r) <= D * ONE

\* The same of the sum over all slots.
TotalsDrift(D) ==
    \A r \in Reserves :
        Within(TotalOwed(r), Booked(r),
               last_update[r].slot * Drift(D), cumulative_borrow_rate_bsf[r])

LEMMA WithinSettled ==
    ASSUME NEW a \in Int, NEW b \in Int, NEW a1 \in Int, NEW b1 \in Int, NEW K \in Nat, NEW C \in Nat,
           Within(a, b, K, C),
           a1 - b1 = a - b \/ (0 <= a1 - b1 /\ a1 - b1 <= a - b)
    PROVE  Within(a1, b1, K, C)
<1> DEFINE x == a - b
           y == a1 - b1
           q == K * C
<1>0. ONE \in Nat /\ x \in Int /\ y \in Int /\ q \in Nat
  BY KlendMathAssumption, TimesNat
<1>1. b - a = 0 - x /\ b1 - a1 = 0 - y
  OBVIOUS
<1>2. x * ONE <= q /\ (0 - x) * ONE <= q /\ (y = x \/ (0 <= y /\ y <= x))
  BY <1>1, Zenon DEF Within
<1> HIDE DEF x, y, q
<1>3. y * ONE <= q /\ (0 - y) * ONE <= q
  <2>1. CASE y = x
    BY <1>2, <2>1
  <2>2. CASE 0 <= y /\ y <= x
    <3>1. y * ONE <= x * ONE /\ (0 - y) * ONE <= 0 * ONE
      BY <1>0, <2>2, TimesIntBoth
    <3>2. x * ONE \in Int /\ y * ONE \in Int /\ (0 - y) * ONE \in Int /\ 0 * ONE = 0
      BY <1>0, TimesInt
    <3>3. QED
      BY <1>0, <1>2, <3>1, <3>2
  <2>3. QED
    BY <1>2, <2>1, <2>2
<1>4. QED
  BY <1>1, <1>3, Zenon DEF Within, x, y, q

\* What the drift allowed by a slot leaves room for, below half as many slots as ONE.
LEMMA DriftGrows ==
    ASSUME NEW s \in Nat, NEW t \in Nat, NEW top \in Nat, s < t, t <= top, 2 * top < ONE,
           NEW M \in Nat, NEW D \in Nat, NEW C \in Nat
    PROVE  LET E == M + D + 2
           IN  /\ s * (2 * E) \in Nat /\ s * (2 * E) + M <= E * ONE
               /\ (s * (2 * E) + 2 * E) * C <= (t * (2 * E)) * C
<1> DEFINE E == M + D + 2
<1>1. E \in Nat /\ M <= E /\ ONE \in Nat
  BY KlendMathAssumption
<1> HIDE DEF E
<1>2. 2 * s + 1 \in Nat /\ 2 * s + 1 <= ONE /\ s + 1 <= t /\ 2 * E \in Nat
  BY <1>1
<1>3. /\ E * (2 * s + 1) <= E * ONE /\ E * (2 * s + 1) = s * (2 * E) + E
      /\ s * (2 * E) \in Nat /\ E * ONE \in Nat
  BY <1>1, <1>2, TimesMono, TimesNat
<1>4. (s + 1) * (2 * E) <= t * (2 * E) /\ (s + 1) * (2 * E) = s * (2 * E) + 2 * E
  BY <1>1, <1>2, TimesBoth
<1> DEFINE u == s * (2 * E) + 2 * E
           v == t * (2 * E)
<1>5. u \in Nat /\ v \in Nat /\ u <= v
  BY <1>1, <1>2, <1>3, <1>4, TimesNat
<1> HIDE DEF u, v
<1>6. u * C <= v * C
  BY <1>5, TimesBoth
<1>7. s * (2 * E) + M <= E * ONE
  BY <1>1, <1>3
<1>8. QED
  BY <1>3, <1>6, <1>7 DEF u, v, E

\* One refresh with interest, in numbers.
LEMMA WithinAccrued ==
    ASSUME NEW A, NEW A1, NEW R, NEW C, NEW M, Accrual(A, A1, R, C, M),
           NEW rate \in Nat, rate >= ONE, NEW D \in Nat,
           C * A1 <= Mul(C, rate) * (A + M), Mul(C, rate) * A <= C * (A1 + M), A <= D * ONE,
           NEW s \in Nat, NEW t \in Nat, NEW top \in Nat, s < t, t <= top, 2 * top < ONE,
           Within(A, R, s * (2 * (M + D + 2)), C)
    PROVE  Within(A1, Mul(R, rate), t * (2 * (M + D + 2)), Mul(C, rate))
<1> DEFINE E == M + D + 2
           K == s * (2 * E)
           C1 == Mul(C, rate)
           R1 == Mul(R, rate)
<1>1. A1 \in Nat /\ R \in Nat /\ C \in Nat /\ M \in Nat /\ ONE \in Nat
  BY KlendMathAssumption, Zenon DEF Accrual
<1>2. C1 \in Nat /\ R1 \in Nat
  BY <1>1, MulBetween
<1>3. K \in Nat /\ K + M <= E * ONE /\ (K + 2 * E) * C1 <= (t * (2 * E)) * C1
  <2> HIDE DEF C1
  <2>1. QED
    BY <1>1, <1>2, DriftGrows
<1>4. (A - R) * ONE <= K * C /\ (R - A) * ONE <= K * C
  BY Zenon DEF Within
<1>5. (A1 - R1) * ONE <= (K + 2 * E) * C1 /\ (R1 - A1) * ONE <= (K + 2 * E) * C1
  <2> HIDE DEF K
  <2>1. QED
    BY <1>3, <1>4, DriftOfAccrual
<1>6. /\ (K + 2 * E) * C1 \in Nat /\ (t * (2 * E)) * C1 \in Nat
      /\ (A1 - R1) * ONE \in Int /\ (R1 - A1) * ONE \in Int
  <2>1. E \in Nat
    BY <1>1
  <2> HIDE DEF E, C1, R1, K
  <2>2. K + 2 * E \in Nat /\ 2 * E \in Nat /\ A1 - R1 \in Int /\ R1 - A1 \in Int
    BY <1>1, <1>2, <1>3, <2>1
  <2>3. t * (2 * E) \in Nat
    BY <2>2, TimesNat
  <2>4. QED
    BY <1>1, <1>2, <2>2, <2>3, TimesNat, TimesInt
<1>7. (A1 - R1) * ONE <= (t * (2 * E)) * C1 /\ (R1 - A1) * ONE <= (t * (2 * E)) * C1
  <2> DEFINE a == (A1 - R1) * ONE
             b == (R1 - A1) * ONE
             u == (K + 2 * E) * C1
             v == (t * (2 * E)) * C1
  <2>1. a \in Int /\ b \in Int /\ u \in Nat /\ v \in Nat /\ a <= u /\ b <= u /\ u <= v
    BY <1>3, <1>5, <1>6
  <2> HIDE DEF a, b, u, v
  <2>2. a <= v /\ b <= v
    BY <2>1
  <2>3. QED
    BY <2>2 DEF a, b, v
<1>8. QED
  BY <1>7, Zenon DEF Within

LEMMA BorrowSlotsCounted ==
    ASSUME KlendMarketAssumption
    PROVE  Cardinality(BorrowSlots) \in Nat
BY BorrowSlotsFinite, FS_CardinalityType

LEMMA TotalsDriftNext ==
    ASSUME KlendMarketAssumption, MarketInv, MarketInv', Refreshes, Refreshes',
           Overdrafts, Overdrafts', DebtsFit, NotAhead,
           NEW D \in Nat, 2 * MaxSlot < ONE, TotalsDrift(D),
           \A r \in Reserves : TotalOwed(r) <= D * ONE, [Next]_vars
    PROVE  NotAhead' /\ TotalsDrift(D)'
<1> DEFINE M == Cardinality(BorrowSlots)
<1>1. M \in Nat /\ MaxSlot \in Nat
  BY BorrowSlotsCounted DEF KlendMarketAssumption
<1>2. NotAhead' /\ ((\A r \in Reserves : Settles(r) \/ Accrues(r)) \/ UNCHANGED vars)
  BY DebtStepNext
<1>3. Books /\ Debts /\ Loans /\ Debts' /\ Loans'
  BY Zenon DEF MarketInv, Accounts
<1>4. ASSUME NEW r \in Reserves
      PROVE  /\ TotalOwed(r) \in Nat /\ TotalOwed(r)' \in Nat
             /\ Booked(r) \in Int /\ Booked(r)' \in Int
             /\ cumulative_borrow_rate_bsf[r] \in Nat /\ cumulative_borrow_rate_bsf[r] >= ONE
             /\ cumulative_borrow_rate_bsf'[r] \in Nat
             /\ last_update[r].slot \in Nat
             /\ last_update'[r].slot \in Nat /\ last_update'[r].slot <= MaxSlot
  <2>1. TotalOwed(r) \in Nat /\ TotalOwed(r)' \in Nat
    BY <1>3, OwedInNat, OwedNextNat
  <2>2. /\ Booked(r) \in Int /\ Booked(r)' \in Int
        /\ cumulative_borrow_rate_bsf[r] \in Nat /\ cumulative_borrow_rate_bsf'[r] \in Nat
    <3>1. /\ cumulative_borrow_rate_bsf \in [Reserves -> Nat \ {0}]
          /\ cumulative_borrow_rate_bsf' \in [Reserves -> Nat \ {0}]
      BY <1>3, Zenon DEF Debts
    <3>2. Booked(r) \in Int /\ Booked(r)' \in Int
      BY <1>3, BookedInt, BookedNextInt
    <3>3. QED
      BY <3>1, <3>2
  <2>3. cumulative_borrow_rate_bsf[r] >= ONE
    BY DEF NotAhead
  <2>4. last_update[r].slot \in Nat
    BY DEF Refreshes, LastUpdate
  <2>5. last_update'[r].slot \in Nat /\ last_update'[r].slot <= slot' /\ slot' \in 0..MaxSlot
    BY Zenon DEF MarketInv, PricesInv, Refreshed, Refreshes
  <2>6. last_update'[r].slot <= MaxSlot
    <3> DEFINE x == last_update'[r].slot
    <3>1. x \in Nat /\ x <= slot' /\ slot' \in 0..MaxSlot
      BY <2>5
    <3> HIDE DEF x
    <3>2. x <= MaxSlot
      BY <1>1, <3>1
    <3>3. QED
      BY <3>2 DEF x
  <2>7. QED
    BY <2>1, <2>2, <2>3, <2>4, <2>5, <2>6
<1>5. ASSUME NEW r \in Reserves, Settles(r)
      PROVE  Within(TotalOwed(r)', Booked(r)',
                    last_update'[r].slot * Drift(D), cumulative_borrow_rate_bsf'[r])
  <2> DEFINE a == TotalOwed(r)
             b == Booked(r)
             a1 == TotalOwed(r)'
             b1 == Booked(r)'
             K == last_update[r].slot * Drift(D)
             C == cumulative_borrow_rate_bsf[r]
  <2>1. a \in Int /\ b \in Int /\ a1 \in Int /\ b1 \in Int /\ C \in Nat
    BY <1>4
  <2>2. K \in Nat
    <3>1. Drift(D) \in Nat
      BY <1>1 DEF Drift
    <3>2. QED
      BY <1>4, <3>1, TimesNat
  <2>3. /\ Within(a, b, K, C)
        /\ a1 - b1 = a - b \/ (0 <= a1 - b1 /\ a1 - b1 <= a - b)
        /\ cumulative_borrow_rate_bsf'[r] = C
        /\ last_update'[r].slot * Drift(D) = K
    BY <1>5, Zenon DEF TotalsDrift, Settles
  <2>4. \A x, y, x1, y1 \in Int, k, c \in Nat :
           Within(x, y, k, c) /\ (x1 - y1 = x - y \/ (0 <= x1 - y1 /\ x1 - y1 <= x - y))
               => Within(x1, y1, k, c)
    BY WithinSettled
  <2> HIDE DEF a, b, a1, b1, K, C
  <2> DEFINE settled == a1 - b1 = a - b \/ (0 <= a1 - b1 /\ a1 - b1 <= a - b)
  <2>5. Within(a, b, K, C) /\ settled => Within(a1, b1, K, C)
    BY <2>1, <2>2, <2>4, Zenon
  <2>6. settled
    BY <2>3
  <2> HIDE DEF settled
  <2>7. Within(a1, b1, K, C)
    BY <2>3, <2>5, <2>6, Zenon
  <2>8. QED
    BY <2>3, <2>7, Zenon DEF a1, b1
<1>6. ASSUME NEW r \in Reserves, Accrues(r)
      PROVE  Within(TotalOwed(r)', Booked(r)',
                    last_update'[r].slot * Drift(D), cumulative_borrow_rate_bsf'[r])
  <2> DEFINE A == TotalOwed(r)
             A1 == TotalOwed(r)'
             R == Booked(r)
             C == cumulative_borrow_rate_bsf[r]
             s == last_update[r].slot
             t == last_update'[r].slot
  <2>1. PICK rate \in Nat :
            /\ rate >= ONE
            /\ cumulative_borrow_rate_bsf'[r] = Mul(C, rate)
            /\ R \in Nat /\ Booked(r)' = Mul(R, rate)
    BY <1>6, Zenon DEF Accrues
  <2>2. /\ C * A1 <= Mul(C, rate) * (A + M) /\ Mul(C, rate) * A <= C * (A1 + M)
        /\ s < t
    <3>1. /\ C * A1 <= cumulative_borrow_rate_bsf'[r] * (A + M)
          /\ cumulative_borrow_rate_bsf'[r] * A <= C * (A1 + M)
          /\ s < t
      BY <1>6, Zenon DEF Accrues
    <3>2. QED
      BY <2>1, <3>1, Zenon
  <2>3. s \in Nat /\ t \in Nat /\ t <= MaxSlot /\ A <= D * ONE
    BY <1>4
  <2>4. Accrual(A, A1, R, C, M)
    BY <1>1, <1>4, <2>1, Zenon DEF Accrual
  <2>5. Drift(D) = 2 * (M + D + 2)
    BY Zenon DEF Drift
  <2>6. Within(A, R, s * (2 * (M + D + 2)), C)
    BY <2>5, Zenon DEF TotalsDrift
  <2> HIDE DEF A, A1, R, C, s, t, M
  <2>7. Within(A1, Mul(R, rate), t * (2 * (M + D + 2)), Mul(C, rate))
    BY <1>1, <2>1, <2>2, <2>3, <2>4, <2>6, WithinAccrued
  <2>8. QED
    BY <2>1, <2>5, <2>7, Zenon DEF A1, t
<1>7. ASSUME \A r \in Reserves :
                 Within(TotalOwed(r)', Booked(r)',
                        last_update'[r].slot * Drift(D), cumulative_borrow_rate_bsf'[r])
      PROVE  TotalsDrift(D)'
  BY <1>7, Zenon DEF TotalsDrift, Within, Drift, BorrowSlots
<1>8. CASE UNCHANGED vars
  <2>1. UNCHANGED <<borrows, borrowed_amount_sf, cumulative_borrow_rate_bsf, last_update, overdrawn>>
    BY <1>8, Zenon DEF vars, obligations, books
  <2>2. \A r \in Reserves : TotalOwed(r)' = TotalOwed(r) /\ Booked(r)' = Booked(r)
    BY <2>1, OwedKept, BookedKept
  <2>3. \A r \in Reserves : Settles(r)
    BY <2>1, <2>2, Zenon DEF Settles
  <2>4. QED
    BY <1>2, <1>5, <1>7, <2>3, Zenon
<1>9. QED
  BY <1>2, <1>5, <1>6, <1>7, <1>8, Zenon

LEMMA TotalsDriftInit ==
    ASSUME KlendMarketAssumption, NEW D \in Nat, Init
    PROVE  NotAhead /\ TotalsDrift(D)
<1>1. /\ borrows = [o \in Obligations |-> [i \in 1..MaxBorrows |-> EmptyBorrow]]
      /\ borrowed_amount_sf = [r \in Reserves |-> 0]
      /\ cumulative_borrow_rate_bsf = [r \in Reserves |-> ONE]
      /\ last_update = [r \in Reserves |-> [slot |-> 0, stale |-> TRUE, price_status |-> {}]]
      /\ overdrawn = [r \in Reserves |-> 0]
  BY Zenon DEF Init, InitLiquidity, InitReserves, InitObligations
<1>2. \A r \in Reserves : EmptyBorrow.borrow_reserve # r
  BY DEF EmptyBorrow, KlendMarketAssumption
<1>3. ONE \in Nat /\ ONE >= ONE
  BY KlendMathAssumption
<1>4. NotAhead
  BY <1>1, <1>2, <1>3 DEF NotAhead
<1>5. ASSUME NEW r \in Reserves PROVE TotalOwed(r) = 0
  <2>1. \A p \in BorrowSlots : borrows[p[1]][p[2]] = EmptyBorrow
    BY <1>1 DEF BorrowSlots
  <2>2. OwedIn(r) = [p \in BorrowSlots |-> 0]
    BY <1>2, <2>1, Zenon DEF OwedIn, InDebt
  <2> DEFINE f == [p \in BorrowSlots |-> 0]
  <2>3. \A p \in BorrowSlots : f[p] = 0
    OBVIOUS
  <2> HIDE DEF f
  <2>4. SumOf(f, BorrowSlots) = Cardinality(BorrowSlots) * 0
    BY <2>3, BorrowSlotsFinite, SumConstant
  <2>5. Cardinality(BorrowSlots) * 0 = 0
    BY BorrowSlotsCounted
  <2>6. QED
    BY <2>2, <2>4, <2>5, Zenon DEF f, TotalOwed
<1>6. Drift(D) \in Nat
  BY BorrowSlotsCounted DEF Drift
<1>7. ASSUME NEW r \in Reserves
      PROVE  Within(TotalOwed(r), Booked(r),
                    last_update[r].slot * Drift(D), cumulative_borrow_rate_bsf[r])
  <2>1. /\ Booked(r) = 0 /\ cumulative_borrow_rate_bsf[r] = ONE
        /\ last_update[r].slot = 0 /\ TotalOwed(r) = 0
    BY <1>1, <1>5 DEF Booked
  <2>2. Within(0, 0, 0 * Drift(D), ONE)
    <3> DEFINE k == Drift(D)
    <3>1. k \in Nat
      BY <1>6
    <3> HIDE DEF k
    <3>2. 0 * k = 0
      BY <3>1
    <3>3. (0 - 0) * ONE <= 0 * ONE
      BY <1>3
    <3>4. QED
      BY <3>2, <3>3 DEF Within, k
  <2>3. QED
    BY <2>1, <2>2, Zenon
<1>8. QED
  BY <1>4, <1>7, Zenon DEF TotalsDrift

\* What the customers owe a reserve and what the reserve believes it has lent drift apart
\* by rounding alone, and by no more in a slot than a count of the slots and of the units
\* owed, however the loans, repayments, refreshes and forgiven debts are interleaved, also
\* when a forgiven debt exceeds the total and makes it wrap.
THEOREM DebtsDriftSlowly ==
    ASSUME NEW D \in Nat, 2 * MaxSlot < ONE
    PROVE  Spec /\ []DebtsFit /\ []DebtsBelow(D) => []DebtsDrift(D)
<1> DEFINE inv == MarketInv /\ Refreshes /\ Overdrafts /\ NotAhead /\ TotalsDrift(D)
<1>1. KlendMarketAssumption
  BY KlendMarketAssumption DEF KlendMarketAssumption
<1>2. Init => inv
  BY <1>1, MarketInvInit, TypesInit, TotalsDriftInit, Zenon
<1>3. MarketInv => \A r \in Reserves : Owed(r) = TotalOwed(r)
  BY <1>1, OwedOverAll, Zenon DEF MarketInv, Accounts
<1>4. inv /\ DebtsFit /\ DebtsBelow(D) /\ [Next]_vars => inv'
  <2> SUFFICES ASSUME inv, DebtsFit, DebtsBelow(D), [Next]_vars PROVE inv'
    OBVIOUS
  <2>1. MarketInv'
    BY MarketInvNext, Zenon
  <2>2. Refreshes'
    BY <1>1, RefreshesNext
  <2>3. Overdrafts'
    BY <1>1, OverdraftsNext DEF MarketInv
  <2>4. \A r \in Reserves : TotalOwed(r) <= D * ONE
    BY <1>3, Zenon DEF DebtsBelow
  <2>5. NotAhead' /\ TotalsDrift(D)'
    BY <1>1, <2>1, <2>2, <2>3, <2>4, TotalsDriftNext
  <2>6. QED
    BY <2>1, <2>2, <2>3, <2>5, Zenon
<1>5. inv => DebtsDrift(D)
  BY <1>3, Zenon DEF DebtsDrift, TotalsDrift
<1> HIDE DEF inv
<1>6. QED
  BY <1>2, <1>4, <1>5, PTL DEF Spec

\* While the drift so allowed is less than a unit.
DriftInUnit(D) ==
    \A r \in Reserves :
        (last_update[r].slot * Drift(D)) * cumulative_borrow_rate_bsf[r] < ONE * ONE

\* The debt a reserve believes it has lent is what its customers owe to within one unit,
\* for as long as the drift of all its slots together is less than a unit: a debt may
\* come to exceed the total, and make it wrap when it is forgiven, by less than a unit only.
THEOREM DebtsStayMatched ==
    ASSUME NEW D \in Nat, 2 * MaxSlot < ONE
    PROVE  Spec /\ []DebtsFit /\ []DebtsBelow(D) /\ []DriftInUnit(D) => []DebtsMatchReserve
<1>1. KlendMarketAssumption
  BY KlendMarketAssumption DEF KlendMarketAssumption
<1>2. Spec /\ []DebtsFit /\ []DebtsBelow(D) => []DebtsDrift(D)
  BY DebtsDriftSlowly
<1>3. MarketInv /\ Refreshes /\ Overdrafts /\ DebtsDrift(D) /\ DriftInUnit(D) => DebtsMatchReserve
  <2> SUFFICES ASSUME MarketInv, Refreshes, Overdrafts, DebtsDrift(D), DriftInUnit(D),
                      NEW r \in Reserves
               PROVE  /\ Owed(r) - Booked(r) < ONE
                      /\ Booked(r) - Owed(r) < ONE
    BY Zenon DEF DebtsMatchReserve
  <2> DEFINE a == Owed(r)
             b == Booked(r)
             q == (last_update[r].slot * Drift(D)) * cumulative_borrow_rate_bsf[r]
  <2>1. Loans /\ Debts
    BY Zenon DEF MarketInv, Accounts
  <2>2. a \in Int /\ b \in Int
    <3>1. TotalOwed(r) \in Nat /\ a = TotalOwed(r)
      BY <1>1, <2>1, OwedInNat, OwedOverAll
    <3>2. b \in Int
      BY <2>1, BookedInt
    <3> HIDE DEF a, b
    <3>3. QED
      BY <3>1, <3>2
  <2>3. q \in Int
    <3>1. Drift(D) \in Nat
      BY <1>1, BorrowSlotsCounted DEF Drift
    <3>2. last_update[r].slot \in Nat
      BY DEF Refreshes, LastUpdate
    <3>3. cumulative_borrow_rate_bsf[r] \in Nat
      BY <2>1 DEF Debts
    <3>4. last_update[r].slot * Drift(D) \in Nat
      BY <3>1, <3>2, TimesNat
    <3>5. q \in Nat
      BY <3>3, <3>4, TimesNat
    <3> HIDE DEF q
    <3>6. QED
      BY <3>5
  <2>4. (a - b) * ONE <= q /\ (b - a) * ONE <= q /\ q < ONE * ONE
    BY Zenon DEF DebtsDrift, DriftInUnit, Within
  <2> HIDE DEF a, b, q
  <2>5. ONE \in Nat
    BY KlendMathAssumption
  <2>6. \A x \in Int : x * ONE <= q => x < ONE
    <3> SUFFICES ASSUME NEW x \in Int, x * ONE <= q, x >= ONE PROVE FALSE
      BY <2>5
    <3>1. ONE * ONE <= x * ONE
      BY <2>5, TimesIntBoth
    <3>2. x * ONE \in Int /\ ONE * ONE \in Int
      BY <2>5, TimesInt
    <3>3. QED
      BY <2>3, <2>4, <3>1, <3>2
  <2>7. a - b \in Int /\ b - a \in Int
    BY <2>2
  <2>8. a - b < ONE /\ b - a < ONE
    BY <2>4, <2>6, <2>7
  <2>9. QED
    BY <2>8 DEF a, b
<1>4. Init => MarketInv /\ Refreshes /\ Overdrafts
  BY <1>1, MarketInvInit, TypesInit, Zenon
<1>5. MarketInv /\ Refreshes /\ Overdrafts /\ [Next]_vars => MarketInv' /\ Refreshes' /\ Overdrafts'
  <2> SUFFICES ASSUME MarketInv, Refreshes, Overdrafts, [Next]_vars
               PROVE  MarketInv' /\ Refreshes' /\ Overdrafts'
    OBVIOUS
  <2>1. MarketInv' /\ Refreshes'
    BY <1>1, MarketInvNext, RefreshesNext
  <2>2. Overdrafts'
    BY <1>1, OverdraftsNext DEF MarketInv
  <2>3. QED
    BY <2>1, <2>2
<1>6. QED
  BY <1>2, <1>3, <1>4, <1>5, PTL DEF Spec
=============================================================================
