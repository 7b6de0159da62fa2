------------------------ MODULE KlendMarketProperties ------------------------
(***************************************************************************)
(* What the lending market promises its depositors, borrowers and the      *)
(* receivers of its fees.                                                  *)
(***************************************************************************)
EXTENDS KlendMarket, Sums

\* There are as many accounts as have been created: a finite number.
ASSUME ObligationsAssumption == IsFiniteSet(Obligations)

\* The type of the state: amounts fit their width, tables are tables.
Tiers == {Config[r].asset_tier : r \in Reserves} \cup {NoTier}
TypeOK ==
    /\ available_amount \in [Reserves -> 0..U64MAX]
    /\ mint_total_supply \in [Reserves -> 0..U64MAX]
    /\ \A f \in {borrowed_amount_sf, cumulative_borrow_rate_bsf, accumulated_protocol_fees_sf,
                 accumulated_referrer_fees_sf, pending_referrer_fees_sf, amount_unclaimed_sf,
                 market_price_sf, market_price_last_updated_ts, deposit_limit_crossed_slot,
                 borrow_limit_crossed_slot, supply_vault, fee_vault, collateral_vault} :
          f \in [Reserves -> Nat]
    /\ last_update \in [Reserves -> LastUpdate]
    /\ deposits \in [Obligations -> [1..MaxDeposits -> ObligationCollateral]]
    /\ borrows \in [Obligations -> [1..MaxBorrows -> ObligationLiquidity]]
    /\ deposits_asset_tiers \in [Obligations -> [1..MaxDeposits -> Tiers]]
    /\ borrows_asset_tiers \in [Obligations -> [1..MaxBorrows -> Tiers]]
    /\ has_debt \in [Obligations -> BOOLEAN]
    /\ wallet \in [Obligations -> [Reserves -> Nat]]
    /\ overdrawn \in [Reserves -> Nat]
    /\ slot \in 0..MaxSlot

-----------------------------------------------------------------------------
\* The slots, of any obligation, that hold collateral of r or a debt to it.
DepositsOf(r) ==
    {p \in Obligations \X (1..MaxDeposits) : deposits[p[1]][p[2]].deposit_reserve = r}
BorrowsOf(r) ==
    {p \in Obligations \X (1..MaxBorrows) : borrows[p[1]][p[2]].borrow_reserve = r}
Deposited(r) ==
    SumOf([p \in DepositsOf(r) |-> deposits[p[1]][p[2]].deposited_amount], DepositsOf(r))
Owed(r) ==
    SumOf([p \in BorrowsOf(r) |->
              Accrued(borrows[p[1]][p[2]], cumulative_borrow_rate_bsf[r]).borrowed_amount_sf],
          BorrowsOf(r))

\* The liquidity a reserve believes it has available is in its vault, to the
\* unit, after any sequence of deposits, redemptions, loans with fees, repayments
\* and fee payments, each of which rounds on its own.
BooksMatchTokens == \A r \in Reserves : supply_vault[r] = available_amount[r]

\* The collateral tokens a reserve has minted are in its collateral vault, and
\* every one of them belongs to a slot of some obligation.
CollateralAccounted ==
    \A r \in Reserves : /\ collateral_vault[r] = mint_total_supply[r]
                        /\ Deposited(r) = mint_total_supply[r]

\* The reserve compounds one total, each obligation its own share of it by the
\* ratio of two cumulative rates, and a repayment or a forgiven debt is taken off
\* both.  Whatever the order, the two never come to differ by a unit of liquidity.
\* A total that a forgiven debt has made wrap counts as what it should have become:
\* below zero, by less than a unit.
Booked(r) == IF overdrawn[r] > 0 THEN -overdrawn[r] ELSE borrowed_amount_sf[r]
DebtsMatchReserve ==
    \A r \in Reserves : Owed(r) - Booked(r) < ONE /\ Booked(r) - Owed(r) < ONE

\* An obligation has at most one slot for a reserve, of either kind, an empty
\* slot holds nothing, has_debt tells whether a borrow slot is in use, and the
\* tables of asset tiers, which are kept apart, follow those of the reserves.
TierOf(r) == IF r = NoReserve THEN NoTier ELSE Config[r].asset_tier
SlotsAreDistinct ==
    \A o \in Obligations :
        /\ \A r \in Reserves : \A i, j \in 1..MaxDeposits :
              deposits[o][i].deposit_reserve = r /\ deposits[o][j].deposit_reserve = r => i = j
        /\ \A r \in Reserves : \A i, j \in 1..MaxBorrows :
              borrows[o][i].borrow_reserve = r /\ borrows[o][j].borrow_reserve = r => i = j
        /\ \A i \in SlotsOf(DepositReserves(o), NoReserve) : deposits[o][i] = EmptyDeposit
        /\ \A i \in SlotsOf(BorrowReserves(o), NoReserve) : borrows[o][i] = EmptyBorrow
        /\ \A i \in 1..MaxDeposits :
              deposits_asset_tiers[o][i] = TierOf(deposits[o][i].deposit_reserve)
        /\ \A i \in 1..MaxBorrows :
              borrows_asset_tiers[o][i] = TierOf(borrows[o][i].borrow_reserve)
        /\ has_debt[o] <=> SlotsOf(BorrowReserves(o), NoReserve) # 1..MaxBorrows

-----------------------------------------------------------------------------
\* The liquidity and the debts of a reserve cover the fees it owes, so that
\* total_supply does not wrap, as long as there is something to lose; only a
\* forgiven debt, or the rounding of the last redemption, may break this.  (At a
\* total supply of exactly zero the exchange rate is one, and a redemption is paid
\* out of the fees.)
Precise(r) == Assets(r) <= ONE * ONE
FeesStayCovered ==
    [][\A r \in Reserves :
          Assets(r) > FeesOwed(r) /\ Precise(r) =>
              \/ Assets(r)' >= FeesOwed(r)'
              \/ mint_total_supply[r] > 0 /\ mint_total_supply'[r] = 0
              \/ \E o \in Obligations : ForgiveDebt(o, r)]_vars

\* What a unit of collateral is worth never falls, but for a forgiven debt: not by
\* interest, fees, loans or the deposits of others.  A redemption may cost those who
\* stay less than one unit of liquidity in total, as long as the exchange rate has
\* the precision for it.
ShareValueKept ==
    [][\A r \in Reserves :
          Assets(r) > FeesOwed(r) /\ mint_total_supply[r] > 0 =>
              \/ TotalSupply(r)' * mint_total_supply[r] >= TotalSupply(r) * mint_total_supply'[r]
              \/ /\ mint_total_supply'[r] < mint_total_supply[r]
                 /\ TotalSupply(r) <= ONE * CollateralExchangeRate(r) =>
                       (TotalSupply(r)' + ONE) * mint_total_supply[r]
                           > TotalSupply(r) * mint_total_supply'[r]
              \/ mint_total_supply'[r] = 0
              \/ \E o \in Obligations : ForgiveDebt(o, r)]_vars

\* Whoever deposits and withdraws at once gets back no more than was deposited,
\* whatever the reserve has been through, when the collateral received has the
\* precision for it.  (The first to deposit after everyone has left also gets what
\* they left behind.)
NoProfitAtOnce ==
    \A r \in Reserves : Assets(r) >= FeesOwed(r) /\ mint_total_supply[r] > 0 =>
        \A o \in Obligations : \A l \in 1..wallet[o][r] :
            LET minted == LiquidityToCollateral(CollateralExchangeRate(r), l)
                rate == ExchangeRate(mint_total_supply[r] + minted, TotalSupply(r) + FromNum(l))
            IN  minted > 0 /\ minted * ONE >= l * l =>
                    rate > 0 /\ CollateralToLiquidity(rate, minted) <= l

\* "All of it" is never a loan whose fee exceeds it: receive_amount does not wrap,
\* whatever fraction of a unit the debt limit leaves, at a fee of at most a half.
ReceiveNeverWraps ==
    \A r \in Reserves, v \in MaxDebtValues :
        LET borrow == CalculateBorrow(r, U64MAX, v)
        IN  market_price_sf[r] > 0 /\ 2 * Config[r].borrow_fee_sf <= ONE /\ ~borrow.too_small
                => borrow.receive_amount >= 0

\* A status that passes every check is that of the saved price: it was set together
\* with a price published at most max_age seconds before and inside the heuristic
\* bounds, and neither has changed since.  (It does not follow that the saved price is
\* of age now: update_slot keeps the status on a refresh that finds no price.)
UsablePriceWasChecked ==
    [][\A r \in Reserves : ALL_CHECKS \subseteq last_update'[r].price_status =>
          LET token_info == Config[r].token_info
          IN  \/ /\ slot - market_price_last_updated_ts'[r] <= token_info.max_age_price_seconds
                 /\ HeuristicChecked(market_price_sf'[r], token_info.heuristic)
              \/ /\ ALL_CHECKS \subseteq last_update[r].price_status
                 /\ market_price_sf'[r] = market_price_sf[r]
                 /\ market_price_last_updated_ts'[r] = market_price_last_updated_ts[r]]_vars

\* The slot in which a limit was crossed stands while the limit stays crossed, so
\* that a margin call's period cannot start over.
CrossingRemembered ==
    [][\A r \in Reserves :
          LET crossed == borrowed_amount_sf[r] > FromNum(Config[r].borrow_limit)
          IN  borrow_limit_crossed_slot[r] > 0 =>
                  \/ borrow_limit_crossed_slot'[r] = borrow_limit_crossed_slot[r]
                  \/ ~crossed /\ ~crossed']_vars
-----------------------------------------------------------------------------
\* The three properties that follow are about pure functions: they depend on no
\* variable, and are stated of the initial state so that they are judged once.

\* Compound interest, exact up to four slots and a series of four terms beyond,
\* never charges more than the exact power, and never less for a longer time, the
\* change of formula included.
\* (A power is a product here: the proof needs no induction on n.)
Power(x, n) ==
    <<1, x, x * x, x * x * x, x * x * x * x, x * x * x * x * x, x * x * x * x * x * x>>[n + 1]
CompoundingIsOrdered == Init =>
    \A base \in 0..ONE, n \in 0..6 :
        LET approx(k) == ApproximateCompoundedInterest(base * SLOTS_PER_YEAR, k)
        IN  /\ n > 0 => approx(n) * Power(ONE, n - 1) <= Power(ONE + base, n)
            /\ n < 6 => approx(n) <= approx(n + 1)

\* A higher utilization never lowers the borrow rate, across the bends of the curve
\* and the rounding of the utilization to basis points; every curve made from legacy
\* parameters that grow is a valid one.
LegacyCurves == {FromLegacyParameters(u, b, o, m) :
                    u \in {0, 40, 80, 100}, b \in {0, 10}, o \in {10, 60}, m \in {60, 250}}
RateGrowsWithUse == Init =>
    \A curve \in LegacyCurves \cup {Config[r].borrow_rate_curve : r \in Reserves} :
        /\ CurveValid(curve)
        /\ \A u \in 0..(ONE + 1) : GetBorrowRate(curve, u) <= GetBorrowRate(curve, u + 1)

\* Whatever three oracles say, a price that passes every check is what an enabled
\* source said at most max_age seconds ago, with a confidence interval of at most 2 %
\* (Scope has none) and an average that is itself recent and close: the checks made
\* before the choice of the source and those made after it leave no gap.
JudgedTokenInfo ==
    [max_twap_divergence_bps |-> 2500, max_age_twap_seconds |-> 1, max_age_price_seconds |-> 1,
     heuristic |-> [lower |-> 0, upper |-> 0], block_price_usage |-> 0,
     pyth |-> [enabled |-> TRUE], switchboard |-> [enabled |-> TRUE, has_twap |-> TRUE],
     scope |-> [enabled |-> TRUE, has_twap |-> TRUE]]
Twaps == {<<[price |-> p, timestamp |-> t, confidence |-> 0, twap |-> <<>>]>> :
              p \in {60, 100}, t \in {0, 2}}
Said == {<<>>} \cup {<<[price |-> 100, timestamp |-> t, confidence |-> c, twap |-> w]>> :
                        t \in 0..1, c \in {2, 3}, w \in Twaps \cup {<<>>}}
UsablePriceIsSound == Init =>
    \A p, sw, sc \in Said, now \in 0..2 :
        LET readings == [pyth |-> p, switchboard |-> sw, scope |-> sc]
            price == GetPrice(JudgedTokenInfo, readings, now)
            sound(source) == LET said == readings[source] IN
                /\ said # <<>> /\ price[1].timestamp = said[1].timestamp
                /\ now - said[1].timestamp <= 1
                /\ source # "scope" => 50 * said[1].confidence <= said[1].price
                /\ said[1].twap # <<>>
                /\ said[1].twap[1].price = 100 /\ now - said[1].twap[1].timestamp <= 1
        IN  ~NoPriceFeed(JudgedTokenInfo, readings) =>
                (price # <<>> /\ price[1].status = ALL_CHECKS =>
                    \E source \in DOMAIN readings : sound(source))
=============================================================================
