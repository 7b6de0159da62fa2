----------------------------- MODULE KlendMarket -----------------------------
(***************************************************************************)
(* The lending market behind klend_lend, klend_withdraw and                *)
(* get_value_in_kamino: reserves (state/reserve.rs) that take liquidity in *)
(* exchange for collateral and lend it out, and the obligations            *)
(* (state/obligation.rs) of its customers, one of which is the treasury.   *)
(*                                                                         *)
(* Each action is one instruction.  The repository's klend crate is the    *)
(* interface of Kamino's program: its methods on Reserve, Obligation and   *)
(* LastUpdate are here, the handlers that call them are commented out of   *)
(* lib.rs.  An action therefore makes the calls its instruction is named   *)
(* after, with the transfers of utils/token_transfer.rs, in the only order *)
(* in which each has its arguments.  A customer's health (loan to value)   *)
(* is computed by handlers that are not in the repository: the debt value  *)
(* an obligation may still take on is an input of Borrow.                  *)
(***************************************************************************)
EXTENDS KlendPrices

\* ReserveConfig, as far as the methods read it.
ReserveConfig == [protocol_take_rate_pct : 0..100, host_fixed_interest_rate_bps : Nat,
                  borrow_factor_pct : Nat, borrow_fee_sf : Nat, deposit_limit : Nat,
                  borrow_limit : Nat, decimals : Nat \ {0}, asset_tier : Nat,
                  borrow_rate_curve : [1..11 -> CurvePoint], token_info : TokenInfo]

CONSTANTS Reserves,          \* reserve accounts
          Obligations,       \* obligation accounts, one per customer
          NoReserve,         \* Pubkey::default(), the mark of an empty slot
          MaxDeposits,       \* length of Obligation.deposits, 8 in the code
          MaxBorrows,        \* length of Obligation.borrows, 5 in the code
          Config,            \* ReserveConfig of each reserve
          ReferralFeeBps,    \* LendingMarket.referral_fee_bps
          FRACTION_MOD,      \* one more than the largest Fraction, 2^128 in the code
          U64MAX,            \* u64::MAX, the largest amount and "all of it"
          Funds,             \* tokens of each reserve's mint each customer starts with
          NoTier,            \* u8::MAX, the asset tier of an empty slot
          DepositAmounts,    \* amounts of liquidity a customer deposits
          RedeemAmounts,     \* amounts of collateral a customer redeems
          BorrowAmounts,     \* amounts a customer asks to borrow
          RepayAmounts,      \* amounts a customer offers to repay
          MaxDebtValues,     \* debt values an obligation may still take on
          Readings,          \* what the oracles of a reserve may say
          MaxSlot            \* bound on the slots the clock counts

ASSUME KlendMarketAssumption ==
    /\ NoReserve \notin Reserves
    /\ MaxDeposits \in Nat \ {0} /\ MaxBorrows \in Nat \ {0}
    /\ FRACTION_MOD \in Nat \ {0} /\ U64MAX \in Nat /\ MaxSlot \in Nat
    /\ Funds \in [Obligations -> [Reserves -> Nat]]
    /\ DepositAmounts \subseteq Nat /\ RedeemAmounts \subseteq Nat
    /\ BorrowAmounts \subseteq Nat /\ RepayAmounts \subseteq Nat
    /\ Config \in [Reserves -> ReserveConfig]
    /\ \A r \in Reserves :
          /\ CurveValid(Config[r].borrow_rate_curve)
          /\ ConfigValid(Config[r].token_info)
    /\ MaxDebtValues \subseteq Nat
    /\ \A readings \in Readings : ReadingsValid(readings)
    /\ ReferralFeeBps \in 0..FULL_BPS

\* A Fraction has 60 bits below the point and 68 above it: ONE is 2^60.
ASSUME FractionAssumption == ONE * ONE < FRACTION_MOD

VARIABLES
    available_amount, borrowed_amount_sf, cumulative_borrow_rate_bsf,
    accumulated_protocol_fees_sf, accumulated_referrer_fees_sf, pending_referrer_fees_sf,
    mint_total_supply,
    market_price_sf, market_price_last_updated_ts,
    deposit_limit_crossed_slot, borrow_limit_crossed_slot,
    last_update,            \* reserve -> [slot, stale, price_status]
    amount_unclaimed_sf,    \* ReferrerTokenState of each reserve's mint
    deposits,               \* obligation -> slot -> [deposit_reserve, deposited_amount]
    borrows,                \* obligation -> slot -> [borrow_reserve, borrowed_amount_sf, cumulative_borrow_rate_bsf]
    deposits_asset_tiers,   \* obligation -> slot -> asset tier of the reserve in it
    borrows_asset_tiers,
    has_debt,               \* obligation -> Obligation.has_debt
    supply_vault, collateral_vault,    \* token accounts of each reserve
    fee_vault,              \* what the receivers of its fees have been paid
    wallet,                 \* obligation -> reserve -> liquidity the customer holds
    overdrawn,              \* auxiliary, not in the code: reserve -> by how much a forgiven
                            \* debt exceeded the reserve's total, when the total wrapped
    slot                    \* the clock

fees == <<accumulated_protocol_fees_sf, accumulated_referrer_fees_sf,
          pending_referrer_fees_sf, amount_unclaimed_sf>>
prices == <<market_price_sf, market_price_last_updated_ts>>
limits == <<deposit_limit_crossed_slot, borrow_limit_crossed_slot>>
books == <<available_amount, borrowed_amount_sf, cumulative_borrow_rate_bsf, mint_total_supply>>
tiers == <<deposits_asset_tiers, borrows_asset_tiers>>
obligations == <<deposits, borrows, tiers, has_debt>>
tokens == <<supply_vault, fee_vault, collateral_vault, wallet>>
vars == <<fees, prices, limits, books, obligations, tokens, last_update, overdrawn, slot>>

-----------------------------------------------------------------------------
EmptyDeposit == [deposit_reserve |-> NoReserve, deposited_amount |-> 0]
EmptyBorrow == [borrow_reserve |-> NoReserve, borrowed_amount_sf |-> 0,
                cumulative_borrow_rate_bsf |-> 0]

\* What the tables hold.
LastUpdate == [slot : Nat, stale : BOOLEAN, price_status : SUBSET Flags]
ObligationCollateral == [deposit_reserve : Reserves \cup {NoReserve}, deposited_amount : Nat]
ObligationLiquidity == [borrow_reserve : Reserves \cup {NoReserve}, borrowed_amount_sf : Nat,
                        cumulative_borrow_rate_bsf : Nat]

\* ReserveLiquidity::new: everything empty, the borrow rate at one.
InitLiquidity ==
    /\ available_amount = [r \in Reserves |-> 0]
    /\ borrowed_amount_sf = [r \in Reserves |-> 0]
    /\ accumulated_protocol_fees_sf = [r \in Reserves |-> 0]
    /\ accumulated_referrer_fees_sf = [r \in Reserves |-> 0]
    /\ pending_referrer_fees_sf = [r \in Reserves |-> 0]
    /\ market_price_sf = [r \in Reserves |-> 0]
    /\ market_price_last_updated_ts = [r \in Reserves |-> 0]
    /\ deposit_limit_crossed_slot = [r \in Reserves |-> 0]
    /\ borrow_limit_crossed_slot = [r \in Reserves |-> 0]
    /\ cumulative_borrow_rate_bsf = [r \in Reserves |-> ONE]

\* Reserve::init, with ReserveCollateral::new and LastUpdate::new, which is stale.
InitReserves ==
    /\ mint_total_supply = [r \in Reserves |-> 0]
    /\ last_update = [r \in Reserves |-> [slot |-> 0, stale |-> TRUE, price_status |-> {}]]

\* Obligation::init.
InitObligations ==
    /\ deposits = [o \in Obligations |-> [i \in 1..MaxDeposits |-> EmptyDeposit]]
    /\ borrows = [o \in Obligations |-> [i \in 1..MaxBorrows |-> EmptyBorrow]]
    /\ deposits_asset_tiers = [o \in Obligations |-> [i \in 1..MaxDeposits |-> NoTier]]
    /\ borrows_asset_tiers = [o \in Obligations |-> [i \in 1..MaxBorrows |-> NoTier]]
    /\ has_debt = [o \in Obligations |-> FALSE]

Init ==
    /\ InitLiquidity /\ InitReserves /\ InitObligations
    /\ amount_unclaimed_sf = [r \in Reserves |-> 0]
    /\ supply_vault = [r \in Reserves |-> 0]
    /\ fee_vault = [r \in Reserves |-> 0]
    /\ collateral_vault = [r \in Reserves |-> 0]
    /\ wallet = Funds
    /\ overdrawn = [r \in Reserves |-> 0]
    /\ slot = 0

-----------------------------------------------------------------------------
\* What the reserve owns and is owed, and what it owes to the receivers of fees.
Assets(r) == FromNum(available_amount[r]) + borrowed_amount_sf[r]
FeesOwed(r) == accumulated_protocol_fees_sf[r] + accumulated_referrer_fees_sf[r]
                   + pending_referrer_fees_sf[r]

\* ReserveLiquidity::total_supply, a difference that wraps (the release build has
\* no overflow checks), and Reserve::collateral_exchange_rate.
TotalSupply(r) == (Assets(r) - FeesOwed(r)) % FRACTION_MOD
CollateralExchangeRate(r) == ExchangeRate(mint_total_supply[r], TotalSupply(r))

\* ReserveLiquidity::utilization_rate.
UtilizationRate(r) ==
    IF TotalSupply(r) = 0 THEN 0 ELSE Quot(borrowed_amount_sf[r], TotalSupply(r))

\* LastUpdate::is_stale: marked, or not refreshed in this slot, or refreshed
\* with a price that fails one of the checks asked for.
IsStale(r, min_price_status) ==
    \/ last_update[r].stale
    \/ slot - last_update[r].slot >= 1
    \/ ~(min_price_status \subseteq last_update[r].price_status)

MarkStale(r) == last_update' = [last_update EXCEPT ![r].stale = TRUE]

\* The slot an obligation uses for a reserve: the one that names it, else the
\* first empty one.  No such slot is ObligationReserveLimit.
First(S) == CHOOSE i \in S : \A j \in S : i <= j
SlotsOf(table, r) == {i \in DOMAIN table : table[i] = r}
DepositReserves(o) == [i \in 1..MaxDeposits |-> deposits[o][i].deposit_reserve]
BorrowReserves(o) == [i \in 1..MaxBorrows |-> borrows[o][i].borrow_reserve]
HasSlot(table, r) == SlotsOf(table, r) # {} \/ SlotsOf(table, NoReserve) # {}

SlotFor(table, r) ==
    IF SlotsOf(table, r) # {} THEN First(SlotsOf(table, r)) ELSE First(SlotsOf(table, NoReserve))

-----------------------------------------------------------------------------
\* The steps the instructions are made of.  ReserveLiquidity::deposit and withdraw:
\* the addition is checked, too much lent out is InsufficientLiquidity.
LiquidityDeposit(r, liquidity_amount) ==
    /\ available_amount[r] + liquidity_amount <= U64MAX
    /\ available_amount' = [available_amount EXCEPT ![r] = @ + liquidity_amount]
LiquidityWithdraw(r, liquidity_amount) ==
    /\ liquidity_amount <= available_amount[r]
    /\ available_amount' = [available_amount EXCEPT ![r] = @ - liquidity_amount]

\* ReserveCollateral::mint and burn.
Mint(r, collateral_amount) ==
    /\ mint_total_supply[r] + collateral_amount <= U64MAX
    /\ mint_total_supply' = [mint_total_supply EXCEPT ![r] = @ + collateral_amount]
Burn(r, collateral_amount) ==
    /\ collateral_amount <= mint_total_supply[r]
    /\ mint_total_supply' = [mint_total_supply EXCEPT ![r] = @ - collateral_amount]

\* ReserveLiquidity::borrow books the whole units out and the whole Fraction as debt.
LiquidityBorrow(r, borrow_f) ==
    /\ LiquidityWithdraw(r, ToFloor(borrow_f))
    /\ borrowed_amount_sf' = [borrowed_amount_sf EXCEPT ![r] = @ + borrow_f]

\* Mutant: the debt settled is not taken off the reserve's own total.
BorrowedAfterRepay_Kept(borrowed, settled) == borrowed

\* ReserveLiquidity::repay; the debt never goes below zero.
BorrowedAfterRepay(borrowed, settled) == borrowed - Least(settled, borrowed)
LiquidityRepay(r, repay_amount, settled) ==
    /\ LiquidityDeposit(r, repay_amount)
    /\ borrowed_amount_sf' = [borrowed_amount_sf EXCEPT ![r] = BorrowedAfterRepay(@, settled)]

\* utils/token_transfer.rs.  A customer pays liquidity in and its collateral is
\* minted; collateral is burned and liquidity paid out; a loan is paid out and its
\* origination fee to the receiver; a loan is repaid; fees are paid out.
DepositTransfer(o, r, liquidity_amount, collateral_amount) ==
    /\ liquidity_amount <= wallet[o][r]
    /\ wallet' = [wallet EXCEPT ![o][r] = @ - liquidity_amount]
    /\ supply_vault' = [supply_vault EXCEPT ![r] = @ + liquidity_amount]
    /\ collateral_vault' = [collateral_vault EXCEPT ![r] = @ + collateral_amount]
    /\ UNCHANGED fee_vault
WithdrawAndRedeemTransfer(o, r, collateral_amount, liquidity_amount) ==
    /\ collateral_vault' = [collateral_vault EXCEPT ![r] = @ - collateral_amount]
    /\ supply_vault' = [supply_vault EXCEPT ![r] = @ - liquidity_amount]
    /\ wallet' = [wallet EXCEPT ![o][r] = @ + liquidity_amount]
    /\ UNCHANGED fee_vault
BorrowTransfer(o, r, receive_amount, fee) ==
    /\ supply_vault' = [supply_vault EXCEPT ![r] = @ - receive_amount - fee]
    /\ fee_vault' = [fee_vault EXCEPT ![r] = @ + fee]
    /\ wallet' = [wallet EXCEPT ![o][r] = @ + receive_amount]
    /\ UNCHANGED collateral_vault
RepayTransfer(o, r, repay_amount) ==
    /\ repay_amount <= wallet[o][r]
    /\ wallet' = [wallet EXCEPT ![o][r] = @ - repay_amount]
    /\ supply_vault' = [supply_vault EXCEPT ![r] = @ + repay_amount]
    /\ UNCHANGED <<collateral_vault, fee_vault>>
WithdrawFeesTransfer(r, withdraw_amount) ==
    /\ supply_vault' = [supply_vault EXCEPT ![r] = @ - withdraw_amount]
    /\ fee_vault' = [fee_vault EXCEPT ![r] = @ + withdraw_amount]
    /\ UNCHANGED <<collateral_vault, wallet>>

-----------------------------------------------------------------------------
\* Mutant: the part of the referrers stays with the protocol as well.
Interest_CountedTwice(r) ==
    LET n == slot - last_update[r].slot
        debt == borrowed_amount_sf[r]
        rate == ApproximateCompoundedInterest(
                    GetBorrowRate(Config[r].borrow_rate_curve, UtilizationRate(r)), n)
        gained == Mul(debt, rate) - debt
    IN  [rate |-> rate, debt |-> gained, protocol |-> gained, referrers |-> gained]

\* ReserveLiquidity::compound_interest: what the debt and the three fee totals
\* gain.  The fixed rate goes to the protocol; of the variable interest it takes
\* its rate, less the part set aside for referrers.
Interest(r) ==
    LET n == slot - last_update[r].slot
        debt == borrowed_amount_sf[r]
        fixed_rate == FromBps(Config[r].host_fixed_interest_rate_bps)
        rate == ApproximateCompoundedInterest(
                    GetBorrowRate(Config[r].borrow_rate_curve, UtilizationRate(r)) + fixed_rate, n)
        take == FromPercent(Config[r].protocol_take_rate_pct)
        gained == Mul(debt, rate) - debt
        fixed == Mul(debt, ApproximateCompoundedInterest(fixed_rate, n)) - debt
        referrers == Mul(gained - fixed, Mul(take, FromBps(ReferralFeeBps)))
    IN  [rate |-> rate, debt |-> gained,
         protocol |-> fixed + Mul(gained - fixed, take) - referrers,
         referrers |-> referrers]

\* Reserve::accrue_interest: nothing within one slot.
AccrueInterest(r) ==
    IF slot > last_update[r].slot
    THEN /\ cumulative_borrow_rate_bsf' = [cumulative_borrow_rate_bsf EXCEPT
                                              ![r] = Mul(@, Interest(r).rate)]
         /\ borrowed_amount_sf' = [borrowed_amount_sf EXCEPT ![r] = @ + Interest(r).debt]
         /\ accumulated_protocol_fees_sf' = [accumulated_protocol_fees_sf EXCEPT
                                                ![r] = @ + Interest(r).protocol]
         /\ pending_referrer_fees_sf' = [pending_referrer_fees_sf EXCEPT
                                            ![r] = @ + Interest(r).referrers]
    ELSE UNCHANGED <<cumulative_borrow_rate_bsf, borrowed_amount_sf,
                     accumulated_protocol_fees_sf, pending_referrer_fees_sf>>

\* Reserve::deposit_limit_crossed and borrow_limit_crossed.
DepositLimitCrossed(r) == TotalSupply(r) > FromNum(Config[r].deposit_limit)
BorrowLimitCrossed(r) == borrowed_amount_sf[r] > FromNum(Config[r].borrow_limit)

\* Mutant: every refresh after the crossing counts as a new one.
CrossedSlot_Again(old, crossed) == IF crossed THEN slot ELSE 0

\* update_deposit_limit_crossed_slot and update_borrow_limit_crossed_slot: when
\* the limit was crossed, 0 when it is not.
CrossedSlot(old, crossed) == IF ~crossed THEN 0 ELSE IF old = 0 THEN slot ELSE old

\* Mutant: the flags of the new price are added to those of the old.
StatusAfter_Joined(r, price) ==
    IF price # <<>> THEN last_update[r].price_status \cup price[1].status
    ELSE last_update[r].price_status

\* LastUpdate::update_slot: without a price the old status is kept, however old the
\* price it is about has become.
StatusAfter(r, price) ==
    IF price # <<>> THEN price[1].status ELSE last_update[r].price_status

\* refresh_reserve: interest, price, the slot of the refresh, and the slots in
\* which the limits were crossed.  A bound of the model: a reserve whose total of
\* debts has wrapped (see ForgiveDebt) is followed no further than that state.
RefreshReserve(r, readings) ==
    LET token_info == Config[r].token_info
        price == GetPrice(token_info, readings, slot)
    IN  /\ ~NoPriceFeed(token_info, readings)
        /\ overdrawn[r] = 0
        /\ AccrueInterest(r)
        /\ UNCHANGED <<available_amount, mint_total_supply, accumulated_referrer_fees_sf,
                       amount_unclaimed_sf, obligations, tokens, overdrawn, slot>>
        /\ IF price # <<>>
           THEN /\ market_price_sf' = [market_price_sf EXCEPT ![r] = price[1].price]
                /\ market_price_last_updated_ts' =
                      [market_price_last_updated_ts EXCEPT ![r] = price[1].timestamp]
           ELSE UNCHANGED prices
        /\ last_update' = [last_update EXCEPT
              ![r] = [slot |-> slot, stale |-> FALSE, price_status |-> StatusAfter(r, price)]]
        /\ deposit_limit_crossed_slot' = [deposit_limit_crossed_slot EXCEPT
              ![r] = CrossedSlot(@, DepositLimitCrossed(r)')]
        /\ borrow_limit_crossed_slot' = [borrow_limit_crossed_slot EXCEPT
              ![r] = CrossedSlot(@, BorrowLimitCrossed(r)')]

-----------------------------------------------------------------------------
\* Reserve::deposit_liquidity, the transfer, and for the customer's obligation
\* find_or_add_collateral_to_deposits and ObligationCollateral::deposit.
DepositReserveLiquidityAndObligationCollateral(o, r, liquidity_amount) ==
    LET minted == LiquidityToCollateral(CollateralExchangeRate(r), liquidity_amount)
        i == SlotFor(DepositReserves(o), r)
    IN  /\ liquidity_amount > 0
        /\ ~IsStale(r, {})
        /\ HasSlot(DepositReserves(o), r)
        /\ LiquidityDeposit(r, liquidity_amount)
        /\ Mint(r, minted)
        /\ DepositTransfer(o, r, liquidity_amount, minted)
        /\ deposits' = [deposits EXCEPT ![o][i] =
                           [deposit_reserve |-> r,
                            deposited_amount |-> @.deposited_amount + minted]]
        /\ deposits_asset_tiers' = [deposits_asset_tiers EXCEPT ![o][i] = Config[r].asset_tier]
        /\ MarkStale(r)
        /\ UNCHANGED <<fees, prices, limits, borrowed_amount_sf, cumulative_borrow_rate_bsf,
                       borrows, borrows_asset_tiers, has_debt, overdrawn, slot>>

\* Mutant: a slot that is emptied keeps its tier.
TierLeft_Kept(tier, taken, held) == tier

\* Obligation::withdraw and repay reset the tier of a slot they empty.
TierLeft(tier, taken, held) == IF taken = held THEN NoTier ELSE tier

\* Mutant: the slot keeps its reserve with nothing in it, and the last unit.
AfterWithdraw_KeepsUnit(deposit, amount) ==
    IF amount = deposit.deposited_amount
    THEN [deposit EXCEPT !.deposited_amount = 1]
    ELSE [deposit EXCEPT !.deposited_amount = @ - amount]

\* Obligation::withdraw: the slot is cleared when nothing is left in it.
AfterWithdraw(deposit, amount) ==
    IF amount = deposit.deposited_amount THEN EmptyDeposit
    ELSE [deposit EXCEPT !.deposited_amount = @ - amount]

\* position_of_collateral_in_deposits, Obligation::withdraw, Reserve::redeem_collateral
\* and the transfer.  A rate that rounds to zero divides by zero.
WithdrawObligationCollateralAndRedeemReserveCollateral(o, r, collateral_amount) ==
    LET i == SlotFor(DepositReserves(o), r)
        rate == CollateralExchangeRate(r)
        liquidity_amount == CollateralToLiquidity(rate, collateral_amount)
    IN  /\ SlotsOf(DepositReserves(o), r) # {}
        /\ collateral_amount > 0 /\ collateral_amount <= deposits[o][i].deposited_amount
        /\ ~IsStale(r, {})
        /\ rate > 0
        /\ Burn(r, collateral_amount)
        /\ LiquidityWithdraw(r, liquidity_amount)
        /\ WithdrawAndRedeemTransfer(o, r, collateral_amount, liquidity_amount)
        /\ deposits' = [deposits EXCEPT ![o][i] = AfterWithdraw(@, collateral_amount)]
        /\ deposits_asset_tiers' = [deposits_asset_tiers EXCEPT
              ![o][i] = TierLeft(@, collateral_amount, deposits[o][i].deposited_amount)]
        /\ MarkStale(r)
        /\ UNCHANGED <<fees, prices, limits, borrowed_amount_sf, cumulative_borrow_rate_bsf,
                       borrows, borrows_asset_tiers, has_debt, overdrawn, slot>>

-----------------------------------------------------------------------------
\* Reserve::calculate_borrow: what "all of it" comes to, and what a customer who
\* asks for a number owes for it.
BorrowFactor(r) == Greatest(ONE, FromPercent(Config[r].borrow_factor_pct))
AllItMay(r, max_value) ==
    LET worth == Quot(Quot(max_value * Config[r].decimals, market_price_sf[r]), BorrowFactor(r))
        below_limit == Greatest(0, FromNum(Config[r].borrow_limit) - borrowed_amount_sf[r])
    IN  Least(Least(worth, below_limit), FromNum(available_amount[r]))

\* Without a referrer: with one, CalculateFees shares the same fee between it and the
\* protocol, and what the borrower receives is the same.
BorrowFees(r, amount_f, inclusive) ==
    CalculateFees(amount_f, Config[r].borrow_fee_sf, inclusive, ReferralFeeBps, FALSE)

\* Mutant: the fee of "all of it" is not taken out of what is paid out.
CalculateBorrow_FeeNotTaken(r, amount, max_value) ==
    LET asked == IF amount = U64MAX THEN AllItMay(r, max_value) ELSE FromNum(amount)
        fee == BorrowFees(r, asked, amount = U64MAX).borrow_fee
    IN  [borrow_amount_f |-> asked, receive_amount |-> ToFloor(asked), borrow_fee |-> fee,
         too_small |-> FALSE, too_large |-> FALSE]

CalculateBorrow(r, amount, max_value) ==
    LET all == amount = U64MAX
        asked == IF all THEN AllItMay(r, max_value) ELSE FromNum(amount)
        fee == BorrowFees(r, asked, all).borrow_fee
        borrowed == IF all THEN asked ELSE asked + FromNum(fee)
    IN  [borrow_amount_f |-> borrowed,
         receive_amount |-> IF all THEN ToFloor(asked) - fee ELSE amount,
         borrow_fee |-> fee,
         too_small |-> BorrowTooSmall(asked, Config[r].borrow_fee_sf, all),
         too_large |-> ~all /\ Mul(Mul(borrowed, market_price_sf[r]) \div Config[r].decimals,
                                   BorrowFactor(r)) > max_value]

\* Mutant: the debt grows, but the rate it was brought up to is not recorded.
Accrued_RateNotRecorded(borrow, new_rate) ==
    IF new_rate > borrow.cumulative_borrow_rate_bsf
    THEN [borrow EXCEPT !.borrowed_amount_sf = (@ * new_rate) \div borrow.cumulative_borrow_rate_bsf]
    ELSE borrow

\* ObligationLiquidity::accrue_interest: the debt follows the reserve's rate.
Accrued(borrow, new_rate) ==
    IF new_rate > borrow.cumulative_borrow_rate_bsf
    THEN [borrow EXCEPT !.borrowed_amount_sf = (@ * new_rate) \div borrow.cumulative_borrow_rate_bsf,
                        !.cumulative_borrow_rate_bsf = new_rate]
    ELSE borrow

\* The borrow a customer's slot holds, brought up to date, or a new one.
CurrentBorrow(o, r) ==
    IF SlotsOf(BorrowReserves(o), r) # {}
    THEN Accrued(borrows[o][SlotFor(BorrowReserves(o), r)], cumulative_borrow_rate_bsf[r])
    ELSE [borrow_reserve |-> r, borrowed_amount_sf |-> 0,
          cumulative_borrow_rate_bsf |-> cumulative_borrow_rate_bsf[r]]

\* update_has_debt, after the borrows have changed.
UpdateHasDebt(o) ==
    has_debt' = [has_debt EXCEPT ![o] = \E i \in 1..MaxBorrows :
                                             borrows'[o][i].borrow_reserve # NoReserve]

\* Reserve::calculate_borrow, ReserveLiquidity::borrow, find_or_add_liquidity_to_borrows
\* and the transfers.  A receive_amount that wrapped is more than any vault holds:
\* the transfer fails.
BorrowObligationLiquidity(o, r, amount, max_value) ==
    LET borrow == CalculateBorrow(r, amount, max_value)
        i == SlotFor(BorrowReserves(o), r)
    IN  /\ amount > 0
        /\ ~IsStale(r, ALL_CHECKS)
        /\ amount = U64MAX => market_price_sf[r] > 0
        /\ ~borrow.too_small /\ ~borrow.too_large /\ borrow.receive_amount >= 0
        /\ HasSlot(BorrowReserves(o), r)
        /\ LiquidityBorrow(r, borrow.borrow_amount_f)
        /\ BorrowTransfer(o, r, borrow.receive_amount, borrow.borrow_fee)
        /\ borrows' = [borrows EXCEPT ![o][i] =
                          [CurrentBorrow(o, r) EXCEPT
                              !.borrowed_amount_sf = @ + borrow.borrow_amount_f]]
        /\ borrows_asset_tiers' = [borrows_asset_tiers EXCEPT ![o][i] = Config[r].asset_tier]
        /\ UpdateHasDebt(o)
        /\ MarkStale(r)
        /\ UNCHANGED <<fees, prices, limits, cumulative_borrow_rate_bsf, mint_total_supply,
                       deposits, deposits_asset_tiers, overdrawn, slot>>

-----------------------------------------------------------------------------
\* Reserve::calculate_repay: what is settled, and the whole units paid for it.
Settled(amount, debt) == IF amount = U64MAX THEN debt ELSE Least(FromNum(amount), debt)

\* Mutant: the units paid are those of the settled amount rounded down.
RepayAmount_Floor(settled) == ToFloor(settled)

RepayAmount(settled) == ToCeil(settled)

\* Obligation::repay: the slot is cleared when nothing is owed any more.
AfterRepay(borrow, settled) ==
    IF settled = borrow.borrowed_amount_sf THEN EmptyBorrow
    ELSE [borrow EXCEPT !.borrowed_amount_sf = @ - settled]

\* Reserve::calculate_repay, ReserveLiquidity::repay, Obligation::repay and the transfer.
RepayObligationLiquidity(o, r, amount) ==
    LET i == SlotFor(BorrowReserves(o), r)
        borrow == CurrentBorrow(o, r)
        settled == Settled(amount, borrow.borrowed_amount_sf)
    IN  /\ amount > 0
        /\ SlotsOf(BorrowReserves(o), r) # {}
        /\ ~IsStale(r, {})
        /\ LiquidityRepay(r, RepayAmount(settled), settled)
        /\ RepayTransfer(o, r, RepayAmount(settled))
        /\ borrows' = [borrows EXCEPT ![o][i] = AfterRepay(borrow, settled)]
        /\ borrows_asset_tiers' = [borrows_asset_tiers EXCEPT
              ![o][i] = TierLeft(@, settled, borrow.borrowed_amount_sf)]
        /\ UpdateHasDebt(o)
        /\ MarkStale(r)
        /\ UNCHANGED <<fees, prices, limits, cumulative_borrow_rate_bsf, mint_total_supply,
                       deposits, deposits_asset_tiers, overdrawn, slot>>

\* ReserveLiquidity::forgive_debt, with the same taken off the obligation: the
\* depositors bear the loss of a debt nobody will repay.  Unlike repay it takes the
\* debt off the reserve's total as it is: a debt that has come to exceed the total, by
\* rounding, makes the total wrap (the release build has no overflow checks).
ForgiveDebt(o, r) ==
    LET i == SlotFor(BorrowReserves(o), r)
        borrow == CurrentBorrow(o, r)
    IN  /\ SlotsOf(BorrowReserves(o), r) # {}
        /\ ~IsStale(r, ALL_CHECKS)
        /\ borrowed_amount_sf' = [borrowed_amount_sf EXCEPT
              ![r] = (@ - borrow.borrowed_amount_sf) % FRACTION_MOD]
        /\ overdrawn' = [overdrawn EXCEPT
              ![r] = Greatest(0, borrow.borrowed_amount_sf - borrowed_amount_sf[r])]
        /\ borrows' = [borrows EXCEPT ![o][i] = EmptyBorrow]
        /\ borrows_asset_tiers' = [borrows_asset_tiers EXCEPT ![o][i] = NoTier]
        /\ UpdateHasDebt(o)
        /\ MarkStale(r)
        /\ UNCHANGED <<fees, prices, limits, available_amount, cumulative_borrow_rate_bsf,
                       mint_total_supply, deposits, deposits_asset_tiers, tokens, slot>>

-----------------------------------------------------------------------------
\* Reserve::calculate_redeem_fees and get_withdraw_referrer_fees.
CalculateRedeemFees(r) == Least(available_amount[r], ToFloor(accumulated_protocol_fees_sf[r]))
GetWithdrawReferrerFees(r) ==
    Least(ToFloor(Least(amount_unclaimed_sf[r], accumulated_referrer_fees_sf[r])),
          available_amount[r])

\* ReserveLiquidity::redeem_fees and withdraw_fees_from_reserve.
RedeemFees(r) ==
    LET amount == CalculateRedeemFees(r)
    IN  /\ amount > 0
        /\ ~IsStale(r, {})
        /\ LiquidityWithdraw(r, amount)
        /\ accumulated_protocol_fees_sf' =
              [accumulated_protocol_fees_sf EXCEPT ![r] = @ - FromNum(amount)]
        /\ WithdrawFeesTransfer(r, amount)
        /\ MarkStale(r)
        /\ UNCHANGED <<prices, limits, borrowed_amount_sf, cumulative_borrow_rate_bsf,
                       mint_total_supply, accumulated_referrer_fees_sf, pending_referrer_fees_sf,
                       amount_unclaimed_sf, obligations, overdrawn, slot>>

\* The pending fees of a borrow with a referrer become the referrer's.
AccumulateReferrerFees(r) ==
    /\ pending_referrer_fees_sf[r] > 0
    /\ pending_referrer_fees_sf' = [pending_referrer_fees_sf EXCEPT ![r] = 0]
    /\ accumulated_referrer_fees_sf' =
          [accumulated_referrer_fees_sf EXCEPT ![r] = @ + pending_referrer_fees_sf[r]]
    /\ amount_unclaimed_sf' = [amount_unclaimed_sf EXCEPT ![r] = @ + pending_referrer_fees_sf[r]]
    /\ UNCHANGED <<prices, limits, books, accumulated_protocol_fees_sf, obligations, tokens,
                   last_update, overdrawn, slot>>

\* ReserveLiquidity::withdraw_referrer_fees.
WithdrawReferrerFees(r) ==
    LET amount == GetWithdrawReferrerFees(r)
    IN  /\ amount > 0
        /\ ~IsStale(r, {})
        /\ LiquidityWithdraw(r, amount)
        /\ accumulated_referrer_fees_sf' =
              [accumulated_referrer_fees_sf EXCEPT ![r] = @ - FromNum(amount)]
        /\ amount_unclaimed_sf' = [amount_unclaimed_sf EXCEPT ![r] = @ - FromNum(amount)]
        /\ WithdrawFeesTransfer(r, amount)
        /\ MarkStale(r)
        /\ UNCHANGED <<prices, limits, borrowed_amount_sf, cumulative_borrow_rate_bsf,
                       mint_total_supply, accumulated_protocol_fees_sf, pending_referrer_fees_sf,
                       obligations, overdrawn, slot>>

\* The cluster moves to the next slot.
Tick ==
    /\ slot < MaxSlot
    /\ slot' = slot + 1
    /\ UNCHANGED <<fees, prices, limits, books, obligations, tokens, last_update, overdrawn>>

-----------------------------------------------------------------------------
Next ==
    \/ \E r \in Reserves :
          \/ \E readings \in Readings : RefreshReserve(r, readings)
          \/ RedeemFees(r)
          \/ AccumulateReferrerFees(r)
          \/ WithdrawReferrerFees(r)
          \/ \E o \in Obligations :
                \/ \E a \in DepositAmounts :
                      DepositReserveLiquidityAndObligationCollateral(o, r, a)
                \/ \E a \in RedeemAmounts :
                      WithdrawObligationCollateralAndRedeemReserveCollateral(o, r, a)
                \/ \E a \in BorrowAmounts, v \in MaxDebtValues :
                      BorrowObligationLiquidity(o, r, a, v)
                \/ \E a \in RepayAmounts : RepayObligationLiquidity(o, r, a)
                \/ ForgiveDebt(o, r)
    \/ Tick

Spec == Init /\ [][Next]_vars
=============================================================================
