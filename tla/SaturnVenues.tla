----------------------------- MODULE SaturnVenues -----------------------------
(***************************************************************************)
(* What the treasury believes its positions in marginfi and in Meteora are *)
(* worth: get_value_in_marginfi with marginfi_utils.rs, and                *)
(* get_value_in_meteora with the dynamic vault's state.rs.                 *)
(*                                                                         *)
(* One bank and one vault stand for all: get_value_in_marginfi adds up six *)
(* banks that share no state.  The signature of treasury_authority that    *)
(* both instructions ask for is taken as given; SaturnRebalance says what  *)
(* comes of a program-derived signer.                                      *)
(*                                                                         *)
(* marginfi's bank and the vault's handlers are not in the repository:     *)
(* what they do to the fields that are read here is external.  The bank    *)
(* may move in any way that keeps its share values from falling and its    *)
(* loans below its assets.  A balance is stamped with the time of an       *)
(* operation, or not: its last_update serves the accounting of emissions.  *)
(***************************************************************************)
EXTENDS Integers

CONSTANTS
    ONE,                \* I80F48::ONE, in bits
    SECONDS_PER_YEAR,   \* 31,536,000 in the code
    U64,                \* 2^64 in the code
    DENOMINATOR,        \* LOCKED_PROFIT_DEGRADATION_DENOMINATOR, 10^12 in the code
    PRICE_PRECISION,
    locked_profit_degradation   \* how much of the profit each second unlocks

\* Bounds of the model: the amounts customers move and lock, how far share values rise,
\* what a report brings and the part of it that is the fee, the most a vault holds or
\* a pool has locked, the seconds the clock counts.
CONSTANTS BankShares, Liabilities, Amounts, MaxShareValue, Profits, Fees, MaxTotal, MaxNow

ASSUME VenuesAssumption ==
    /\ ONE \in Nat /\ ONE % 10 = 0 /\ ONE > 0
    /\ SECONDS_PER_YEAR \in Nat \ {0} /\ DENOMINATOR \in Nat \ {0}
    /\ locked_profit_degradation \in 0..DENOMINATOR
    /\ U64 \in Nat /\ U64 > MaxNow /\ PRICE_PRECISION \in Nat \ {0}
    /\ BankShares \subseteq Nat \ {0} /\ Liabilities \subseteq Nat
    /\ Amounts \subseteq Nat \ {0} /\ Profits \subseteq Nat /\ Fees \subseteq Nat
    /\ MaxShareValue \in Nat /\ MaxShareValue >= ONE
    /\ MaxTotal \in Nat /\ MaxNow \in Nat

VARIABLES
    asset_share_value, liability_share_value,       \* marginfi: Bank
    other_asset_shares, total_liability_shares,     \* the treasury's own left out of the first
    asset_shares, last_update,      \* the treasury's Balance
    marginfi_lend_assets, marginfi_lend_value,      \* Treasury
    total_amount, lp_supply,        \* dynamic vault: Vault and its lp_mint
    last_updated_locked_profit, last_report,        \* its LockedProfitTracker
    total_locked_lp,                \* dynamic-amm: Pool
    now                             \* the clock

bank == <<asset_share_value, liability_share_value, other_asset_shares, total_liability_shares>>
balance == <<asset_shares, last_update>>
treasury == <<marginfi_lend_assets, marginfi_lend_value>>
tracker == <<last_updated_locked_profit, last_report>>
vault == <<total_amount, lp_supply, tracker>>
vars == <<bank, balance, treasury, vault, total_locked_lp, now>>

Init ==
    /\ asset_share_value = ONE /\ liability_share_value = ONE
    /\ other_asset_shares \in BankShares /\ total_liability_shares = 0
    /\ asset_shares = 0 /\ last_update = 0
    /\ marginfi_lend_assets = 0 /\ marginfi_lend_value = 0
    /\ total_amount = 0 /\ lp_supply = 0
    /\ last_updated_locked_profit = 0 /\ last_report = 0
    /\ total_locked_lp = 0
    /\ now = 0

-----------------------------------------------------------------------------
(* marginfi: numbers are I80F48, as integers in units of 1/ONE *)

Mul(f, g) == (f * g) \div ONE
Quot(f, g) == (f * ONE) \div g
ToNum(f) == f \div ONE

\* Mutant: the first line leads to the highest rate.
interest_rate_curve_MaxAtBend(ur) ==
    LET optimal_ur == 6 * (ONE \div 10)
        plateau_ir == 4 * (ONE \div 10)
    IN  IF ur <= optimal_ur THEN Mul(Quot(ur, optimal_ur), 3 * ONE)
        ELSE Mul(Quot(ur - optimal_ur, ONE - optimal_ur), 3 * ONE - plateau_ir) + plateau_ir

\* Mutant: the second line starts at no use at all.
interest_rate_curve_NotShifted(ur) ==
    LET optimal_ur == 6 * (ONE \div 10)
        plateau_ir == 4 * (ONE \div 10)
    IN  IF ur <= optimal_ur THEN Mul(Quot(ur, optimal_ur), plateau_ir)
        ELSE Mul(Quot(ur, ONE - optimal_ur), 3 * ONE - plateau_ir) + plateau_ir

\* 0 to 40 % up to a use of 60 %, and on to 300 % at full use.
interest_rate_curve(ur) ==
    LET optimal_ur == 6 * (ONE \div 10)
        plateau_ir == 4 * (ONE \div 10)
    IN  IF ur <= optimal_ur THEN Mul(Quot(ur, optimal_ur), plateau_ir)
        ELSE Mul(Quot(ur - optimal_ur, ONE - optimal_ur), 3 * ONE - plateau_ir) + plateau_ir

\* calc_interest_rate: what the borrowers pay, spread over all of the assets.
calc_interest_rate(ur) == Mul(interest_rate_curve(ur), ur)

\* get_asset_amount, and get_liability_amount, which divides by the share value.
get_asset_amount(share_value, shares) == Mul(shares, share_value)
get_liability_amount(share_value, shares) == Quot(shares, share_value)

\* calc_accrued_interest_payment_per_period: simple interest on the share value.
calc_accrued_interest(apr, time_delta, value) ==
    Mul(value, ONE + (apr * time_delta) \div SECONDS_PER_YEAR)

TotalAssets == get_asset_amount(asset_share_value, other_asset_shares + asset_shares)
UtilizationRate ==
    Quot(get_liability_amount(liability_share_value, total_liability_shares), TotalAssets)

\* cal_user_total_asset_in_marginfi: the share value the bank has stored, with the
\* interest since the balance, not the bank, was last touched.
TimeDelta == (now - last_update) % U64
MarginfiValue ==
    get_asset_amount(calc_accrued_interest(calc_interest_rate(UtilizationRate), TimeDelta,
                                           asset_share_value),
                     asset_shares)

\* Mutant: the shares are rounded up.
RecordedAssets_Ceil == (asset_shares + ONE - 1) \div ONE

\* The shares, as a number of tokens, rounded down.
RecordedAssets == ToNum(asset_shares)

\* get_value_in_marginfi: a bank whose assets are zero divides by zero.
GetValueInMarginfi ==
    /\ TimeDelta # 0 => TotalAssets # 0
    /\ marginfi_lend_assets' = RecordedAssets
    /\ marginfi_lend_value' = MarginfiValue
    /\ UNCHANGED <<bank, balance, vault, total_locked_lp, now>>

\* The bank lends no more than is deposited; a loan is worth its shares times their value.
LoansCovered == get_asset_amount(liability_share_value, total_liability_shares) <= TotalAssets

\* The treasury lends and withdraws; shares are rounded in the bank's favour.
Stamped == last_update' \in {last_update, now}
MarginfiLend(amount) ==
    /\ asset_shares' = asset_shares + Quot(amount * ONE, asset_share_value)
    /\ asset_shares' <= MaxTotal * ONE
    /\ Stamped
    /\ UNCHANGED <<bank, treasury, vault, total_locked_lp, now>>

SharesFor(amount) == (amount * ONE * ONE + asset_share_value - 1) \div asset_share_value
Withdrawable(amount) == SharesFor(amount) <= asset_shares

MarginfiWithdraw(amount) ==
    /\ Withdrawable(amount)
    /\ asset_shares' = asset_shares - SharesFor(amount)
    /\ Stamped
    /\ UNCHANGED <<bank, treasury, vault, total_locked_lp, now>>
    /\ LoansCovered'

\* The bank and its other customers: interest raises both share values.
BankMoves ==
    /\ asset_share_value' \in asset_share_value..MaxShareValue
    /\ liability_share_value' \in liability_share_value..MaxShareValue
    /\ other_asset_shares' \in BankShares
    /\ total_liability_shares' \in Liabilities
    /\ UNCHANGED <<balance, treasury, vault, total_locked_lp, now>>
    /\ LoansCovered'

-----------------------------------------------------------------------------
(* Meteora's dynamic vault *)

\* Mutants: the part unlocked is taken for the part locked; the ratio has no end.
LockedProfit_Swapped(at) ==
    LET locked_fund_ratio == (at - last_report) * locked_profit_degradation
    IN  IF locked_fund_ratio > DENOMINATOR THEN 0
        ELSE (last_updated_locked_profit * locked_fund_ratio) \div DENOMINATOR
LockedProfit_NoEnd(at) ==
    (last_updated_locked_profit * (DENOMINATOR - (at - last_report) * locked_profit_degradation))
        \div DENOMINATOR

\* LockedProfitTracker::calculate_locked_profit: the part of the profit last reported
\* that is not unlocked yet.
LockedProfit(at) ==
    LET locked_fund_ratio == (at - last_report) * locked_profit_degradation
    IN  IF locked_fund_ratio > DENOMINATOR THEN 0
        ELSE (last_updated_locked_profit * (DENOMINATOR - locked_fund_ratio)) \div DENOMINATOR

\* Vault::get_unlocked_amount; below zero is None, which every caller unwraps.
UnlockedAmount(at) == total_amount - LockedProfit(at)

\* Mutants: what a share is paid is rounded up, or is a part of the locked profit too.
get_amount_by_share_Ceil(share) ==
    (share * UnlockedAmount(now) + lp_supply - 1) \div lp_supply
get_amount_by_share_Locked(share) == (share * total_amount) \div lp_supply

\* Vault::get_amount_by_share and get_unmint_amount.
get_amount_by_share(share) == (share * UnlockedAmount(now)) \div lp_supply
get_unmint_amount(out_token) == (out_token * lp_supply) \div UnlockedAmount(now)

\* get_value_in_meteora: the a vault stands for both, and the vault's whole amount
\* is divided by the pool's locked tokens.  With none locked the division is None, its
\* unwrap panics and there is no price.
VirtualPrice == (2 * UnlockedAmount(now) * PRICE_PRECISION) \div total_locked_lp

\* dynamic-amm's lock, open to every holder of the pool's tokens, adds to those locked.
\* Nothing there unlocks them.
Lock(amount) ==
    /\ total_locked_lp + amount <= MaxTotal
    /\ total_locked_lp' = total_locked_lp + amount
    /\ UNCHANGED <<bank, balance, treasury, vault, now>>

\* Whoever deposits first gets a share for each token.
VaultDeposit(amount) ==
    /\ lp_supply > 0 => UnlockedAmount(now) > 0
    /\ total_amount + amount <= MaxTotal
    /\ total_amount' = total_amount + amount
    /\ lp_supply' = lp_supply + IF lp_supply = 0 THEN amount ELSE get_unmint_amount(amount)
    /\ UNCHANGED <<tracker, bank, balance, treasury, total_locked_lp, now>>

VaultWithdraw(share) ==
    /\ lp_supply > 0 /\ share <= lp_supply
    /\ total_amount' = total_amount - get_amount_by_share(share)
    /\ lp_supply' = lp_supply - share
    /\ UNCHANGED <<tracker, bank, balance, treasury, total_locked_lp, now>>

\* A report: the profit is locked, but for the fee, for which shares are minted.
VaultReport(profit, fee) ==
    /\ fee <= profit
    /\ lp_supply > 0 /\ UnlockedAmount(now) > 0
    /\ total_amount + profit <= MaxTotal
    /\ total_amount' = total_amount + profit
    /\ lp_supply' = lp_supply + get_unmint_amount(fee)
    /\ last_updated_locked_profit' = LockedProfit(now) + profit - fee
    /\ last_report' = now
    /\ UNCHANGED <<bank, balance, treasury, total_locked_lp, now>>

Tick ==
    /\ now < MaxNow
    /\ now' = now + 1
    /\ UNCHANGED <<bank, balance, treasury, vault, total_locked_lp>>

-----------------------------------------------------------------------------
MarginfiNext ==
    \/ GetValueInMarginfi
    \/ \E amount \in Amounts : MarginfiLend(amount)
    \/ \E amount \in Amounts : MarginfiWithdraw(amount)
    \/ BankMoves
    \/ Tick

VaultNext ==
    \/ \E amount \in Amounts : VaultDeposit(amount)
    \/ \E share \in Amounts : VaultWithdraw(share)
    \/ \E profit \in Profits, fee \in Fees : VaultReport(profit, fee)
    \/ \E amount \in Amounts : Lock(amount)
    \/ Tick

Next == MarginfiNext \/ VaultNext

Spec == Init /\ [][Next]_vars
=============================================================================
