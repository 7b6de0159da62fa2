------------------------ MODULE SaturnVenuesProperties ------------------------
(***************************************************************************)
(* What the values the treasury records of its venues can be trusted for.  *)
(***************************************************************************)
EXTENDS SaturnVenues

\* The type of the state: nothing is negative, and no balance was touched, and no
\* profit reported, later than now.
TypeOK ==
    /\ asset_share_value \in ONE..MaxShareValue /\ liability_share_value \in ONE..MaxShareValue
    /\ other_asset_shares \in BankShares /\ total_liability_shares \in Liabilities \cup {0}
    /\ asset_shares \in Nat /\ last_update \in 0..now
    /\ marginfi_lend_assets \in Nat /\ marginfi_lend_value \in Nat
    /\ total_amount \in 0..MaxTotal /\ lp_supply \in Nat
    /\ last_updated_locked_profit \in Nat /\ last_report \in 0..now
    /\ total_locked_lp \in 0..MaxTotal
    /\ now \in 0..MaxNow

-----------------------------------------------------------------------------
\* get_value_in_marginfi never records less than the bank would pay out at the share
\* value it has stored, nor more than that with interest at 300 % a year, the rate of
\* full use, since the balance was last touched: whatever customers have lent and
\* borrowed in the meantime, the estimate does not run away.
MarginfiValueBounded ==
    LET stored == get_asset_amount(asset_share_value, asset_shares)
        most == ONE + (3 * ONE * (now - last_update)) \div SECONDS_PER_YEAR
    IN  /\ MarginfiValue >= stored
        /\ MarginfiValue <= Mul(Mul(asset_share_value, most), asset_shares)

\* What is recorded as the amount to withdraw is a number of shares, not of tokens.
\* Once the balance can pay that number of tokens it still can after any interest, any
\* loan and any new record, so that marginfi_withdraw does not fail on an old record;
\* only a withdrawal uses it up.  It says nothing of the interest, which the record
\* leaves behind: that less is recorded than could be withdrawn is what the code does.
RecordedAssetsWithdrawable ==
    [][Withdrawable(marginfi_lend_assets) =>
          Withdrawable(marginfi_lend_assets)' \/ \E amount \in Amounts : MarginfiWithdraw(amount)]_vars

\* The lending rate never falls as more of the bank is borrowed, across the bend of
\* the curve and its rounding.  It depends on no variable: judged once.
RateGrowsWithUse == Init =>
    \A ur \in 0..(2 * ONE) : calc_interest_rate(ur) <= calc_interest_rate(ur + 1)

-----------------------------------------------------------------------------
\* The vault always has the profit it keeps locked, so that get_unlocked_amount is
\* not None and its unwrap in get_value_in_meteora does not panic, whoever withdraws
\* whatever part of the vault between two reports.  The division there by the locked
\* tokens of the pool is another matter: VirtualPriceKept.
LockedProfitCovered == UnlockedAmount(now) >= 0

\* Once a token of the pool is locked get_value_in_meteora never divides by zero again,
\* and the price it computes falls only when somebody withdraws from the vault or locks
\* more of the pool's tokens: not as time unlocks a profit, not when the next report
\* comes in before or after the whole of the last one is unlocked.  Before that it
\* panics.
VirtualPriceKept ==
    [][total_locked_lp > 0 =>
          /\ total_locked_lp' > 0
          /\ \/ VirtualPrice' >= VirtualPrice
             \/ \E share \in Amounts : VaultWithdraw(share)
             \/ \E amount \in Amounts : Lock(amount)]_vars

\* The unlocked amount behind a share never falls: a deposit, a withdrawal and a fee
\* each round in favour of those who stay.
VaultShareKept ==
    [][lp_supply > 0 =>
          UnlockedAmount(now)' * lp_supply >= UnlockedAmount(now) * lp_supply']_vars
=============================================================================
