--------------------------- MODULE SaturnRebalance ---------------------------
(***************************************************************************)
(* The rebalance cycle of the saturn-v1 program: record what the venues    *)
(* hold (get_value_in_kamino, get_value_in_marginfi), add it up            *)
(* (calcu_balance), compute percentages (reallocate), withdraw from the    *)
(* venues (klend_withdraw, marginfi_withdraw) and lend again (klend_lend,  *)
(* marginfi_lend, meteora_deposit).  Each is a transaction of its own; the *)
(* sequence_flag account alone keeps them in order.                        *)
(*                                                                         *)
(* get_value_in_meteora changes no account and is no action.  Bonds and    *)
(* swaps, which also move the treasury's tokens, are not part of this      *)
(* module.                                                                 *)
(*                                                                         *)
(* Two constraints are taken as met that no account meets:                 *)
(* get_value_in_kamino.rs:39 and get_value_in_marginfi.rs:45 want a        *)
(* reserve and a bank whose mint is SOL_MINT, the address of the system    *)
(* program.  With WSOL_MINT, which the constants have too, they could be.  *)
(***************************************************************************)
EXTENDS Integers, Sums

CONSTANTS
    Mints,              \* the mints lent: Kamino has a reserve, marginfi a bank for each
    sol, usdc, usdt, wbtc,
    InitialDeposits,    \* collateral of each reserve the treasury's obligation holds
    InitialShares,      \* asset shares of each bank the treasury's account holds
    InitialWallet,      \* base units of each mint the treasury holds
    Unit,               \* base units in a token of each mint
    Exponent,           \* the exponent of each mint's Pyth feed
    AuthorityCanSign    \* whether any transaction carries treasury_authority's signature

\* Bounds of the model, none of them in the code: the prices, the arguments of
\* reallocate, how far exchange rates and share values rise; RiskScale makes the
\* ratings of Rates integers.
CONSTANTS Prices, Rates, MaxExchangeRate, MaxShareValue, RiskScale

Venues == {"kamino", "marginfi"}

\* marginfi, kamino, meteora, jupiterperps, usdcoin, btc, sol, by their id.
Platforms == 1..7
PlatformType == <<1, 1, 2, 3, 4, 4, 4>>
PLATFORM_ALLOCATION == <<35, 25, 10, 30>>
MarginfiId == 1
KaminoId == 2

\* What calcu_balance counts of the treasury's own accounts.
ValuedMints == {sol, usdc, wbtc}

ASSUME MintsAssumption ==
    IsFiniteSet(Mints) /\ {sol, usdc, usdt, wbtc} \subseteq Mints /\ usdc # sol
ASSUME PositionAssumption ==
    /\ InitialDeposits \in [Mints -> Nat] /\ InitialShares \in [Mints -> Nat]
    /\ InitialWallet \in [Mints -> Nat] /\ Unit \in [Mints -> Nat \ {0}]
ASSUME FeedAssumption ==
    /\ Exponent \in [Mints -> Int] /\ Prices \subseteq Nat /\ AuthorityCanSign \in BOOLEAN
    /\ \A m \in Mints : Exponent[m] >= 0 => 10 ^ Exponent[m] \in Nat
ASSUME RateAssumption ==
    /\ MaxExchangeRate \in [Mints -> Nat] /\ MaxShareValue \in [Mints -> Nat]
    /\ RiskScale \in Nat \ {0}
    /\ Rates \subseteq [return_rate : [Platforms -> Nat], risk_rating : [Platforms -> Nat]]
    /\ \A r \in Rates, p \in Platforms :
           r.risk_rating[p] # 0 => RiskScale % r.risk_rating[p] = 0

VARIABLES
    flag,               \* SequenceFlag; flag_jupiter and flag_swap are never read
    lend_assets,        \* Treasury.kamino_lend_assets, marginfi_lend_assets
    lend_value,         \* Treasury.kamino_lend_value, marginfi_lend_value
    treasury_value,     \* Treasury.treasury_value
    allocation,         \* Treasury.*_allocation as a quotient, in percent
    deposits,           \* klend: Obligation.deposits, 0 for a reserve without an entry
    exchange_rate,      \* klend: liquidity per two units of collateral
    fresh,              \* klend: Reserve.last_update is not stale in the current slot
    shares,             \* marginfi: asset_shares of the treasury's balances
    share_value,        \* marginfi: Bank.asset_share_value, amount per two shares
    wallet,             \* the treasury's token accounts
    withdrawals         \* history: withdrawals of each venue since calcu_balance

treasuryVars == <<lend_assets, lend_value, treasury_value, allocation>>
klendVars == <<deposits, exchange_rate, fresh>>
marginfiVars == <<shares, share_value>>
vars == <<flag, treasuryVars, klendVars, marginfiVars, wallet, withdrawals>>

Flags == [calcu_balance : BOOLEAN, reallocate : BOOLEAN, marginfi : BOOLEAN,
          kamino : BOOLEAN, meteora : BOOLEAN]
Allocations == [share : Nat, of : Nat \ {0}]

TypeOK ==
    /\ flag \in Flags
    /\ lend_assets \in [Venues -> Nat]
    /\ lend_value \in [Venues -> Nat]
    /\ treasury_value \in Nat
    /\ allocation \in [Platforms -> Allocations]
    /\ deposits \in [Mints -> Nat]
    /\ exchange_rate \in [Mints -> Nat]
    /\ fresh \in [Mints -> BOOLEAN]
    /\ shares \in [Mints -> Nat]
    /\ share_value \in [Mints -> Nat \ {0}]
    /\ wallet \in [Mints -> Nat]
    /\ withdrawals \in [Venues -> Nat]

Init ==
    /\ flag = [calcu_balance |-> FALSE, reallocate |-> FALSE, marginfi |-> FALSE,
               kamino |-> FALSE, meteora |-> FALSE]
    /\ lend_assets = [v \in Venues |-> 0]
    /\ lend_value = [v \in Venues |-> 0]
    /\ treasury_value = 0
    /\ allocation = [p \in Platforms |-> [share |-> 0, of |-> 1]]
    /\ deposits = InitialDeposits
    /\ exchange_rate = [m \in Mints |-> 2]
    /\ fresh = [m \in Mints |-> FALSE]
    /\ shares = InitialShares
    /\ share_value = [m \in Mints |-> 2]
    /\ wallet = InitialWallet
    /\ withdrawals = [v \in Venues |-> 0]

-----------------------------------------------------------------------------
(* What the venues hold *)

\* klend's collateral_to_liquidity, rounded down.
Liquidity(m, collateral) == (collateral * exchange_rate[m]) \div 2

\* marginfi's get_asset_amount, and the shares a withdrawal takes, rounded up.
AssetAmount(m, n) == (n * share_value[m]) \div 2
SharesFor(m, amount) == (2 * amount + share_value[m] - 1) \div share_value[m]

\* The reserve under whose key the deposit of m is looked up: line 107 takes the key
\* of sol_reserve for usdc.
DepositKey(m) == IF m = usdc THEN sol ELSE m

\* The value get_value_in_kamino records: base units of different mints added up.
KaminoValue == SumOf([m \in Mints |-> Liquidity(m, deposits[DepositKey(m)])], Mints)
MarginfiValue == SumOf([m \in Mints |-> AssetAmount(m, shares[m])], Mints)

\* Mutant: a deposit that is not found counts as none.
DepositsFound_Default == TRUE

\* find(...).unwrap() on every deposit, and redeem_reserve_collateral's refusal of
\* an amount of zero.
DepositsFound == \A m \in Mints : deposits[DepositKey(m)] # 0

\* get_value_in_kamino: every reserve must have been refreshed in this slot.  That the
\* SOL reserve is one of SOL_MINT is taken as met.
GetValueInKamino ==
    /\ AuthorityCanSign
    /\ DepositsFound
    /\ \A m \in Mints : fresh[m]
    /\ lend_assets' = [lend_assets EXCEPT !["kamino"] = deposits[DepositKey(usdc)]]
    /\ lend_value' = [lend_value EXCEPT !["kamino"] = KaminoValue]
    /\ UNCHANGED <<flag, treasury_value, allocation, klendVars, marginfiVars, wallet,
                   withdrawals>>

\* get_value_in_marginfi records the shares of the USDT balance where the withdrawal
\* expects an amount.  A balance emptied by a withdrawal stays active and is found.
\* The interest it adds since the balance was touched is part of AccrueBank's rises.
\* That the SOL bank is one of SOL_MINT is taken as met.
GetValueInMarginfi ==
    /\ AuthorityCanSign
    /\ lend_assets' = [lend_assets EXCEPT !["marginfi"] = shares[usdt]]
    /\ lend_value' = [lend_value EXCEPT !["marginfi"] = MarginfiValue]
    /\ UNCHANGED <<flag, treasury_value, allocation, klendVars, marginfiVars, wallet,
                   withdrawals>>

-----------------------------------------------------------------------------
(* The balance and the allocation *)

\* Whole tokens of m at its price.  usdc is scaled with sol's exponent.  Of sol it is the
\* lamports of treasury_authority that count, not a token account: that what a
\* withdrawal brings is counted holds for sol only once it is unwrapped, which the one
\* wallet of each mint leaves out.
WalletValue(m, price) ==
    (wallet[m] \div Unit[m]) * price[m] * 10 ^ Exponent[IF m = usdc THEN sol ELSE m]

NewCycle == [calcu_balance |-> TRUE, reallocate |-> FALSE, marginfi |-> FALSE,
             kamino |-> FALSE, meteora |-> FALSE]

\* Mutants: a withdrawal of the last cycle still counts; the flag no instruction sets
\* is set.
NextFlags_KeepKamino == [NewCycle EXCEPT !.kamino = flag.kamino]
NextFlags_SetMeteora == [NewCycle EXCEPT !.meteora = TRUE]

NextFlags == NewCycle

\* calcu_balance: u32::try_from(exponent).unwrap() panics on a negative exponent.
\* The values of meteora and jupiter are never written and count as zero.
CalcuBalance(price) ==
    /\ AuthorityCanSign
    /\ Exponent[sol] >= 0 /\ Exponent[wbtc] >= 0
    /\ treasury_value' = lend_value["kamino"] + lend_value["marginfi"]
                         + SumOf([m \in ValuedMints |-> WalletValue(m, price)], ValuedMints)
    /\ flag' = NextFlags
    /\ withdrawals' = [v \in Venues |-> 0]
    /\ UNCHANGED <<lend_assets, lend_value, allocation, klendVars, marginfiVars, wallet>>

\* re_allocate: an unrated platform has risk zero.
Rating(p, rates) ==
    IF rates.risk_rating[p] = 0 THEN 0
    ELSE rates.return_rate[p] * (RiskScale \div rates.risk_rating[p])

RatingOfType(t, rates, id) == IF PlatformType[id] = t THEN Rating(id, rates) ELSE 0

\* Mutant: the ratings of all platforms are added up, whatever their type.
TotalRating_AllTypes(p, rates) ==
    Rating(1, rates) + Rating(2, rates) + Rating(3, rates) + Rating(4, rates)
    + Rating(5, rates) + Rating(6, rates) + Rating(7, rates)

TotalRating(p, rates) ==
    LET R(id) == RatingOfType(PlatformType[p], rates, id)
    IN  R(1) + R(2) + R(3) + R(4) + R(5) + R(6) + R(7)

\* Mutant: the total is not compared with zero.
NewAllocation_NoZeroCheck(p, rates) ==
    [share |-> Rating(p, rates) * PLATFORM_ALLOCATION[PlatformType[p]],
     of |-> TotalRating(p, rates)]

NewAllocation(p, rates) ==
    LET total == TotalRating(p, rates)
    IN  IF total = 0 THEN [share |-> 0, of |-> 1]
        ELSE [share |-> Rating(p, rates) * PLATFORM_ALLOCATION[PlatformType[p]], of |-> total]

\* reallocate, signed by the admin.  The present shares it computes from
\* treasury_value are never used.
ReAllocate(rates) ==
    /\ flag.calcu_balance
    /\ ~flag.reallocate
    /\ allocation' = [p \in Platforms |-> NewAllocation(p, rates)]
    /\ flag' = [flag EXCEPT !.reallocate = TRUE]
    /\ UNCHANGED <<lend_assets, lend_value, treasury_value, klendVars, marginfiVars,
                   wallet, withdrawals>>

-----------------------------------------------------------------------------
(* Withdrawals *)

\* klend: the entry must hold the amount, the reserve must be refreshed, and an
\* amount of zero is refused; a withdrawal leaves the reserve stale.  The tokens go to
\* any account of the mint the caller names, here the treasury's.
ObligationWithdraw(m, amount) ==
    /\ amount # 0 /\ amount <= deposits[m]
    /\ fresh[m]
    /\ deposits' = [deposits EXCEPT ![m] = @ - amount]
    /\ fresh' = [fresh EXCEPT ![m] = FALSE]
    /\ wallet' = [wallet EXCEPT ![m] = @ + Liquidity(m, amount)]
    /\ UNCHANGED exchange_rate

LendingAccountWithdraw(m, amount) ==
    /\ SharesFor(m, amount) <= shares[m]
    /\ shares' = [shares EXCEPT ![m] = @ - SharesFor(m, amount)]
    /\ wallet' = [wallet EXCEPT ![m] = @ + amount]
    /\ UNCHANGED share_value

CycleReady == flag.calcu_balance /\ flag.reallocate

\* Mutant: flag_kamino is not set.
KlendWithdraw_NoFlag(m) ==
    /\ AuthorityCanSign
    /\ CycleReady /\ ~flag.kamino
    /\ ObligationWithdraw(m, lend_assets["kamino"])
    /\ withdrawals' = [withdrawals EXCEPT !["kamino"] = @ + 1]
    /\ UNCHANGED <<flag, treasuryVars, marginfiVars>>

\* klend_withdraw: the amount last recorded, from the reserve the caller passes.
\* Neither the recorded assets nor the recorded value is reset.
KlendWithdraw(m) ==
    /\ AuthorityCanSign
    /\ CycleReady /\ ~flag.kamino
    /\ ObligationWithdraw(m, lend_assets["kamino"])
    /\ flag' = [flag EXCEPT !.kamino = TRUE]
    /\ withdrawals' = [withdrawals EXCEPT !["kamino"] = @ + 1]
    /\ UNCHANGED <<treasuryVars, marginfiVars>>

\* marginfi_withdraw.  The result of the call is dropped, but the runtime aborts a
\* transaction in which a called program fails.
MarginfiWithdraw(m) ==
    /\ AuthorityCanSign
    /\ CycleReady /\ ~flag.marginfi
    /\ LendingAccountWithdraw(m, lend_assets["marginfi"])
    /\ flag' = [flag EXCEPT !.marginfi = TRUE]
    /\ withdrawals' = [withdrawals EXCEPT !["marginfi"] = @ + 1]
    /\ UNCHANGED <<treasuryVars, klendVars>>

-----------------------------------------------------------------------------
(* Lending: the four instructions behind the same gate *)

LendGate == CycleReady /\ flag.kamino /\ flag.marginfi /\ flag.meteora

\* (allocation * treasury_value) * 1_000_000 as u64: the percentage is not divided
\* by a hundred.
LendAmount(p) ==
    (allocation[p].share * treasury_value * 1000000) \div allocation[p].of

\* klend_lend, for the reserve of m; klend mints the collateral, rounded down.
KaminoLend(m) ==
    LET amount == LendAmount(KaminoId) IN
    /\ LendGate
    /\ amount # 0 /\ amount <= wallet[m]
    /\ fresh[m] /\ exchange_rate[m] # 0
    /\ deposits' = [deposits EXCEPT ![m] = @ + (2 * amount) \div exchange_rate[m]]
    /\ fresh' = [fresh EXCEPT ![m] = FALSE]
    /\ wallet' = [wallet EXCEPT ![m] = @ - amount]
    /\ UNCHANGED <<flag, treasuryVars, exchange_rate, marginfiVars, withdrawals>>

MarginfiLend(m) ==
    LET amount == LendAmount(MarginfiId) IN
    /\ AuthorityCanSign
    /\ LendGate
    /\ amount <= wallet[m]
    /\ shares' = [shares EXCEPT ![m] = @ + (2 * amount) \div share_value[m]]
    /\ wallet' = [wallet EXCEPT ![m] = @ - amount]
    /\ UNCHANGED <<flag, treasuryVars, klendVars, share_value, withdrawals>>

\* meteora_deposit and meteora_withdraw forward the caller's amounts for the user's
\* token accounts; no account of this module changes.
MeteoraDeposit == AuthorityCanSign /\ LendGate /\ UNCHANGED vars
MeteoraWithdraw == AuthorityCanSign /\ LendGate /\ UNCHANGED vars

-----------------------------------------------------------------------------
(* The venues' own steps *)

\* refresh_reserve: the reserve is fresh for the rest of the slot and may have earned
\* interest.
RefreshReserve(m) ==
    /\ fresh' = [fresh EXCEPT ![m] = TRUE]
    /\ \/ UNCHANGED exchange_rate
       \/ /\ exchange_rate[m] < MaxExchangeRate[m]
          /\ exchange_rate' = [exchange_rate EXCEPT ![m] = @ + 1]
    /\ UNCHANGED <<flag, treasuryVars, deposits, marginfiVars, wallet, withdrawals>>

AdvanceSlot ==
    /\ fresh' = [m \in Mints |-> FALSE]
    /\ UNCHANGED <<flag, treasuryVars, deposits, exchange_rate, marginfiVars, wallet,
                   withdrawals>>

AccrueBank(m) ==
    /\ share_value[m] < MaxShareValue[m]
    /\ share_value' = [share_value EXCEPT ![m] = @ + 1]
    /\ UNCHANGED <<flag, treasuryVars, klendVars, shares, wallet, withdrawals>>

Next ==
    \/ GetValueInKamino
    \/ GetValueInMarginfi
    \/ \E price \in [Mints -> Prices] : CalcuBalance(price)
    \/ \E rates \in Rates : ReAllocate(rates)
    \/ \E m \in Mints : KlendWithdraw(m)
    \/ \E m \in Mints : MarginfiWithdraw(m)
    \/ \E m \in Mints : RefreshReserve(m)
    \/ AdvanceSlot
    \/ \E m \in Mints : AccrueBank(m)

Lend ==
    \/ \E m \in Mints : KaminoLend(m)
    \/ \E m \in Mints : MarginfiLend(m)
    \/ MeteoraDeposit
    \/ MeteoraWithdraw

Spec == Init /\ [][Next]_vars

\* All instructions of the program.  Spec is the same system: the gate of the four
\* others never opens.
FullSpec == Init /\ [][Next \/ Lend]_vars

\* The administrator keeps trying to take the balance.
FairSpec ==
    Spec /\ WF_vars(\E price \in [Mints -> Prices] : CalcuBalance(price))
=============================================================================
