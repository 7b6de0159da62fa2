# Saturn: a TLA+ model of the saturn-v1 program

Saturn-Finance is a Solana program, `programs/saturn-v1`, with two halves. Users
*bond*: they pay USDC or BONK into a treasury and receive STF two weeks later. Users
*stake* STF and share, through an index, in the STF minted whenever somebody bonds.
Behind them an administrator moves the treasury's funds between Kamino, marginfi and
Meteora in cycles. This directory models the program, checks the models with TLC on
small instances and proves theorems about them with TLAPS for every instance.

## 1. Inventory

| component | state it keeps | operations | what makes it correct |
|---|---|---|---|
| bonding (`apply_bond.rs`, `finish_bond.rs`) | an `Escrow` account per user; `treasury_value`, `token_minted`, `staking_index` of the treasury | take a payment, price it, credit the stakers, open the escrow; after 14 days mint what it promises | an escrow is opened once and paid once; a bond dilutes nobody; every bond can be redeemed |
| staking (`stake.rs`, `unstake.rs`) | a `UserStakeAccount` per user; `token_staked` | swap STF for shares at the index, and back | shares add up; what was staked covers them; as long as it was staked in STF, nobody loses by another's step |
| initialisation (`initialize.rs`) | creates the treasury and the sequence flags | once | it succeeds, and leaves a state the others can work from |
| rebalance cycle (`calcu_balance.rs`, `reallocate.rs`, `klend_*.rs`, `marginfi_*.rs`, `meteora_*.rs`, `utils.rs`) | seven flags, seven allocations, recorded assets and values per venue | value the treasury, compute allocations, withdraw everything, lend again | one order; nothing is withdrawn twice or lent before it is back; amounts belong to the current cycle |
| valuation (`get_value_in_*.rs`, `kamino_utils.rs`, `marginfi_utils.rs`) | recorded assets and values per venue | read another program's accounts, accrue interest, record | the value recorded is the value held |
| cashing out (`cashingout_reedem.rs`) | `token_minted`, `treasury_value` | pay out at the backing price | cannot run: its accounts cannot exist |
| swap (`swap.rs`, `jupiter_utils.rs`) | a wrapped-SOL account within one transaction | wrap, call Jupiter, unwrap | what is created is closed |
| klend: reserves and obligations (`state/reserve.rs`, `obligation.rs`, `utils/borrow_rate_curve.rs`, `fraction.rs`, `token_transfer.rs`) | a reserve's liquidity, debt, fees, limits; its token accounts; a customer's deposits and borrows | deposit, redeem, borrow, repay, forgive, accrue, pay fees | the books match the tokens; debts add up; a share never loses to a rounding |
| klend: oracle prices (`utils/prices/`, `state/token_info.rs`, `last_update.rs`) | the saved price, its time and the checks it passed | choose among Pyth, Switchboard and Scope; judge | a price that is used was fresh and sound when it was checked |
| marginfi crate | `Bank`, `Balance` | interface only: account layouts, empty handlers | share values never fall |
| dynamic-vault, dynamic-amm crates | the vault's total, its LP supply, its locked profit; the pool's locked tokens | shares to tokens, unlocking of profit, locking of pool tokens; the handlers are empty | no more is locked than is there; a share never loses |
| `cli/`, `tests/`, `migrations/` | none | build transactions | their expectations are quoted by the `finding_*` runs |

The parts share *accounts*. There are no threads: what interleaves are transactions
of different users, of the administrator and of the price publishers. A transaction is
atomic - an error, a panic, or a failing call to another program (also one whose
`Result` is dropped, as at `unstake.rs:103`) undoes all of it - so the hard behaviours
are the orders of whole instructions, values recorded by one instruction and used by a
later one, instructions sent again, the clock, and arithmetic that wraps:
`Cargo.toml:12-14` turns no overflow checks on. `PROJECT.json` lists each hazard at
its line.

## 2. Modules

    Sums                     sums over finite sets, used by every total below
      Sums_proofs            how a sum changes with its terms
    SaturnArith              the price arithmetic of apply_bond
      SaturnArith_proofs     lemmas about it
    SaturnBonding            bonding and staking: state, actions, Spec, FairSpec
      SaturnBondingProperties  invariants, action properties, liveness,
                             and the refinement of BondMarket
        MCSaturnBonding      values for TLC
        SaturnBonding_proofs inductive invariant, theorems, the refinement
    BondMarket               what a bond market promises (abstract)
    SaturnRebalance          the rebalance cycle: flags, records, venues
      SaturnRebalanceProperties, MCSaturnRebalance, SaturnRebalance_proofs
    KlendMath                klend: fractions, exchange rate, interest, curve, fees
      KlendMath_proofs       that arithmetic, for any precision
      KlendPrices            choice and checks of an oracle price
        KlendMarket          reserves, obligations, token accounts; the instructions
          KlendMarketProperties, MCKlendMarket
          KlendMarket_proofs   tables and prices
          KlendAccounts_proofs books, collateral, fees, shares, limits, types
                               (uses the three other _proofs)
    SaturnVenues             what the treasury records of marginfi and Meteora
      SaturnVenuesProperties, MCSaturnVenues, SaturnVenues_proofs

### SaturnArith

`BackingPrice`, `Premium`, `Deduction`, `Markup`, `BondPrice`, `NumTokenToMint` and
`NumTokenToRedeem` are the expressions of `apply_bond.rs:160-179`, operator by
operator, with `Wrap` where the code's u64 wraps, `ToI64` for its casts and `Saturate`
for a float cast to u64. `U64`, the modulus, is a constant: TLC takes 2^15, the proofs
any even number above 1. `treasury_value` is an f64 in the code and an integer here;
an f64 is exact up to 2^53, and its only uses are sums and one truncated quotient.

### SaturnBonding

| variable | in the code |
|---|---|
| `initialized` | the treasury account exists |
| `staking_index`, `treasury_value`, `token_minted`, `token_staked` | fields of `Treasury` |
| `total_staked_index[u]` | the `UserStakeAccount` of user u |
| `escrow[u]` | the `Escrow` account of user u, or `NoEscrow` |
| `treasury_stf`, `user_stf[u]`, `stf_supply` | SPL token accounts and the mint's supply |
| `user_funds[u][m]`, `treasury_funds[m]` | token accounts of the payment mints and of any other mint but STF |
| `other_staked[m]` | auxiliary, not in the code: what was staked in mint m less what was unstaked in it |
| `unix_timestamp`, `feed[m]` | Clock sysvar, Pyth price update |

One action per instruction: `Initialize`, `StakeSTF`, `UnStakeSTF`, `ApplyBond`,
`FinishBond`, `CalcuBalance`; and `Tick` and `PublishPrice` for the world. An action is
enabled exactly when the instruction succeeds, which includes the conditions of the
programs it calls (a transfer needs the balance, a mint must not overflow the supply).

The assertions that the mint is STF's are commented out (`stake.rs:70-73`,
`unstake.rs:78-81`), so `StakeSTF` and `UnStakeSTF` take *any* mint: shares are credited for
whatever is deposited, and cashed in whatever the vault has (unstaking passes two decimals to
`transfer_checked`, so there the mint must have two: `TwoDecimals`). What is claimed is what that
leaves. All shares together are worth no more than all that was staked, in all mints together
(`StakesBacked`). That STF alone covers them, that nobody's unstake of STF can fail and that
nobody loses STF by another's step (`UnstakeHonoured`, `WealthKept`, theorem `SolventInStf`) is
claimed only for states in which nothing of another mint is staked on balance
(`OnlyStfStaked`); elsewhere it is false, and whoever unstakes STF first is paid. The theorems about
shares assume in addition that what was staked in all mints together is a u64 (`VaultsFit`), which
STF alone always is.

Abstractions. A price update is the latest of its feed and its feed id is right. The
treasury has one account of each mint. `finish_bond.rs:46-48` does not check its mint either: the
owner is taken to send STF's, since one who sends another gives his own redemption up. Start
timestamps, points and messages are left out. The SOL branch of `apply_bond` is not an action:
line 52 wants a token account whose mint is the system program. `CalcuBalance` sets `treasury_value` to any member of
`Revaluations`; how the value comes about belongs to the rebalance cycle.

Constants for what the code fixes. As written the program cannot get past its first
instruction: 184 and 7 bytes are reserved for accounts of 208 and 15
(`initialize.rs:18`, `27`), the counters that would give STF a backing price are in a
comment (38-39), and seven instructions want the signature of a program-derived
address. `TreasurySpace`, `FlagSpace`, `GenesisMinted`, `GenesisValue` and
`AuthorityCanSign` are therefore constants: `finding_initialize` gives them the
source's values, the other runs the values a deployment must have had for the rest of
the code to run at all. `ArgumentAssumption` states the range the arguments are meant
for: two hundred times a payment's worth is a u64. Beyond it `num_token_to_mint * 100` wraps,
stakers are credited more than is minted, and `StakesBacked` is not claimed: the hazard at
`apply_bond.rs:200` is listed without a property.

### SaturnRebalance

| variable | in the code |
|---|---|
| `flag` | `SequenceFlag` (two of its fields are never read) |
| `lend_assets`, `lend_value`, `treasury_value`, `allocation` | fields of `Treasury`; an allocation is the quotient `share / of`, in percent |
| `deposits[m]`, `exchange_rate[m]`, `fresh[m]` | klend: the obligation's collateral, 0 without an entry; the reserve's rate; `LastUpdate` |
| `shares[m]`, `share_value[m]` | marginfi: the account's balance, the bank's share value |
| `wallet[m]` | the treasury's token accounts |
| `withdrawals[v]` | history: withdrawals of a venue since `calcu_balance` |

Actions: `GetValueInKamino`, `GetValueInMarginfi`, `CalcuBalance`, `ReAllocate`,
`KlendWithdraw`, `MarginfiWithdraw`; behind one gate `KaminoLend`, `MarginfiLend`,
`MeteoraDeposit`, `MeteoraWithdraw`; and the venues' `RefreshReserve`, `AdvanceSlot`,
`AccrueBank`. `get_value_in_meteora` only returns a number and is no action.

`Spec` leaves out the four instructions behind the gate, `FullSpec` has them. They are
the same system (theorem `FullSpecIsSpec`): the gate wants `flag_meteora`, which nothing
sets. Positions therefore come from the constants `InitialDeposits` and
`InitialShares`, what an earlier deployment lent: the code as it stands can only take
out. A quotient of two f64 is kept as its two sides, so a rounded last bit is not
modelled. klend and marginfi are modelled by their effect on the treasury's position:
klend refuses a zero amount, an amount above the entry and a stale reserve; marginfi
takes the shares an amount is worth, rounded up. Four mints stand for the six. Bonds and
swaps are not in this module.

`get_value_in_kamino.rs:39` and `get_value_in_marginfi.rs:45` want a reserve and a bank whose
mint is `SOL_MINT`, the address of the system program. No account meets that; the model takes
the constraints as met (`WSOL_MINT`, which the constants have too, would do), since otherwise nothing
of the cycle could be looked at. A mint has one `wallet`. For SOL that is coarser
than the code: `klend_withdraw.rs:51-54` leaves the account it pays into unconstrained, and
`calcu_balance.rs:90` counts the lamports of `treasury_authority`, not a token account, so what a
withdrawal of SOL brings is counted only once it is unwrapped.

### BondMarket

A bond market for anybody: a buyer pays in a currency and holds one bond with fixed
terms, due a `Term` later; once due, exactly what it promised is paid out, once.
`SaturnBonding` implements it under the mapping in `SaturnBondingProperties`: the bond
is the escrow (`BondOf`), what was received is `treasury_funds`, the term is
`VestingPeriod`, and `paid_out` is what has been minted beyond the genesis supply and the
stakers' tokens (`RedemptionsMinted`). `ApplyBond` is a sale, `FinishBond` a redemption,
`Tick` lets time pass; stakes, unstakes, revaluations and price updates stutter. The
mapping of `paid_out` is what gives the refinement its content: it is computed from the
mint's supply and `token_minted`, so it breaks as soon as either counts something else.

### KlendMath, KlendPrices, KlendMarket

`KlendMath` is klend's arithmetic: a `Fraction` is an integer in units of 1/`ONE` (2^60
in the code), `Mul` and `Quot` truncate as `BigFraction` does; the exchange rate, the
compound interest (exact powers up to four slots, a series beyond), the borrow rate curve
with its construction and validation, the fees. `KlendPrices` takes what three oracles
say and returns what `utils/prices/mod.rs` would save: the most recent enabled source, its
price and the set of the checks it passed.

| variable of `KlendMarket` | in the code |
|---|---|
| `available_amount` ... `borrow_limit_crossed_slot`, one value per reserve | fields of `ReserveLiquidity` |
| `mint_total_supply[r]` | `ReserveCollateral.mint_total_supply` |
| `last_update[r]` | `LastUpdate`: slot, stale, price_status as a set of flags |
| `deposits`, `borrows`, their tier tables, `has_debt` | fields of `Obligation` |
| `amount_unclaimed_sf[r]` | `ReferrerTokenState` |
| `supply_vault`, `collateral_vault`, `fee_vault`, `wallet` | token accounts |

The repository's klend crate is the interface to Kamino's program: the methods are there, but
`lib.rs` has four handlers only (`init_user_metadata`, `init_obligation`, the deposit and the withdrawal
of an obligation), each with its call commented out. An action is one instruction
and makes the calls that instruction is named after - for a deposit
`Reserve::deposit_liquidity`, the transfer of `token_transfer.rs`,
`find_or_add_collateral_to_deposits`, `ObligationCollateral::deposit`,
`mark_stale` - in the only order in which each has its arguments. The staleness an
instruction asks for (any price for deposits and repayments, all checks for loans) is
inferred the same way. Loans have no referrer, which divides a fee but does not change it. The
health of an obligation is computed outside the repository; the debt value it may still take on is an input of the loan.

Two things the code does that one might not expect. `update_slot` keeps the old status on a refresh
that finds no price (`last_update.rs:82-89`), so a status that passes every check may belong to a
price that has meanwhile become too old: `UsablePriceWasChecked` says that the price *was* of age when
the status was set, and that neither has changed since. And `forgive_debt` subtracts unchecked
(`reserve.rs:578-584`): a debt that rounding has brought above the reserve's total makes the total
wrap. The model wraps it, and keeps in `overdrawn[r]` (auxiliary) by how much; `DebtsMatchReserve` says
it is less than a unit. A wrapped reserve is stale, so only a refresh could go on with
it; the model does not (a bound: the guard `overdrawn[r] = 0` of `RefreshReserve`).

### SaturnVenues

`get_value_in_marginfi` with `marginfi_utils.rs`, and `get_value_in_meteora` with the
dynamic vault's `state.rs`; one bank and one vault, since the code adds up banks that
share nothing. What the other programs do is external and assumed: marginfi's share
values do not fall (no bad debt is shared out) and its loans are covered by its assets; an
operation may or may not stamp the balance's `last_update`, which `constants.rs:68` of
the marginfi crate describes as the time of the emissions; a report of the vault mints
the fee as LP and locks the rest. The estimate accrues interest since the *balance* was
touched on a share value the *bank* may have brought up to date since: the same interest
can be counted twice. Hence `MarginfiValueBounded` claims no equality, only that the value
lies between what is stored and the highest rate over the interval.

The pool's `total_locked_lp` starts at zero and anybody may raise it (`Lock`, the `lock` instruction
of dynamic-amm's `lib.rs:117-120`). `get_value_in_meteora.rs:67` divides by it: at zero it panics, and
each lock lowers the price it computes. `VirtualPriceKept` therefore speaks of a pool with a
locked token, and names the lock and the withdrawal from the vault as the two steps by which the price
falls. `LockedProfitCovered` covers the other panic of that instruction, not this one. The signature of
`treasury_authority` is taken as given, and u64 overflow of the sums is left out.

## 3. What is checked

| run | shows | instance |
|---|---|---|
| `bonding_safety` | `StakesBacked`, `StakeConservation`, `UnstakeHonoured`, `SupplyAccounted`; `WealthKept`, `EscrowTermsKept`, `BackingNotDiluted`, `BondMarketStaysOpen`; `BondMarketKept`, the refinement | 808 thousand states, complete |
| `bonding_liveness` | `EscrowsAccountForFunds`; `BondsMature`; `BondMarketServed`, the refinement with its fairness | two mints, 212 thousand states, complete |
| `rebalance_safety` | `CycleOrder`, `OncePerCycle`, `FullyAllocated`, `LendGateShut`; `EmptiedFreezesValue` | 600 thousand states, complete |
| `klend_market` | `BooksMatchTokens`, `CollateralAccounted`, `DebtsMatchReserve`, `SlotsAreDistinct`, `NoProfitAtOnce`, `ReceiveNeverWraps`; `FeesStayCovered`, `ShareValueKept`, `CrossingRemembered`, `UsablePriceWasChecked`; and of the functions `CompoundingIsOrdered`, `RateGrowsWithUse`, `UsablePriceIsSound` | 216 thousand states, complete |
| `venues` | `MarginfiValueBounded`, `LockedProfitCovered`, `RateGrowsWithUse`; `RecordedAssetsWithdrawable`, `VirtualPriceKept`, `VaultShareKept` | 1.6 million states, complete |
| `finding_initialize` | with the source's sizes the treasury never comes to exist, which `tests/saturn-v1.ts:299` expects | violation |
| `finding_bond_before_stake` | no bond can be sold before the first stake, the order of `tests/saturn_v1.test.ts:228,304` | violation |
| `finding_unstake_all` | the last share is refused as "Not enough staked" (`error.rs:26`) | violation |
| `finding_redeem_units` | a redemption is paid in hundredths of a token, against the comment at `apply_bond.rs:179` | violation |
| `finding_lend` | after both withdrawals lending is still refused, against `tests/saturn_v1.test.ts:636` | violation |
| `finding_kamino_value` | the value beside the comment `// usdc` (`get_value_in_kamino.rs:180`) is the SOL deposit's | violation |
| `finding_calcu_balance` | the balance the admin takes at `tests/saturn_v1.test.ts:330` can never be taken | violation |

*Bounds of bonding.* Two users are enough for one's step to hurt the other; the properties
relate one user, the others together and the treasury. One bond per user is the code's
own limit (`load_init`). Prices and amounts are chosen so that a bond raises the index
by nothing, by one and by several, that a stake is rounded (at index above 1) and
exact, and that the spot price lies below the backing price (the difference wraps) and
above it. Besides STF one can stake, in `bonding_safety`, the payment mint and a mint of two
decimals, in which one can also unstake: a stake of the one can be cashed in the other and in
STF; in `bonding_liveness` the two payment mints, of two and three base units a
token (one in the other run). Each user has enough for two payments, or for one stake. The revaluation moves the backing price away from the one the genesis gives.
`VestingPeriod` 1 and `MaxTime` 2 let a bond be asked for before, at and after its
term; `MaxTime` also bounds `ApplyBond`: no bond is sold that could not mature within
the horizon, so `BondsMature` is not cut off by it. `MaximumAge` 0 and 1 make prices
both fresh and stale. `U64` = 2^15 is far above the sums that do not wrap and below the
products that do.

*Bounds of the cycle.* SOL and USDC are the two reserves the wrong key confuses, USDT the
mint marginfi's record is about, WBTC stands for the other three. SOL's deposit (2) can be emptied by one
withdrawal and USDC's (3) only in part, which leaves an amount a second cycle cannot
take. One reserve's rate and one bank's share value rise once, so a position is worth
more than was recorded. The ratings are all different, partly zero, and all equal.
Cycles are not bounded: the state space is finite without.

*Bounds of klend.* One reserve, because reserves share nothing but an obligation's tables;
that those hold with several is proved (`SlotsStayDistinct`). One customer deposits and
borrows, the other only borrows, so debts and deposits of two obligations meet in one
reserve. `ONE` = 16 makes every rounding visible; the properties that need the precision of a
rate say so (`Precise`, the premises of `NoProfitAtOnce`), where the code has 60 bits. Three units of
liquidity and limits of three are enough for a full reserve, a crossed limit and the return
below it; two slots for interest on interest; three readings for a fresh price, a stale
one, a failed check and a choice that comes to nothing. Loans are of two units, or of all there
is and a debt value of two and a half units allows; a loan of one is too small for the fee. A forgiven debt
does wrap a total within these bounds; `Ended` in `MCKlendMarket` lets the model stop where the
clock is at its bound and that has happened. `Init => ...` properties are about functions, over all the inputs
written in them.

*Bounds of the venues.* `ONE` = 10 with a year of two seconds gives interest of up to 450 %;
three seconds let a profit be partly, just and long since unlocked (it takes two and a half).
Bank and vault share no state but the clock, so `MCSaturnVenues` lets one of them move in a
behaviour. No more is ever deposited, or locked, than `MaxTotal`, which is why deadlock is not checked.

*What `EmptiedFreezesValue` means.* It holds, and it is a warning. After the withdrawal of
all of a deposit, the lookup of that deposit panics, so Kamino's recorded value stays what
it was before, however often the treasury is valued. What a `calcu_balance` then makes of the
withdrawn tokens is another question: those of a mint whose token account is valued are counted
again there, the SOL is not (only lamports are).

*Fairness* (`FairSpec` of `SaturnBonding`): the clock advances, the administrator deploys, and a bond's
owner keeps sending `finish_bond`. Nobody is obliged to stake, buy or publish. Weak
fairness is enough because a matured escrow stays redeemable. `BondMarketServed` shows the same from
outside: the fairness of the abstract market follows from it. The other modules state no
liveness: nobody is obliged to refresh a reserve, repay a loan or start a cycle.

*Tension worth knowing.* `BondMarketStaysOpen` holds because of the strict `>` that
`finding_unstake_all` reports: letting the last share go would also let `token_staked`
return to zero, and `apply_bond` divides by it. The mutant `UnstakeAllowed_All` is that
change. A fix of one has to fix the other.

Every property has a mutant, an operator such as `UnStakeSTF_TotalKept` beside the
definition it spoils: with it, TLC finds the property violated.

## 4. What is proved

Every invariant and action property that a run checks is a theorem, some under hypotheses
that stand in the theorem. For any number of users, mints, reserves, customers and slots, any
prices, amounts and configurations in range, any genesis, any width:

| theorem | statement |
|---|---|
| `TypeCorrect` (SaturnBonding_proofs) | `Spec => []TypeOK` |
| `Invariance` | `Spec /\ []VaultsFit => []IndInv` |
| `StakesAreBacked` | `Spec /\ []VaultsFit => []StakesBacked` |
| `SolventInStf` | `Spec /\ []OnlyStfStaked => [](token_staked * staking_index <= treasury_stf)`: what the missing mint checks would have bought |
| `SharesConserved` | `Spec /\ []VaultsFit => []StakeConservation` |
| `SupplyIsAccounted` | `Spec => []SupplyAccounted` |
| `FundsAreAccounted` | `Spec => []EscrowsAccountForFunds`, where a payment fits a u64 |
| `BackingIsNotDiluted` | `Spec /\ []BondPriceFits => BackingNotDiluted` |
| `UnstakeIsHonoured` | `Spec /\ []VaultsFit => []UnstakeHonoured` |
| `MarketStaysOpen` | `Spec /\ []VaultsFit => BondMarketStaysOpen` |
| `EscrowsKept` | `Spec => EscrowTermsKept` |
| `WealthIsKept` | `Spec /\ []VaultsFit => WealthKept` |
| `FullSpecIsSpec` (SaturnRebalance_proofs) | `FullSpec => Spec` |
| `NothingIsLent` | `FullSpec => []LendGateShut` |
| `CyclesAreOrdered`, `WithdrawnOnce` | `FullSpec => []CycleOrder`, `FullSpec => []OncePerCycle` |
| `ValueIsFrozen` | `FullSpec => EmptiedFreezesValue` |
| `AllocationIsWhole` | `Spec => []FullyAllocated` |
| `CycleTypes` | `FullSpec => []TypeOK` |
| `MintBound` (SaturnArith_proofs) | the stakers' credit is at most the payment's worth |
| `DueBondsArePayable` | `Spec => [](\A u \in Users : Due(u) => Payable(u))`: a bond that is due meets every check of `finish_bond`, unless the supply leaves a u64 |
| `BondMarketImplemented` | `Spec => BondMarketKept`: the program implements the bond market |
| `SlotsStayDistinct` (KlendMarket_proofs) | `Spec => []SlotsAreDistinct`, any number of reserves and slots |
| `UsablePricesWereChecked` | `Spec => UsablePriceWasChecked` |
| `PriceDefined`, `CheckedPriceIsSound` | the price saved is one an oracle gave; one that passes every check is sound, for any configuration and readings |
| `UsablePricesAreSound` | `Spec => []UsablePriceIsSound` |
| `MarketTypes` (KlendAccounts_proofs) | `Spec => []TypeOK` |
| `VaultsHoldTheBooks` | `Spec => []BooksMatchTokens` |
| `CollateralIsAccounted` | `Spec => []CollateralAccounted` |
| `FeesAreCovered` | `Spec => FeesStayCovered` |
| `ShareOfReserveIsKept` | `Spec /\ []AssetsFit => ShareValueKept` |
| `DebtsDriftSlowly` | `Spec /\ []DebtsFit /\ []DebtsBelow(D) => []DebtsDrift(D)`, where `2 * MaxSlot < ONE`: how far rounding drives a reserve and its borrowers apart |
| `DebtsStayMatched` | `Spec /\ []DebtsFit /\ []DebtsBelow(D) /\ []DriftInUnit(D) => []DebtsMatchReserve`, likewise |
| `CrossingIsRemembered` | `Spec => CrossingRemembered` |
| `NoProfitFromRoundTrips` | `Spec => []NoProfitAtOnce` |
| `ReceiveNeverBelowZero` | `Spec => []ReceiveNeverWraps` |
| `BorrowRateGrowsWithUse` | `Spec => []RateGrowsWithUse`, where `Fine` |
| `CompoundingStaysOrdered` | `Spec => []CompoundingIsOrdered`, where `ONE >= 16` |
| `CompoundingGrows`, `CompoundingRisesWithRate` (KlendMath_proofs) | interest never shrinks a debt, and a higher rate never costs less: any rate, number of slots, precision |
| `CompoundingRisesWithTime` | one slot more never costs less: any number of slots, a rate of at most 100 % a slot, `ONE >= 16` |
| `CompoundingBelowPower` | up to six slots never cost more than the exact power, written out: any rate and precision |
| `CompoundingBelowEveryPower` | nor does any number of slots: `interest * ONE^n <= (ONE + rate)^n * ONE` |
| `BorrowRateDefined`, `BorrowRateGrows` | a valid curve has a rate for every use; a higher use no lower one, where `Fine` |
| `LegacyCurveIsValid` | a curve made from legacy parameters that grow passes the validation |
| `LockedProfitStaysCovered` (SaturnVenues_proofs) | `Spec => []LockedProfitCovered` |
| `VaultShareStaysKept`, `VirtualPriceStaysKept` | `Spec => VaultShareKept`, `Spec => VirtualPriceKept` |
| `RecordedAssetsStayWithdrawable` | `Spec => RecordedAssetsWithdrawable` |
| `MarginfiValueStaysBounded` | `Spec => []MarginfiValueBounded` |
| `LendingRateGrowsWithUse` | `Spec => []RateGrowsWithUse` |
| `VenueTypes` | `Spec => []TypeOK` |

*Sums.* `SumOf` is a fold, which no backend unfolds. `Sums_proofs` therefore shows first that the
recursive function behind it exists over every finite set and that any two such functions agree
(`SumsExist`, `SumsAgree`), by a smallest set on which they would not; from there that a sum
without terms is zero, that taking out an element takes out its term (`SumTakeOut`), that a sum of
naturals is one, and that changing one term changes the sum by the difference (`SumChanged`). All
the totals below rest on these facts.

*Bonding.* `StakesBacked` alone is not inductive: after an `UnStakeSTF` it needs
the user's shares to be part of the total, or the total wraps below zero; after a
`StakeSTF` it needs the sum not to wrap, which follows from `StakesBacked` itself and from
`VaultsFit`, because every share is worth at least one base unit - once the index has started. Hence
`IndInv`, the conjunction of `TypeOK`, `IndexStarted`, `StakeConservation` and
`StakesBacked`. Whatever the mint, a stake adds the amount to `Vaulted` and an unstake takes
it off (`other_staked` tells a deposit of a payment mint from a payment). While
nothing of another mint is staked on balance, `Vaulted` is at most the STF account, whose supply
is a u64: that is `SolventInStf`, which needs no `VaultsFit`. An `ApplyBond` raises the index by
`n \div token_staked` and mints `100 * n`, so it gains more than the shares do, provided `100 * n` does not wrap: `MintBound` shows `n` to be at most the
payment's worth, also when the bond price itself wraps, and `ArgumentAssumption` does
the rest.

`SupplyAccounted` and `EscrowsAccountForFunds` join the types with what an escrow may hold, and need no `VaultsFit`. The
second has the hypothesis that a payment fits a u64, which is what an argument of type u64 times
the code's units must do; `ArgumentAssumption` bounds only the payment's worth. `BackingNotDiluted`
has the hypothesis `BondPriceFits`: the backing price stays a hundredth of the u64 range below its
end, so backing price plus markup does not wrap. Without it a bond may be sold at a wrapped, tiny
price. Then `n * bond price <= payment` and `bond price >= backing price` (`MintWorth`) leave the
quotient where it was or higher (`BackingKept`).

`DueBondsArePayable` is the safety that `BondsMature` rests on. It joins `AccountsInv`, by which a user's
tokens are part of the supply, with `EscrowsOwned`: an escrow names its own user, and there is none
before the treasury. So of all that `FinishBond` asks for, only the supply can be in the way; with
`EscrowsKept`, nothing but the redemption itself changes the bond meanwhile.

For the rebalance cycle the inductive invariant is the types of the flags, the recorded
assets and the deposits, `~flag.meteora`, `CycleOrder` and `OncePerCycle`. The first makes every
disjunct of `Lend` impossible, which gives `FullSpecIsSpec` and with it everything proved
of `Spec`. `ValueIsFrozen` adds that klend never touches an empty entry.
`AllocationIsWhole` goes through the four types: a share is `rating * percent` over the
type's total, so the numerators of a type add up to the percentage times the denominator.
`CycleTypes` adds the recorded values, which are sums over the mints: `MintsAssumption` says the mints
are finite, and `FeedAssumption` that a power of ten with an exponent that is not negative is a
natural number, an arithmetic fact no backend has and TLC evaluates.

For the refinement, `PaidInv` joins the types: `token_minted` has counted at least the genesis
and `RedemptionsMinted` is not negative. With it a sale cannot make `token_minted` wrap
(`MintedNeverWraps`): the stakers' tokens are a hundred times what is counted, and the mint's
supply is a u64. A step then keeps `RedemptionsMinted`, or, if it is `FinishBond`, adds what
the bond promised. The mapping needs `BondAssumption`: the constant that stands for no
escrow is not mistaken for a bond.

In klend the inductive invariant of the tables is `DepositTable /\ BorrowTable`: types, no
reserve in two slots, empty slots empty, tiers in step. `SlotFor` takes the slot that names the reserve
before the first empty one, which is why no second slot for it is made. For the prices it is `PricesInv`,
little more than types: only `RefreshReserve` writes the price and the status, and it writes either both
or neither, so a status with every flag is a new one, of a price that has just passed the age check and
the heuristic, or an old one that has been left alone with its price. That a checked
price is *sound* is a fact about functions, in three steps: what a reading says and which checks it
has passed so far (`ReadingsSaid`), that every candidate is a reading of an enabled source
(`CandidatesSaid`), and that the chosen one is a candidate (`ChosenSaid`); the checks made after the
choice then give the rest of `SoundSource`.

The accounts need more: the vault gives out `receive_amount` and the fee, the books the whole
units of the debt, and the two agree only if every one of these is a number. So `Accounts` carries
the types of the books, the debts, the fees and the prices, and that the cumulative rate a loan is
divided by is positive (`GoodLoan`). What a refresh writes has these types because compounding
returns at least one (`CompoundingGrows`), the curve has a rate for any use (`BorrowRateDefined`)
and a choice among the oracles is a choice among some (`PriceDefined`); `MarketInv` joins all of it
with the tables and the prices. `CrossingRemembered` then follows from interest never being negative,
`ReceiveNeverWraps` from `FeeLeavesRest` (an inclusive fee of at most a half is at most a third of the
loan, so its rounding fits into the loan's whole units), and `NoProfitAtOnce` from `RoundTrip`:
the collateral minted is worth no more than the deposit, so the new rate is at least the minted
collateral over the deposit, up to one bit that the required precision makes up for.

`CollateralAccounted` has an invariant of its own, `Collateral`: the sum over all slots of all
customers of what they hold of a reserve is what the reserve has minted; a deposit or a redemption
changes one slot. `FeesStayCovered` and `ShareValueKept` look at `Net`, assets less fees owed: every
step makes it grow at a constant supply of collateral, or is a deposit, a redemption or a forgiven debt
(`Moved`). Interest adds to the debt at least what it adds to the fees (`InterestShared`), a loan gives
out what it books, and the two truncations of a deposit or redemption favour those who stay
(`MintedAtMost`, `RedemptionKeepsWorth`, `RedemptionLeavesFees`). `AssetsFit` is the hypothesis that what a
reserve has and is owed fits a Fraction: 2^68 units, of a token with less than 2^64. `FractionAssumption`
says a Fraction has more whole than fractional bits, 68 to 60 in the code. `MarketTypes` needs the three
groups `Amounts`, `Refreshes` and `Tables` besides `MarketInv`.

`DebtsMatchReserve` is about two roundings of the same interest: the reserve multiplies its total by each
refresh's rate, a borrower's debt follows the quotient of two cumulative rates when it is next touched.
That the two stay within a unit is no invariant of every run of the market: each refresh may lose a bit per
loan, and the error of the cumulative rate grows with what is lent. What holds of every run is the rate at
which they can part. With `M` slots for loans and at most `D` whole units owed, `DebtsDrift(D)` bounds the
difference by `2 * (M + D + 2)` for every slot elapsed, in bits of a Fraction at the cumulative rate.
Its inductive invariant is `TotalsDrift`, the same of the sum over all slots, with `NotAhead`: no loan was
brought up to a rate beyond that of its reserve, which is at least one. Every instruction but a
refresh changes both totals alike, or brings them together where a repayment is capped (`Settles`). A
forgiven debt does too where it makes the total wrap: the total then counts as what it should have become
(`Booked`), the reserve stays stale (`Overdrafts`), and `DebtsFit` says that a total fits a
Fraction, as the code's type makes sure. A refresh with interest loses a bit in every slot (`OwedAccrues`, from `SumBounded`) and less than one in the total and in
the rate (`Accrues`), which `DriftOfAccrual` adds up. `DebtsStayMatched` is the consequence: within a unit,
as long as that bound is (`DriftInUnit`). With the code's sixty bits, 2^28 slots (over three years) and a
debt that has at most doubled, this covers reserves with `M + D + 2` up to 2^29; with a million SOL lent and
interest of a fifth the same bound says the books are off by less than a thousandth of a SOL. The run has four bits, where `DriftInUnit` does
not last; there TLC checks `DebtsMatchReserve` itself.

`CompoundingBelowEveryPower` is an induction over the exponent, which here means: a set of numbers that
contains zero and successors has no smallest number missing (`EveryNumber`). `FirstTerms` is the start of
the binomial series; one slot more multiplies it by at most `N + b` (`TermsStep`), and the code's
truncated series is below it (`SeriesBelowTerms`). `PowersExist` says the powers it speaks of exist.

That the borrow rate never falls needs precision: the use is rounded to basis points before its segment
is chosen, and only if half a basis point is at least one bit (`Fine`) is the rounding of a whole basis
point that point itself; within a segment the rate is between those at its ends. In the same way time
never lowers the interest only from `ONE` = 16 on: the square of the square, truncated three times, may
be a bit more than the series for five slots, which `ONE` = 5 shows; `FourAtMostFive` compares the
remainders. Both hold by far at the code's sixty bits.

`ShareOfReserveIsKept` has `AssetsFit` as hypothesis, which a wrapped total need not meet; a forgiven debt is
among the steps `ShareValueKept` excepts in any case.

For the venues `VaultInv` says that no more is locked than the vault has and that no report lies in the
future; a withdrawal pays a part of what is unlocked, so never touches the locked part. `BankInv` bounds
the share values from below and the loans by the assets, so that use is at most whole and the rate at
most 300 %. A `Lock` changes nothing but the locked tokens and every other step leaves them alone
(`LockedNext`), which is all the price needs. `VenueTypes` adds `Bounds`, what the model's limits say
of the rest of the state. The inequalities between truncated quotients are constant-level lemmas.

The proofs assume only the named `ASSUME`s of the modules, which TLC evaluates in every run, and the
hypotheses that stand in the theorems: a payment that fits a u64, `VaultsFit`, `OnlyStfStaked`,
`BondPriceFits`, `AssetsFit`, `DebtsFit`, `Fine`, `ONE >= 16`, `DebtsBelow(D)` and `DriftInUnit(D)` with fewer than `ONE / 2` slots.

*Only model-checked:* liveness (`BondsMature`, `BondMarketServed`), which needs ENABLED and fairness; its
safety is `DueBondsArePayable` and `BondMarketImplemented`. And `DebtsMatchReserve` beyond `DriftInUnit`, which the
run's instance leaves and the code's precision makes a matter of years. The `finding_*` runs are
counterexamples and need no proof.

## 5. Not modelled

- *Cashing out* (`cashingout_reedem.rs`). Its accounts cannot exist: line 51 wants a token
  account at the address of the USDC mint, line 13 the signature of a program-derived
  address. Its action would never be enabled.
- *Swaps* (`swap.rs`, `jupiter_utils.rs`). The caller's bytes go to Jupiter, which is
  not in the repository. Around the call a wrapped-SOL account is derived with a seed that is not
  the account's own, so a swap of SOL is refused and, a transaction being atomic, leaves nothing.
- *Lending accounts* (`init_lending_accounts`). Creates accounts of other programs, once.
- *How calcu_balance meets bonding* (`calcu_balance.rs:105`). `SaturnBonding` allows any new
  value, so what it claims holds whatever replaces the sum apply_bond has kept;
  `SaturnRebalance` computes the value from the recorded positions and the wallet. The two
  are not composed: a payment in USDC comes back as tokens in the account that is valued,
  one in BONK is counted by nothing, so there is no relation between the two sums to state.
- *klend*: flash loans, elevation groups, farms, withdrawal caps, the loan-to-value and
  liquidation methods, whose callers are all outside the repository; market
  configuration; account layouts and macros.
- *dynamic-amm*: the pool's layouts, fees and curve; of the pool only `total_locked_lp`
  and its `lock` are modelled, all that the valuation uses. *marginfi*: layouts and errors.
- The command line, migrations and test clients. What they expect of the program is quoted
  by the `finding_*` runs.
- A negative Pyth price makes `prices/pyth.rs:39` panic where another oracle could have
  answered; the readings of `KlendPrices` are not negative.
