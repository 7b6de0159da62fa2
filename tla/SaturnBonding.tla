---------------------------- MODULE SaturnBonding ----------------------------
(***************************************************************************)
(* Bonding and staking of the saturn-v1 program: the instructions a user   *)
(* sends, the treasury counters they share, the escrow and stake account   *)
(* each user owns, and the SPL token accounts the instructions move tokens *)
(* between.                                                                *)
(*                                                                         *)
(* A Solana transaction is atomic: an instruction that returns an error,   *)
(* panics, or calls another program that fails leaves every account as it  *)
(* was.  Hence one action per instruction, enabled exactly when the        *)
(* instruction succeeds.  Instructions of different users interleave.      *)
(***************************************************************************)
EXTENDS SaturnArith, FiniteSets

CONSTANTS
    NumUsers,           \* the users are 1..NumUsers
    Stf,                \* the mint of STF
    Tokens,             \* every other mint the users and the treasury have accounts of
    TwoDecimals,        \* those of Tokens with two decimals, as STF has
    Mints,              \* the mints a bond can be paid in: USDC and BONK; the SOL branch
                        \* wants a token account whose mint is the system program
    MintUnit,           \* base units of each mint per token_amount (10^6, 10^3)
    NoEscrow,           \* an escrow account that was never created
    TreasurySpace,      \* bytes initialize reserves for the treasury account
    FlagSpace,          \* bytes initialize reserves for the sequence_flag account
    GenesisMinted,      \* token_minted after initialize
    GenesisValue,       \* treasury_value after initialize
    InitialStf,         \* STF each user holds before the treasury owns the mint
    InitialVault,       \* STF the treasury holds before it owns the mint
    InitialFunds,       \* base units of each mint each user holds
    VestingPeriod,      \* 14 days
    MaximumAge,         \* 30 seconds
    AuthorityCanSign    \* whether any transaction carries treasury_authority's signature

\* Bounds of the model, none of them in the code: the prices the oracle publishes,
\* the arguments of the instructions, the results of a revaluation, the last moment
\* the clock reaches.
CONSTANTS Prices, TokenAmounts, SpotPrices, StakeAmounts, UnstakeAmounts,
          Revaluations, MaxTime

Users == 1..NumUsers

\* STF has two decimals: apply_bond mints num_token_to_mint * 100 base units.
StfUnit == 100

\* What borsh and Anchor need: the 8-byte discriminator and the fields.
TreasurySize == 8 + 32 + 21 * 8
FlagSize == 8 + 7

Escrows == [creator : Users, token_mint : Mints, token_amount : Nat,
            num_token_to_redeem : Nat, end_timestamp : Nat, is_finished : {1, 2}]

ASSUME UsersAssumption == NumUsers \in Nat \ {0}
ASSUME TokenAssumption ==
    IsFiniteSet(Tokens) /\ Stf \notin Tokens /\ Mints \subseteq Tokens /\ TwoDecimals \subseteq Tokens
ASSUME EscrowAssumption == NoEscrow \notin Escrows
ASSUME MintAssumption == MintUnit \in [Mints -> Nat \ {0}] /\ AuthorityCanSign \in BOOLEAN
ASSUME SizeAssumption == TreasurySpace \in Nat /\ FlagSpace \in Nat
ASSUME TimeAssumption == VestingPeriod \in Nat /\ MaximumAge \in Nat /\ MaxTime \in Nat
ASSUME GenesisAssumption ==
    /\ GenesisValue \in Nat /\ InitialFunds \in Nat
    /\ InitialStf \in Nat /\ InitialVault \in Nat
    /\ NumUsers * InitialStf + InitialVault < U64
    \* The seed initialize has in a comment counts what is in circulation.
    /\ GenesisMinted \in 0..(NumUsers * InitialStf + InitialVault)
ASSUME ArgumentAssumption ==
    /\ StakeAmounts \subseteq 0..(U64 - 1) /\ UnstakeAmounts \subseteq 0..(U64 - 1)
    /\ SpotPrices \subseteq 0..(U64 - 1) /\ TokenAmounts \subseteq 0..(U64 - 1)
    /\ Prices \subseteq Nat /\ Revaluations \subseteq Nat
    \* The range the business is meant for: a payment, in hundredths, is a u64
    \* (and so is an i64).
    /\ \A price \in Prices, amount \in TokenAmounts : 2 * StfUnit * (price * amount) < U64

VARIABLES
    initialized,        \* the treasury and sequence_flag accounts exist
    staking_index,      \* Treasury.staking_index: STF base units per share
    treasury_value,     \* Treasury.treasury_value
    token_minted,       \* Treasury.token_minted
    token_staked,       \* Treasury.token_staked: shares of all users
    total_staked_index, \* UserStakeAccount.total_staked_index of each user: its shares
    escrow,             \* the Escrow account of each user
    treasury_stf,       \* the treasury's STF token account
    user_stf,           \* the STF token account of each user
    stf_supply,         \* the supply field of the STF mint
    user_funds,         \* each user's balance of each mint other than STF
    treasury_funds,     \* the treasury's balance of each mint other than STF
    other_staked,       \* auxiliary, not in the code: what stake_stf has taken of each
                        \* mint other than STF, less what unstake_stf has paid in it
    unix_timestamp,     \* the Clock sysvar
    feed                \* the last price update of each mint's Pyth feed

treasuryVars == <<staking_index, treasury_value, token_minted, token_staked>>
stfVars == <<treasury_stf, user_stf, stf_supply>>
fundVars == <<user_funds, treasury_funds, other_staked>>
envVars == <<unix_timestamp, feed>>
vars == <<initialized, treasuryVars, total_staked_index, escrow, stfVars, fundVars, envVars>>

TypeOK ==
    /\ initialized \in BOOLEAN
    /\ staking_index \in 0..(U64 - 1)
    /\ treasury_value \in Int
    /\ token_minted \in 0..(U64 - 1)
    /\ token_staked \in 0..(U64 - 1)
    /\ total_staked_index \in [Users -> 0..(U64 - 1)]
    /\ escrow \in [Users -> Escrows \cup {NoEscrow}]
    /\ treasury_stf \in 0..(U64 - 1)
    /\ user_stf \in [Users -> 0..(U64 - 1)]
    /\ stf_supply \in 0..(U64 - 1)
    /\ user_funds \in [Users -> [Tokens -> Nat]]
    /\ treasury_funds \in [Tokens -> Nat]
    /\ other_staked \in [Tokens -> Int]
    /\ unix_timestamp \in 0..MaxTime
    /\ feed \in [Mints -> [price : Prices, publish_time : 0..MaxTime]]

-----------------------------------------------------------------------------
\* Accounts that do not exist read as zeroes.  STF in circulation was minted before
\* the treasury's authority became the mint's authority.
Init ==
    /\ initialized = FALSE
    /\ staking_index = 0
    /\ treasury_value = 0
    /\ token_minted = 0
    /\ token_staked = 0
    /\ total_staked_index = [u \in Users |-> 0]
    /\ escrow = [u \in Users |-> NoEscrow]
    /\ treasury_stf = InitialVault
    /\ user_stf = [u \in Users |-> InitialStf]
    /\ stf_supply = NumUsers * InitialStf + InitialVault
    /\ user_funds = [u \in Users |-> [m \in Tokens |-> InitialFunds]]
    /\ treasury_funds = [m \in Tokens |-> 0]
    /\ other_staked = [m \in Tokens |-> 0]
    /\ unix_timestamp = 0
    /\ feed \in [Mints -> [price : Prices, publish_time : {0}]]

\* initialize: Anchor's init fails for an account that exists, and deserializing the
\* new account fails when the space reserved is less than the struct needs.
Initialize ==
    /\ ~initialized
    /\ TreasurySpace >= TreasurySize
    /\ FlagSpace >= FlagSize
    /\ initialized' = TRUE
    /\ staking_index' = 1
    /\ token_minted' = GenesisMinted
    /\ treasury_value' = GenesisValue
    /\ token_staked' = 0
    /\ UNCHANGED <<total_staked_index, escrow, stfVars, fundVars, envVars>>

\* The transfer of stake_stf, from the user's account of a mint to the treasury's
\* account of the same mint.  The assertion that the mint is STF is commented out
\* (stake.rs:70-73), so any will do.
Deposit(u, mint, amount) ==
    \/ /\ mint = Stf
       /\ user_stf[u] >= amount
       /\ treasury_stf + amount < U64
       /\ user_stf' = [user_stf EXCEPT ![u] = @ - amount]
       /\ treasury_stf' = treasury_stf + amount
       /\ UNCHANGED fundVars
    \/ /\ mint \in Tokens
       /\ user_funds[u][mint] >= amount
       /\ user_funds' = [user_funds EXCEPT ![u][mint] = @ - amount]
       /\ treasury_funds' = [treasury_funds EXCEPT ![mint] = @ + amount]
       /\ other_staked' = [other_staked EXCEPT ![mint] = @ + amount]
       /\ UNCHANGED <<user_stf, treasury_stf>>

\* Mutant: the whole amount, not the shares it buys, is added to the total.
StakeSTF_AmountInTotal(u, mint, amount) ==
    /\ initialized
    /\ staking_index # 0
    /\ Deposit(u, mint, amount)
    /\ total_staked_index' =
           [total_staked_index EXCEPT ![u] = Wrap(@ + amount \div staking_index)]
    /\ token_staked' = Wrap(token_staked + amount)
    /\ UNCHANGED <<initialized, staking_index, treasury_value, token_minted, escrow,
                   stf_supply, envVars>>

\* stake_stf: a base unit of whatever mint is deposited counts as one of STF; the
\* shares are rounded down.
StakeSTF(u, mint, amount) ==
    /\ initialized
    /\ staking_index # 0
    /\ Deposit(u, mint, amount)
    /\ LET amount_to_transfer == amount \div staking_index
       IN  /\ total_staked_index' =
                 [total_staked_index EXCEPT ![u] = Wrap(@ + amount_to_transfer)]
           /\ token_staked' = Wrap(token_staked + amount_to_transfer)
    /\ UNCHANGED <<initialized, staking_index, treasury_value, token_minted, escrow,
                   stf_supply, envVars>>

\* Mutants: no check, and a check that lets the last share go.
UnstakeAllowed_Always(u, amount) == TRUE
UnstakeAllowed_All(u, amount) == total_staked_index[u] >= amount

\* The require! of unstake.rs.
UnstakeAllowed(u, amount) == total_staked_index[u] > amount

\* The transfer_checked of unstake_stf: like Deposit it asks nothing of the mint
\* (unstake.rs:78-81) except, by its last argument, two decimals.  Its result is
\* ignored, but the runtime aborts a transaction in which a called program fails.
Withdraw(u, mint, amount) ==
    \/ /\ mint = Stf
       /\ treasury_stf >= amount
       /\ user_stf[u] + amount < U64
       /\ treasury_stf' = treasury_stf - amount
       /\ user_stf' = [user_stf EXCEPT ![u] = @ + amount]
       /\ UNCHANGED fundVars
    \/ /\ mint \in TwoDecimals
       /\ treasury_funds[mint] >= amount
       /\ treasury_funds' = [treasury_funds EXCEPT ![mint] = @ - amount]
       /\ user_funds' = [user_funds EXCEPT ![u][mint] = @ + amount]
       /\ other_staked' = [other_staked EXCEPT ![mint] = @ - amount]
       /\ UNCHANGED <<user_stf, treasury_stf>>

\* Mutant: the shares leave the user's account and stay in the treasury's total.
UnStakeSTF_TotalKept(u, mint, amount) ==
    /\ initialized
    /\ UnstakeAllowed(u, amount)
    /\ Withdraw(u, mint, Wrap(amount * staking_index))
    /\ total_staked_index' = [total_staked_index EXCEPT ![u] = Wrap(@ - amount)]
    /\ UNCHANGED <<initialized, treasuryVars, escrow, stf_supply, envVars>>

\* unstake_stf: amount is in shares.
UnStakeSTF(u, mint, amount) ==
    /\ initialized
    /\ UnstakeAllowed(u, amount)
    /\ Withdraw(u, mint, Wrap(amount * staking_index))
    /\ total_staked_index' = [total_staked_index EXCEPT ![u] = Wrap(@ - amount)]
    /\ token_staked' = Wrap(token_staked - amount)
    /\ UNCHANGED <<initialized, staking_index, treasury_value, token_minted, escrow,
                   stf_supply, envVars>>

\* Mutant: load_mut in place of load_init.
EscrowIsNew_LoadMut(u) == TRUE

\* load_init: the account carries no discriminator yet.
EscrowIsNew(u) == escrow[u] = NoEscrow

\* get_price_no_older_than
PriceIsFresh(m) == feed[m].publish_time + MaximumAge >= unix_timestamp

\* Mutant: the status of the zeroed account is never set.
NewEscrow_NoStatus(u, m, token_amount, num_token_to_redeem) ==
    [creator |-> u, token_mint |-> m, token_amount |-> token_amount,
     num_token_to_redeem |-> num_token_to_redeem,
     end_timestamp |-> unix_timestamp + VestingPeriod, is_finished |-> 0]

NewEscrow(u, m, token_amount, num_token_to_redeem) ==
    [creator |-> u, token_mint |-> m, token_amount |-> token_amount,
     num_token_to_redeem |-> num_token_to_redeem,
     end_timestamp |-> unix_timestamp + VestingPeriod, is_finished |-> 1]

\* Mutant: the index is assigned where it should be raised.
RaisedIndex_Assigned(num_token_to_mint) == num_token_to_mint \div token_staked

RaisedIndex(num_token_to_mint) == Wrap(staking_index + num_token_to_mint \div token_staked)

\* apply_bond: takes the payment, prices the bond, credits the stakers through the
\* staking index, mints their STF to the treasury and opens the escrow.  The three
\* divisions panic on zero.  MaxTime is the horizon of the model: no bond is sold
\* that could not mature within it.
ApplyBond(u, m, token_amount, spot_price) ==
    LET payment == Wrap(token_amount * MintUnit[m])
        total_price == ToI64(feed[m].price * ToI64(token_amount))
        backing == BackingPrice(treasury_value, token_minted)
        num_token_to_mint == NumTokenToMint(spot_price, backing, total_price)
        num_token_to_redeem == NumTokenToRedeem(spot_price, backing, total_price)
    IN
    /\ initialized
    /\ EscrowIsNew(u)
    /\ PriceIsFresh(m)
    /\ unix_timestamp + VestingPeriod <= MaxTime
    /\ user_funds[u][m] >= payment
    /\ backing # 0
    /\ BondPrice(spot_price, backing) # 0
    /\ token_staked # 0
    /\ stf_supply + Wrap(num_token_to_mint * StfUnit) < U64
    /\ treasury_stf + Wrap(num_token_to_mint * StfUnit) < U64
    /\ user_funds' = [user_funds EXCEPT ![u][m] = @ - payment]
    /\ treasury_funds' = [treasury_funds EXCEPT ![m] = @ + payment]
    /\ token_minted' = Wrap(token_minted + num_token_to_mint)
    /\ staking_index' = RaisedIndex(num_token_to_mint)
    /\ treasury_value' = treasury_value + total_price
    /\ stf_supply' = stf_supply + Wrap(num_token_to_mint * StfUnit)
    /\ treasury_stf' = treasury_stf + Wrap(num_token_to_mint * StfUnit)
    /\ escrow' = [escrow EXCEPT ![u] = NewEscrow(u, m, token_amount, num_token_to_redeem)]
    /\ UNCHANGED <<initialized, token_staked, total_staked_index, user_stf, other_staked,
                   envVars>>

\* Mutant: the AlreadyRedeem check is missing.
BondRedeemable_Again(u) ==
    /\ unix_timestamp >= escrow[u].end_timestamp
    /\ escrow[u].creator = u

\* Mutant: the maturity check is the wrong way round.
BondRedeemable_Early(u) ==
    /\ unix_timestamp <= escrow[u].end_timestamp
    /\ escrow[u].creator = u
    /\ escrow[u].is_finished = 1

\* The three checks of finish_bond.rs.
BondRedeemable(u) ==
    /\ unix_timestamp >= escrow[u].end_timestamp
    /\ escrow[u].creator = u
    /\ escrow[u].is_finished = 1

\* finish_bond: mints the redemption to the user's STF account.  The mint is not
\* checked (finish_bond.rs:46-48): the owner is taken to send STF's, one who sends
\* another that treasury_authority may mint gives the redemption up.
FinishBond(u) ==
    /\ initialized
    /\ escrow[u] # NoEscrow
    /\ BondRedeemable(u)
    /\ LET minted == escrow[u].num_token_to_redeem
       IN  /\ stf_supply + minted < U64
           /\ user_stf[u] + minted < U64
           /\ stf_supply' = stf_supply + minted
           /\ user_stf' = [user_stf EXCEPT ![u] = @ + minted]
    /\ escrow' = [escrow EXCEPT ![u].is_finished = 2]
    /\ UNCHANGED <<initialized, treasuryVars, total_staked_index, treasury_stf,
                   fundVars, envVars>>

\* calcu_balance, as far as this module's state goes: it replaces treasury_value by
\* the value of the treasury's holdings, whatever bonds were sold meanwhile.  Its
\* signer must be treasury_authority, a program-derived address.
CalcuBalance(value) ==
    /\ initialized
    /\ AuthorityCanSign
    /\ treasury_value' = value
    /\ UNCHANGED <<initialized, staking_index, token_minted, token_staked,
                   total_staked_index, escrow, stfVars, fundVars, envVars>>

\* The world around the program: the cluster's clock and the Pyth publishers.
Tick ==
    /\ unix_timestamp < MaxTime
    /\ unix_timestamp' = unix_timestamp + 1
    /\ UNCHANGED <<initialized, treasuryVars, total_staked_index, escrow, stfVars,
                   fundVars, feed>>

PublishPrice(m, price) ==
    /\ feed' = [feed EXCEPT ![m] = [price |-> price, publish_time |-> unix_timestamp]]
    /\ UNCHANGED <<initialized, treasuryVars, total_staked_index, escrow, stfVars,
                   fundVars, unix_timestamp>>

Next ==
    \/ Initialize
    \/ \E u \in Users, mint \in Tokens \cup {Stf}, amount \in StakeAmounts :
            StakeSTF(u, mint, amount)
    \/ \E u \in Users, mint \in Tokens \cup {Stf}, amount \in UnstakeAmounts :
            UnStakeSTF(u, mint, amount)
    \/ \E u \in Users, m \in Mints, token_amount \in TokenAmounts, spot_price \in SpotPrices :
            ApplyBond(u, m, token_amount, spot_price)
    \/ \E u \in Users : FinishBond(u)
    \/ \E value \in Revaluations : CalcuBalance(value)
    \/ Tick
    \/ \E m \in Mints, price \in Prices : PublishPrice(m, price)

Spec == Init /\ [][Next]_vars

\* The cluster's clock advances, the admin deploys, and the owner of a bond keeps
\* submitting finish_bond.  Nobody is obliged to stake, to buy or to publish.
FairSpec ==
    /\ Spec
    /\ WF_vars(Initialize)
    /\ WF_vars(Tick)
    /\ \A u \in Users : WF_vars(FinishBond(u))
=============================================================================
