----------------------- MODULE SaturnBondingProperties -----------------------
(***************************************************************************)
(* What bonding and staking must guarantee.                                *)
(***************************************************************************)
EXTENDS SaturnBonding, Sums

SumOverUsers(f) == SumOf(f, Users)

\* The base units a user's shares are worth, what of them the treasury's STF account
\* could pay to this user, and the user's STF in either form.
Claim(u) == total_staked_index[u] * staking_index
Cashable(u) == IF Claim(u) <= treasury_stf THEN Claim(u) ELSE treasury_stf
Wealth(u) == user_stf[u] + Cashable(u)

\* What was staked in mints other than STF and has not been unstaked in them.
OtherStaked == SumOf(other_staked, Tokens)
OnlyStfStaked == OtherStaked <= 0
Vaulted == treasury_stf + OtherStaked

\* Everything staked is a u64: true of STF alone, whose supply is one; an assumption
\* of some theorems, because nothing bounds the supplies of other mints together.
VaultsFit == Vaulted < U64

\* The escrow accounts that exist, and those whose redemption has been minted.
Bonded == {u \in Users : escrow[u] # NoEscrow}
Redeemed == {u \in Bonded : escrow[u].is_finished = 2}
PaidIn(m) == {u \in Bonded : escrow[u].token_mint = m}

-----------------------------------------------------------------------------
(* Invariants *)

\* What all shares are worth at the current index is covered by the STF in the
\* treasury's account and what was staked in other mints: rounding in stake_stf and
\* the index raises of apply_bond never promise more than was deposited or minted.
\* STF alone covers the shares only while nothing of another mint is staked on
\* balance; stake.rs and unstake.rs, which check no mint, promise no more than this.
StakesBacked == token_staked * staking_index <= Vaulted

\* treasury.token_staked is the sum of the users' stake accounts: stake_stf and
\* unstake_stf keep two accounts of the same shares in step.
StakeConservation == SumOverUsers(total_staked_index) = token_staked

\* Each user alone can cash every share unstake.rs lets go of: the product with the
\* index does not wrap and, while nothing of another mint is staked on balance, the
\* treasury's STF account covers it, so the ignored result of transfer_checked is then
\* never a failure that blocks the user.
UnstakeHonoured ==
    \A u \in Users : Wrap(Claim(u)) = Claim(u) /\ (OnlyStfStaked => Claim(u) <= treasury_stf)

\* STF exists only because it was there at genesis, because apply_bond minted it for
\* the stakers (token_minted counts those whole tokens), or because finish_bond paid
\* out an escrow, once; and the mint's supply is what the accounts hold.
SupplyAccounted ==
    /\ stf_supply = treasury_stf + SumOverUsers(user_stf)
    /\ initialized =>
         stf_supply = NumUsers * InitialStf + InitialVault
                      + StfUnit * (token_minted - GenesisMinted)
                      + SumOf([u \in Redeemed |-> escrow[u].num_token_to_redeem], Redeemed)

\* What the treasury holds of a payment mint is what the escrows record, each payment
\* once, and what was staked in it: no second bond overwrites the account of a first,
\* no payment is taken without an escrow, and no stake passes for a payment.
EscrowsAccountForFunds ==
    \A m \in Mints :
        treasury_funds[m] = other_staked[m] +
            SumOf([u \in PaidIn(m) |-> escrow[u].token_amount * MintUnit[m]], PaidIn(m))

-----------------------------------------------------------------------------
(* Action properties *)

\* While nothing of another mint is staked on balance, no instruction, by whomever,
\* takes from the STF a user holds or could cash more than the part of one share that
\* stake_stf rounds away; except the user's own unstake in another mint.  (Where other
\* mints are staked the vault may hold less STF than the shares are worth, and whoever
\* unstakes first is paid: what then remains true is StakesBacked.)
UnstakesAnother(u) ==
    \E mint \in TwoDecimals, amount \in UnstakeAmounts : UnStakeSTF(u, mint, amount)
WealthKept ==
    [][initialized /\ OnlyStfStaked /\ OnlyStfStaked' =>
          \A u \in Users : \/ Wealth(u)' > Wealth(u) - staking_index
                           \/ UnstakesAnother(u)]_vars

\* An escrow is opened once, keeps its terms until it matures, and is closed only
\* together with the payment of what it promises: apply_bond's load_init and the three
\* checks of finish_bond together.
EscrowTermsKept ==
    [][\A u \in Bonded :
          \/ escrow'[u] = escrow[u]
          \/ /\ escrow[u].is_finished = 1
             /\ escrow'[u] = [escrow[u] EXCEPT !.is_finished = 2]
             /\ unix_timestamp >= escrow[u].end_timestamp
             /\ user_stf'[u] = user_stf[u] + escrow[u].num_token_to_redeem]_vars

\* Selling a bond never lowers the backing price: what the stakers are credited is no
\* more than the payment buys at the backing price, whatever spot price the caller
\* names.  Only calcu_balance, which revalues the treasury, may lower it.
BackingNotDiluted ==
    [][\/ \E value \in Revaluations : CalcuBalance(value)
       \/ ~initialized
       \/ token_minted = 0
       \/ BackingPrice(treasury_value', token_minted') >=
             BackingPrice(treasury_value, token_minted)]_vars

\* Once somebody has staked, token_staked is never zero again: unstake.rs keeps the
\* last share of every user back, and apply_bond divides by token_staked.
BondMarketStaysOpen == [][token_staked > 0 => token_staked' > 0]_vars

-----------------------------------------------------------------------------
(* Liveness *)

\* Every bond sold is eventually redeemed, once the clock has passed its term.
BondsMature ==
    \A u \in Users : (u \in Bonded) ~> (u \in Redeemed)

-----------------------------------------------------------------------------
(* Refinement *)

\* The bond in a user's escrow, and what has been minted beyond the genesis supply
\* and the tokens credited to the stakers: the redemptions paid out.
BondOf(e) ==
    IF e = NoEscrow THEN NoEscrow
    ELSE [currency |-> e.token_mint, paid |-> Wrap(e.token_amount * MintUnit[e.token_mint]),
          promised |-> e.num_token_to_redeem, due |-> e.end_timestamp,
          open |-> e.is_finished = 1]
GenesisSupply == NumUsers * InitialStf + InitialVault
RedemptionsMinted ==
    IF initialized THEN stf_supply - GenesisSupply - StfUnit * (token_minted - GenesisMinted)
    ELSE 0

Market == INSTANCE BondMarket WITH
    Buyers <- Users, Currencies <- Mints, Term <- VestingPeriod, NoBond <- NoEscrow,
    now <- unix_timestamp, bond <- [u \in Users |-> BondOf(escrow[u])],
    received <- [m \in Mints |-> treasury_funds[m] - other_staked[m]],
    paid_out <- RedemptionsMinted

ASSUME BondAssumption == NoEscrow \notin Market!Bonds

\* apply_bond, finish_bond and everything that happens between them implement the
\* market of BondMarket: staking, revaluations and the bonds of others never change
\* what a bond is owed or what the treasury has received for bonds.
BondMarketKept == Market!Spec

\* The same with its promise: every bond that is due is paid, given that its owner
\* keeps sending finish_bond.
BondMarketServed == Market!FairSpec

-----------------------------------------------------------------------------
(* What the repository's tests, comments and messages say, and the code does not do. *)

\* tests/saturn-v1.ts:299 expects initialize to leave a treasury with the admin in it.
InitializeSucceeds == <>initialized

\* tests/saturn_v1.test.ts:228 buys a bond before anybody stakes (304).
BondBeforeStake ==
    /\ initialized
    /\ token_staked = 0
    /\ BackingPrice(treasury_value, token_minted) > 0
    /\ unix_timestamp + VestingPeriod <= MaxTime
    => \A u \in Users, m \in Mints, amount \in TokenAmounts, spot \in SpotPrices :
          EscrowIsNew(u) /\ PriceIsFresh(m) /\ user_funds[u][m] >= amount * MintUnit[m]
             => ENABLED ApplyBond(u, m, amount, spot)

\* error.rs:26 names the refusal "Not enough staked Saturn To Unstake".
RefusedOnlyWhenNotEnough ==
    \A u \in Users, amount \in UnstakeAmounts :
        /\ initialized
        /\ total_staked_index[u] >= amount
        /\ treasury_stf >= amount * staking_index
        => ENABLED UnStakeSTF(u, Stf, amount)

\* apply_bond.rs:179 says num_token_to_redeem should carry the decimals of the staking
\* token, as the tokens minted for the stakers do.
RedemptionInWholeTokens ==
    [][\A u \in Users : u \in Redeemed' \ Redeemed =>
          user_stf'[u] = user_stf[u] + StfUnit * escrow[u].num_token_to_redeem]_vars
=============================================================================
