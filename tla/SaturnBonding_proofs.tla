------------------------- MODULE SaturnBonding_proofs -------------------------
(***************************************************************************)
(* Bonding and staking, for any number of users, any mints, prices and     *)
(* arguments in range, any genesis and any width of the counters.          *)
(***************************************************************************)
EXTENDS SaturnBondingProperties, SaturnArith_proofs, Sums_proofs

-----------------------------------------------------------------------------
(* What a step of apply_bond computes *)

\* A payment in range is worth what the price says, and a hundred times that is a u64.
LEMMA PaymentInRange ==
    ASSUME NEW price \in Prices, NEW amount \in TokenAmounts
    PROVE  /\ ToI64(price * ToI64(amount)) = price * amount
           /\ price * amount \in Nat
           /\ StfUnit * (price * amount) < U64
<1>1. price \in Nat /\ amount \in 0..(U64 - 1) /\ 200 * (price * amount) < U64
  BY ArgumentAssumption DEF StfUnit
<1>2. price * amount \in Nat
  BY <1>1, U64Assumption
<1>3. price * ToI64(amount) = price * amount
  <2>1. CASE price = 0
    <3>1. ToI64(amount) \in Int /\ amount \in Int
      BY <1>1, WrapType, U64Assumption DEF ToI64
    <3>2. QED
      BY <2>1, <3>1
  <2>2. CASE price # 0
    <3>1. amount <= price * amount
      BY <1>1, <2>2, U64Assumption
    <3>2. 2 * amount < U64
      BY <1>1, <1>2, <3>1, U64Assumption
    <3>3. Wrap(amount) = amount
      BY <1>1, WrapSmall, U64Assumption
    <3>4. amount < U64 \div 2
      BY <1>1, <3>2, U64Assumption
    <3>5. QED
      BY <3>3, <3>4 DEF ToI64
  <2>3. QED
    BY <2>1, <2>2
<1>4. ToI64(price * amount) = price * amount
  <2> DEFINE t == price * amount
  <2>1. t \in Nat /\ 200 * t < U64
    BY <1>1, <1>2
  <2> HIDE DEF t
  <2>2. Wrap(t) = t /\ t < U64 \div 2
    BY <2>1, WrapSmall, U64Assumption
  <2>3. ToI64(t) = t
    BY <2>2 DEF ToI64
  <2>4. QED
    BY <2>3 DEF t
<1>5. StfUnit * (price * amount) < U64
  <2> DEFINE t == price * amount
  <2>1. t \in Nat /\ 200 * t < U64
    BY <1>1, <1>2
  <2> HIDE DEF t
  <2>2. 100 * t < U64
    BY <2>1, U64Assumption
  <2>3. QED
    BY <2>2 DEF StfUnit, t
<1>6. QED
  BY <1>2, <1>3, <1>4, <1>5

\* The facts about an apply_bond that succeeds which the invariants need.
LEMMA BondFacts ==
    ASSUME TypeOK,
           NEW u \in Users, NEW m \in Mints, NEW token_amount \in TokenAmounts,
           NEW spot_price \in SpotPrices, ApplyBond(u, m, token_amount, spot_price)
    PROVE  LET total_price == feed[m].price * token_amount
               backing == BackingPrice(treasury_value, token_minted)
               n == NumTokenToMint(spot_price, backing, total_price)
           IN  /\ total_price \in Nat
               /\ n \in Nat
               /\ n <= Wrap(n * StfUnit)
               /\ Wrap(n * StfUnit) = n * StfUnit
               /\ NumTokenToRedeem(spot_price, backing, total_price) \in Nat
               /\ ToI64(feed[m].price * ToI64(token_amount)) = total_price
<1> DEFINE total_price == feed[m].price * token_amount
           backing == BackingPrice(treasury_value, token_minted)
           n == NumTokenToMint(spot_price, backing, total_price)
<1>1. feed[m].price \in Prices
  BY DEF TypeOK
<1>2. /\ ToI64(feed[m].price * ToI64(token_amount)) = total_price
      /\ total_price \in Nat
      /\ StfUnit * total_price < U64
  BY <1>1, PaymentInRange
<1>3. backing \in 1..(U64 - 1)
  <2>1. treasury_value \in Int /\ token_minted \in Nat
    BY U64Assumption DEF TypeOK
  <2>2. backing # 0
    BY DEF ApplyBond
  <2>3. QED
    BY <2>1, <2>2, BackingType, U64Assumption
<1>4. BondPrice(spot_price, backing) # 0
  BY DEF ApplyBond
<1>5. spot_price \in 0..(U64 - 1)
  BY ArgumentAssumption
<1> HIDE DEF total_price, backing
<1>6. n \in 0..total_price
  BY <1>2, <1>3, <1>4, <1>5, MintBound, U64Assumption DEF StfUnit
<1>7. NumTokenToRedeem(spot_price, backing, total_price) \in Nat
  BY <1>2, <1>3, <1>4, <1>5, RedeemType
<1> HIDE DEF n
<1>8. n * StfUnit \in 0..(U64 - 1) /\ n <= n * StfUnit
  BY <1>2, <1>6, U64Assumption DEF StfUnit
<1>9. Wrap(n * StfUnit) = n * StfUnit
  BY <1>8, WrapSmall
<1>10. QED
  BY <1>2, <1>6, <1>7, <1>8, <1>9 DEF total_price, backing, n

-----------------------------------------------------------------------------
(* The shares of the users and their total *)

LEMMA UsersFinite == IsFiniteSet(Users) /\ Cardinality(Users) = NumUsers
BY FS_Interval, UsersAssumption DEF Users

LEMMA SumOfZeroes == SumOf([u \in Users |-> 0], Users) = 0
<1>1. SumOf([u \in Users |-> 0], Users) = NumUsers * 0
  BY SumConstant, UsersFinite
<1>2. QED
  BY <1>1, UsersAssumption

-----------------------------------------------------------------------------
(* What is staked, in STF and in other mints *)

\* The token accounts' part of TypeOK.
TokensTyped ==
    /\ treasury_stf \in 0..(U64 - 1)
    /\ user_stf \in [Users -> 0..(U64 - 1)]
    /\ user_funds \in [Users -> [Tokens -> Nat]]
    /\ treasury_funds \in [Tokens -> Nat]
    /\ other_staked \in [Tokens -> Int]

LEMMA VaultedInt ==
    ASSUME TypeOK
    PROVE  OtherStaked \in Int /\ Vaulted \in Int
<1>1. \A m \in Tokens : other_staked[m] \in Int
  BY DEF TypeOK
<1>2. OtherStaked \in Int
  BY <1>1, SumInt, TokenAssumption DEF OtherStaked
<1>3. treasury_stf \in Int
  BY U64Assumption DEF TypeOK
<1>4. QED
  BY <1>2, <1>3 DEF Vaulted

LEMMA VaultedMoves ==
    ASSUME TypeOK, NEW mint \in Tokens, NEW d \in Int, treasury_stf' = treasury_stf,
           other_staked' = [other_staked EXCEPT ![mint] = other_staked[mint] + d]
    PROVE  other_staked' \in [Tokens -> Int] /\ Vaulted' = Vaulted + d
<1>1. other_staked \in [Tokens -> Int] /\ other_staked' \in [Tokens -> Int]
  BY DEF TypeOK
<1>2. DiffersAt(other_staked, other_staked', Tokens, mint, d)
  BY <1>1, TokenAssumption DEF DiffersAt
<1>3. OtherStaked' = OtherStaked + d
  BY <1>2, SumChanged DEF OtherStaked
<1>4. treasury_stf \in Int /\ OtherStaked \in Int
  BY VaultedInt, U64Assumption DEF TypeOK
<1>5. QED
  BY <1>1, <1>3, <1>4 DEF Vaulted

\* A deposit in whatever mint is taken in full, and counted once.
LEMMA DepositFacts ==
    ASSUME TypeOK, NEW u \in Users, NEW mint \in Tokens \cup {Stf}, NEW amount \in Nat,
           Deposit(u, mint, amount)
    PROVE  TokensTyped' /\ Vaulted' = Vaulted + amount
<1>1. CASE mint = Stf
  <2>1. /\ user_stf[u] >= amount /\ treasury_stf + amount < U64
        /\ user_stf' = [user_stf EXCEPT ![u] = user_stf[u] - amount]
        /\ treasury_stf' = treasury_stf + amount
        /\ UNCHANGED <<user_funds, treasury_funds, other_staked>>
    BY <1>1, TokenAssumption DEF Deposit, fundVars
  <2>2. user_stf[u] - amount \in 0..(U64 - 1) /\ treasury_stf + amount \in 0..(U64 - 1)
    BY <2>1, U64Assumption DEF TypeOK
  <2>3. TokensTyped'
    BY <2>1, <2>2 DEF TypeOK, TokensTyped
  <2>4. OtherStaked' = OtherStaked
    BY <2>1 DEF OtherStaked
  <2>5. treasury_stf \in Int /\ OtherStaked \in Int
    BY VaultedInt, U64Assumption DEF TypeOK
  <2>6. QED
    BY <2>1, <2>3, <2>4, <2>5 DEF Vaulted
<1>2. CASE mint \in Tokens
  <2>1. /\ user_funds[u][mint] >= amount
        /\ user_funds' = [user_funds EXCEPT ![u][mint] = user_funds[u][mint] - amount]
        /\ treasury_funds' = [treasury_funds EXCEPT ![mint] = treasury_funds[mint] + amount]
        /\ other_staked' = [other_staked EXCEPT ![mint] = other_staked[mint] + amount]
        /\ UNCHANGED <<user_stf, treasury_stf>>
    BY <1>2, TokenAssumption DEF Deposit
  <2>2. other_staked' \in [Tokens -> Int] /\ Vaulted' = Vaulted + amount
    <3>1. amount \in Int
      OBVIOUS
    <3>2. QED
      BY <1>2, <2>1, <3>1, VaultedMoves, Zenon
  <2>3. user_funds[u] \in [Tokens -> Nat] /\ treasury_funds \in [Tokens -> Nat]
    BY DEF TypeOK
  <2>4. user_funds[u][mint] - amount \in Nat /\ treasury_funds[mint] + amount \in Nat
    BY <1>2, <2>1, <2>3
  <2>5. QED
    BY <2>1, <2>2, <2>3, <2>4 DEF TypeOK, TokensTyped
<1>3. QED
  BY <1>1, <1>2

\* ... and so is what is paid out.
LEMMA WithdrawFacts ==
    ASSUME TypeOK, NEW u \in Users, NEW mint \in Tokens \cup {Stf}, NEW amount \in Nat,
           Withdraw(u, mint, amount)
    PROVE  TokensTyped' /\ Vaulted' = Vaulted - amount
<1>1. CASE mint = Stf
  <2>1. /\ treasury_stf >= amount /\ user_stf[u] + amount < U64
        /\ user_stf' = [user_stf EXCEPT ![u] = user_stf[u] + amount]
        /\ treasury_stf' = treasury_stf - amount
        /\ UNCHANGED <<user_funds, treasury_funds, other_staked>>
    BY <1>1, TokenAssumption DEF Withdraw, fundVars
  <2>2. user_stf[u] + amount \in 0..(U64 - 1) /\ treasury_stf - amount \in 0..(U64 - 1)
    BY <2>1, U64Assumption DEF TypeOK
  <2>3. TokensTyped'
    BY <2>1, <2>2 DEF TypeOK, TokensTyped
  <2>4. OtherStaked' = OtherStaked
    BY <2>1 DEF OtherStaked
  <2>5. treasury_stf \in Int /\ OtherStaked \in Int
    BY VaultedInt, U64Assumption DEF TypeOK
  <2>6. QED
    BY <2>1, <2>3, <2>4, <2>5 DEF Vaulted
<1>2. CASE mint \in Tokens
  <2>1. /\ treasury_funds[mint] >= amount
        /\ user_funds' = [user_funds EXCEPT ![u][mint] = user_funds[u][mint] + amount]
        /\ treasury_funds' = [treasury_funds EXCEPT ![mint] = treasury_funds[mint] - amount]
        /\ other_staked' = [other_staked EXCEPT ![mint] = other_staked[mint] - amount]
        /\ UNCHANGED <<user_stf, treasury_stf>>
    BY <1>2, TokenAssumption DEF Withdraw
  <2>2. other_staked[mint] - amount = other_staked[mint] + (0 - amount) /\ 0 - amount \in Int
    BY <1>2 DEF TypeOK
  <2>3. other_staked' = [other_staked EXCEPT ![mint] = other_staked[mint] + (0 - amount)]
    BY <2>1, <2>2
  <2>4. other_staked' \in [Tokens -> Int] /\ Vaulted' = Vaulted + (0 - amount)
    BY <1>2, <2>1, <2>2, <2>3, VaultedMoves
  <2>5. user_funds[u] \in [Tokens -> Nat] /\ treasury_funds \in [Tokens -> Nat]
    BY DEF TypeOK
  <2>6. user_funds[u][mint] + amount \in Nat /\ treasury_funds[mint] - amount \in Nat
    BY <1>2, <2>1, <2>5
  <2>7. TokensTyped'
    BY <2>1, <2>4, <2>5, <2>6 DEF TypeOK, TokensTyped
  <2>8. QED
    BY <2>4, <2>7, VaultedInt
<1>3. QED
  BY <1>1, <1>2

\* Nothing else is staked or paid out.
LEMMA VaultedKept ==
    ASSUME UNCHANGED <<treasury_stf, other_staked>>
    PROVE  Vaulted' = Vaulted
BY DEF Vaulted, OtherStaked

-----------------------------------------------------------------------------
(* The inductive invariant *)

\* The treasury account is zero until initialize, and no share is worth nothing after.
IndexStarted ==
    /\ initialized => staking_index > 0
    /\ ~initialized => token_staked = 0

IndInv == TypeOK /\ IndexStarted /\ StakeConservation /\ StakesBacked

\* In every state of IndInv a user's shares are among the total's, and worth no more
\* than what is staked.
LEMMA ClaimCovered ==
    ASSUME IndInv, NEW u \in Users
    PROVE  /\ total_staked_index[u] \in Nat
           /\ total_staked_index[u] <= token_staked
           /\ total_staked_index[u] * staking_index <= token_staked * staking_index
           /\ total_staked_index[u] * staking_index \in Nat
           /\ token_staked * staking_index <= Vaulted
           /\ Vaulted \in Nat
<1>1. /\ total_staked_index \in [Users -> Nat] /\ token_staked \in Nat
      /\ staking_index \in Nat
  BY U64Assumption DEF IndInv, TypeOK
<1>2. total_staked_index[u] <= token_staked
  BY <1>1, TermInSum, UsersFinite DEF IndInv, StakeConservation, SumOverUsers
<1>3. total_staked_index[u] \in Nat
  BY <1>1
<1> DEFINE s == total_staked_index[u]
<1> HIDE DEF s
<1>4. s \in Nat /\ s <= token_staked
  BY <1>2, <1>3 DEF s
<1>5. s * staking_index <= token_staked * staking_index /\ s * staking_index \in Nat
  BY <1>1, <1>4, MulMono
<1>6. token_staked * staking_index <= Vaulted /\ Vaulted \in Int
  BY VaultedInt DEF IndInv, StakesBacked
<1>7. Vaulted \in Nat
  <2>1. token_staked * staking_index \in Nat
    BY <1>1
  <2>2. QED
    BY <1>6, <2>1
<1>8. QED
  BY <1>2, <1>3, <1>5, <1>6, <1>7 DEF s

\* stake_stf: the shares bought are worth no more than the deposit, and no sum wraps.
LEMMA StakeFacts ==
    ASSUME IndInv, VaultsFit', NEW u \in Users, NEW mint \in Tokens \cup {Stf},
           NEW amount \in StakeAmounts, StakeSTF(u, mint, amount)
    PROVE  LET d == amount \div staking_index
           IN  /\ d \in Nat
               /\ token_staked' = token_staked + d
               /\ total_staked_index' =
                     [total_staked_index EXCEPT ![u] = total_staked_index[u] + d]
               /\ (token_staked + d) * staking_index <= Vaulted'
<1> DEFINE d == amount \div staking_index
<1>0. TypeOK /\ amount \in Nat /\ Deposit(u, mint, amount)
  <2>1. amount \in 0..(U64 - 1)
    BY ArgumentAssumption
  <2>2. TypeOK /\ Deposit(u, mint, amount)
    BY Zenon DEF IndInv, StakeSTF
  <2>3. QED
    BY <2>1, <2>2
<1>1. /\ staking_index \in Nat \ {0} /\ token_staked \in Nat /\ U64 \in Nat
      /\ Vaulted' = Vaulted + amount /\ Vaulted + amount < U64
  <2>1. staking_index # 0
    BY Zenon DEF StakeSTF
  <2>2. /\ staking_index \in Nat \ {0} /\ token_staked \in Nat /\ U64 \in Nat
    BY <1>0, <2>1, U64Assumption DEF TypeOK
  <2>3. Vaulted' = Vaulted + amount
    BY <1>0, DepositFacts
  <2>4. QED
    BY <2>2, <2>3 DEF VaultsFit
<1>2. d \in Nat /\ staking_index * d <= amount
  BY <1>0, <1>1, DivBounds
<1>3. /\ token_staked' = Wrap(token_staked + d)
      /\ total_staked_index' =
            [total_staked_index EXCEPT ![u] = Wrap(total_staked_index[u] + d)]
  BY DEF StakeSTF
<1>4. /\ total_staked_index[u] \in Nat /\ total_staked_index[u] <= token_staked
      /\ token_staked * staking_index <= Vaulted /\ Vaulted \in Nat
  BY ClaimCovered
<1> HIDE DEF d
<1>5. (token_staked + d) * staking_index = token_staked * staking_index + staking_index * d
  BY <1>1, <1>2
<1>6. (token_staked + d) * staking_index <= Vaulted + amount
  <2>1. token_staked * staking_index \in Nat /\ staking_index * d \in Nat
    BY <1>1, <1>2
  <2>2. QED
    BY <1>0, <1>2, <1>4, <1>5, <2>1
<1>7. token_staked + d <= (token_staked + d) * staking_index
  <2> DEFINE t == token_staked + d
  <2>1. t \in Nat
    BY <1>1, <1>2
  <2> HIDE DEF t
  <2>2. t * 1 <= t * staking_index
    BY <1>1, <2>1, MulMono
  <2>3. QED
    BY <2>1, <2>2 DEF t
<1>8. token_staked + d < U64
  <2>1. (token_staked + d) * staking_index \in Nat
    BY <1>1, <1>2
  <2>2. QED
    BY <1>0, <1>1, <1>2, <1>4, <1>6, <1>7, <2>1
<1>9. /\ Wrap(token_staked + d) = token_staked + d
      /\ Wrap(total_staked_index[u] + d) = total_staked_index[u] + d
  <2>1. /\ token_staked + d \in 0..(U64 - 1)
        /\ total_staked_index[u] + d \in 0..(U64 - 1)
    BY <1>1, <1>2, <1>4, <1>8
  <2>2. QED
    BY <2>1, WrapSmall
<1>10. QED
  BY <1>1, <1>2, <1>3, <1>6, <1>9 DEF d

\* unstake_stf: the guard keeps every difference and the product within a u64.
LEMMA UnStakeFacts ==
    ASSUME IndInv, VaultsFit, NEW u \in Users, NEW mint \in Tokens \cup {Stf},
           NEW amount \in UnstakeAmounts, UnStakeSTF(u, mint, amount)
    PROVE  /\ amount \in Nat
           /\ amount < total_staked_index[u]
           /\ amount < token_staked
           /\ token_staked' = token_staked - amount
           /\ total_staked_index' =
                 [total_staked_index EXCEPT ![u] = total_staked_index[u] - amount]
           /\ amount * staking_index \in Nat
           /\ Wrap(amount * staking_index) = amount * staking_index
           /\ (token_staked - amount) * staking_index =
                 token_staked * staking_index - amount * staking_index
           /\ Vaulted' = Vaulted - amount * staking_index
<1>1. /\ amount \in Nat /\ staking_index \in Nat /\ token_staked \in Nat
      /\ U64 \in Nat /\ token_staked < U64 /\ TypeOK
  BY U64Assumption, ArgumentAssumption DEF IndInv, TypeOK
<1>2. /\ amount < total_staked_index[u]
      /\ token_staked' = Wrap(token_staked - amount)
      /\ total_staked_index' =
            [total_staked_index EXCEPT ![u] = Wrap(total_staked_index[u] - amount)]
      /\ Withdraw(u, mint, Wrap(amount * staking_index))
  BY DEF UnStakeSTF, UnstakeAllowed
<1>3. /\ total_staked_index[u] \in Nat /\ total_staked_index[u] <= token_staked
      /\ token_staked * staking_index <= Vaulted /\ Vaulted \in Nat
  BY ClaimCovered
<1>4. amount < token_staked
  BY <1>1, <1>2, <1>3
<1>5. /\ Wrap(token_staked - amount) = token_staked - amount
      /\ Wrap(total_staked_index[u] - amount) = total_staked_index[u] - amount
  <2>1. /\ token_staked - amount \in 0..(U64 - 1)
        /\ total_staked_index[u] - amount \in 0..(U64 - 1)
    BY <1>1, <1>2, <1>3, <1>4
  <2>2. QED
    BY <2>1, WrapSmall
<1>6. amount * staking_index <= token_staked * staking_index
  BY <1>1, <1>4, MulMono
<1>7. amount * staking_index \in Nat /\ token_staked * staking_index \in Nat
  BY <1>1
<1>8. amount * staking_index \in 0..(U64 - 1)
  BY <1>1, <1>3, <1>6, <1>7 DEF VaultsFit
<1>9. Wrap(amount * staking_index) = amount * staking_index
  BY <1>8, WrapSmall
<1>10. (token_staked - amount) * staking_index
          = token_staked * staking_index - amount * staking_index
  BY <1>1, <1>4
<1> DEFINE paid == amount * staking_index
<1>11. Withdraw(u, mint, paid)
  BY <1>2, <1>9, Zenon
<1>12. Vaulted' = Vaulted - paid
  <2>1. paid \in Nat
    BY <1>7
  <2> HIDE DEF paid
  <2>2. QED
    BY <1>1, <1>11, <2>1, WithdrawFacts
<1>13. QED
  BY <1>1, <1>2, <1>4, <1>5, <1>7, <1>9, <1>10, <1>12

\* apply_bond: the index rises by whole shares of what is minted, without wrapping, so
\* all shares together gain no more than the tokens minted to the treasury.
LEMMA RaiseFacts ==
    ASSUME IndInv, NEW n \in Nat, token_staked # 0, Vaulted + n * StfUnit < U64
    PROVE  /\ RaisedIndex(n) = staking_index + n \div token_staked
           /\ RaisedIndex(n) \in 0..(U64 - 1)
           /\ RaisedIndex(n) >= staking_index
           /\ token_staked * RaisedIndex(n) <= Vaulted + n * StfUnit
<1> DEFINE r == n \div token_staked
           i == staking_index + r
<1>1. /\ staking_index \in Nat /\ token_staked \in Nat \ {0} /\ U64 \in Nat
  BY U64Assumption DEF IndInv, TypeOK
<1>2. token_staked * staking_index <= Vaulted /\ Vaulted \in Int
  BY VaultedInt DEF IndInv, StakesBacked
<1>3. r \in Nat /\ token_staked * r <= n
  BY <1>1, DivBounds
<1> HIDE DEF r
<1>4. i \in Nat /\ i >= staking_index
  BY <1>1, <1>3
<1>5. token_staked * i = token_staked * staking_index + token_staked * r
  BY <1>1, <1>3
<1>6. token_staked * i <= Vaulted + n * StfUnit
  <2>1. token_staked * staking_index \in Nat /\ token_staked * r \in Nat
    BY <1>1, <1>3
  <2>2. n <= n * StfUnit /\ n * StfUnit \in Nat
    BY DEF StfUnit
  <2>3. QED
    BY <1>1, <1>2, <1>3, <1>5, <2>1, <2>2
<1> HIDE DEF i
<1>7. i <= token_staked * i
  <2>1. 1 * i <= token_staked * i
    BY <1>1, <1>4, MulMono
  <2>2. QED
    BY <1>4, <2>1
<1>8. i \in 0..(U64 - 1)
  <2>1. token_staked * i \in Nat /\ n * StfUnit \in Nat
    BY <1>1, <1>4 DEF StfUnit
  <2>2. QED
    BY <1>1, <1>2, <1>4, <1>6, <1>7, <2>1
<1>9. Wrap(i) = i
  BY <1>8, WrapSmall
<1>10. RaisedIndex(n) = Wrap(i)
  BY DEF RaisedIndex, i, r
<1>11. QED
  BY <1>4, <1>6, <1>8, <1>9, <1>10 DEF i, r

\* apply_bond as the invariants see it.
LEMMA BondStep ==
    ASSUME TypeOK,
           NEW u \in Users, NEW m \in Mints, NEW token_amount \in TokenAmounts,
           NEW spot_price \in SpotPrices, ApplyBond(u, m, token_amount, spot_price)
    PROVE  \E n, redeem \in Nat :
               /\ token_staked # 0
               /\ treasury_stf + n * StfUnit < U64
               /\ stf_supply + n * StfUnit < U64
               /\ token_minted' = Wrap(token_minted + n)
               /\ staking_index' = RaisedIndex(n)
               /\ treasury_stf' = treasury_stf + n * StfUnit
               /\ stf_supply' = stf_supply + n * StfUnit
               /\ treasury_value' = treasury_value + feed[m].price * token_amount
               /\ feed[m].price * token_amount \in Nat
               /\ escrow' = [escrow EXCEPT ![u] = NewEscrow(u, m, token_amount, redeem)]
               /\ other_staked' = other_staked
<1> DEFINE total_price == feed[m].price * token_amount
           backing == BackingPrice(treasury_value, token_minted)
           n == NumTokenToMint(spot_price, backing, total_price)
           redeem == NumTokenToRedeem(spot_price, backing, total_price)
<1>2. /\ total_price \in Nat
      /\ n \in Nat
      /\ Wrap(n * StfUnit) = n * StfUnit
      /\ redeem \in Nat
      /\ ToI64(feed[m].price * ToI64(token_amount)) = total_price
  BY BondFacts
<1>3. /\ token_staked # 0
      /\ treasury_stf + Wrap(n * StfUnit) < U64
      /\ stf_supply + Wrap(n * StfUnit) < U64
      /\ token_minted' = Wrap(token_minted + n)
      /\ staking_index' = RaisedIndex(n)
      /\ treasury_stf' = treasury_stf + Wrap(n * StfUnit)
      /\ stf_supply' = stf_supply + Wrap(n * StfUnit)
      /\ treasury_value' = treasury_value + total_price
      /\ escrow' = [escrow EXCEPT ![u] = NewEscrow(u, m, token_amount, redeem)]
      /\ other_staked' = other_staked
  BY <1>2 DEF ApplyBond
<1>4. QED
  BY <1>2, <1>3

-----------------------------------------------------------------------------
(* Type correctness *)

LEMMA InitType ==
    ASSUME Init PROVE TypeOK
<1>1. NumUsers * InitialStf + InitialVault < U64 /\ NumUsers * InitialStf \in Nat
  BY GenesisAssumption, UsersAssumption
<1>2. InitialStf <= NumUsers * InitialStf
  <2>1. 1 * InitialStf <= NumUsers * InitialStf
    BY GenesisAssumption, UsersAssumption, MulMono
  <2>2. QED
    BY <2>1, GenesisAssumption
<1>3. InitialStf \in 0..(U64 - 1) /\ InitialVault \in 0..(U64 - 1)
  BY <1>1, <1>2, GenesisAssumption, U64Assumption
<1>4. NumUsers * InitialStf + InitialVault \in 0..(U64 - 1)
  BY <1>1, GenesisAssumption, U64Assumption
<1>5. feed \in [Mints -> [price : Prices, publish_time : 0..MaxTime]]
  BY TimeAssumption DEF Init
<1>6. /\ user_funds \in [Users -> [Tokens -> Nat]] /\ treasury_funds \in [Tokens -> Nat]
      /\ other_staked \in [Tokens -> Int]
  BY GenesisAssumption DEF Init
<1>7. /\ total_staked_index \in [Users -> 0..(U64 - 1)]
      /\ user_stf \in [Users -> 0..(U64 - 1)]
      /\ escrow \in [Users -> Escrows \cup {NoEscrow}]
  BY <1>3, U64Assumption DEF Init
<1>8. treasury_stf \in 0..(U64 - 1) /\ stf_supply \in 0..(U64 - 1)
  BY <1>3, <1>4 DEF Init
<1>9. /\ staking_index \in 0..(U64 - 1) /\ token_minted \in 0..(U64 - 1)
      /\ token_staked \in 0..(U64 - 1) /\ treasury_value \in Int
      /\ unix_timestamp \in 0..MaxTime
  <2>1. 0 \in 0..(U64 - 1) /\ 0 \in 0..MaxTime /\ 0 \in Int
    BY U64Assumption, TimeAssumption
  <2>2. QED
    BY <2>1 DEF Init
<1>10. initialized \in BOOLEAN
  BY DEF Init
<1>11. QED
  BY <1>5, <1>6, <1>7, <1>8, <1>9, <1>10 DEF TypeOK

LEMMA StakeType ==
    ASSUME TypeOK, NEW u \in Users, NEW mint \in Tokens \cup {Stf},
           NEW amount \in StakeAmounts, StakeSTF(u, mint, amount)
    PROVE  TypeOK'
<1>1. amount \in Nat /\ staking_index \in Nat \ {0} /\ Deposit(u, mint, amount)
  BY ArgumentAssumption, U64Assumption DEF TypeOK, StakeSTF
<1>2. TokensTyped'
  BY <1>1, DepositFacts
<1> DEFINE d == amount \div staking_index
<1>3. d \in Nat
  BY <1>1, DivBounds
<1>4. /\ token_staked' = Wrap(token_staked + d)
      /\ total_staked_index' =
            [total_staked_index EXCEPT ![u] = Wrap(total_staked_index[u] + d)]
      /\ UNCHANGED <<initialized, staking_index, treasury_value, token_minted, escrow,
                     stf_supply, unix_timestamp, feed>>
  BY DEF StakeSTF, envVars
<1> HIDE DEF d
<1>5. /\ Wrap(token_staked + d) \in 0..(U64 - 1)
      /\ Wrap(total_staked_index[u] + d) \in 0..(U64 - 1)
  <2>1. token_staked + d \in Int /\ total_staked_index[u] + d \in Int
    BY <1>3, U64Assumption DEF TypeOK
  <2>2. QED
    BY <2>1, WrapType
<1>6. QED
  BY <1>2, <1>4, <1>5 DEF TypeOK, TokensTyped

LEMMA UnStakeType ==
    ASSUME TypeOK, NEW u \in Users, NEW mint \in Tokens \cup {Stf},
           NEW amount \in UnstakeAmounts, UnStakeSTF(u, mint, amount)
    PROVE  TypeOK'
<1> DEFINE paid == Wrap(amount * staking_index)
<1>1. amount \in Nat /\ staking_index \in Nat /\ U64 \in Nat
  BY ArgumentAssumption, U64Assumption DEF TypeOK
<1>2. paid \in Nat
  <2>1. amount * staking_index \in Int
    BY <1>1
  <2>2. QED
    BY <2>1, WrapType, U64Assumption
<1>3. Withdraw(u, mint, paid)
  BY DEF UnStakeSTF
<1> HIDE DEF paid
<1>4. TokensTyped'
  BY <1>2, <1>3, WithdrawFacts
<1>5. /\ token_staked' = Wrap(token_staked - amount)
      /\ total_staked_index' =
            [total_staked_index EXCEPT ![u] = Wrap(total_staked_index[u] - amount)]
      /\ UNCHANGED <<initialized, staking_index, treasury_value, token_minted, escrow,
                     stf_supply, unix_timestamp, feed>>
  BY DEF UnStakeSTF, envVars
<1>6. /\ Wrap(token_staked - amount) \in 0..(U64 - 1)
      /\ Wrap(total_staked_index[u] - amount) \in 0..(U64 - 1)
  <2>1. token_staked - amount \in Int /\ total_staked_index[u] - amount \in Int
    BY <1>1 DEF TypeOK
  <2>2. QED
    BY <2>1, WrapType
<1>7. QED
  BY <1>4, <1>5, <1>6 DEF TypeOK, TokensTyped

LEMMA BondType ==
    ASSUME TypeOK,
           NEW u \in Users, NEW m \in Mints, NEW token_amount \in TokenAmounts,
           NEW spot_price \in SpotPrices, ApplyBond(u, m, token_amount, spot_price)
    PROVE  TypeOK'
<1>2. PICK n, redeem \in Nat :
          /\ token_staked # 0
          /\ treasury_stf + n * StfUnit < U64
          /\ stf_supply + n * StfUnit < U64
          /\ token_minted' = Wrap(token_minted + n)
          /\ staking_index' = RaisedIndex(n)
          /\ treasury_stf' = treasury_stf + n * StfUnit
          /\ stf_supply' = stf_supply + n * StfUnit
          /\ treasury_value' = treasury_value + feed[m].price * token_amount
          /\ feed[m].price * token_amount \in Nat
          /\ escrow' = [escrow EXCEPT ![u] = NewEscrow(u, m, token_amount, redeem)]
          /\ other_staked' = other_staked
  BY BondStep
<1>3. staking_index' \in 0..(U64 - 1)
  <2>1. staking_index + n \div token_staked \in Int
    <3>1. token_staked \in Nat \ {0} /\ staking_index \in Nat
      BY <1>2, U64Assumption DEF TypeOK
    <3>2. n \div token_staked \in Nat
      BY <3>1, DivBounds
    <3>3. QED
      BY <3>1, <3>2
  <2>2. QED
    BY <1>2, <2>1, WrapType DEF RaisedIndex
<1>4. token_minted' \in 0..(U64 - 1)
  BY <1>2, WrapType, U64Assumption DEF TypeOK
<1>5. /\ treasury_stf' \in 0..(U64 - 1) /\ stf_supply' \in 0..(U64 - 1)
      /\ treasury_value' \in Int
  BY <1>2, U64Assumption DEF TypeOK, StfUnit
<1>6. escrow' \in [Users -> Escrows \cup {NoEscrow}]
  <2>1. unix_timestamp + VestingPeriod \in Nat /\ token_amount \in Nat
    BY TimeAssumption, ArgumentAssumption, U64Assumption DEF TypeOK
  <2>2. NewEscrow(u, m, token_amount, redeem) \in Escrows
    BY <1>2, <2>1 DEF NewEscrow, Escrows
  <2>3. QED
    BY <1>2, <2>2 DEF TypeOK
<1>7. /\ user_funds' \in [Users -> [Tokens -> Nat]]
      /\ treasury_funds' \in [Tokens -> Nat]
  <2> DEFINE payment == Wrap(token_amount * MintUnit[m])
  <2>1. payment \in Nat
    <3>1. token_amount * MintUnit[m] \in Int
      BY MintAssumption, ArgumentAssumption, U64Assumption
    <3>2. QED
      BY <3>1, WrapType, U64Assumption
  <2> HIDE DEF payment
  <2>2. /\ user_funds[u][m] >= payment
        /\ user_funds' = [user_funds EXCEPT ![u][m] = user_funds[u][m] - payment]
        /\ treasury_funds' = [treasury_funds EXCEPT ![m] = treasury_funds[m] + payment]
    BY DEF ApplyBond, payment
  <2>3. user_funds[u] \in [Tokens -> Nat] /\ treasury_funds \in [Tokens -> Nat]
    BY DEF TypeOK
  <2>4. m \in Tokens
    BY TokenAssumption
  <2> DEFINE left == user_funds[u][m] - payment
             held == treasury_funds[m] + payment
  <2>5. left \in Nat /\ held \in Nat
    BY <2>1, <2>2, <2>3, <2>4
  <2> HIDE DEF left, held
  <2>6. user_funds' = [user_funds EXCEPT ![u][m] = left]
    BY <2>2 DEF left
  <2>7. treasury_funds' = [treasury_funds EXCEPT ![m] = held]
    BY <2>2 DEF held
  <2>8. user_funds' \in [Users -> [Tokens -> Nat]]
    BY <2>5, <2>6 DEF TypeOK
  <2>9. QED
    BY <2>3, <2>5, <2>7, <2>8
<1>8. UNCHANGED <<initialized, token_staked, total_staked_index, user_stf, other_staked,
                  unix_timestamp, feed>>
  BY DEF ApplyBond, envVars
<1>9. QED
  BY <1>3, <1>4, <1>5, <1>6, <1>7, <1>8 DEF TypeOK

LEMMA FinishType ==
    ASSUME TypeOK, NEW u \in Users, FinishBond(u)
    PROVE  TypeOK'
<1>1. escrow[u] \in Escrows
  BY DEF TypeOK, FinishBond
<1> DEFINE minted == escrow[u].num_token_to_redeem
<1>2. minted \in Nat
  BY <1>1 DEF Escrows
<1> HIDE DEF minted
<1>3. /\ stf_supply + minted < U64 /\ user_stf[u] + minted < U64
      /\ stf_supply' = stf_supply + minted
      /\ user_stf' = [user_stf EXCEPT ![u] = user_stf[u] + minted]
  BY DEF FinishBond, minted
<1>4. stf_supply' \in 0..(U64 - 1) /\ user_stf[u] + minted \in 0..(U64 - 1)
  BY <1>2, <1>3, U64Assumption DEF TypeOK
<1>5. user_stf' \in [Users -> 0..(U64 - 1)]
  BY <1>3, <1>4 DEF TypeOK
<1>6. escrow' \in [Users -> Escrows \cup {NoEscrow}]
  <2>1. [escrow[u] EXCEPT !.is_finished = 2] \in Escrows
    BY <1>1 DEF Escrows
  <2>2. escrow' = [escrow EXCEPT ![u] = [escrow[u] EXCEPT !.is_finished = 2]]
    BY DEF FinishBond
  <2>3. QED
    BY <2>1, <2>2 DEF TypeOK
<1>7. UNCHANGED <<initialized, staking_index, treasury_value, token_minted, token_staked,
                  total_staked_index, treasury_stf, user_funds, treasury_funds,
                  other_staked, unix_timestamp, feed>>
  BY DEF FinishBond, treasuryVars, fundVars, envVars
<1>8. QED
  BY <1>4, <1>5, <1>6, <1>7 DEF TypeOK

\* The steps that touch neither tokens nor shares.
LEMMA OtherType ==
    ASSUME TypeOK,
           \/ Initialize
           \/ \E value \in Revaluations : CalcuBalance(value)
           \/ Tick
           \/ \E m \in Mints, price \in Prices : PublishPrice(m, price)
    PROVE  TypeOK'
<1>1. CASE Initialize
  <2>1. GenesisMinted \in 0..(U64 - 1) /\ GenesisValue \in Int
    BY GenesisAssumption, UsersAssumption, U64Assumption
  <2>2. QED
    BY <1>1, <2>1, U64Assumption DEF TypeOK, Initialize, stfVars, fundVars, envVars
<1>2. CASE \E value \in Revaluations : CalcuBalance(value)
  BY <1>2, ArgumentAssumption DEF TypeOK, CalcuBalance, stfVars, fundVars, envVars
<1>3. CASE Tick
  BY <1>3, TimeAssumption DEF TypeOK, Tick, treasuryVars, stfVars, fundVars
<1>4. CASE \E m \in Mints, price \in Prices : PublishPrice(m, price)
  BY <1>4 DEF TypeOK, PublishPrice, treasuryVars, stfVars, fundVars
<1>5. QED
  BY <1>1, <1>2, <1>3, <1>4

-----------------------------------------------------------------------------
(* One step of each kind preserves IndInv *)

LEMMA StakeKeeps ==
    ASSUME IndInv, VaultsFit', NEW u \in Users, NEW mint \in Tokens \cup {Stf},
           NEW amount \in StakeAmounts, StakeSTF(u, mint, amount)
    PROVE  IndInv'
<1> DEFINE d == amount \div staking_index
<1>1. /\ d \in Nat
      /\ token_staked' = token_staked + d
      /\ total_staked_index' =
            [total_staked_index EXCEPT ![u] = total_staked_index[u] + d]
      /\ (token_staked + d) * staking_index <= Vaulted'
  BY StakeFacts
<1> HIDE DEF d
<1>2. TypeOK'
  BY StakeType DEF IndInv
<1>3. IndexStarted'
  BY DEF IndInv, IndexStarted, StakeSTF
<1>4. StakeConservation'
  <2>1. total_staked_index \in [Users -> Int] /\ total_staked_index' \in [Users -> Int]
    BY <1>2, U64Assumption DEF IndInv, TypeOK
  <2>2. SumOf(total_staked_index', Users) = SumOf(total_staked_index, Users) + d
    <3>1. DiffersAt(total_staked_index, total_staked_index', Users, u, d)
      BY <1>1, <2>1, UsersFinite DEF DiffersAt
    <3>2. QED
      BY <3>1, SumChanged
  <2>3. QED
    BY <1>1, <2>2 DEF IndInv, StakeConservation, SumOverUsers
<1>5. StakesBacked'
  <2>1. staking_index' = staking_index
    BY DEF StakeSTF
  <2>2. QED
    BY <1>1, <2>1, Zenon DEF StakesBacked
<1>6. QED
  BY <1>2, <1>3, <1>4, <1>5 DEF IndInv

LEMMA UnStakeKeeps ==
    ASSUME IndInv, VaultsFit, NEW u \in Users, NEW mint \in Tokens \cup {Stf},
           NEW amount \in UnstakeAmounts, UnStakeSTF(u, mint, amount)
    PROVE  IndInv'
<1> DEFINE paid == amount * staking_index
<1>1. /\ amount \in Nat /\ amount < total_staked_index[u]
      /\ token_staked' = token_staked - amount
      /\ total_staked_index' =
            [total_staked_index EXCEPT ![u] = total_staked_index[u] - amount]
      /\ paid \in Nat
      /\ (token_staked - amount) * staking_index = token_staked * staking_index - paid
      /\ Vaulted' = Vaulted - paid
  BY UnStakeFacts
<1> HIDE DEF paid
<1>2. TypeOK'
  BY UnStakeType DEF IndInv
<1>3. IndexStarted'
  BY DEF IndInv, IndexStarted, UnStakeSTF
<1>4. StakeConservation'
  <2>1. total_staked_index \in [Users -> Int] /\ total_staked_index' \in [Users -> Int]
        /\ token_staked \in Int
    BY <1>2, U64Assumption DEF IndInv, TypeOK
  <2>2. SumOf(total_staked_index', Users) = SumOf(total_staked_index, Users) + (0 - amount)
    <3>1. DiffersAt(total_staked_index, total_staked_index', Users, u, 0 - amount)
      BY <1>1, <2>1, UsersFinite DEF DiffersAt
    <3>2. QED
      BY <3>1, SumChanged
  <2>3. QED
    BY <1>1, <2>1, <2>2 DEF IndInv, StakeConservation, SumOverUsers
<1>5. StakesBacked'
  <2>1. staking_index' = staking_index
    BY DEF UnStakeSTF
  <2>2. token_staked * staking_index <= Vaulted /\ Vaulted \in Int
    BY VaultedInt DEF IndInv, StakesBacked
  <2>3. token_staked * staking_index \in Nat
    BY U64Assumption DEF IndInv, TypeOK
  <2>4. token_staked' * staking_index' <= Vaulted'
    BY <1>1, <2>1, <2>2, <2>3
  <2>5. QED
    BY <2>4, Zenon DEF StakesBacked
<1>6. QED
  BY <1>2, <1>3, <1>4, <1>5 DEF IndInv

\* What apply_bond mints for the stakers is staked.
LEMMA BondVaulted ==
    ASSUME TypeOK, NEW n \in Nat, treasury_stf' = treasury_stf + n * StfUnit,
           other_staked' = other_staked
    PROVE  Vaulted' = Vaulted + n * StfUnit
<1>1. OtherStaked' = OtherStaked
  BY DEF OtherStaked
<1>2. treasury_stf \in Int /\ OtherStaked \in Int
  BY VaultedInt, U64Assumption DEF TypeOK
<1>3. QED
  BY <1>1, <1>2 DEF Vaulted, StfUnit

LEMMA BondKeeps ==
    ASSUME IndInv, VaultsFit',
           NEW u \in Users, NEW m \in Mints, NEW token_amount \in TokenAmounts,
           NEW spot_price \in SpotPrices, ApplyBond(u, m, token_amount, spot_price)
    PROVE  IndInv'
<1>0. TypeOK
  BY DEF IndInv
<1>1. PICK n \in Nat :
          /\ token_staked # 0
          /\ staking_index' = RaisedIndex(n)
          /\ treasury_stf' = treasury_stf + n * StfUnit
          /\ other_staked' = other_staked
  BY <1>0, BondStep
<1>2. Vaulted' = Vaulted + n * StfUnit /\ Vaulted + n * StfUnit < U64
  BY <1>0, <1>1, BondVaulted DEF VaultsFit
<1>3. /\ RaisedIndex(n) \in 0..(U64 - 1)
      /\ RaisedIndex(n) >= staking_index
      /\ token_staked * RaisedIndex(n) <= Vaulted + n * StfUnit
  BY <1>1, <1>2, RaiseFacts
<1>4. initialized /\ UNCHANGED <<initialized, token_staked, total_staked_index>>
  BY DEF ApplyBond
<1>5. TypeOK'
  BY <1>0, BondType
<1>6. IndexStarted'
  <2>1. staking_index \in Nat /\ staking_index > 0
    BY <1>4, U64Assumption DEF IndInv, TypeOK, IndexStarted
  <2>2. staking_index' > 0
    BY <1>1, <1>3, <2>1, U64Assumption
  <2>3. QED
    BY <1>4, <2>2 DEF IndexStarted
<1>7. StakeConservation'
  BY <1>4 DEF IndInv, StakeConservation, SumOverUsers
<1>8. StakesBacked'
  BY <1>1, <1>2, <1>3, <1>4 DEF StakesBacked
<1>9. QED
  BY <1>5, <1>6, <1>7, <1>8 DEF IndInv

\* initialize starts the index at one, over no shares.
LEMMA InitializeKeeps ==
    ASSUME IndInv, Initialize
    PROVE  IndInv'
<1>1. TypeOK'
  BY OtherType DEF IndInv
<1>2. /\ ~initialized /\ initialized' = TRUE /\ staking_index' = 1 /\ token_staked' = 0
      /\ UNCHANGED <<total_staked_index, treasury_stf, other_staked>>
  BY DEF Initialize, stfVars, fundVars
<1>3. token_staked = 0
  BY <1>2 DEF IndInv, IndexStarted
<1>4. IndexStarted'
  BY <1>2 DEF IndexStarted
<1>5. StakeConservation'
  BY <1>2, <1>3 DEF IndInv, StakeConservation, SumOverUsers
<1>6. StakesBacked'
  <2>1. staking_index \in Nat /\ 0 * staking_index <= Vaulted /\ Vaulted' = Vaulted
    BY <1>2, <1>3, VaultedKept, U64Assumption DEF IndInv, TypeOK, StakesBacked
  <2>2. QED
    BY <1>2, <2>1 DEF StakesBacked
<1>7. QED
  BY <1>1, <1>4, <1>5, <1>6 DEF IndInv

\* A step that leaves the shares, the index and what is staked alone.
LEMMA QuietKeeps ==
    ASSUME IndInv, TypeOK',
           UNCHANGED <<initialized, staking_index, token_staked, total_staked_index,
                       treasury_stf, other_staked>>
    PROVE  IndInv'
<1>1. IndexStarted'
  BY DEF IndInv, IndexStarted
<1>2. StakeConservation'
  BY DEF IndInv, StakeConservation, SumOverUsers
<1>3. StakesBacked'
  BY VaultedKept DEF IndInv, StakesBacked
<1>4. QED
  BY <1>1, <1>2, <1>3 DEF IndInv

LEMMA InitInv ==
    ASSUME Init PROVE IndInv
<1>1. TypeOK
  BY InitType
<1>2. IndexStarted
  BY DEF Init, IndexStarted
<1>3. StakeConservation
  BY SumOfZeroes DEF Init, StakeConservation, SumOverUsers
<1>4. StakesBacked
  <2>1. OtherStaked = Cardinality(Tokens) * 0
    <3>1. \A m \in Tokens : other_staked[m] = 0
      BY DEF Init
    <3>2. QED
      BY <3>1, SumConstant, TokenAssumption DEF OtherStaked
  <2>2. Cardinality(Tokens) \in Nat
    BY TokenAssumption, FS_CardinalityType
  <2>3. Vaulted = InitialVault
    BY <2>1, <2>2, GenesisAssumption DEF Init, Vaulted
  <2>4. QED
    BY <2>3, GenesisAssumption DEF Init, StakesBacked
<1>5. QED
  BY <1>1, <1>2, <1>3, <1>4 DEF IndInv

LEMMA StepType ==
    ASSUME TypeOK, [Next]_vars
    PROVE  TypeOK'
<1>1. CASE \E u \in Users, mint \in Tokens \cup {Stf}, amount \in StakeAmounts :
               StakeSTF(u, mint, amount)
  BY <1>1, StakeType
<1>2. CASE \E u \in Users, mint \in Tokens \cup {Stf}, amount \in UnstakeAmounts :
               UnStakeSTF(u, mint, amount)
  BY <1>2, UnStakeType
<1>3. CASE \E u \in Users, m \in Mints, token_amount \in TokenAmounts,
              spot_price \in SpotPrices : ApplyBond(u, m, token_amount, spot_price)
  BY <1>3, BondType
<1>4. CASE \E u \in Users : FinishBond(u)
  BY <1>4, FinishType
<1>5. CASE \/ Initialize
           \/ \E value \in Revaluations : CalcuBalance(value)
           \/ Tick
           \/ \E m \in Mints, price \in Prices : PublishPrice(m, price)
  BY <1>5, OtherType
<1>6. CASE UNCHANGED vars
  BY <1>6 DEF TypeOK, vars, treasuryVars, stfVars, fundVars, envVars
<1>7. QED
  BY <1>1, <1>2, <1>3, <1>4, <1>5, <1>6 DEF Next

LEMMA StepInv ==
    ASSUME IndInv, VaultsFit, VaultsFit', [Next]_vars
    PROVE  IndInv'
<1>0. TypeOK'
  BY StepType DEF IndInv
<1>1. CASE Initialize
  BY <1>1, InitializeKeeps
<1>2. CASE \E u \in Users, mint \in Tokens \cup {Stf}, amount \in StakeAmounts :
               StakeSTF(u, mint, amount)
  BY <1>2, StakeKeeps
<1>3. CASE \E u \in Users, mint \in Tokens \cup {Stf}, amount \in UnstakeAmounts :
               UnStakeSTF(u, mint, amount)
  BY <1>3, UnStakeKeeps
<1>4. CASE \E u \in Users, m \in Mints, token_amount \in TokenAmounts,
              spot_price \in SpotPrices : ApplyBond(u, m, token_amount, spot_price)
  BY <1>4, BondKeeps
<1>5. CASE \E u \in Users : FinishBond(u)
  BY <1>0, <1>5, QuietKeeps DEF FinishBond, treasuryVars, fundVars
<1>6. CASE \E value \in Revaluations : CalcuBalance(value)
  BY <1>0, <1>6, QuietKeeps DEF CalcuBalance, stfVars, fundVars
<1>7. CASE Tick
  BY <1>0, <1>7, QuietKeeps DEF Tick, treasuryVars, stfVars, fundVars
<1>8. CASE \E m \in Mints, price \in Prices : PublishPrice(m, price)
  BY <1>0, <1>8, QuietKeeps DEF PublishPrice, treasuryVars, stfVars, fundVars
<1>9. CASE UNCHANGED vars
  BY <1>0, <1>9, QuietKeeps DEF vars, treasuryVars, stfVars, fundVars
<1>10. QED
  BY <1>1, <1>2, <1>3, <1>4, <1>5, <1>6, <1>7, <1>8, <1>9 DEF Next

-----------------------------------------------------------------------------
(* The theorems *)

\* Every counter of the treasury, stake account and token account that the code keeps
\* in a u64 stays one, whatever is staked, in whatever mint.
THEOREM TypeCorrect == Spec => []TypeOK
<1>1. Init => TypeOK
  BY InitType
<1>2. TypeOK /\ [Next]_vars => TypeOK'
  BY StepType
<1>3. QED
  BY <1>1, <1>2, PTL DEF Spec

\* As long as all that is staked, in STF and in the other mints stake_stf takes, is a
\* u64, every reachable state satisfies the inductive invariant.
THEOREM Invariance == Spec /\ []VaultsFit => []IndInv
<1>1. Init => IndInv
  BY InitInv
<1>2. IndInv /\ VaultsFit /\ VaultsFit' /\ [Next]_vars => IndInv'
  BY StepInv
<1>3. QED
  BY <1>1, <1>2, PTL DEF Spec

\* All shares together are worth no more than what is staked, in STF and in the mints
\* the instructions take in its place, for any users, mints, prices, amounts and genesis.
THEOREM StakesAreBacked == Spec /\ []VaultsFit => []StakesBacked
<1>1. IndInv => StakesBacked
  BY DEF IndInv
<1>2. QED
  BY <1>1, Invariance, PTL

\* What the commented-out mint checks of stake.rs and unstake.rs would have bought: while
\* nothing of another mint is staked on balance, no assumption is needed, and the
\* treasury's STF account alone covers all shares.
THEOREM SolventInStf == Spec /\ []OnlyStfStaked => [](token_staked * staking_index <= treasury_stf)
<1> DEFINE Solvent == token_staked * staking_index <= treasury_stf
<1>1. TypeOK /\ OnlyStfStaked => VaultsFit
  <2> SUFFICES ASSUME TypeOK, OnlyStfStaked PROVE VaultsFit
    OBVIOUS
  <2>1. treasury_stf \in Nat /\ treasury_stf < U64 /\ OtherStaked \in Int /\ OtherStaked <= 0
    BY VaultedInt, U64Assumption DEF TypeOK, OnlyStfStaked
  <2>2. QED
    BY <2>1, U64Assumption DEF VaultsFit, Vaulted
<1>2. IndInv /\ OnlyStfStaked => Solvent
  <2> SUFFICES ASSUME IndInv, OnlyStfStaked PROVE Solvent
    OBVIOUS
  <2>1. /\ treasury_stf \in Int /\ OtherStaked \in Int /\ OtherStaked <= 0
        /\ token_staked \in Int /\ staking_index \in Int
    BY VaultedInt, U64Assumption DEF IndInv, TypeOK, OnlyStfStaked
  <2> DEFINE worth == token_staked * staking_index
  <2>2. worth \in Int /\ worth <= treasury_stf + OtherStaked
    BY <2>1 DEF IndInv, StakesBacked, Vaulted
  <2> HIDE DEF worth
  <2>3. worth <= treasury_stf
    BY <2>1, <2>2
  <2>4. QED
    BY <2>3 DEF worth
<1> HIDE DEF Solvent
<1>3. Spec /\ []OnlyStfStaked => []Solvent
  BY <1>1, <1>2, TypeCorrect, Invariance, PTL
<1>4. QED
  BY <1>3 DEF Solvent

\* token_staked is always the sum of the users' shares.
THEOREM SharesConserved == Spec /\ []VaultsFit => []StakeConservation
<1>1. IndInv => StakeConservation
  BY DEF IndInv
<1>2. QED
  BY <1>1, Invariance, PTL

\* In a state of IndInv a user's claim does not wrap, and where nothing of another mint
\* is staked on balance the treasury's STF covers it.
LEMMA ClaimPayable ==
    ASSUME IndInv, VaultsFit, NEW u \in Users
    PROVE  /\ Claim(u) \in Nat /\ Wrap(Claim(u)) = Claim(u)
           /\ OnlyStfStaked => Claim(u) <= treasury_stf
<1>1. /\ treasury_stf \in Nat /\ U64 \in Nat /\ OtherStaked \in Int
      /\ token_staked * staking_index \in Nat
  BY VaultedInt, U64Assumption DEF IndInv, TypeOK
<1>2. Claim(u) \in Nat /\ Claim(u) <= token_staked * staking_index
  BY ClaimCovered DEF Claim
<1>3. token_staked * staking_index <= Vaulted /\ Vaulted \in Nat
  BY ClaimCovered
<1>4. Claim(u) \in 0..(U64 - 1)
  BY <1>1, <1>2, <1>3 DEF VaultsFit
<1>5. ASSUME OnlyStfStaked PROVE Claim(u) <= treasury_stf
  <2>1. Vaulted <= treasury_stf
    BY <1>1, <1>5 DEF OnlyStfStaked, Vaulted
  <2>2. QED
    BY <1>1, <1>2, <1>3, <2>1
<1>6. QED
  BY <1>4, <1>5, <1>2, WrapSmall

\* unstake_stf can pay every user: no product wraps and, while nothing of another mint
\* is staked on balance, the STF account does not run dry.
THEOREM UnstakeIsHonoured == Spec /\ []VaultsFit => []UnstakeHonoured
<1>1. IndInv /\ VaultsFit => UnstakeHonoured
  BY ClaimPayable DEF UnstakeHonoured
<1>2. QED
  BY <1>1, Invariance, PTL

\* Once somebody has staked, apply_bond's division by token_staked never panics again.
THEOREM MarketStaysOpen == Spec /\ []VaultsFit => BondMarketStaysOpen
<1>1. ASSUME IndInv, VaultsFit, VaultsFit', [Next]_vars
      PROVE  [token_staked > 0 => token_staked' > 0]_vars
  <2>1. SUFFICES ASSUME Next, token_staked > 0 PROVE token_staked' > 0
    BY <1>1
  <2>2. CASE Initialize
    BY <1>1, <2>1, <2>2 DEF IndInv, IndexStarted, Initialize
  <2>3. CASE \E u \in Users, mint \in Tokens \cup {Stf}, amount \in StakeAmounts :
                StakeSTF(u, mint, amount)
    <3>1. PICK d \in Nat : token_staked' = token_staked + d
      BY <1>1, <2>3, StakeFacts
    <3>2. token_staked \in Nat
      BY <1>1, U64Assumption DEF IndInv, TypeOK
    <3>3. QED
      BY <2>1, <3>1, <3>2
  <2>4. CASE \E u \in Users, mint \in Tokens \cup {Stf}, amount \in UnstakeAmounts :
                UnStakeSTF(u, mint, amount)
    <3>1. PICK amount \in Nat : amount < token_staked /\ token_staked' = token_staked - amount
      BY <1>1, <2>4, UnStakeFacts
    <3>2. token_staked \in Nat
      BY <1>1, U64Assumption DEF IndInv, TypeOK
    <3>3. QED
      BY <3>1, <3>2
  <2>5. CASE \E u \in Users, m \in Mints, token_amount \in TokenAmounts,
                spot_price \in SpotPrices : ApplyBond(u, m, token_amount, spot_price)
    BY <2>1, <2>5 DEF ApplyBond
  <2>6. CASE \E u \in Users : FinishBond(u)
    BY <2>1, <2>6 DEF FinishBond, treasuryVars
  <2>7. CASE \E value \in Revaluations : CalcuBalance(value)
    BY <2>1, <2>7 DEF CalcuBalance
  <2>8. CASE Tick
    BY <2>1, <2>8 DEF Tick, treasuryVars
  <2>9. CASE \E m \in Mints, price \in Prices : PublishPrice(m, price)
    BY <2>1, <2>9 DEF PublishPrice, treasuryVars
  <2>10. QED
    BY <2>1, <2>2, <2>3, <2>4, <2>5, <2>6, <2>7, <2>8, <2>9 DEF Next
<1>2. QED
  BY <1>1, Invariance, PTL DEF Spec, BondMarketStaysOpen

\* An escrow keeps its terms from apply_bond until the one finish_bond that pays it.
THEOREM EscrowsKept == Spec => EscrowTermsKept
<1> DEFINE Kept(u) ==
       \/ escrow'[u] = escrow[u]
       \/ /\ escrow[u].is_finished = 1
          /\ escrow'[u] = [escrow[u] EXCEPT !.is_finished = 2]
          /\ unix_timestamp >= escrow[u].end_timestamp
          /\ user_stf'[u] = user_stf[u] + escrow[u].num_token_to_redeem
<1>1. ASSUME TypeOK, [Next]_vars
      PROVE  [\A u \in Bonded : Kept(u)]_vars
  <2>1. SUFFICES ASSUME Next, NEW u \in Bonded PROVE Kept(u)
    BY <1>1
  <2>2. u \in Users /\ escrow[u] # NoEscrow
    BY DEF Bonded
  <2>3. DOMAIN escrow = Users /\ DOMAIN user_stf = Users
    BY <1>1 DEF TypeOK
  <2>4. CASE \E w \in Users, m \in Mints, token_amount \in TokenAmounts,
                spot_price \in SpotPrices : ApplyBond(w, m, token_amount, spot_price)
    <3>1. PICK w \in Users, m \in Mints, token_amount \in TokenAmounts,
               spot_price \in SpotPrices : ApplyBond(w, m, token_amount, spot_price)
      BY <2>4
    <3>2. PICK redeem \in Nat :
              escrow' = [escrow EXCEPT ![w] = NewEscrow(w, m, token_amount, redeem)]
      BY <1>1, <3>1, BondStep
    <3>3. escrow[w] = NoEscrow
      BY <3>1 DEF ApplyBond, EscrowIsNew
    <3>4. QED
      BY <2>2, <2>3, <3>2, <3>3
  <2>5. CASE \E w \in Users : FinishBond(w)
    <3>1. PICK w \in Users : FinishBond(w)
      BY <2>5
    <3>2. CASE w = u
      BY <2>2, <2>3, <3>1, <3>2 DEF FinishBond, BondRedeemable
    <3>3. CASE w # u
      BY <2>2, <2>3, <3>1, <3>3 DEF FinishBond
    <3>4. QED
      BY <3>2, <3>3
  <2>6. CASE \/ Initialize
             \/ \E w \in Users, mint \in Tokens \cup {Stf}, amount \in StakeAmounts :
                StakeSTF(w, mint, amount)
             \/ \E w \in Users, mint \in Tokens \cup {Stf}, amount \in UnstakeAmounts :
                UnStakeSTF(w, mint, amount)
             \/ \E value \in Revaluations : CalcuBalance(value)
             \/ Tick
             \/ \E m \in Mints, price \in Prices : PublishPrice(m, price)
    BY <2>6 DEF Initialize, StakeSTF, UnStakeSTF, CalcuBalance, Tick, PublishPrice
  <2>7. QED
    BY <2>1, <2>4, <2>5, <2>6 DEF Next
<1>2. QED
  BY <1>1, TypeCorrect, PTL DEF Spec, EscrowTermsKept

\* The four ways a user's STF and shares can change leave its wealth but for the part
\* of one share.
LEMMA WealthStep ==
    ASSUME NEW idx \in Nat, idx > 0, NEW idx2 \in Nat, idx2 >= idx,
           NEW have \in Nat, NEW shares \in Nat
    PROVE  /\ have + shares * idx2 > (have + shares * idx) - idx
           /\ \A amount \in Nat :
                 (have - amount) + (shares + amount \div idx) * idx
                    > (have + shares * idx) - idx
           /\ \A amount \in Nat :
                 (have + amount * idx) + (shares - amount) * idx = have + shares * idx
<1>1. shares * idx <= shares * idx2 /\ shares * idx \in Nat /\ shares * idx2 \in Nat
  BY MulMono
<1>2. have + shares * idx2 > (have + shares * idx) - idx
  BY <1>1
<1>3. \A amount \in Nat :
         (have - amount) + (shares + amount \div idx) * idx > (have + shares * idx) - idx
  <2>1. TAKE amount \in Nat
  <2> DEFINE d == amount \div idx
  <2>2. d \in Nat /\ amount < idx * d + idx
    BY DivBounds
  <2> HIDE DEF d
  <2>3. (shares + d) * idx = shares * idx + idx * d /\ idx * d \in Nat
    BY <2>2
  <2>4. (have - amount) + (shares + d) * idx > (have + shares * idx) - idx
    BY <1>1, <2>2, <2>3
  <2>5. QED
    BY <2>4 DEF d
<1>4. \A amount \in Nat :
         (have + amount * idx) + (shares - amount) * idx = have + shares * idx
  OBVIOUS
<1>5. QED
  BY <1>2, <1>3, <1>4

\* While only STF is staked on balance, nobody's instruction takes from the STF a user
\* holds or could cash more than the part of one share that the user's own stake_stf
\* rounds away; a user who unstakes in another mint takes its own.
THEOREM WealthIsKept == Spec /\ []VaultsFit => WealthKept
<1> DEFINE Kept(u) == \/ Wealth(u)' > Wealth(u) - staking_index
                      \/ UnstakesAnother(u)
<1>1. ASSUME IndInv, UnstakeHonoured', VaultsFit, VaultsFit', [Next]_vars
      PROVE  [initialized /\ OnlyStfStaked /\ OnlyStfStaked' => \A u \in Users : Kept(u)]_vars
  <2>1. SUFFICES ASSUME Next, initialized, OnlyStfStaked, OnlyStfStaked', NEW u \in Users
                 PROVE  Kept(u)
    BY <1>1
  <2>2. /\ staking_index \in Nat /\ staking_index > 0
        /\ user_stf \in [Users -> Nat] /\ total_staked_index \in [Users -> Nat]
    BY <1>1, <2>1, U64Assumption DEF IndInv, TypeOK, IndexStarted
  <2>3. user_stf[u] \in Nat /\ total_staked_index[u] \in Nat
    BY <2>2
  <2> DEFINE have == user_stf[u]
             shares == total_staked_index[u]
             Enough(h, i, s) == h + s * i > (have + shares * staking_index) - staking_index
  <2>4. Wealth(u) = have + shares * staking_index
    BY <1>1, <2>1, ClaimPayable DEF Wealth, Cashable, Claim
  <2>5. SUFFICES Enough(user_stf'[u], staking_index', total_staked_index'[u])
                 \/ UnstakesAnother(u)
    <3>1. Claim(u)' <= treasury_stf'
      BY <1>1, <2>1 DEF UnstakeHonoured
    <3>2. Wealth(u)' = user_stf'[u] + total_staked_index'[u] * staking_index'
      BY <3>1 DEF Wealth, Cashable, Claim
    <3>3. QED
      BY <2>4, <3>2
  <2>6. \A i \in Nat : i >= staking_index => Enough(have, i, shares)
    BY <2>2, <2>3, WealthStep
  <2>7. \A amount \in Nat :
            Enough(have - amount, staking_index, shares + amount \div staking_index)
    <3> HIDE DEF have, shares
    <3>1. have \in Nat /\ shares \in Nat
      BY <2>3 DEF have, shares
    <3>2. QED
      BY <2>2, <3>1, WealthStep
  <2>8. CASE \E w \in Users, mint \in Tokens \cup {Stf}, amount \in StakeAmounts :
                StakeSTF(w, mint, amount)
    <3>1. PICK w \in Users, mint \in Tokens \cup {Stf}, amount \in StakeAmounts :
               StakeSTF(w, mint, amount)
      BY <2>8
    <3>2. amount \in Nat
      BY ArgumentAssumption, U64Assumption
    <3>3. /\ staking_index' = staking_index
          /\ \/ user_stf' = [user_stf EXCEPT ![w] = user_stf[w] - amount]
             \/ user_stf' = user_stf
          /\ total_staked_index' = [total_staked_index EXCEPT
                ![w] = total_staked_index[w] + amount \div staking_index]
      <4>1. staking_index' = staking_index /\ Deposit(w, mint, amount)
        BY <3>1, Zenon DEF StakeSTF
      <4>2. \/ user_stf' = [user_stf EXCEPT ![w] = user_stf[w] - amount]
            \/ user_stf' = user_stf
        BY <4>1, Zenon DEF Deposit
      <4>3. total_staked_index' = [total_staked_index EXCEPT
                ![w] = total_staked_index[w] + amount \div staking_index]
        BY <1>1, <3>1, StakeFacts, Zenon
      <4>4. QED
        BY <4>1, <4>2, <4>3
    <3>4. CASE w # u
      BY <2>2, <2>6, <3>3, <3>4
    <3>5. CASE w = u
      <4>1. Enough(have - amount, staking_index, shares + amount \div staking_index)
        BY <2>7, <3>2
      <4> DEFINE d == amount \div staking_index
      <4>2. d \in Nat
        BY <2>2, <3>2, DivBounds
      <4> HIDE DEF d
      <4>3. (shares + d) * staking_index \in Nat
        BY <2>2, <2>3, <4>2
      <4>4. Enough(have, staking_index, shares + d)
        <5> DEFINE x == (shares + d) * staking_index
                   y == shares * staking_index
        <5>1. x \in Nat /\ y \in Nat /\ have \in Nat
              /\ (have - amount) + x > (have + y) - staking_index
          BY <2>2, <2>3, <4>1, <4>3 DEF d
        <5> HIDE DEF x, y
        <5>2. have + x > (have + y) - staking_index
          BY <2>2, <3>2, <5>1
        <5>3. QED
          BY <5>2 DEF x, y
      <4>5. QED
        BY <2>2, <3>3, <3>5, <4>1, <4>4 DEF d
    <3>6. QED
      BY <3>4, <3>5
  <2>9. CASE \E w \in Users, mint \in Tokens \cup {Stf}, amount \in UnstakeAmounts :
                UnStakeSTF(w, mint, amount)
    <3>1. PICK w \in Users, mint \in Tokens \cup {Stf}, amount \in UnstakeAmounts :
               UnStakeSTF(w, mint, amount)
      BY <2>9
    <3> DEFINE paid == amount * staking_index
    <3>2. /\ amount \in Nat /\ paid \in Nat /\ Wrap(paid) = paid
          /\ total_staked_index' =
                [total_staked_index EXCEPT ![w] = total_staked_index[w] - amount]
      BY <1>1, <3>1, UnStakeFacts
    <3>3. /\ staking_index' = staking_index
          /\ \/ user_stf' = [user_stf EXCEPT ![w] = user_stf[w] + paid]
             \/ mint \in TwoDecimals /\ user_stf' = user_stf
      BY <3>1, <3>2 DEF UnStakeSTF, Withdraw
    <3>4. CASE w # u
      BY <2>2, <2>6, <3>2, <3>3, <3>4
    <3>5. CASE w = u
      <4>0. CASE mint \in TwoDecimals
        BY <3>1, <3>5, <4>0 DEF UnstakesAnother
      <4>1. Enough(have + paid, staking_index, shares - amount)
        BY <2>2, <2>3, <3>2, WealthStep
      <4>2. QED
        BY <2>2, <3>2, <3>3, <3>5, <4>0, <4>1
    <3>6. QED
      BY <3>4, <3>5
  <2>10. CASE \E w \in Users, m \in Mints, token_amount \in TokenAmounts,
                spot_price \in SpotPrices : ApplyBond(w, m, token_amount, spot_price)
    <3>0. TypeOK
      BY <1>1 DEF IndInv
    <3>1. PICK n \in Nat : /\ token_staked # 0
                           /\ staking_index' = RaisedIndex(n)
                           /\ treasury_stf' = treasury_stf + n * StfUnit
                           /\ other_staked' = other_staked
      BY <2>10, <3>0, BondStep
    <3>2. staking_index' \in Nat /\ staking_index' >= staking_index
      <4>1. Vaulted + n * StfUnit < U64
        BY <1>1, <3>0, <3>1, BondVaulted DEF VaultsFit
      <4>2. QED
        BY <1>1, <3>1, <4>1, RaiseFacts, U64Assumption
    <3>3. user_stf' = user_stf /\ total_staked_index' = total_staked_index
      BY <2>10 DEF ApplyBond
    <3>4. QED
      BY <2>6, <3>2, <3>3
  <2>11. CASE \E w \in Users : FinishBond(w)
    <3>1. PICK w \in Users : FinishBond(w)
      BY <2>11
    <3>2. escrow[w].num_token_to_redeem \in Nat
      BY <1>1, <3>1 DEF IndInv, TypeOK, FinishBond, Escrows
    <3>3. /\ staking_index' = staking_index /\ total_staked_index' = total_staked_index
          /\ user_stf' = [user_stf EXCEPT ![w] = user_stf[w] + escrow[w].num_token_to_redeem]
      BY <3>1 DEF FinishBond, treasuryVars
    <3>4. user_stf'[u] \in Nat /\ user_stf'[u] >= have
      BY <2>2, <3>2, <3>3
    <3>5. shares * staking_index \in Nat
      BY <2>2, <2>3
    <3>6. QED
      BY <2>2, <2>3, <3>3, <3>4, <3>5
  <2>12. CASE \/ \E value \in Revaluations : CalcuBalance(value)
              \/ Tick
              \/ \E m \in Mints, price \in Prices : PublishPrice(m, price)
    BY <2>2, <2>6, <2>12 DEF CalcuBalance, Tick, PublishPrice, stfVars, treasuryVars
  <2>13. CASE Initialize
    BY <2>1, <2>13 DEF Initialize
  <2>14. QED
    BY <2>1, <2>8, <2>9, <2>10, <2>11, <2>12, <2>13 DEF Next
<1>2. QED
  BY <1>1, Invariance, UnstakeIsHonoured, PTL DEF Spec, WealthKept

-----------------------------------------------------------------------------
(* The bond market is implemented *)

\* What has been minted beyond the genesis supply and the stakers' tokens is not
\* negative, so that token_minted has not wrapped.
PaidInv ==
    /\ initialized => token_minted >= GenesisMinted /\ RedemptionsMinted >= 0
    /\ ~initialized => stf_supply = GenesisSupply

\* Both parts of the state that decide what has been paid out, as integers.
LEMMA PaidTypes ==
    ASSUME TypeOK
    PROVE  /\ stf_supply \in Nat /\ token_minted \in Nat
           /\ GenesisSupply \in Nat /\ GenesisMinted \in Nat /\ GenesisMinted <= GenesisSupply
<1>1. NumUsers * InitialStf \in Nat
  BY GenesisAssumption, UsersAssumption
<1>2. QED
  BY <1>1, GenesisAssumption, U64Assumption DEF TypeOK, GenesisSupply

\* The tokens credited to the stakers are minted in full: token_minted does not wrap.
LEMMA MintedNeverWraps ==
    ASSUME TypeOK, PaidInv, initialized, NEW n \in Nat, stf_supply + n * StfUnit < U64
    PROVE  Wrap(token_minted + n) = token_minted + n
<1>1. /\ stf_supply \in Nat /\ token_minted \in Nat /\ token_minted >= GenesisMinted
      /\ GenesisSupply \in Nat /\ GenesisMinted \in Nat /\ GenesisMinted <= GenesisSupply
      /\ stf_supply - GenesisSupply - 100 * (token_minted - GenesisMinted) >= 0
  BY PaidTypes DEF PaidInv, RedemptionsMinted, StfUnit
<1>2. stf_supply + n * 100 < U64
  BY DEF StfUnit
<1>3. token_minted + n \in 0..(U64 - 1)
  BY <1>1, <1>2, U64Assumption
<1>4. QED
  BY <1>3, WrapSmall

\* apply_bond sells a bond ...
LEMMA SaleRefines ==
    ASSUME TypeOK, PaidInv, NEW u \in Users, NEW m \in Mints,
           NEW token_amount \in TokenAmounts, NEW spot_price \in SpotPrices,
           ApplyBond(u, m, token_amount, spot_price)
    PROVE  PaidInv' /\ Market!Sell(u)
<1>1. TypeOK
  OBVIOUS
<1>2. PICK n, redeem \in Nat :
          /\ stf_supply + n * StfUnit < U64
          /\ token_minted' = Wrap(token_minted + n)
          /\ stf_supply' = stf_supply + n * StfUnit
          /\ escrow' = [escrow EXCEPT ![u] = NewEscrow(u, m, token_amount, redeem)]
  BY BondStep
<1>3. initialized /\ initialized' = initialized
  BY Zenon DEF ApplyBond
<1>4. token_minted' = token_minted + n
  BY <1>1, <1>2, <1>3, MintedNeverWraps
<1>5. RedemptionsMinted' = RedemptionsMinted
  BY <1>1, <1>2, <1>3, <1>4, PaidTypes DEF RedemptionsMinted, StfUnit, GenesisSupply
<1>6. PaidInv'
  BY <1>1, <1>3, <1>4, <1>5, PaidTypes DEF PaidInv
<1> DEFINE e == NewEscrow(u, m, token_amount, redeem)
           paid == Wrap(token_amount * MintUnit[m])
           terms == [currency |-> m, paid |-> paid, promised |-> redeem,
                     due |-> unix_timestamp + VestingPeriod, open |-> TRUE]
           bond == [v \in Users |-> BondOf(escrow[v])]
<1>7. paid \in Nat
  <2>1. token_amount * MintUnit[m] \in Int
    BY MintAssumption, ArgumentAssumption, U64Assumption
  <2>2. QED
    BY <2>1, WrapType, U64Assumption
<1>8. unix_timestamp + VestingPeriod \in Nat /\ token_amount \in Nat
  BY <1>1, TimeAssumption, ArgumentAssumption, U64Assumption DEF TypeOK
<1>9. e # NoEscrow
  <2>1. e \in Escrows
    BY <1>2, <1>8 DEF NewEscrow, Escrows
  <2>2. QED
    BY <2>1, EscrowAssumption
<1>10. BondOf(e) = terms
  BY <1>9 DEF BondOf, NewEscrow
<1>11. escrow[u] = NoEscrow
  BY Zenon DEF ApplyBond, EscrowIsNew
<1>12. DOMAIN escrow = Users
  BY <1>1 DEF TypeOK
<1>13. bond' = [bond EXCEPT ![u] = terms]
  <2>1. bond' = [v \in Users |-> BondOf(escrow'[v])]
    BY DEF BondOf
  <2>2. \A v \in Users : escrow'[v] = IF v = u THEN e ELSE escrow[v]
    BY <1>2, <1>12
  <2>3. \A v \in Users : BondOf(escrow'[v]) = IF v = u THEN terms ELSE BondOf(escrow[v])
    BY <1>10, <2>2
  <2> HIDE DEF terms
  <2>4. QED
    BY <2>1, <2>3
<1>14. bond[u] = NoEscrow
  BY <1>11 DEF BondOf
<1> DEFINE received == [k \in Mints |-> treasury_funds[k] - other_staked[k]]
<1>15. received' = [received EXCEPT ![m] = @ + paid]
       /\ unix_timestamp' = unix_timestamp
  <2>1. /\ treasury_funds' = [treasury_funds EXCEPT ![m] = treasury_funds[m] + paid]
        /\ other_staked' = other_staked /\ unix_timestamp' = unix_timestamp
    BY Zenon DEF ApplyBond, envVars
  <2>2. received' = [k \in Mints |-> treasury_funds'[k] - other_staked[k]]
    BY <2>1
  <2>3. /\ treasury_funds \in [Tokens -> Nat] /\ other_staked \in [Tokens -> Int]
        /\ Mints \subseteq Tokens
    BY TokenAssumption DEF TypeOK
  <2> HIDE DEF paid
  <2>4. \A k \in Mints : treasury_funds'[k] - other_staked[k]
            = IF k = m THEN (treasury_funds[k] - other_staked[k]) + paid
              ELSE treasury_funds[k] - other_staked[k]
    BY <1>7, <2>1, <2>3
  <2>5. QED
    BY <2>1, <2>2, <2>4
<1>16. /\ terms \in Market!Bonds /\ terms.open /\ terms.due = unix_timestamp + VestingPeriod
       /\ terms.currency = m /\ terms.paid = paid
  BY <1>2, <1>7, <1>8 DEF Market!Bonds
<1> HIDE DEF terms, paid, received
<1>17. bond'[u] = terms
  BY <1>13
<1>18. QED
  BY <1>5, <1>6, <1>13, <1>14, <1>15, <1>16, <1>17 DEF Market!Sell, received

\* The bond of an escrow account is a bond, and never mistaken for none.
LEMMA BondIsNoEscrow ==
    ASSUME NEW e \in Escrows
    PROVE  BondOf(e) # NoEscrow
<1> DEFINE paid == Wrap(e.token_amount * MintUnit[e.token_mint])
<1>1. /\ e.token_mint \in Mints /\ e.token_amount \in Nat
      /\ e.num_token_to_redeem \in Nat /\ e.end_timestamp \in Nat
  BY DEF Escrows
<1>2. paid \in Nat
  <2>1. MintUnit[e.token_mint] \in Nat
    BY <1>1, MintAssumption
  <2>2. e.token_amount * MintUnit[e.token_mint] \in Int
    BY <1>1, <2>1
  <2>3. QED
    BY <2>2, WrapType, U64Assumption
<1>3. e # NoEscrow
  BY EscrowAssumption
<1> HIDE DEF paid
<1>4. [currency |-> e.token_mint, paid |-> paid, promised |-> e.num_token_to_redeem,
       due |-> e.end_timestamp, open |-> e.is_finished = 1] \in Market!Bonds
  BY <1>1, <1>2 DEF Market!Bonds
<1>5. BondOf(e) \in Market!Bonds
  BY <1>3, <1>4 DEF BondOf, paid
<1>6. QED
  BY <1>5, BondAssumption

\* Closing a bond changes none of its other terms.
LEMMA ClosedBond ==
    ASSUME NEW c, NEW p, NEW r, NEW d, NEW o
    PROVE  [[currency |-> c, paid |-> p, promised |-> r, due |-> d, open |-> o]
               EXCEPT !.open = FALSE]
           = [currency |-> c, paid |-> p, promised |-> r, due |-> d, open |-> FALSE]
<1> DEFINE closed == FALSE
<1> HIDE DEF closed
<1>1. [[currency |-> c, paid |-> p, promised |-> r, due |-> d, open |-> o]
          EXCEPT !.open = closed]
      = [currency |-> c, paid |-> p, promised |-> r, due |-> d, open |-> closed]
  OBVIOUS
<1>2. QED
  BY <1>1, Zenon DEF closed

\* ... finish_bond redeems one ...
LEMMA RedemptionRefines ==
    ASSUME TypeOK, PaidInv, NEW u \in Users, FinishBond(u)
    PROVE  PaidInv' /\ Market!Redeem(u)
<1> DEFINE e == escrow[u]
           minted == e.num_token_to_redeem
           bond == [v \in Users |-> BondOf(escrow[v])]
<1>1. TypeOK
  OBVIOUS
<1>2. e \in Escrows /\ e # NoEscrow
  BY <1>1 DEF TypeOK, FinishBond
<1>3. minted \in Nat
  BY <1>2 DEF Escrows
<1>4. /\ initialized /\ initialized' = initialized /\ token_minted' = token_minted
      /\ stf_supply' = stf_supply + minted
      /\ escrow' = [escrow EXCEPT ![u].is_finished = 2]
      /\ unix_timestamp >= e.end_timestamp /\ e.is_finished = 1
      /\ treasury_funds' = treasury_funds /\ other_staked' = other_staked
      /\ unix_timestamp' = unix_timestamp
  BY Zenon DEF FinishBond, BondRedeemable, treasuryVars, fundVars, envVars
<1> HIDE DEF minted
<1>5. RedemptionsMinted' = RedemptionsMinted + minted
  BY <1>1, <1>3, <1>4, PaidTypes DEF RedemptionsMinted, StfUnit, GenesisSupply
<1>6. RedemptionsMinted \in Int
  BY <1>1, PaidTypes DEF RedemptionsMinted, StfUnit
<1>7. PaidInv'
  BY <1>3, <1>4, <1>5, <1>6 DEF PaidInv
<1> DEFINE f == [e EXCEPT !.is_finished = 2]
<1>8. f # NoEscrow
  <2>1. f \in Escrows
    BY <1>2 DEF Escrows
  <2>2. QED
    BY <2>1, EscrowAssumption
<1>9. BondOf(f) = [BondOf(e) EXCEPT !.open = FALSE]
  <2>1. /\ f.token_mint = e.token_mint /\ f.token_amount = e.token_amount
        /\ f.num_token_to_redeem = e.num_token_to_redeem /\ f.end_timestamp = e.end_timestamp
        /\ f.is_finished = 2
    BY <1>2 DEF Escrows
  <2> HIDE DEF e, f
  <2> DEFINE paid == Wrap(e.token_amount * MintUnit[e.token_mint])
             open == e.is_finished = 1
             b(o) == [currency |-> e.token_mint, paid |-> paid,
                      promised |-> e.num_token_to_redeem, due |-> e.end_timestamp, open |-> o]
  <2>2. BondOf(e) = b(open)
    BY <1>2, Zenon DEF BondOf
  <2>3. BondOf(f) = b(f.is_finished = 1)
    BY <1>8, <2>1, Zenon DEF BondOf
  <2>4. (f.is_finished = 1) = FALSE
    BY <2>1
  <2>5. BondOf(f) = b(FALSE)
    BY <2>3, <2>4, Zenon
  <2> HIDE DEF paid, open
  <2>6. [b(open) EXCEPT !.open = FALSE] = b(FALSE)
    BY ClosedBond
  <2> HIDE DEF b
  <2>7. QED
    BY <2>2, <2>5, <2>6, Zenon
<1>10. /\ BondOf(e).open /\ BondOf(e).due = e.end_timestamp /\ BondOf(e).promised = minted
       /\ BondOf(e) # NoEscrow
  <2>1. BondOf(e) # NoEscrow
    BY <1>2, BondIsNoEscrow
  <2>2. e.is_finished = 1 /\ minted = e.num_token_to_redeem
    BY <1>4 DEF minted
  <2> HIDE DEF e
  <2>3. BondOf(e).due = e.end_timestamp
    BY <1>2 DEF BondOf
  <2>4. BondOf(e).promised = e.num_token_to_redeem
    BY <1>2 DEF BondOf
  <2>5. BondOf(e).open = (e.is_finished = 1)
    BY <1>2 DEF BondOf
  <2>6. QED
    BY <2>1, <2>2, <2>3, <2>4, <2>5, Zenon
<1>11. DOMAIN escrow = Users
  BY <1>1 DEF TypeOK
<1>12. bond' = [bond EXCEPT ![u].open = FALSE]
  <2>1. bond' = [v \in Users |-> BondOf(escrow'[v])]
    BY DEF BondOf
  <2>2. \A v \in Users : escrow'[v] = IF v = u THEN f ELSE escrow[v]
    BY <1>4, <1>11
  <2> DEFINE g == [BondOf(e) EXCEPT !.open = FALSE]
  <2>3. \A v \in Users : BondOf(escrow'[v]) = IF v = u THEN g ELSE BondOf(escrow[v])
    BY <1>9, <2>2
  <2>4. [bond EXCEPT ![u].open = FALSE] = [bond EXCEPT ![u] = g]
    OBVIOUS
  <2> HIDE DEF g
  <2>5. QED
    BY <2>1, <2>3, <2>4
<1>13. bond[u] = BondOf(e)
  OBVIOUS
<1>14. [m \in Mints |-> treasury_funds[m] - other_staked[m]]'
          = [m \in Mints |-> treasury_funds[m] - other_staked[m]]
  BY <1>4
<1>15. QED
  BY <1>4, <1>5, <1>7, <1>10, <1>12, <1>13, <1>14, Zenon DEF Market!Redeem

\* ... and everything else is time passing, or nothing to the market.
LEMMA QuietRefines ==
    ASSUME TypeOK, PaidInv,
           escrow' = escrow,
           \A m \in Mints : treasury_funds'[m] - other_staked'[m]
                               = treasury_funds[m] - other_staked[m],
           \/ UNCHANGED <<initialized, stf_supply, token_minted>>
           \/ Initialize,
           unix_timestamp' = unix_timestamp \/ unix_timestamp' = unix_timestamp + 1
    PROVE  PaidInv' /\ (Market!Pass \/ UNCHANGED Market!vars)
<1>1. TypeOK
  OBVIOUS
<1>2. PaidInv' /\ RedemptionsMinted' = RedemptionsMinted
  <2>1. CASE UNCHANGED <<initialized, stf_supply, token_minted>>
    BY <2>1 DEF PaidInv, RedemptionsMinted, GenesisSupply
  <2>2. CASE Initialize
    <3>1. /\ ~initialized /\ initialized' /\ token_minted' = GenesisMinted
          /\ stf_supply' = stf_supply
      BY <2>2, Zenon DEF Initialize, stfVars
    <3>2. stf_supply = GenesisSupply
      BY <3>1 DEF PaidInv
    <3>3. RedemptionsMinted = 0
      BY <3>1, Zenon DEF RedemptionsMinted
    <3>4. RedemptionsMinted' = 0
      BY <1>1, <3>1, <3>2, PaidTypes DEF RedemptionsMinted, StfUnit, GenesisSupply
    <3>5. QED
      BY <1>1, <3>1, <3>3, <3>4, PaidTypes DEF PaidInv
  <2>3. QED
    BY <2>1, <2>2
<1>3. [v \in Users |-> BondOf(escrow[v])]' = [v \in Users |-> BondOf(escrow[v])]
  BY DEF BondOf
<1> DEFINE received == [m \in Mints |-> treasury_funds[m] - other_staked[m]]
<1>0. received' = received
  <2>1. received' = [m \in Mints |-> treasury_funds'[m] - other_staked'[m]]
    OBVIOUS
  <2>2. QED
    BY <2>1
<1>4. CASE unix_timestamp' = unix_timestamp
  BY <1>0, <1>2, <1>3, <1>4, Zenon DEF Market!vars
<1>5. CASE unix_timestamp' = unix_timestamp + 1
  <2>1. unix_timestamp' > unix_timestamp
    BY <1>1, <1>5, TimeAssumption DEF TypeOK
  <2>2. QED
    BY <1>0, <1>2, <1>3, <2>1, Zenon DEF Market!Pass
<1>6. QED
  BY <1>4, <1>5

LEMMA StartRefines ==
    ASSUME Init
    PROVE  PaidInv /\ Market!Init
<1>1. /\ ~initialized /\ stf_supply = GenesisSupply /\ unix_timestamp = 0
      /\ escrow = [u \in Users |-> NoEscrow]
      /\ [m \in Mints |-> treasury_funds[m] - other_staked[m]] = [m \in Mints |-> 0]
  BY TokenAssumption DEF Init, GenesisSupply
<1>2. PaidInv /\ RedemptionsMinted = 0
  BY <1>1 DEF PaidInv, RedemptionsMinted
<1>3. [v \in Users |-> BondOf(escrow[v])] = [v \in Users |-> NoEscrow]
  BY <1>1 DEF BondOf
<1>4. QED
  BY <1>1, <1>2, <1>3 DEF Market!Init

\* What is staked in a payment mint, or unstaked in it, is no receipt.
LEMMA NoSaleKeepsReceipts ==
    ASSUME TypeOK,
           \/ Initialize
           \/ \E u \in Users, mint \in Tokens \cup {Stf}, amount \in StakeAmounts :
                StakeSTF(u, mint, amount)
           \/ \E u \in Users, mint \in Tokens \cup {Stf}, amount \in UnstakeAmounts :
                UnStakeSTF(u, mint, amount)
           \/ \E value \in Revaluations : CalcuBalance(value)
           \/ Tick
           \/ \E m \in Mints, price \in Prices : PublishPrice(m, price)
           \/ UNCHANGED vars
    PROVE  /\ escrow' = escrow
           /\ \A m \in Mints : treasury_funds'[m] - other_staked'[m]
                               = treasury_funds[m] - other_staked[m]
<1>1. treasury_funds \in [Tokens -> Nat] /\ other_staked \in [Tokens -> Int]
      /\ Mints \subseteq Tokens
  BY TokenAssumption DEF TypeOK
<1>2. ASSUME NEW mint \in Tokens, NEW d \in Int,
             treasury_funds' = [treasury_funds EXCEPT ![mint] = treasury_funds[mint] + d],
             other_staked' = [other_staked EXCEPT ![mint] = other_staked[mint] + d]
      PROVE  \A m \in Mints : treasury_funds'[m] - other_staked'[m]
                               = treasury_funds[m] - other_staked[m]
  BY <1>1, <1>2
<1>3. ASSUME NEW u \in Users, NEW mint \in Tokens \cup {Stf}, NEW amount \in StakeAmounts,
             StakeSTF(u, mint, amount)
      PROVE  /\ escrow' = escrow
             /\ \A m \in Mints : treasury_funds'[m] - other_staked'[m]
                                 = treasury_funds[m] - other_staked[m]
  <2>1. escrow' = escrow /\ Deposit(u, mint, amount)
    BY <1>3, Zenon DEF StakeSTF
  <2>2. amount \in Int
    BY ArgumentAssumption, U64Assumption
  <2>3. \/ UNCHANGED <<treasury_funds, other_staked>>
        \/ /\ mint \in Tokens
           /\ treasury_funds' = [treasury_funds EXCEPT ![mint] = treasury_funds[mint] + amount]
           /\ other_staked' = [other_staked EXCEPT ![mint] = other_staked[mint] + amount]
    BY <2>1, Zenon DEF Deposit, fundVars
  <2>4. QED
    BY <1>2, <2>1, <2>2, <2>3
<1>4. ASSUME NEW u \in Users, NEW mint \in Tokens \cup {Stf}, NEW amount \in UnstakeAmounts,
             UnStakeSTF(u, mint, amount)
      PROVE  /\ escrow' = escrow
             /\ \A m \in Mints : treasury_funds'[m] - other_staked'[m]
                                 = treasury_funds[m] - other_staked[m]
  <2> DEFINE paid == Wrap(amount * staking_index)
  <2>1. escrow' = escrow /\ Withdraw(u, mint, paid)
    BY <1>4, Zenon DEF UnStakeSTF
  <2>2. paid \in Int
    BY WrapType, ArgumentAssumption, U64Assumption DEF TypeOK
  <2> HIDE DEF paid
  <2>3. \/ UNCHANGED <<treasury_funds, other_staked>>
        \/ /\ mint \in Tokens
           /\ treasury_funds' = [treasury_funds EXCEPT ![mint] = treasury_funds[mint] - paid]
           /\ other_staked' = [other_staked EXCEPT ![mint] = other_staked[mint] - paid]
    BY <2>1, TokenAssumption, Zenon DEF Withdraw, fundVars
  <2>4. \A k \in Tokens : /\ treasury_funds[k] - paid = treasury_funds[k] + (0 - paid)
                          /\ other_staked[k] - paid = other_staked[k] + (0 - paid)
    BY <1>1, <2>2
  <2>5. 0 - paid \in Int
    BY <2>2
  <2>6. QED
    BY <1>2, <2>1, <2>3, <2>4, <2>5
<1>5. CASE \/ Initialize
           \/ \E value \in Revaluations : CalcuBalance(value)
           \/ Tick
           \/ \E m \in Mints, price \in Prices : PublishPrice(m, price)
           \/ UNCHANGED vars
  <2>1. UNCHANGED <<escrow, treasury_funds, other_staked>>
    BY <1>5, Zenon DEF Initialize, CalcuBalance, Tick, PublishPrice, vars, fundVars
  <2>2. QED
    BY <2>1
<1>6. QED
  BY <1>3, <1>4, <1>5

LEMMA StepRefines ==
    ASSUME TypeOK, PaidInv, [Next]_vars
    PROVE  PaidInv' /\ [Market!Next]_Market!vars
<1>1. ASSUME NEW u \in Users, NEW m \in Mints, NEW token_amount \in TokenAmounts,
             NEW spot_price \in SpotPrices, ApplyBond(u, m, token_amount, spot_price)
      PROVE  PaidInv' /\ [Market!Next]_Market!vars
  BY <1>1, SaleRefines, Zenon DEF Market!Next
<1>2. ASSUME NEW u \in Users, FinishBond(u)
      PROVE  PaidInv' /\ [Market!Next]_Market!vars
  BY <1>2, RedemptionRefines, Zenon DEF Market!Next
<1>3. ASSUME \/ Initialize
             \/ \E u \in Users, mint \in Tokens \cup {Stf}, amount \in StakeAmounts :
                StakeSTF(u, mint, amount)
             \/ \E u \in Users, mint \in Tokens \cup {Stf}, amount \in UnstakeAmounts :
                UnStakeSTF(u, mint, amount)
             \/ \E value \in Revaluations : CalcuBalance(value)
             \/ Tick
             \/ \E m \in Mints, price \in Prices : PublishPrice(m, price)
             \/ UNCHANGED vars
      PROVE  PaidInv' /\ [Market!Next]_Market!vars
  <2>1. escrow' = escrow /\ \A m \in Mints : treasury_funds'[m] - other_staked'[m]
                                             = treasury_funds[m] - other_staked[m]
    BY <1>3, NoSaleKeepsReceipts
  <2>2. Initialize \/ UNCHANGED <<initialized, stf_supply, token_minted>>
    BY <1>3, Zenon DEF StakeSTF, UnStakeSTF, CalcuBalance, Tick, PublishPrice, vars, stfVars,
       treasuryVars
  <2>3. unix_timestamp' = unix_timestamp \/ unix_timestamp' = unix_timestamp + 1
    BY <1>3, Zenon DEF Initialize, StakeSTF, UnStakeSTF, CalcuBalance, Tick, PublishPrice,
       vars, envVars
  <2>4. QED
    BY <2>1, <2>2, <2>3, QuietRefines, Zenon DEF Market!Next
<1>4. QED
  BY <1>1, <1>2, <1>3, Zenon DEF Next

\* The program implements the bond market of BondMarket, for any users, mints, prices
\* and amounts in range: every apply_bond is one sale, every finish_bond one redemption
\* of exactly what that bond promised, and no stake, index raise, revaluation or bond
\* of another user is anything to the market.
THEOREM BondMarketImplemented == Spec => BondMarketKept
<1>1. Init => PaidInv /\ Market!Init
  BY StartRefines
<1>2. TypeOK /\ PaidInv /\ [Next]_vars => PaidInv' /\ [Market!Next]_Market!vars
  BY StepRefines
<1>3. QED
  BY <1>1, <1>2, TypeCorrect, PTL DEF Spec, BondMarketKept, Market!Spec

-----------------------------------------------------------------------------
(* The accounts of the token and of the payments *)

\* What each user's escrow has had minted for it, and what was paid in a mint for it.
RedeemedFor == [u \in Users |-> IF u \in Redeemed THEN escrow[u].num_token_to_redeem ELSE 0]
PaidFor(m) == [u \in Users |-> IF u \in PaidIn(m) THEN escrow[u].token_amount * MintUnit[m] ELSE 0]

\* The accounts as sums over all users, and the state before the treasury exists.
AccountsInv ==
    /\ stf_supply = treasury_stf + SumOf(user_stf, Users)
    /\ initialized =>
          stf_supply = GenesisSupply + StfUnit * (token_minted - GenesisMinted)
                       + SumOf(RedeemedFor, Users)
    /\ ~initialized => stf_supply = GenesisSupply /\ Bonded = {}

LEMMA RedeemedTypes ==
    ASSUME TypeOK
    PROVE  /\ \A u \in Users : RedeemedFor[u] \in Nat
           /\ SumOf(RedeemedFor, Users) \in Nat
           /\ SumOf([u \in Redeemed |-> escrow[u].num_token_to_redeem], Redeemed)
                 = SumOf(RedeemedFor, Users)
<1> DEFINE f == [u \in Redeemed |-> escrow[u].num_token_to_redeem]
<1>1. /\ Redeemed \in SUBSET Users
      /\ \A u \in Redeemed : escrow[u] \in Escrows
  BY DEF TypeOK, Redeemed, Bonded
<1>2. \A u \in Redeemed : escrow[u].num_token_to_redeem \in Nat
  BY <1>1 DEF Escrows
<1>3. \A u \in Users : RedeemedFor[u] \in Nat
  BY <1>2 DEF RedeemedFor
<1>4. SumOf(RedeemedFor, Users) \in Nat
  BY <1>3, SumNat, UsersFinite
<1>5. PartOf(f, Redeemed, RedeemedFor, Users)
  BY <1>1, <1>2, UsersFinite DEF PartOf, RedeemedFor
<1> HIDE DEF f
<1>6. SumOf(f, Redeemed) = SumOf(RedeemedFor, Users)
  BY <1>5, SumOverPart
<1>7. QED
  BY <1>3, <1>4, <1>6 DEF f

LEMMA AccountsMeanSupply ==
    ASSUME TypeOK, AccountsInv
    PROVE  SupplyAccounted
BY RedeemedTypes, Zenon DEF AccountsInv, SupplyAccounted, GenesisSupply, SumOverUsers

\* A user's STF account changes by as much as the total of all.
LEMMA UserStfChanged ==
    ASSUME TypeOK, TypeOK', NEW u \in Users, NEW d \in Int,
           user_stf' = [user_stf EXCEPT ![u] = user_stf[u] + d]
    PROVE  SumOf(user_stf', Users) = SumOf(user_stf, Users) + d
<1>1. user_stf \in [Users -> Int] /\ user_stf' \in [Users -> Int]
  BY U64Assumption DEF TypeOK
<1>2. DiffersAt(user_stf, user_stf', Users, u, d)
  BY <1>1, UsersFinite DEF DiffersAt
<1>3. QED
  BY <1>2, SumChanged

LEMMA UserStfSum ==
    ASSUME TypeOK
    PROVE  SumOf(user_stf, Users) \in Int
<1>1. \A u \in Users : user_stf[u] \in Int
  BY U64Assumption DEF TypeOK
<1>2. QED
  BY <1>1, SumInt, UsersFinite

\* Tokens move between an account of a user and the treasury's.
LEMMA MoveKeepsAccounts ==
    ASSUME TypeOK, TypeOK', AccountsInv, NEW u \in Users, NEW d \in Int,
           user_stf' = [user_stf EXCEPT ![u] = user_stf[u] - d],
           treasury_stf' = treasury_stf + d,
           UNCHANGED <<initialized, stf_supply, token_minted, escrow>>
    PROVE  AccountsInv'
<1>1. SumOf(user_stf', Users) = SumOf(user_stf, Users) + (0 - d)
  <2>1. user_stf[u] - d = user_stf[u] + (0 - d)
    BY U64Assumption DEF TypeOK
  <2>2. user_stf' = [user_stf EXCEPT ![u] = user_stf[u] + (0 - d)]
    BY <2>1
  <2>3. 0 - d \in Int
    OBVIOUS
  <2>4. QED
    BY <2>2, <2>3, UserStfChanged, Zenon
<1>2. treasury_stf \in Int /\ SumOf(user_stf, Users) \in Int
  BY UserStfSum, U64Assumption DEF TypeOK
<1>3. stf_supply' = treasury_stf' + SumOf(user_stf', Users)
  BY <1>1, <1>2 DEF AccountsInv
<1>4. RedeemedFor' = RedeemedFor /\ Bonded' = Bonded
  BY DEF RedeemedFor, Redeemed, Bonded
<1>5. QED
  BY <1>3, <1>4 DEF AccountsInv, GenesisSupply

\* ... or no STF moves at all.
LEMMA StillKeepsAccounts ==
    ASSUME AccountsInv,
           UNCHANGED <<initialized, stf_supply, token_minted, escrow, treasury_stf, user_stf>>
    PROVE  AccountsInv'
<1>1. RedeemedFor' = RedeemedFor /\ Bonded' = Bonded
  BY DEF RedeemedFor, Redeemed, Bonded
<1>2. QED
  BY <1>1 DEF AccountsInv, GenesisSupply

LEMMA BondKeepsAccounts ==
    ASSUME TypeOK, PaidInv, TypeOK', AccountsInv,
           NEW u \in Users, NEW m \in Mints, NEW token_amount \in TokenAmounts,
           NEW spot_price \in SpotPrices, ApplyBond(u, m, token_amount, spot_price)
    PROVE  AccountsInv'
<1>1. PICK n, redeem \in Nat :
          /\ stf_supply + n * StfUnit < U64
          /\ token_minted' = Wrap(token_minted + n)
          /\ treasury_stf' = treasury_stf + n * StfUnit
          /\ stf_supply' = stf_supply + n * StfUnit
          /\ escrow' = [escrow EXCEPT ![u] = NewEscrow(u, m, token_amount, redeem)]
  BY BondStep
<1>2. initialized /\ initialized' /\ user_stf' = user_stf /\ escrow[u] = NoEscrow
  BY DEF ApplyBond, EscrowIsNew
<1>3. TypeOK
  OBVIOUS
<1>4. token_minted' = token_minted + n
  BY <1>1, <1>2, <1>3, MintedNeverWraps
<1>5. RedeemedFor' = RedeemedFor
  <2>1. NewEscrow(u, m, token_amount, redeem).is_finished # 2
    BY DEF NewEscrow
  <2>2. \A v \in Users : v # u => escrow'[v] = escrow[v]
    BY <1>1, <1>3 DEF TypeOK
  <2>3. u \notin Redeemed /\ u \notin Redeemed'
    BY <1>1, <1>2, <1>3, <2>1 DEF Redeemed, Bonded, TypeOK
  <2>4. \A v \in Users : v # u => (v \in Redeemed' <=> v \in Redeemed)
    BY <2>2 DEF Redeemed, Bonded
  <2>5. QED
    BY <2>2, <2>3, <2>4 DEF RedeemedFor
<1>6. /\ treasury_stf \in Nat /\ stf_supply \in Nat /\ token_minted \in Nat
      /\ SumOf(user_stf, Users) \in Int /\ SumOf(RedeemedFor, Users) \in Nat
      /\ GenesisSupply \in Nat /\ GenesisMinted \in Nat
  BY <1>3, UserStfSum, RedeemedTypes, PaidTypes, U64Assumption DEF TypeOK
<1>7. stf_supply' = treasury_stf' + SumOf(user_stf', Users)
  BY <1>1, <1>2, <1>6 DEF AccountsInv, StfUnit
<1>8. stf_supply' = GenesisSupply + StfUnit * (token_minted' - GenesisMinted)
                    + SumOf(RedeemedFor', Users)
  <2>1. SumOf(RedeemedFor', Users) = SumOf(RedeemedFor, Users)
    BY <1>5, Zenon
  <2> DEFINE paid == SumOf(RedeemedFor, Users)
  <2>2. stf_supply = GenesisSupply + StfUnit * (token_minted - GenesisMinted) + paid
    BY <1>2, Zenon DEF AccountsInv
  <2>3. paid \in Nat
    BY <1>6
  <2> HIDE DEF paid
  <2>4. stf_supply' = GenesisSupply + StfUnit * (token_minted' - GenesisMinted) + paid
    BY <1>1, <1>4, <1>6, <2>2, <2>3 DEF StfUnit
  <2>5. QED
    BY <2>1, <2>4, Zenon DEF paid
<1>9. QED
  BY <1>2, <1>7, <1>8 DEF AccountsInv, GenesisSupply

LEMMA FinishKeepsAccounts ==
    ASSUME TypeOK, TypeOK', AccountsInv, NEW u \in Users, FinishBond(u)
    PROVE  AccountsInv'
<1> DEFINE minted == escrow[u].num_token_to_redeem
<1>1. escrow[u] \in Escrows /\ escrow[u] # NoEscrow /\ escrow[u].is_finished = 1
  BY DEF TypeOK, FinishBond, BondRedeemable
<1>2. minted \in Nat
  BY <1>1 DEF Escrows
<1>3. /\ initialized /\ initialized' /\ stf_supply' = stf_supply + minted
      /\ user_stf' = [user_stf EXCEPT ![u] = user_stf[u] + minted]
      /\ UNCHANGED <<token_minted, treasury_stf>>
      /\ escrow' = [escrow EXCEPT ![u] = [escrow[u] EXCEPT !.is_finished = 2]]
  BY DEF FinishBond, treasuryVars
<1>4. escrow'[u].is_finished = 2 /\ escrow'[u].num_token_to_redeem = minted
  BY <1>1, <1>3 DEF Escrows, TypeOK
<1> HIDE DEF minted
<1>5. escrow'[u] # NoEscrow
  <2>1. [escrow[u] EXCEPT !.is_finished = 2] \in Escrows
    BY <1>1 DEF Escrows
  <2>2. QED
    BY <1>3, <2>1, EscrowAssumption DEF TypeOK
<1>6. \A v \in Users : v # u => escrow'[v] = escrow[v]
  BY <1>3 DEF TypeOK
<1>7. DiffersAt(RedeemedFor, RedeemedFor', Users, u, minted)
  <2>1. u \notin Redeemed /\ u \in Redeemed'
    BY <1>1, <1>4, <1>5 DEF Redeemed, Bonded
  <2>2. RedeemedFor[u] = 0 /\ RedeemedFor'[u] = minted
    BY <1>4, <2>1 DEF RedeemedFor
  <2>3. \A v \in Users : v # u => (v \in Redeemed' <=> v \in Redeemed)
    BY <1>6 DEF Redeemed, Bonded
  <2>4. \A v \in Users : v # u => RedeemedFor'[v] = RedeemedFor[v]
    BY <1>6, <2>3 DEF RedeemedFor
  <2>5. \A v \in Users : RedeemedFor[v] \in Nat
    BY RedeemedTypes
  <2>6. QED
    BY <1>2, <2>2, <2>4, <2>5, UsersFinite DEF DiffersAt
<1>8. SumOf(RedeemedFor', Users) = SumOf(RedeemedFor, Users) + minted
  <2>1. \A f, g : DiffersAt(f, g, Users, u, minted)
                     => SumOf(g, Users) = SumOf(f, Users) + minted
    BY SumChanged
  <2>2. QED
    BY <1>7, <2>1, Zenon
<1>9. SumOf(user_stf', Users) = SumOf(user_stf, Users) + minted
  <2>1. minted \in Int
    BY <1>2
  <2>2. QED
    BY <1>3, <2>1, UserStfChanged, Zenon
<1>10. /\ treasury_stf \in Nat /\ stf_supply \in Nat /\ token_minted \in Nat
       /\ SumOf(user_stf, Users) \in Int /\ SumOf(RedeemedFor, Users) \in Nat
       /\ GenesisSupply \in Nat /\ GenesisMinted \in Nat
  BY UserStfSum, RedeemedTypes, PaidTypes, U64Assumption DEF TypeOK
<1>11. stf_supply' = treasury_stf' + SumOf(user_stf', Users)
  BY <1>2, <1>3, <1>9, <1>10 DEF AccountsInv
<1>12. stf_supply' = GenesisSupply + StfUnit * (token_minted' - GenesisMinted)
                     + SumOf(RedeemedFor', Users)
  BY <1>2, <1>3, <1>8, <1>10 DEF AccountsInv, StfUnit
<1>13. QED
  BY <1>3, <1>11, <1>12 DEF AccountsInv, GenesisSupply

\* initialize counts from the genesis supply, with no bond sold yet.
LEMMA InitializeKeepsAccounts ==
    ASSUME TypeOK, AccountsInv, Initialize
    PROVE  AccountsInv'
<1>1. /\ ~initialized /\ initialized' /\ token_minted' = GenesisMinted
      /\ UNCHANGED <<stf_supply, treasury_stf, user_stf, escrow>>
  BY DEF Initialize, stfVars
<1>2. Bonded = {} /\ stf_supply = GenesisSupply
  BY <1>1 DEF AccountsInv
<1>3. RedeemedFor' = [u \in Users |-> 0]
  BY <1>1, <1>2 DEF RedeemedFor, Redeemed, Bonded
<1>4. stf_supply' = GenesisSupply + StfUnit * (token_minted' - GenesisMinted)
                    + SumOf(RedeemedFor', Users)
  BY <1>1, <1>2, <1>3, SumOfZeroes, PaidTypes DEF StfUnit
<1>5. QED
  BY <1>1, <1>4 DEF AccountsInv, GenesisSupply

LEMMA AccountsInit ==
    ASSUME Init
    PROVE  AccountsInv
<1>1. SumOf(user_stf, Users) = NumUsers * InitialStf
  <2>1. \A u \in Users : user_stf[u] = InitialStf
    BY DEF Init
  <2>2. QED
    BY <2>1, SumConstant, UsersFinite, GenesisAssumption
<1>2. /\ treasury_stf = InitialVault /\ stf_supply = NumUsers * InitialStf + InitialVault
      /\ ~initialized /\ Bonded = {}
  BY DEF Init, Bonded
<1>3. NumUsers * InitialStf \in Nat /\ InitialVault \in Nat
  BY GenesisAssumption, UsersAssumption
<1>4. QED
  BY <1>1, <1>2, <1>3 DEF AccountsInv, GenesisSupply

LEMMA AccountsNext ==
    ASSUME TypeOK, TypeOK', PaidInv, AccountsInv, [Next]_vars
    PROVE  AccountsInv'
<1>1. TypeOK /\ TypeOK'
  OBVIOUS
<1>2. CASE Initialize
  BY <1>1, <1>2, InitializeKeepsAccounts
<1>3. ASSUME NEW u \in Users, NEW mint \in Tokens \cup {Stf}, NEW amount \in StakeAmounts,
             StakeSTF(u, mint, amount)
      PROVE  AccountsInv'
  <2>1. amount \in Int
    BY ArgumentAssumption, U64Assumption
  <2>2. Deposit(u, mint, amount) /\ UNCHANGED <<initialized, stf_supply, token_minted, escrow>>
    BY <1>3, Zenon DEF StakeSTF
  <2>3. \/ /\ user_stf' = [user_stf EXCEPT ![u] = user_stf[u] - amount]
           /\ treasury_stf' = treasury_stf + amount
        \/ UNCHANGED <<user_stf, treasury_stf>>
    BY <2>2, Zenon DEF Deposit
  <2>4. QED
    BY <1>1, <2>1, <2>2, <2>3, MoveKeepsAccounts, StillKeepsAccounts
<1>4. ASSUME NEW u \in Users, NEW mint \in Tokens \cup {Stf}, NEW amount \in UnstakeAmounts,
             UnStakeSTF(u, mint, amount)
      PROVE  AccountsInv'
  <2> DEFINE d == Wrap(amount * staking_index)
  <2>1. Withdraw(u, mint, d) /\ UNCHANGED <<initialized, stf_supply, token_minted, escrow>>
    BY <1>4, Zenon DEF UnStakeSTF
  <2>2. d \in Nat
    BY <1>1, WrapType, ArgumentAssumption, U64Assumption DEF TypeOK
  <2> HIDE DEF d
  <2>3. \/ /\ user_stf' = [user_stf EXCEPT ![u] = user_stf[u] + d]
           /\ treasury_stf' = treasury_stf - d
        \/ UNCHANGED <<user_stf, treasury_stf>>
    BY <2>1, Zenon DEF Withdraw
  <2>4. treasury_stf \in Int /\ user_stf[u] \in Int
    BY <1>1, U64Assumption DEF TypeOK
  <2>5. /\ treasury_stf - d = treasury_stf + (0 - d)
        /\ user_stf[u] + d = user_stf[u] - (0 - d)
        /\ 0 - d \in Int
    BY <2>2, <2>4
  <2>6. QED
    BY <1>1, <2>1, <2>3, <2>5, MoveKeepsAccounts, StillKeepsAccounts
<1>5. ASSUME NEW u \in Users, NEW m \in Mints, NEW token_amount \in TokenAmounts,
             NEW spot_price \in SpotPrices, ApplyBond(u, m, token_amount, spot_price)
      PROVE  AccountsInv'
  BY <1>1, <1>5, BondKeepsAccounts
<1>6. ASSUME NEW u \in Users, FinishBond(u)
      PROVE  AccountsInv'
  BY <1>1, <1>6, FinishKeepsAccounts
<1>7. CASE \/ \E value \in Revaluations : CalcuBalance(value)
           \/ Tick
           \/ \E m \in Mints, price \in Prices : PublishPrice(m, price)
           \/ UNCHANGED vars
  <2>1. UNCHANGED <<initialized, stf_supply, token_minted, escrow, treasury_stf, user_stf>>
    BY <1>7, Zenon DEF CalcuBalance, Tick, PublishPrice, vars, treasuryVars, stfVars
  <2>2. QED
    BY <2>1, StillKeepsAccounts
<1>8. QED
  BY <1>2, <1>3, <1>4, <1>5, <1>6, <1>7 DEF Next

\* token_minted has not wrapped, in any reachable state.
LEMMA PaidInvariance == Spec => []PaidInv
<1>1. Init => PaidInv
  BY StartRefines
<1>2. TypeOK /\ PaidInv /\ [Next]_vars => PaidInv'
  BY StepRefines
<1>3. QED
  BY <1>1, <1>2, TypeCorrect, PTL DEF Spec

\* The supply of STF is what the accounts hold, and it is the genesis supply, a hundred
\* base units for every token credited to the stakers, and what the redeemed escrows
\* promised, each once; for any number of users and any sequence of instructions.
THEOREM SupplyIsAccounted == Spec => []SupplyAccounted
<1>1. Init => AccountsInv
  BY AccountsInit
<1>2. TypeOK /\ TypeOK' /\ PaidInv /\ AccountsInv /\ [Next]_vars => AccountsInv'
  BY AccountsNext
<1>3. TypeOK /\ AccountsInv => SupplyAccounted
  BY AccountsMeanSupply
<1>4. QED
  BY <1>1, <1>2, <1>3, TypeCorrect, PaidInvariance, PTL DEF Spec

\* What the treasury holds of a mint and was not staked in it; the payments as sums over
\* all users.
Received(m) == treasury_funds[m] - other_staked[m]
FundsInv == \A m \in Mints : Received(m) = SumOf(PaidFor(m), Users)

LEMMA PaidForTypes ==
    ASSUME TypeOK, NEW m \in Mints
    PROVE  /\ \A u \in Users : PaidFor(m)[u] \in Nat
           /\ SumOf([u \in PaidIn(m) |-> escrow[u].token_amount * MintUnit[m]], PaidIn(m))
                 = SumOf(PaidFor(m), Users)
<1> DEFINE f == [u \in PaidIn(m) |-> escrow[u].token_amount * MintUnit[m]]
           g == PaidFor(m)
<1>1. /\ PaidIn(m) \in SUBSET Users
      /\ \A u \in PaidIn(m) : escrow[u] \in Escrows
  BY DEF TypeOK, PaidIn, Bonded
<1>2. \A u \in PaidIn(m) : escrow[u].token_amount * MintUnit[m] \in Nat
  BY <1>1, MintAssumption DEF Escrows
<1>3. \A u \in Users : g[u] \in Nat
  BY <1>2 DEF PaidFor
<1>4. PartOf(f, PaidIn(m), g, Users)
  BY <1>1, <1>2, UsersFinite DEF PartOf, PaidFor
<1> HIDE DEF f, g
<1>5. SumOf(f, PaidIn(m)) = SumOf(g, Users)
  BY <1>4, SumOverPart
<1>6. QED
  BY <1>3, <1>5, Zenon DEF f, g

\* apply_bond's payment, if it is a u64, is what its escrow records.
LEMMA BondKeepsFunds ==
    ASSUME TypeOK, FundsInv,
           NEW u \in Users, NEW m \in Mints, NEW token_amount \in TokenAmounts,
           NEW spot_price \in SpotPrices, ApplyBond(u, m, token_amount, spot_price),
           token_amount * MintUnit[m] < U64
    PROVE  FundsInv'
<1> DEFINE payment == token_amount * MintUnit[m]
<1>0. TypeOK
  OBVIOUS
<1>1. payment \in 0..(U64 - 1)
  BY ArgumentAssumption, MintAssumption, U64Assumption
<1>2. Wrap(payment) = payment
  BY <1>1, WrapSmall
<1>3. /\ treasury_funds' = [treasury_funds EXCEPT ![m] = treasury_funds[m] + payment]
      /\ other_staked' = other_staked
  BY <1>2 DEF ApplyBond
<1>4. PICK redeem \in Nat :
          escrow' = [escrow EXCEPT ![u] = NewEscrow(u, m, token_amount, redeem)]
  BY BondStep, Zenon
<1>5. /\ escrow[u] = NoEscrow /\ escrow'[u] = NewEscrow(u, m, token_amount, redeem)
      /\ \A v \in Users : v # u => escrow'[v] = escrow[v]
  BY <1>0, <1>4 DEF ApplyBond, EscrowIsNew, TypeOK
<1>6. escrow'[u] # NoEscrow /\ escrow'[u].token_mint = m /\ escrow'[u].token_amount = token_amount
  <2>1. NewEscrow(u, m, token_amount, redeem) \in Escrows
    <3>1. unix_timestamp + VestingPeriod \in Nat /\ token_amount \in Nat
      BY <1>0, TimeAssumption, ArgumentAssumption, U64Assumption DEF TypeOK
    <3>2. QED
      BY <3>1 DEF NewEscrow, Escrows
  <2>2. QED
    BY <1>5, <2>1, EscrowAssumption DEF NewEscrow
<1>7. ASSUME NEW k \in Mints
      PROVE  Received(k)' = SumOf(PaidFor(k)', Users)
  <2>1. u \notin PaidIn(k) /\ (u \in PaidIn(k)' <=> k = m)
    BY <1>5, <1>6 DEF PaidIn, Bonded
  <2>2. \A v \in Users : v # u => (v \in PaidIn(k)' <=> v \in PaidIn(k))
    BY <1>5 DEF PaidIn, Bonded
  <2> DEFINE before == PaidFor(k)
             after == PaidFor(k)'
  <2>3. \A v \in Users : v # u => after[v] = before[v]
    BY <1>5, <2>2 DEF PaidFor
  <2>4. before[u] = 0 /\ after[u] = IF k = m THEN payment ELSE 0
    BY <1>6, <2>1 DEF PaidFor
  <2>5. \A v \in Users : before[v] \in Nat
    BY <1>0, PaidForTypes
  <2> HIDE DEF before, after
  <2> DEFINE d == IF k = m THEN payment ELSE 0
  <2>6. d \in Nat
    BY <1>1
  <2>7. Received(k)' = Received(k) + d
    <3>1. /\ treasury_funds \in [Tokens -> Nat] /\ other_staked[k] \in Int
          /\ k \in Tokens /\ m \in Tokens
      BY <1>0, TokenAssumption DEF TypeOK
    <3>2. treasury_funds'[k] = treasury_funds[k] + d
      BY <1>1, <1>3, <3>1
    <3>3. other_staked'[k] = other_staked[k]
      BY <1>3, Zenon
    <3> HIDE DEF d, payment
    <3>4. QED
      BY <2>6, <3>1, <3>2, <3>3 DEF Received
  <2> HIDE DEF payment, d
  <2>8. DiffersAt(before, after, Users, u, d)
    BY <2>3, <2>4, <2>5, <2>6, UsersFinite DEF DiffersAt, d
  <2>9. SumOf(after, Users) = SumOf(before, Users) + d
    BY <2>8, SumChanged
  <2>10. Received(k) = SumOf(before, Users)
    BY Zenon DEF FundsInv, before
  <2>11. QED
    BY <2>7, <2>9, <2>10, Zenon DEF after
<1>8. QED
  BY <1>7, Zenon DEF FundsInv

LEMMA FinishKeepsFunds ==
    ASSUME TypeOK, FundsInv, NEW u \in Users, FinishBond(u)
    PROVE  FundsInv'
<1>1. escrow[u] \in Escrows /\ escrow[u] # NoEscrow
  BY DEF TypeOK, FinishBond
<1> DEFINE e == [escrow[u] EXCEPT !.is_finished = 2]
<1>2. e \in Escrows /\ e.token_mint = escrow[u].token_mint /\ e.token_amount = escrow[u].token_amount
  BY <1>1 DEF Escrows
<1>3. e # NoEscrow
  BY <1>2, EscrowAssumption
<1>4. /\ escrow' = [escrow EXCEPT ![u] = e]
      /\ treasury_funds' = treasury_funds /\ other_staked' = other_staked
  BY Zenon DEF FinishBond, fundVars
<1> HIDE DEF e
<1>5. ASSUME NEW v \in Users
      PROVE  /\ (escrow'[v] = NoEscrow) <=> (escrow[v] = NoEscrow)
             /\ escrow'[v].token_mint = escrow[v].token_mint
             /\ escrow'[v].token_amount = escrow[v].token_amount
  BY <1>1, <1>2, <1>3, <1>4 DEF TypeOK
<1>6. ASSUME NEW m \in Mints PROVE PaidFor(m)' = PaidFor(m)
  <2>1. PaidIn(m)' = PaidIn(m)
    BY <1>5 DEF PaidIn, Bonded
  <2>2. QED
    BY <1>5, <2>1 DEF PaidFor
<1>7. QED
  BY <1>4, <1>6, Zenon DEF FundsInv, Received

LEMMA FundsInit ==
    ASSUME Init PROVE FundsInv
<1>1. ASSUME NEW m \in Mints PROVE Received(m) = SumOf(PaidFor(m), Users)
  <2>1. Received(m) = 0
    BY TokenAssumption DEF Init, Received
  <2>2. PaidFor(m) = [u \in Users |-> 0]
    BY DEF Init, PaidFor, PaidIn, Bonded
  <2>3. QED
    BY <2>1, <2>2, SumOfZeroes, Zenon
<1>2. QED
  BY <1>1, Zenon DEF FundsInv

LEMMA FundsNext ==
    ASSUME TypeOK, FundsInv, [Next]_vars,
           \A m \in Mints, amount \in TokenAmounts : amount * MintUnit[m] < U64
    PROVE  FundsInv'
<1>1. ASSUME NEW u \in Users, NEW m \in Mints, NEW token_amount \in TokenAmounts,
             NEW spot_price \in SpotPrices, ApplyBond(u, m, token_amount, spot_price)
      PROVE  FundsInv'
  BY <1>1, BondKeepsFunds
<1>2. ASSUME NEW u \in Users, FinishBond(u)
      PROVE  FundsInv'
  BY <1>2, FinishKeepsFunds
<1>3. CASE \/ Initialize
           \/ \E u \in Users, mint \in Tokens \cup {Stf}, amount \in StakeAmounts :
                StakeSTF(u, mint, amount)
           \/ \E u \in Users, mint \in Tokens \cup {Stf}, amount \in UnstakeAmounts :
                UnStakeSTF(u, mint, amount)
           \/ \E value \in Revaluations : CalcuBalance(value)
           \/ Tick
           \/ \E m \in Mints, price \in Prices : PublishPrice(m, price)
           \/ UNCHANGED vars
  <2>1. escrow' = escrow /\ \A m \in Mints : Received(m)' = Received(m)
    BY <1>3, NoSaleKeepsReceipts DEF Received
  <2>2. \A m \in Mints : PaidFor(m)' = PaidFor(m)
    BY <2>1 DEF PaidFor, PaidIn, Bonded
  <2>3. QED
    BY <2>1, <2>2, Zenon DEF FundsInv
<1>4. QED
  BY <1>1, <1>2, <1>3 DEF Next

\* Where no payment exceeds a u64, every base unit the treasury has received for a bond
\* is recorded in exactly one escrow, for any users, mints and sequence of bonds.
THEOREM FundsAreAccounted ==
    ASSUME \A m \in Mints, amount \in TokenAmounts : amount * MintUnit[m] < U64
    PROVE  Spec => []EscrowsAccountForFunds
<1>1. Init => FundsInv
  BY FundsInit
<1>2. TypeOK /\ FundsInv /\ [Next]_vars => FundsInv'
  BY FundsNext
<1>3. TypeOK /\ FundsInv => EscrowsAccountForFunds
  <2> SUFFICES ASSUME TypeOK, FundsInv, NEW m \in Mints
               PROVE  treasury_funds[m] = other_staked[m] +
                        SumOf([u \in PaidIn(m) |-> escrow[u].token_amount * MintUnit[m]],
                              PaidIn(m))
    BY Zenon DEF EscrowsAccountForFunds
  <2> DEFINE paid == SumOf(PaidFor(m), Users)
  <2>1. SumOf([u \in PaidIn(m) |-> escrow[u].token_amount * MintUnit[m]], PaidIn(m)) = paid
    BY PaidForTypes
  <2>2. treasury_funds[m] - other_staked[m] = paid
    BY DEF FundsInv, Received
  <2>3. treasury_funds[m] \in Int /\ other_staked[m] \in Int
    BY TokenAssumption DEF TypeOK
  <2> HIDE DEF paid
  <2>4. treasury_funds[m] = other_staked[m] + paid
    BY <2>2, <2>3
  <2>5. QED
    BY <2>1, <2>4, Zenon
<1>4. QED
  BY <1>1, <1>2, <1>3, TypeCorrect, PTL DEF Spec

-----------------------------------------------------------------------------
(* The backing price *)

\* A bond price, which is at most a hundredth of a u64 above the backing price, is a
\* u64 itself.
BondPriceFits == BackingPrice(treasury_value, token_minted) + U64 \div 100 < U64

LEMMA BondKeepsBacking ==
    ASSUME TypeOK, PaidInv, BondPriceFits, token_minted # 0,
           NEW u \in Users, NEW m \in Mints, NEW token_amount \in TokenAmounts,
           NEW spot_price \in SpotPrices, ApplyBond(u, m, token_amount, spot_price)
    PROVE  BackingPrice(treasury_value', token_minted')
              >= BackingPrice(treasury_value, token_minted)
<1> DEFINE total_price == feed[m].price * token_amount
           backing == BackingPrice(treasury_value, token_minted)
           n == NumTokenToMint(spot_price, backing, total_price)
<1>0. TypeOK
  OBVIOUS
<1>1. /\ total_price \in Nat /\ n \in Nat
      /\ Wrap(n * StfUnit) = n * StfUnit
      /\ ToI64(feed[m].price * ToI64(token_amount)) = total_price
  BY <1>0, BondFacts
<1>2. /\ initialized /\ backing # 0
      /\ stf_supply + Wrap(n * StfUnit) < U64
      /\ token_minted' = Wrap(token_minted + n)
      /\ treasury_value' = treasury_value + total_price
  BY <1>1, Zenon DEF ApplyBond
<1>3. total_price < U64
  <2>1. feed[m].price \in Prices
    BY <1>0 DEF TypeOK
  <2>2. StfUnit * total_price < U64
    BY <2>1, PaymentInRange
  <2> HIDE DEF total_price
  <2>3. QED
    BY <1>1, <2>2, U64Assumption DEF StfUnit
<1>4. treasury_value \in Int /\ token_minted \in Nat \ {0}
  BY <1>0, U64Assumption DEF TypeOK
<1>5. backing \in 1..(U64 - 1)
  <2>1. backing \in 0..(U64 - 1)
    BY <1>4, BackingType
  <2>2. backing # 0
    BY <1>2, Zenon
  <2> HIDE DEF backing
  <2>3. QED
    BY <2>1, <2>2, U64Assumption
<1>6. spot_price \in 0..(U64 - 1)
  BY ArgumentAssumption
<1>7. backing + U64 \div 100 < U64
  BY DEF BondPriceFits
<1> HIDE DEF total_price, backing
<1>8. n * backing <= total_price
  <2>1. Markup(spot_price, backing) \in Nat /\ 100 * Markup(spot_price, backing) < U64
    BY <1>5, <1>6, MarkupType
  <2>2. backing + Markup(spot_price, backing) < U64
    BY <1>5, <1>7, <2>1, U64Assumption
  <2>3. QED
    BY <1>1, <1>3, <1>5, <1>6, <2>2, MintWorth
<1> HIDE DEF n
<1>9. token_minted' = token_minted + n
  <2>1. stf_supply + n * StfUnit < U64
    BY <1>1, <1>2
  <2>2. QED
    BY <1>0, <1>1, <1>2, <2>1, MintedNeverWraps
<1>10. n * BackingPrice(treasury_value, token_minted) <= total_price
  BY <1>8 DEF backing
<1>11. BackingPrice(treasury_value + total_price, token_minted + n)
          >= BackingPrice(treasury_value, token_minted)
  BY <1>1, <1>4, <1>10, BackingKept
<1>12. QED
  BY <1>2, <1>9, <1>11

\* As long as the bond price is a u64, selling bonds never lowers the backing price, for
\* any spot prices the callers name, any payments and any number of bonds.
THEOREM BackingIsNotDiluted == Spec /\ []BondPriceFits => BackingNotDiluted
<1>1. TypeOK /\ PaidInv /\ BondPriceFits /\ [Next]_vars
         => [\/ \E value \in Revaluations : CalcuBalance(value)
             \/ ~initialized
             \/ token_minted = 0
             \/ BackingPrice(treasury_value', token_minted') >=
                   BackingPrice(treasury_value, token_minted)]_vars
  <2>1. SUFFICES ASSUME TypeOK, PaidInv, BondPriceFits, Next, initialized, token_minted # 0,
                        ~ \E value \in Revaluations : CalcuBalance(value)
                 PROVE  BackingPrice(treasury_value', token_minted') >=
                           BackingPrice(treasury_value, token_minted)
    BY Zenon
  <2>2. CASE \E u \in Users, m \in Mints, token_amount \in TokenAmounts,
                spot_price \in SpotPrices : ApplyBond(u, m, token_amount, spot_price)
    BY <2>1, <2>2, BondKeepsBacking
  <2>3. CASE \/ \E u \in Users, mint \in Tokens \cup {Stf}, amount \in StakeAmounts :
                StakeSTF(u, mint, amount)
             \/ \E u \in Users, mint \in Tokens \cup {Stf}, amount \in UnstakeAmounts :
                UnStakeSTF(u, mint, amount)
             \/ \E u \in Users : FinishBond(u)
             \/ Tick
             \/ \E m \in Mints, price \in Prices : PublishPrice(m, price)
    <3>1. UNCHANGED <<treasury_value, token_minted>>
      BY <2>3, Zenon DEF StakeSTF, UnStakeSTF, FinishBond, Tick, PublishPrice, treasuryVars
    <3>2. BackingPrice(treasury_value, token_minted) \in Int
      <4>1. treasury_value \in Int /\ token_minted \in Nat
        BY <2>1, U64Assumption DEF TypeOK
      <4>2. QED
        BY <4>1, BackingType, U64Assumption
    <3>3. QED
      BY <3>1, <3>2
  <2>4. ~Initialize
    BY <2>1 DEF Initialize
  <2>5. QED
    BY <2>1, <2>2, <2>3, <2>4, Zenon DEF Next
<1>2. QED
  BY <1>1, TypeCorrect, PaidInvariance, PTL DEF Spec, BackingNotDiluted

-----------------------------------------------------------------------------
(* The part of BondsMature that is safety *)

\* An escrow is its user's own, and there are none before the treasury.
EscrowsOwned ==
    /\ \A u \in Bonded : escrow[u].creator = u
    /\ ~initialized => Bonded = {}

\* All that FinishBond asks for.
Payable(u) ==
    /\ initialized /\ escrow[u] # NoEscrow /\ BondRedeemable(u)
    /\ stf_supply + escrow[u].num_token_to_redeem < U64
    /\ user_stf[u] + escrow[u].num_token_to_redeem < U64

\* A bond that is due and not yet redeemed, whose promise the supply still has room for.
Due(u) ==
    /\ u \in Bonded \ Redeemed
    /\ unix_timestamp >= escrow[u].end_timestamp
    /\ stf_supply + escrow[u].num_token_to_redeem < U64

LEMMA OwnedNext ==
    ASSUME TypeOK, EscrowsOwned, [Next]_vars
    PROVE  EscrowsOwned'
<1>1. DOMAIN escrow = Users /\ escrow \in [Users -> Escrows \cup {NoEscrow}]
  BY DEF TypeOK
<1>2. CASE \E u \in Users, m \in Mints, token_amount \in TokenAmounts,
              spot_price \in SpotPrices : ApplyBond(u, m, token_amount, spot_price)
  <2>1. PICK u \in Users, m \in Mints, token_amount \in TokenAmounts,
             spot_price \in SpotPrices : ApplyBond(u, m, token_amount, spot_price)
    BY <1>2
  <2>2. PICK redeem \in Nat :
            escrow' = [escrow EXCEPT ![u] = NewEscrow(u, m, token_amount, redeem)]
    BY <2>1, BondStep
  <2>3. initialized /\ initialized' = initialized
    BY <2>1 DEF ApplyBond
  <2>4. NewEscrow(u, m, token_amount, redeem).creator = u
    BY DEF NewEscrow
  <2>5. QED
    BY <1>1, <2>2, <2>3, <2>4 DEF EscrowsOwned, Bonded
<1>3. CASE \E u \in Users : FinishBond(u)
  <2>1. PICK u \in Users : FinishBond(u)
    BY <1>3
  <2>2. /\ escrow' = [escrow EXCEPT ![u].is_finished = 2]
        /\ initialized /\ initialized' = initialized /\ escrow[u] # NoEscrow
    BY <2>1 DEF FinishBond
  <2>3. escrow'[u].creator = escrow[u].creator
    <3>1. escrow[u] \in Escrows
      BY <1>1, <2>2
    <3>2. escrow'[u] = [escrow[u] EXCEPT !.is_finished = 2]
      BY <1>1, <2>2
    <3>3. QED
      BY <3>1, <3>2 DEF Escrows
  <2>4. u \in Bonded /\ \A w \in Users : w # u => escrow'[w] = escrow[w]
    BY <1>1, <2>2 DEF Bonded
  <2>5. QED
    BY <2>2, <2>3, <2>4 DEF EscrowsOwned, Bonded
<1>4. CASE \/ Initialize
           \/ \E u \in Users, mint \in Tokens \cup {Stf}, amount \in StakeAmounts :
                StakeSTF(u, mint, amount)
           \/ \E u \in Users, mint \in Tokens \cup {Stf}, amount \in UnstakeAmounts :
                UnStakeSTF(u, mint, amount)
           \/ \E value \in Revaluations : CalcuBalance(value)
           \/ Tick
           \/ \E m \in Mints, price \in Prices : PublishPrice(m, price)
           \/ UNCHANGED vars
  <2>1. CASE Initialize
    BY <2>1 DEF Initialize, EscrowsOwned, Bonded
  <2>2. CASE ~Initialize
    <3>1. UNCHANGED <<escrow, initialized>>
      BY <1>4, <2>2, Zenon DEF StakeSTF, UnStakeSTF, CalcuBalance, Tick, PublishPrice, vars
    <3>2. QED
      BY <3>1 DEF EscrowsOwned, Bonded
  <2>3. QED
    BY <2>1, <2>2
<1>5. QED
  BY <1>2, <1>3, <1>4 DEF Next

LEMMA SupplyHoldsUsers ==
    ASSUME TypeOK, AccountsInv, NEW u \in Users
    PROVE  user_stf[u] \in Nat /\ user_stf[u] <= stf_supply
<1>1. \A w \in Users : user_stf[w] \in Int /\ user_stf[w] \in Nat
  BY U64Assumption DEF TypeOK
<1>2. SumOf(user_stf, Users) = user_stf[u] + SumOf(user_stf, Users \ {u})
  BY <1>1, UsersFinite, SumTakeOut
<1>3. SumOf(user_stf, Users \ {u}) \in Nat
  <2>1. IsFiniteSet(Users \ {u}) /\ \A w \in Users \ {u} : user_stf[w] \in Nat
    BY <1>1, UsersFinite, FS_Subset
  <2>2. QED
    BY <2>1, SumNat
<1>4. treasury_stf \in Nat /\ stf_supply = treasury_stf + SumOf(user_stf, Users)
  BY U64Assumption DEF TypeOK, AccountsInv
<1>5. QED
  BY <1>1, <1>2, <1>3, <1>4

\* Nothing but a full supply keeps finish_bond from paying a bond that is due: not its
\* owner's other doings, not another user, not a revaluation, and no check of the code.
THEOREM DueBondsArePayable == Spec => [](\A u \in Users : Due(u) => Payable(u))
<1> DEFINE Served == \A u \in Users : Due(u) => Payable(u)
<1>1. Init => AccountsInv /\ EscrowsOwned
  <2>1. Init => AccountsInv
    BY AccountsInit
  <2>2. Init => EscrowsOwned
    BY DEF Init, EscrowsOwned, Bonded
  <2>3. QED
    BY <2>1, <2>2
<1>2. TypeOK /\ TypeOK' /\ PaidInv /\ AccountsInv /\ EscrowsOwned /\ [Next]_vars
          => AccountsInv' /\ EscrowsOwned'
  BY AccountsNext, OwnedNext
<1>3. TypeOK /\ AccountsInv /\ EscrowsOwned => Served
  <2> SUFFICES ASSUME TypeOK, AccountsInv, EscrowsOwned, NEW u \in Users, Due(u)
               PROVE  Payable(u)
    OBVIOUS
  <2>1. u \in Bonded /\ escrow[u] # NoEscrow /\ u \notin Redeemed
    BY DEF Due, Bonded
  <2>2. initialized /\ escrow[u].creator = u
    BY <2>1 DEF EscrowsOwned
  <2>3. escrow[u] \in Escrows
    BY <2>1 DEF TypeOK
  <2>4. escrow[u].is_finished = 1 /\ escrow[u].num_token_to_redeem \in Nat
    BY <2>1, <2>3 DEF Escrows, Redeemed
  <2>5. user_stf[u] \in Nat /\ user_stf[u] <= stf_supply
    BY SupplyHoldsUsers
  <2>6. stf_supply \in Nat /\ U64 \in Nat
    BY U64Assumption DEF TypeOK
  <2>7. stf_supply + escrow[u].num_token_to_redeem < U64
        /\ unix_timestamp >= escrow[u].end_timestamp
    BY DEF Due
  <2>8. user_stf[u] + escrow[u].num_token_to_redeem < U64
    <3> DEFINE x == escrow[u].num_token_to_redeem
    <3>1. x \in Nat /\ stf_supply + x < U64
      BY <2>4, <2>7
    <3> HIDE DEF x
    <3>2. user_stf[u] + x < U64
      BY <2>5, <2>6, <3>1
    <3>3. QED
      BY <3>2 DEF x
  <2>9. QED
    BY <2>1, <2>2, <2>4, <2>7, <2>8 DEF Payable, BondRedeemable
<1> HIDE DEF Served
<1>4. Spec => []Served
  BY <1>1, <1>2, <1>3, TypeCorrect, PaidInvariance, PTL DEF Spec
<1>5. QED
  BY <1>4 DEF Served
=============================================================================
