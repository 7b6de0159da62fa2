----------------------- MODULE SaturnRebalance_proofs -----------------------
(***************************************************************************)
(* Theorems about the rebalance cycle, for every set of mints, positions,  *)
(* prices, ratings and bounds.  They are proved of FullSpec, the system    *)
(* with all instructions; that it is Spec is the first of them.            *)
(***************************************************************************)
EXTENDS SaturnRebalanceProperties, Sums_proofs

\* The part of TypeOK that the proofs need.
PositionsTyped ==
    /\ flag \in Flags
    /\ DOMAIN lend_assets = Venues /\ lend_assets["kamino"] \in Nat
    /\ DOMAIN lend_value = Venues
    /\ deposits \in [Mints -> Nat]
    /\ withdrawals \in [Venues -> Nat]

IndInv == PositionsTyped /\ ~flag.meteora /\ CycleOrder /\ OncePerCycle

\* All steps of the program, those behind the lending gate included.
FullNext == Next \/ Lend

-----------------------------------------------------------------------------
\* No lending instruction succeeds while flag_meteora is not set.
LEMMA LendNeedsMeteora ==
    ASSUME ~flag.meteora PROVE ~Lend
BY DEF Lend, KaminoLend, MarginfiLend, MeteoraDeposit, MeteoraWithdraw, LendGate

\* The initial state satisfies the inductive invariant.
LEMMA InitIndInv == Init => IndInv
BY PositionAssumption DEF Init, IndInv, PositionsTyped, Flags, Venues, CycleOrder,
   OncePerCycle

\* Every instruction preserves it.
LEMMA NextIndInv == IndInv /\ [FullNext]_vars => IndInv'
<1> SUFFICES ASSUME IndInv, [FullNext]_vars PROVE IndInv'
  OBVIOUS
<1> USE DEF IndInv, PositionsTyped, CycleOrder, OncePerCycle, Venues, Flags
<1>m. {sol, usdc, usdt, wbtc} \subseteq Mints
  BY MintsAssumption
<1>1. CASE GetValueInKamino
  <2>1. deposits[DepositKey(usdc)] \in Nat
    BY <1>m DEF DepositKey
  <2>2. DOMAIN lend_assets' = Venues /\ lend_assets'["kamino"] \in Nat
    BY <1>1, <2>1 DEF GetValueInKamino
  <2>3. DOMAIN lend_value' = Venues
    BY <1>1 DEF GetValueInKamino
  <2>4. UNCHANGED <<flag, deposits, withdrawals>>
    BY <1>1 DEF GetValueInKamino, klendVars, marginfiVars
  <2> QED BY <2>2, <2>3, <2>4
<1>2. CASE GetValueInMarginfi
  <2>2. DOMAIN lend_assets' = Venues /\ lend_assets'["kamino"] \in Nat
    BY <1>2 DEF GetValueInMarginfi
  <2>3. DOMAIN lend_value' = Venues
    BY <1>2 DEF GetValueInMarginfi
  <2>4. UNCHANGED <<flag, deposits, withdrawals>>
    BY <1>2 DEF GetValueInMarginfi, klendVars, marginfiVars
  <2> QED BY <2>2, <2>3, <2>4
<1>3. ASSUME NEW price \in [Mints -> Prices], CalcuBalance(price) PROVE IndInv'
  <2>1. UNCHANGED <<lend_assets, lend_value, deposits>>
    BY <1>3 DEF CalcuBalance, klendVars, marginfiVars
  <2>2. flag' = NewCycle /\ withdrawals' = [v \in Venues |-> 0]
    BY <1>3 DEF CalcuBalance, NextFlags
  <2> QED BY <2>1, <2>2 DEF NewCycle
<1>4. ASSUME NEW rates \in Rates, ReAllocate(rates) PROVE IndInv'
  BY <1>4 DEF ReAllocate, klendVars, marginfiVars
<1>5. ASSUME NEW m \in Mints, KlendWithdraw(m) PROVE IndInv'
  <2> DEFINE amount == lend_assets["kamino"]
  <2>1. deposits' \in [Mints -> Nat]
    <3>1. amount \in Nat /\ deposits[m] \in Nat /\ amount <= deposits[m]
      BY <1>5 DEF KlendWithdraw, ObligationWithdraw
    <3>2. deposits[m] - amount \in Nat
      BY <3>1
    <3>3. deposits' = [deposits EXCEPT ![m] = @ - amount]
      BY <1>5 DEF KlendWithdraw, ObligationWithdraw
    <3> QED BY <3>2, <3>3
  <2>2. UNCHANGED <<lend_assets, lend_value>>
    BY <1>5 DEF KlendWithdraw, treasuryVars
  <2>3. /\ CycleReady /\ ~flag.kamino
        /\ flag' = [flag EXCEPT !.kamino = TRUE]
        /\ withdrawals' = [withdrawals EXCEPT !["kamino"] = @ + 1]
    BY <1>5 DEF KlendWithdraw
  <2>4. /\ flag' \in Flags /\ ~flag'.meteora /\ flag'.kamino
        /\ flag'.marginfi = flag.marginfi
        /\ flag'.reallocate = flag.reallocate /\ flag'.calcu_balance = flag.calcu_balance
    BY <2>3
  <2>5. CycleOrder'
    BY <2>3, <2>4 DEF CycleReady
  <2>6. /\ withdrawals' \in [Venues -> Nat]
        /\ withdrawals'["kamino"] = withdrawals["kamino"] + 1
        /\ withdrawals'["marginfi"] = withdrawals["marginfi"]
    BY <2>3
  <2>7. OncePerCycle'
    BY <2>3, <2>4, <2>6
  <2> QED BY <2>1, <2>2, <2>4, <2>5, <2>6, <2>7
<1>6. ASSUME NEW m \in Mints, MarginfiWithdraw(m) PROVE IndInv'
  <2>1. UNCHANGED <<lend_assets, lend_value, deposits>>
    BY <1>6 DEF MarginfiWithdraw, treasuryVars, klendVars
  <2>2. /\ CycleReady /\ ~flag.marginfi
        /\ flag' = [flag EXCEPT !.marginfi = TRUE]
        /\ withdrawals' = [withdrawals EXCEPT !["marginfi"] = @ + 1]
    BY <1>6 DEF MarginfiWithdraw
  <2>3. /\ flag' \in Flags /\ ~flag'.meteora /\ flag'.marginfi
        /\ flag'.kamino = flag.kamino
        /\ flag'.reallocate = flag.reallocate /\ flag'.calcu_balance = flag.calcu_balance
    BY <2>2
  <2>4. CycleOrder'
    BY <2>2, <2>3 DEF CycleReady
  <2>5. /\ withdrawals' \in [Venues -> Nat]
        /\ withdrawals'["marginfi"] = withdrawals["marginfi"] + 1
        /\ withdrawals'["kamino"] = withdrawals["kamino"]
    BY <2>2
  <2>6. OncePerCycle'
    BY <2>2, <2>3, <2>5
  <2> QED BY <2>1, <2>3, <2>4, <2>5, <2>6
<1>7. ASSUME NEW m \in Mints, RefreshReserve(m) PROVE IndInv'
  BY <1>7 DEF RefreshReserve, treasuryVars, marginfiVars
<1>8. CASE AdvanceSlot
  BY <1>8 DEF AdvanceSlot, treasuryVars, marginfiVars
<1>9. ASSUME NEW m \in Mints, AccrueBank(m) PROVE IndInv'
  BY <1>9 DEF AccrueBank, treasuryVars, klendVars
<1>10. CASE Lend
  BY <1>10, LendNeedsMeteora
<1>11. CASE UNCHANGED vars
  BY <1>11 DEF vars, treasuryVars, klendVars, marginfiVars
<1> QED BY <1>1, <1>2, <1>3, <1>4, <1>5, <1>6, <1>7, <1>8, <1>9, <1>10, <1>11
        DEF FullNext, Next

-----------------------------------------------------------------------------
\* The inductive invariant holds of the whole program.
THEOREM Invariance == FullSpec => []IndInv
<1>1. Init => IndInv
  BY InitIndInv
<1>2. IndInv /\ [FullNext]_vars => IndInv'
  BY NextIndInv
<1> QED BY <1>1, <1>2, PTL DEF FullSpec, FullNext

\* Nothing is ever lent: no execution of the program contains a step of klend_lend,
\* marginfi_lend, meteora_deposit or meteora_withdraw.
THEOREM NothingIsLent == FullSpec => []LendGateShut
<1>1. IndInv => LendGateShut
  BY DEF IndInv, LendGateShut, LendGate
<1> QED BY <1>1, Invariance, PTL

\* So the program is the smaller system that the runs check.
THEOREM FullSpecIsSpec == FullSpec => Spec
<1>1. IndInv /\ [FullNext]_vars => [Next]_vars
  BY LendNeedsMeteora DEF IndInv, FullNext
<1> QED BY <1>1, Invariance, PTL DEF FullSpec, Spec, FullNext

\* The flags keep the order of a cycle.
THEOREM CyclesAreOrdered == FullSpec => []CycleOrder
<1>1. IndInv => CycleOrder
  BY DEF IndInv
<1> QED BY <1>1, Invariance, PTL

\* No venue is withdrawn from twice in a cycle.
THEOREM WithdrawnOnce == FullSpec => []OncePerCycle
<1>1. IndInv => OncePerCycle
  BY DEF IndInv
<1> QED BY <1>1, Invariance, PTL

-----------------------------------------------------------------------------
\* klend lets no withdrawal touch an entry that is empty.
LEMMA EmptyStaysEmpty ==
    ASSUME IndInv, NEW m \in Mints, KlendWithdraw(m), NEW k \in Mints, deposits[k] = 0
    PROVE  deposits'[k] = 0
<1> DEFINE amount == lend_assets["kamino"]
<1>1. /\ amount # 0 /\ amount <= deposits[m]
      /\ deposits' = [deposits EXCEPT ![m] = @ - amount]
  BY DEF KlendWithdraw, ObligationWithdraw
<1>2. amount \in Nat /\ deposits \in [Mints -> Nat]
  BY DEF IndInv, PositionsTyped
<1>3. m # k
  BY <1>1, <1>2
<1> QED BY <1>1, <1>2, <1>3

\* Once a reserve that get_value_in_kamino looks up is emptied, the value recorded for
\* Kamino never changes again.
THEOREM ValueIsFrozen == FullSpec => EmptiedFreezesValue
<1>1. ASSUME IndInv, [FullNext]_vars
      PROVE  [SomeDepositEmptied =>
                SomeDepositEmptied' /\ lend_value'["kamino"] = lend_value["kamino"]]_vars
  <2>1. SUFFICES ASSUME Next, NEW k \in Mints, deposits[DepositKey(k)] = 0
                 PROVE  /\ deposits'[DepositKey(k)] = 0
                        /\ lend_value'["kamino"] = lend_value["kamino"]
    BY <1>1, LendNeedsMeteora DEF SomeDepositEmptied, FullNext, IndInv, DepositKey
  <2>2. DepositKey(k) \in Mints
    BY MintsAssumption DEF DepositKey
  <2>3. CASE GetValueInKamino
    BY <2>1, <2>3 DEF GetValueInKamino, DepositsFound
  <2>4. CASE GetValueInMarginfi
    BY <1>1, <2>1, <2>4 DEF GetValueInMarginfi, klendVars, IndInv, PositionsTyped, Venues
  <2>5. ASSUME NEW m \in Mints, KlendWithdraw(m)
        PROVE  deposits'[DepositKey(k)] = 0 /\ lend_value' = lend_value
    <3>1. lend_value' = lend_value
      BY <2>5 DEF KlendWithdraw, treasuryVars
    <3> QED BY <1>1, <2>1, <2>2, <2>5, <3>1, EmptyStaysEmpty
  <2>6. CASE ~GetValueInKamino /\ ~GetValueInMarginfi
             /\ ~(\E m \in Mints : KlendWithdraw(m))
    <3>1. deposits' = deposits /\ lend_value' = lend_value
      BY <2>1, <2>6 DEF Next, CalcuBalance, ReAllocate, MarginfiWithdraw, RefreshReserve,
         AdvanceSlot, AccrueBank, treasuryVars, klendVars
    <3> QED BY <2>1, <3>1
  <2> QED BY <2>3, <2>4, <2>5, <2>6
<1>2. IndInv /\ [FullNext]_vars =>
        [SomeDepositEmptied =>
            SomeDepositEmptied' /\ lend_value'["kamino"] = lend_value["kamino"]]_vars
  BY <1>1
<1> QED BY <1>2, Invariance, PTL DEF FullSpec, FullNext, EmptiedFreezesValue

-----------------------------------------------------------------------------
(* The percentages *)

LEMMA RatingType ==
    ASSUME NEW rates \in Rates, NEW id \in Platforms PROVE Rating(id, rates) \in Nat
<1>1. rates.return_rate[id] \in Nat /\ rates.risk_rating[id] \in Nat
  BY RateAssumption
<1>2. ASSUME rates.risk_rating[id] # 0 PROVE RiskScale \div rates.risk_rating[id] \in Nat
  BY <1>1, <1>2, RateAssumption
<1>3. ASSUME NEW a \in Nat, NEW b \in Nat PROVE a * b \in Nat
  OBVIOUS
<1> QED BY <1>1, <1>2, <1>3 DEF Rating

\* Each platform's rating is weighed against the ratings of its own type.
LEMMA TotalsByType ==
    ASSUME NEW rates \in Rates
    PROVE  /\ \A p \in {1, 2} : TotalRating(p, rates) = Rating(1, rates) + Rating(2, rates)
           /\ TotalRating(3, rates) = Rating(3, rates)
           /\ TotalRating(4, rates) = Rating(4, rates)
           /\ \A p \in {5, 6, 7} :
                  TotalRating(p, rates)
                      = Rating(5, rates) + Rating(6, rates) + Rating(7, rates)
<1>1. \A id \in Platforms : Rating(id, rates) \in Nat
  BY RatingType
<1> QED BY <1>1 DEF TotalRating, RatingOfType, PlatformType, Platforms

\* What reallocate stores, for a platform with the given rating, of a type with the given
\* total and percentage.
Allotment(rating, total, percent) ==
    IF total = 0 THEN [share |-> 0, of |-> 1] ELSE [share |-> rating * percent, of |-> total]

LEMMA ReAllocateGivesAllotments ==
    ASSUME NEW rates \in Rates, ReAllocate(rates)
    PROVE  LET R(id) == Rating(id, rates) IN
           /\ \A p \in {1, 2} : allocation'[p] = Allotment(R(p), R(1) + R(2), 35)
           /\ allocation'[3] = Allotment(R(3), R(3), 25)
           /\ allocation'[4] = Allotment(R(4), R(4), 10)
           /\ \A p \in {5, 6, 7} : allocation'[p] = Allotment(R(p), R(5) + R(6) + R(7), 30)
<1>1. \A p \in Platforms : allocation'[p] = NewAllocation(p, rates)
  BY DEF ReAllocate
<1>2. \A p \in Platforms :
        NewAllocation(p, rates)
            = Allotment(Rating(p, rates), TotalRating(p, rates),
                        PLATFORM_ALLOCATION[PlatformType[p]])
  BY DEF NewAllocation, Allotment
<1>3. /\ \A p \in {1, 2} : PLATFORM_ALLOCATION[PlatformType[p]] = 35
      /\ PLATFORM_ALLOCATION[PlatformType[3]] = 25
      /\ PLATFORM_ALLOCATION[PlatformType[4]] = 10
      /\ \A p \in {5, 6, 7} : PLATFORM_ALLOCATION[PlatformType[p]] = 30
  BY DEF PLATFORM_ALLOCATION, PlatformType
<1> QED BY <1>1, <1>2, <1>3, TotalsByType DEF Platforms

\* The shares of a type, platform by platform.
LEMMA SharesByType ==
    ASSUME \A p \in Platforms : allocation[p].share \in Nat
    PROVE  LET S(id) == allocation[id].share IN
           /\ ShareOfType(1) = S(1) + S(2)
           /\ ShareOfType(2) = S(3)
           /\ ShareOfType(3) = S(4)
           /\ ShareOfType(4) = S(5) + S(6) + S(7)
BY DEF ShareOfType, PlatformType, Platforms

\* The percentages are whole, in every type.
FullyAllocatedByType ==
    LET S(id) == allocation[id].share
        D(id) == allocation[id].of
    IN
    /\ \A p \in {1, 2} : S(1) + S(2) \in {0, 35 * D(p)}
    /\ S(3) \in {0, 25 * D(3)}
    /\ S(4) \in {0, 10 * D(4)}
    /\ \A p \in {5, 6, 7} : S(5) + S(6) + S(7) \in {0, 30 * D(p)}

SharesTyped == \A p \in Platforms : allocation[p].share \in Nat

LEMMA ByTypeIsEnough == SharesTyped /\ FullyAllocatedByType => FullyAllocated
<1> SUFFICES ASSUME SharesTyped, FullyAllocatedByType, NEW p \in Platforms
             PROVE  ShareOfType(PlatformType[p])
                        \in {0, PLATFORM_ALLOCATION[PlatformType[p]] * allocation[p].of}
  BY DEF FullyAllocated
<1>1. CASE p \in {1, 2}
  BY <1>1, SharesByType DEF SharesTyped, FullyAllocatedByType, PlatformType, PLATFORM_ALLOCATION
<1>2. CASE p = 3
  BY <1>2, SharesByType DEF SharesTyped, FullyAllocatedByType, PlatformType, PLATFORM_ALLOCATION
<1>3. CASE p = 4
  BY <1>3, SharesByType DEF SharesTyped, FullyAllocatedByType, PlatformType, PLATFORM_ALLOCATION
<1>4. CASE p \in {5, 6, 7}
  BY <1>4, SharesByType DEF SharesTyped, FullyAllocatedByType, PlatformType, PLATFORM_ALLOCATION
<1> QED BY <1>1, <1>2, <1>3, <1>4 DEF Platforms

AllocationInv == SharesTyped /\ FullyAllocatedByType

LEMMA AllotmentTyped ==
    ASSUME NEW r \in Nat, NEW total, NEW percent \in Nat
    PROVE  Allotment(r, total, percent).share \in Nat
BY DEF Allotment

LEMMA ReAllocateIsWhole ==
    ASSUME NEW rates \in Rates, ReAllocate(rates) PROVE AllocationInv'
<1> DEFINE R(id) == Rating(id, rates)
           T1 == R(1) + R(2)
           T4 == R(5) + R(6) + R(7)
<1>1. /\ R(1) \in Nat /\ R(2) \in Nat /\ R(3) \in Nat /\ R(4) \in Nat
      /\ R(5) \in Nat /\ R(6) \in Nat /\ R(7) \in Nat
  BY RatingType DEF Platforms
<1>2. /\ \A p \in {1, 2} : allocation'[p] = Allotment(R(p), T1, 35)
      /\ allocation'[3] = Allotment(R(3), R(3), 25)
      /\ allocation'[4] = Allotment(R(4), R(4), 10)
      /\ \A p \in {5, 6, 7} : allocation'[p] = Allotment(R(p), T4, 30)
  BY ReAllocateGivesAllotments
<1> HIDE DEF R
<1>3. SharesTyped'
  <2>1. \A p \in {1, 2} : allocation'[p].share \in Nat
    BY <1>1, <1>2, AllotmentTyped
  <2>2. allocation'[3].share \in Nat /\ allocation'[4].share \in Nat
    BY <1>1, <1>2, AllotmentTyped
  <2>3. \A p \in {5, 6, 7} : allocation'[p].share \in Nat
    BY <1>1, <1>2, AllotmentTyped
  <2> QED BY <2>1, <2>2, <2>3 DEF SharesTyped, Platforms
<1>4. \A p \in {1, 2} : allocation'[1].share + allocation'[2].share \in {0, 35 * allocation'[p].of}
  <2>1. CASE T1 = 0
    <3>1. allocation'[1].share = 0 /\ allocation'[2].share = 0
      BY <1>2, <2>1 DEF Allotment
    <3> QED BY <3>1
  <2>2. CASE T1 # 0
    <3>1. /\ allocation'[1].share = R(1) * 35 /\ allocation'[2].share = R(2) * 35
          /\ \A p \in {1, 2} : allocation'[p].of = T1
      BY <1>2, <2>2 DEF Allotment
    <3> QED BY <1>1, <3>1
  <2> QED BY <2>1, <2>2
<1>5. allocation'[3].share \in {0, 25 * allocation'[3].of}
  BY <1>1, <1>2 DEF Allotment
<1>6. allocation'[4].share \in {0, 10 * allocation'[4].of}
  BY <1>1, <1>2 DEF Allotment
<1>7. \A p \in {5, 6, 7} :
        allocation'[5].share + allocation'[6].share + allocation'[7].share
            \in {0, 30 * allocation'[p].of}
  <2>1. CASE T4 = 0
    <3>1. allocation'[5].share = 0 /\ allocation'[6].share = 0 /\ allocation'[7].share = 0
      BY <1>2, <2>1 DEF Allotment
    <3> QED BY <3>1
  <2>2. CASE T4 # 0
    <3>1. /\ allocation'[5].share = R(5) * 30 /\ allocation'[6].share = R(6) * 30
          /\ allocation'[7].share = R(7) * 30
          /\ \A p \in {5, 6, 7} : allocation'[p].of = T4
      BY <1>2, <2>2 DEF Allotment
    <3> QED BY <1>1, <3>1
  <2> QED BY <2>1, <2>2
<1> QED BY <1>3, <1>4, <1>5, <1>6, <1>7 DEF AllocationInv, FullyAllocatedByType

\* reallocate gives every type its whole percentage, whatever the ratings.
THEOREM AllocationIsWhole == Spec => []FullyAllocated
<1>1. Init => AllocationInv
  BY DEF Init, AllocationInv, SharesTyped, FullyAllocatedByType, Platforms
<1>2. AllocationInv /\ [Next]_vars => AllocationInv'
  <2> SUFFICES ASSUME AllocationInv, [Next]_vars PROVE AllocationInv'
    OBVIOUS
  <2>1. ASSUME NEW rates \in Rates, ReAllocate(rates) PROVE AllocationInv'
    BY <2>1, ReAllocateIsWhole
  <2>2. CASE ~\E rates \in Rates : ReAllocate(rates)
    <3>1. allocation' = allocation
      BY <2>2 DEF Next, GetValueInKamino, GetValueInMarginfi, CalcuBalance, KlendWithdraw,
         MarginfiWithdraw, RefreshReserve, AdvanceSlot, AccrueBank, vars, treasuryVars
    <3> QED BY <3>1 DEF AllocationInv, SharesTyped, FullyAllocatedByType
  <2> QED BY <2>1, <2>2
<1>3. AllocationInv => FullyAllocated
  BY ByTypeIsEnough DEF AllocationInv
<1> QED BY <1>1, <1>2, <1>3, PTL DEF Spec

-----------------------------------------------------------------------------
(* The type of the state *)

LEMMA ProductNat ==
    ASSUME NEW a \in Nat, NEW b \in Nat PROVE a * b \in Nat
OBVIOUS

LEMMA QuotientNat ==
    ASSUME NEW a \in Nat, NEW b \in Nat \ {0} PROVE a \div b \in Nat
OBVIOUS

\* What the venues say they hold, in any amount.
LEMMA LiquidityNat ==
    ASSUME TypeOK, NEW m \in Mints, NEW n \in Nat PROVE Liquidity(m, n) \in Nat
<1>1. exchange_rate[m] \in Nat
  BY DEF TypeOK
<1>2. n * exchange_rate[m] \in Nat
  BY <1>1, ProductNat
<1> QED BY <1>2, QuotientNat DEF Liquidity

LEMMA KaminoValueNat == ASSUME TypeOK PROVE KaminoValue \in Nat
<1> DEFINE f == [m \in Mints |-> Liquidity(m, deposits[DepositKey(m)])]
<1>1. ASSUME NEW m \in Mints PROVE f[m] \in Nat
  <2>1. DepositKey(m) \in Mints
    BY MintsAssumption DEF DepositKey
  <2>2. deposits[DepositKey(m)] \in Nat
    BY <2>1 DEF TypeOK
  <2> QED BY <2>2, LiquidityNat
<1> HIDE DEF f
<1>2. SumOf(f, Mints) \in Nat
  BY <1>1, MintsAssumption, SumNat
<1> QED BY <1>2 DEF KaminoValue, f

LEMMA MarginfiValueNat == ASSUME TypeOK PROVE MarginfiValue \in Nat
<1> DEFINE f == [m \in Mints |-> AssetAmount(m, shares[m])]
<1>1. ASSUME NEW m \in Mints PROVE f[m] \in Nat
  <2>1. shares[m] \in Nat /\ share_value[m] \in Nat
    BY DEF TypeOK
  <2>2. shares[m] * share_value[m] \in Nat
    BY <2>1, ProductNat
  <2> QED BY <2>2, QuotientNat DEF AssetAmount
<1> HIDE DEF f
<1>2. SumOf(f, Mints) \in Nat
  BY <1>1, MintsAssumption, SumNat
<1> QED BY <1>2 DEF MarginfiValue, f

\* The value of the treasury's own tokens; usdc's is scaled with an exponent that is
\* known not to be negative.
LEMMA WalletValueNat ==
    ASSUME TypeOK, NEW price \in [Mints -> Prices], Exponent[sol] >= 0, Exponent[wbtc] >= 0
    PROVE  SumOf([m \in ValuedMints |-> WalletValue(m, price)], ValuedMints) \in Nat
<1> DEFINE f == [m \in ValuedMints |-> WalletValue(m, price)]
<1>1. IsFiniteSet(ValuedMints) /\ ValuedMints \subseteq Mints
  <2>1. ValuedMints \subseteq Mints
    BY MintsAssumption DEF ValuedMints
  <2> QED BY <2>1, MintsAssumption, FS_Subset
<1>2. ASSUME NEW m \in ValuedMints PROVE f[m] \in Nat
  <2> DEFINE e == IF m = usdc THEN sol ELSE m
             power == 10 ^ Exponent[e]
             tokens == wallet[m] \div Unit[m]
  <2>1. m \in Mints
    BY <1>1
  <2>2. tokens \in Nat
    <3>1. wallet[m] \in Nat /\ Unit[m] \in Nat \ {0}
      BY <2>1, PositionAssumption DEF TypeOK
    <3> QED BY <3>1, QuotientNat
  <2>3. price[m] \in Nat
    BY <2>1, FeedAssumption
  <2>4. e \in Mints /\ Exponent[e] >= 0
    BY <2>1, MintsAssumption DEF ValuedMints
  <2>5. power \in Nat
    BY <2>4, FeedAssumption
  <2>6. f[m] = tokens * price[m] * power
    BY DEF WalletValue
  <2> HIDE DEF tokens, power
  <2>7. tokens * price[m] \in Nat
    BY <2>2, <2>3, ProductNat
  <2>8. tokens * price[m] * power \in Nat
    BY <2>5, <2>7, ProductNat
  <2> QED BY <2>6, <2>8
<1> HIDE DEF f
<1>3. SumOf(f, ValuedMints) \in Nat
  BY <1>1, <1>2, SumNat
<1> QED BY <1>3 DEF f

\* reallocate never divides by a total of zero.
LEMMA ReAllocateTyped ==
    ASSUME NEW rates \in Rates, ReAllocate(rates)
    PROVE  allocation' \in [Platforms -> Allocations]
<1>1. allocation' = [p \in Platforms |-> NewAllocation(p, rates)]
  BY DEF ReAllocate
<1>2. ASSUME NEW p \in Platforms PROVE NewAllocation(p, rates) \in Allocations
  <2> DEFINE total == TotalRating(p, rates)
             rating == Rating(p, rates)
             percent == PLATFORM_ALLOCATION[PlatformType[p]]
  <2>1. \A id \in Platforms : Rating(id, rates) \in Nat
    BY RatingType
  <2>2. total \in Nat
    BY <2>1, TotalsByType DEF Platforms
  <2>3. rating \in Nat
    BY <2>1
  <2>4. percent \in Nat
    BY DEF PLATFORM_ALLOCATION, PlatformType, Platforms
  <2>5. NewAllocation(p, rates)
            = IF total = 0 THEN [share |-> 0, of |-> 1]
              ELSE [share |-> rating * percent, of |-> total]
    BY DEF NewAllocation
  <2> HIDE DEF total, rating, percent
  <2>6. rating * percent \in Nat
    BY <2>3, <2>4, ProductNat
  <2> QED BY <2>2, <2>5, <2>6 DEF Allocations
<1> QED BY <1>1, <1>2

\* An action changes some of the variables, and each gets a value of its type.
LEMMA TypeNext == TypeOK /\ [Next]_vars => TypeOK'
<1> SUFFICES ASSUME TypeOK, [Next]_vars PROVE TypeOK'
  OBVIOUS
<1> USE DEF treasuryVars, klendVars, marginfiVars
<1>m. {sol, usdc, usdt, wbtc} \subseteq Mints
  BY MintsAssumption
<1>1. CASE GetValueInKamino
  <2>1. DepositKey(usdc) \in Mints
    BY <1>m DEF DepositKey
  <2>2. deposits[DepositKey(usdc)] \in Nat
    BY <2>1 DEF TypeOK
  <2>3. KaminoValue \in Nat
    BY KaminoValueNat
  <2>4. lend_assets' \in [Venues -> Nat] /\ lend_value' \in [Venues -> Nat]
    BY <1>1, <2>2, <2>3 DEF GetValueInKamino, TypeOK
  <2> QED BY <1>1, <2>4 DEF GetValueInKamino, TypeOK
<1>2. CASE GetValueInMarginfi
  <2>1. shares[usdt] \in Nat
    BY <1>m DEF TypeOK
  <2>2. MarginfiValue \in Nat
    BY MarginfiValueNat
  <2>3. lend_assets' \in [Venues -> Nat] /\ lend_value' \in [Venues -> Nat]
    BY <1>2, <2>1, <2>2 DEF GetValueInMarginfi, TypeOK
  <2> QED BY <1>2, <2>3 DEF GetValueInMarginfi, TypeOK
<1>3. ASSUME NEW price \in [Mints -> Prices], CalcuBalance(price) PROVE TypeOK'
  <2> DEFINE own == SumOf([m \in ValuedMints |-> WalletValue(m, price)], ValuedMints)
  <2>1. own \in Nat
    BY <1>3, WalletValueNat DEF CalcuBalance
  <2>2. treasury_value' = lend_value["kamino"] + lend_value["marginfi"] + own
    BY <1>3 DEF CalcuBalance
  <2> HIDE DEF own
  <2>3. treasury_value' \in Nat
    BY <2>1, <2>2 DEF TypeOK, Venues
  <2>4. flag' \in Flags /\ withdrawals' \in [Venues -> Nat]
    BY <1>3 DEF CalcuBalance, NextFlags, NewCycle, Flags
  <2>5. UNCHANGED <<lend_assets, lend_value, allocation, klendVars, marginfiVars, wallet>>
    BY <1>3 DEF CalcuBalance
  <2> QED BY <2>3, <2>4, <2>5 DEF TypeOK
<1>4. ASSUME NEW rates \in Rates, ReAllocate(rates) PROVE TypeOK'
  <2>1. allocation' \in [Platforms -> Allocations]
    BY <1>4, ReAllocateTyped
  <2>2. flag' \in Flags
    BY <1>4 DEF ReAllocate, TypeOK, Flags
  <2> QED BY <1>4, <2>1, <2>2 DEF ReAllocate, TypeOK
<1>5. ASSUME NEW m \in Mints, KlendWithdraw(m) PROVE TypeOK'
  <2> DEFINE amount == lend_assets["kamino"]
             paid == Liquidity(m, amount)
  <2>1. /\ amount <= deposits[m]
        /\ deposits' = [deposits EXCEPT ![m] = @ - amount]
        /\ fresh' = [fresh EXCEPT ![m] = FALSE]
        /\ wallet' = [wallet EXCEPT ![m] = @ + paid]
        /\ flag' = [flag EXCEPT !.kamino = TRUE]
        /\ withdrawals' = [withdrawals EXCEPT !["kamino"] = @ + 1]
        /\ UNCHANGED <<treasuryVars, marginfiVars, exchange_rate>>
    BY <1>5 DEF KlendWithdraw, ObligationWithdraw
  <2>2. amount \in Nat /\ deposits[m] \in Nat
    BY DEF TypeOK, Venues
  <2>3. paid \in Nat
    BY <2>2, LiquidityNat
  <2> HIDE DEF amount, paid
  <2>4. deposits' \in [Mints -> Nat] /\ wallet' \in [Mints -> Nat]
    BY <2>1, <2>2, <2>3 DEF TypeOK
  <2>5. fresh' \in [Mints -> BOOLEAN] /\ flag' \in Flags
    BY <2>1 DEF TypeOK, Flags
  <2>6. withdrawals' \in [Venues -> Nat]
    BY <2>1 DEF TypeOK, Venues
  <2> QED BY <2>1, <2>4, <2>5, <2>6 DEF TypeOK
<1>6. ASSUME NEW m \in Mints, MarginfiWithdraw(m) PROVE TypeOK'
  <2> DEFINE amount == lend_assets["marginfi"]
             taken == SharesFor(m, amount)
  <2>1. /\ taken <= shares[m]
        /\ shares' = [shares EXCEPT ![m] = @ - taken]
        /\ wallet' = [wallet EXCEPT ![m] = @ + amount]
        /\ flag' = [flag EXCEPT !.marginfi = TRUE]
        /\ withdrawals' = [withdrawals EXCEPT !["marginfi"] = @ + 1]
        /\ UNCHANGED <<treasuryVars, klendVars, share_value>>
    BY <1>6 DEF MarginfiWithdraw, LendingAccountWithdraw
  <2>2. amount \in Nat /\ shares[m] \in Nat /\ share_value[m] \in Nat \ {0}
    BY DEF TypeOK, Venues
  <2>3. taken \in Nat
    <3>1. 2 * amount + share_value[m] - 1 \in Nat
      BY <2>2
    <3> QED BY <2>2, <3>1, QuotientNat DEF SharesFor
  <2> HIDE DEF amount, taken
  <2>4. shares' \in [Mints -> Nat] /\ wallet' \in [Mints -> Nat]
    BY <2>1, <2>2, <2>3 DEF TypeOK
  <2>5. flag' \in Flags
    BY <2>1 DEF TypeOK, Flags
  <2>6. withdrawals' \in [Venues -> Nat]
    BY <2>1 DEF TypeOK, Venues
  <2> QED BY <2>1, <2>4, <2>5, <2>6 DEF TypeOK
<1>7. ASSUME NEW m \in Mints, RefreshReserve(m) PROVE TypeOK'
  <2>1. fresh' \in [Mints -> BOOLEAN] /\ exchange_rate' \in [Mints -> Nat]
    BY <1>7 DEF RefreshReserve, TypeOK
  <2> QED BY <1>7, <2>1 DEF RefreshReserve, TypeOK
<1>8. CASE AdvanceSlot
  BY <1>8 DEF AdvanceSlot, TypeOK
<1>9. ASSUME NEW m \in Mints, AccrueBank(m) PROVE TypeOK'
  <2>1. share_value' \in [Mints -> Nat \ {0}]
    BY <1>9 DEF AccrueBank, TypeOK
  <2> QED BY <1>9, <2>1 DEF AccrueBank, TypeOK
<1>10. CASE UNCHANGED vars
  BY <1>10 DEF vars, TypeOK
<1> QED BY <1>1, <1>2, <1>3, <1>4, <1>5, <1>6, <1>7, <1>8, <1>9, <1>10 DEF Next

\* For any mints, positions, prices and ratings: nothing the treasury records is
\* negative, no withdrawal takes more than there is, and no percentage is a division
\* by zero.
THEOREM CycleTypes == FullSpec => []TypeOK
<1>1. Init => TypeOK
  BY PositionAssumption DEF Init, TypeOK, Flags, Venues, Allocations
<1>2. Spec => []TypeOK
  BY <1>1, TypeNext, PTL DEF Spec
<1> QED BY <1>2, FullSpecIsSpec, PTL
=============================================================================
