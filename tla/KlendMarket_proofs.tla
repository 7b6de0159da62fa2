-------------------------- MODULE KlendMarket_proofs --------------------------
(***************************************************************************)
(* The lending market, for any number of reserves, customers and slots,    *)
(* any configuration, any amounts and any readings of the oracles.         *)
(***************************************************************************)
EXTENDS KlendMarketProperties, WellFoundedInduction, TLAPS

-----------------------------------------------------------------------------
(* The slots of an obligation *)

\* A set of indices that is not empty has a first one.
LEMMA FirstIsLeast ==
    ASSUME NEW S \in SUBSET Nat, S # {}
    PROVE  /\ First(S) \in S
           /\ \A j \in S : First(S) <= j
<1> DEFINE R == {ss \in Nat \X Nat : ss[1] < ss[2]}
<1>1. IsWellFoundedOn(R, Nat)
  BY NatLessThanWellFounded DEF OpToRel
<1> HIDE DEF R
<1>2. PICK x \in S : \A y \in S : ~ (<<y, x>> \in R)
  BY <1>1, WFMin, Zenon
<1>3. ASSUME NEW y \in S PROVE x <= y
  <2>1. x \in Nat /\ y \in Nat
    OBVIOUS
  <2>2. <<y, x>> \in R <=> y < x
    BY <2>1 DEF R
  <2>3. QED
    BY <1>2, <2>1, <2>2
<1>4. QED
  BY <1>3, Zenon DEF First

\* The slot used for a reserve is a slot of the table; it holds the reserve or nothing,
\* and no other slot holds the reserve, if at most one did.
LEMMA SlotForFacts ==
    ASSUME NEW N \in Nat, NEW table, DOMAIN table = 1..N, NEW r,
           HasSlot(table, r), \A i, j \in 1..N : table[i] = r /\ table[j] = r => i = j
    PROVE  /\ SlotFor(table, r) \in 1..N
           /\ table[SlotFor(table, r)] \in {r, NoReserve}
           /\ \A j \in 1..N : j # SlotFor(table, r) => table[j] # r
<1>1. \A s : SlotsOf(table, s) \in SUBSET Nat
  BY DEF SlotsOf
<1>2. CASE SlotsOf(table, r) # {}
  <2>1. SlotFor(table, r) \in SlotsOf(table, r)
    BY <1>1, <1>2, FirstIsLeast DEF SlotFor
  <2>2. QED
    BY <2>1 DEF SlotsOf
<1>3. CASE SlotsOf(table, r) = {}
  <2>1. SlotFor(table, r) \in SlotsOf(table, NoReserve)
    BY <1>1, <1>3, FirstIsLeast DEF SlotFor, HasSlot
  <2>2. QED
    BY <1>3, <2>1 DEF SlotsOf
<1>4. QED
  BY <1>2, <1>3

\* The tables of an obligation's deposits and of its borrows.
DepositSlot(o, i) ==
    /\ "deposit_reserve" \in DOMAIN deposits[o][i]
    /\ deposits[o][i].deposit_reserve \in Reserves \cup {NoReserve}
    /\ deposits[o][i].deposit_reserve = NoReserve => deposits[o][i] = EmptyDeposit
    /\ deposits_asset_tiers[o][i] = TierOf(deposits[o][i].deposit_reserve)
DepositsDistinct(o) ==
    \A r \in Reserves : \A i, j \in 1..MaxDeposits :
        deposits[o][i].deposit_reserve = r /\ deposits[o][j].deposit_reserve = r => i = j
DepositDomains(o) == /\ DOMAIN deposits[o] = 1..MaxDeposits
                     /\ DOMAIN deposits_asset_tiers[o] = 1..MaxDeposits
DepositTable ==
    /\ DOMAIN deposits = Obligations /\ DOMAIN deposits_asset_tiers = Obligations
    /\ \A o \in Obligations : DepositDomains(o) /\ DepositsDistinct(o)
    /\ \A o \in Obligations, i \in 1..MaxDeposits : DepositSlot(o, i)

BorrowSlot(o, i) ==
    /\ "borrow_reserve" \in DOMAIN borrows[o][i]
    /\ borrows[o][i].borrow_reserve \in Reserves \cup {NoReserve}
    /\ borrows[o][i].borrow_reserve = NoReserve => borrows[o][i] = EmptyBorrow
    /\ borrows_asset_tiers[o][i] = TierOf(borrows[o][i].borrow_reserve)
BorrowsDistinct(o) ==
    \A r \in Reserves : \A i, j \in 1..MaxBorrows :
        borrows[o][i].borrow_reserve = r /\ borrows[o][j].borrow_reserve = r => i = j
BorrowDomains(o) == /\ DOMAIN borrows[o] = 1..MaxBorrows
                    /\ DOMAIN borrows_asset_tiers[o] = 1..MaxBorrows
InUse(o) == \E i \in 1..MaxBorrows : borrows[o][i].borrow_reserve # NoReserve
BorrowTable ==
    /\ DOMAIN borrows = Obligations /\ DOMAIN borrows_asset_tiers = Obligations
    /\ DOMAIN has_debt = Obligations
    /\ \A o \in Obligations : BorrowDomains(o) /\ BorrowsDistinct(o)
    /\ \A o \in Obligations, i \in 1..MaxBorrows : BorrowSlot(o, i)
    /\ \A o \in Obligations : has_debt[o] <=> InUse(o)

LEMMA TablesGiveSlots ==
    ASSUME DepositTable, BorrowTable
    PROVE  SlotsAreDistinct
<1> SUFFICES ASSUME NEW o \in Obligations
    PROVE  /\ DepositsDistinct(o)
           /\ BorrowsDistinct(o)
           /\ \A i \in SlotsOf(DepositReserves(o), NoReserve) : deposits[o][i] = EmptyDeposit
           /\ \A i \in SlotsOf(BorrowReserves(o), NoReserve) : borrows[o][i] = EmptyBorrow
           /\ \A i \in 1..MaxDeposits :
              deposits_asset_tiers[o][i] = TierOf(deposits[o][i].deposit_reserve)
           /\ \A i \in 1..MaxBorrows :
              borrows_asset_tiers[o][i] = TierOf(borrows[o][i].borrow_reserve)
           /\ has_debt[o] <=> SlotsOf(BorrowReserves(o), NoReserve) # 1..MaxBorrows
  BY Zenon DEF SlotsAreDistinct, DepositsDistinct, BorrowsDistinct
<1>1. \A i : i \in SlotsOf(DepositReserves(o), NoReserve) <=>
          i \in 1..MaxDeposits /\ deposits[o][i].deposit_reserve = NoReserve
  BY DEF SlotsOf, DepositReserves
<1>2. \A i : i \in SlotsOf(BorrowReserves(o), NoReserve) <=>
          i \in 1..MaxBorrows /\ borrows[o][i].borrow_reserve = NoReserve
  BY DEF SlotsOf, BorrowReserves
<1>3. has_debt[o] <=> SlotsOf(BorrowReserves(o), NoReserve) # 1..MaxBorrows
  <2>1. has_debt[o] <=> InUse(o)
    BY Zenon DEF BorrowTable
  <2>2. (SlotsOf(BorrowReserves(o), NoReserve) # 1..MaxBorrows) <=> InUse(o)
    BY <1>2 DEF InUse
  <2>3. QED
    BY <2>1, <2>2, Zenon
<1>4. DepositsDistinct(o) /\ BorrowsDistinct(o)
  BY Zenon DEF DepositTable, BorrowTable
<1>5. \A i \in 1..MaxDeposits : DepositSlot(o, i)
  BY Zenon DEF DepositTable
<1>6. \A i \in 1..MaxBorrows : BorrowSlot(o, i)
  BY Zenon DEF BorrowTable
<1>7. /\ \A i \in SlotsOf(DepositReserves(o), NoReserve) : deposits[o][i] = EmptyDeposit
      /\ \A i \in 1..MaxDeposits :
            deposits_asset_tiers[o][i] = TierOf(deposits[o][i].deposit_reserve)
  BY <1>1, <1>5, Zenon DEF DepositSlot
<1>8. /\ \A i \in SlotsOf(BorrowReserves(o), NoReserve) : borrows[o][i] = EmptyBorrow
      /\ \A i \in 1..MaxBorrows :
            borrows_asset_tiers[o][i] = TierOf(borrows[o][i].borrow_reserve)
  BY <1>2, <1>6, Zenon DEF BorrowSlot
<1>9. QED
  BY <1>3, <1>4, <1>7, <1>8, Zenon

\* Writing one slot, with its tier, keeps a table: it is emptied, or holds a reserve
\* that no other slot of the obligation holds.
LEMMA DepositSlotWritten ==
    ASSUME DepositTable, NEW o \in Obligations, NEW i \in 1..MaxDeposits, NEW v, NEW t,
           deposits' = [deposits EXCEPT ![o][i] = v],
           deposits_asset_tiers' = [deposits_asset_tiers EXCEPT ![o][i] = t],
           "deposit_reserve" \in DOMAIN v,
           v.deposit_reserve \in Reserves \cup {NoReserve},
           v.deposit_reserve = NoReserve => v = EmptyDeposit,
           t = TierOf(v.deposit_reserve),
           v.deposit_reserve \in Reserves => \A j \in 1..MaxDeposits :
               j # i => deposits[o][j].deposit_reserve # v.deposit_reserve
    PROVE  DepositTable'
<1>1. /\ DOMAIN deposits = Obligations /\ DOMAIN deposits_asset_tiers = Obligations
      /\ \A p \in Obligations : DepositDomains(p)
      /\ \A p \in Obligations : DepositsDistinct(p)
      /\ \A p \in Obligations, j \in 1..MaxDeposits : DepositSlot(p, j)
  BY Zenon DEF DepositTable
<1>2. /\ DOMAIN deposits' = Obligations /\ DOMAIN deposits_asset_tiers' = Obligations
      /\ \A p \in Obligations : DepositDomains(p)'
  BY <1>1 DEF DepositDomains
<1>3. \A p \in Obligations, j \in 1..MaxDeposits :
          /\ deposits'[p][j] = IF p = o /\ j = i THEN v ELSE deposits[p][j]
          /\ deposits_asset_tiers'[p][j] =
                IF p = o /\ j = i THEN t ELSE deposits_asset_tiers[p][j]
  BY <1>1 DEF DepositDomains
<1>4. ASSUME NEW p \in Obligations, NEW j \in 1..MaxDeposits
      PROVE  DepositSlot(p, j)'
  <2>1. CASE p = o /\ j = i
    BY <1>3, <2>1 DEF DepositSlot, TierOf, EmptyDeposit
  <2>2. CASE ~(p = o /\ j = i)
    <3>1. /\ deposits'[p][j] = deposits[p][j]
          /\ deposits_asset_tiers'[p][j] = deposits_asset_tiers[p][j]
      BY <1>3, <2>2
    <3>2. DepositSlot(p, j)
      BY <1>1
    <3>3. QED
      BY <3>1, <3>2 DEF DepositSlot, TierOf, EmptyDeposit
  <2>3. QED
    BY <2>1, <2>2
<1>5. ASSUME NEW p \in Obligations PROVE DepositsDistinct(p)'
  <2> SUFFICES ASSUME NEW r \in Reserves, NEW j \in 1..MaxDeposits, NEW k \in 1..MaxDeposits,
                      deposits'[p][j].deposit_reserve = r,
                      deposits'[p][k].deposit_reserve = r
      PROVE  j = k
    BY Zenon DEF DepositsDistinct
  <2>1. /\ deposits'[p][j] = IF p = o /\ j = i THEN v ELSE deposits[p][j]
        /\ deposits'[p][k] = IF p = o /\ k = i THEN v ELSE deposits[p][k]
    BY <1>3
  <2>2. CASE p = o /\ (j = i \/ k = i)
    BY <2>1, <2>2
  <2>3. CASE ~(p = o /\ (j = i \/ k = i))
    <3>1. DepositsDistinct(p)
      BY <1>1
    <3>2. deposits[p][j].deposit_reserve = r /\ deposits[p][k].deposit_reserve = r
      BY <2>1, <2>3
    <3>3. QED
      BY <3>1, <3>2, Zenon DEF DepositsDistinct
  <2>4. QED
    BY <2>2, <2>3
<1>6. QED
  BY <1>2, <1>4, <1>5, Zenon DEF DepositTable

LEMMA BorrowSlotWritten ==
    ASSUME BorrowTable, NEW o \in Obligations, UpdateHasDebt(o), NEW i \in 1..MaxBorrows, NEW v, NEW t,
           borrows' = [borrows EXCEPT ![o][i] = v],
           borrows_asset_tiers' = [borrows_asset_tiers EXCEPT ![o][i] = t],
           "borrow_reserve" \in DOMAIN v,
           v.borrow_reserve \in Reserves \cup {NoReserve},
           v.borrow_reserve = NoReserve => v = EmptyBorrow,
           t = TierOf(v.borrow_reserve),
           v.borrow_reserve \in Reserves => \A j \in 1..MaxBorrows :
               j # i => borrows[o][j].borrow_reserve # v.borrow_reserve
    PROVE  BorrowTable'
<1>1. /\ DOMAIN borrows = Obligations /\ DOMAIN borrows_asset_tiers = Obligations
      /\ \A p \in Obligations : BorrowDomains(p)
      /\ \A p \in Obligations : BorrowsDistinct(p)
      /\ \A p \in Obligations, j \in 1..MaxBorrows : BorrowSlot(p, j)
  BY Zenon DEF BorrowTable
<1>2. /\ DOMAIN borrows' = Obligations /\ DOMAIN borrows_asset_tiers' = Obligations
      /\ \A p \in Obligations : BorrowDomains(p)'
  BY <1>1 DEF BorrowDomains
<1>3. \A p \in Obligations, j \in 1..MaxBorrows :
          /\ borrows'[p][j] = IF p = o /\ j = i THEN v ELSE borrows[p][j]
          /\ borrows_asset_tiers'[p][j] =
                IF p = o /\ j = i THEN t ELSE borrows_asset_tiers[p][j]
  BY <1>1 DEF BorrowDomains
<1>4. ASSUME NEW p \in Obligations, NEW j \in 1..MaxBorrows
      PROVE  BorrowSlot(p, j)'
  <2>1. CASE p = o /\ j = i
    BY <1>3, <2>1 DEF BorrowSlot, TierOf, EmptyBorrow
  <2>2. CASE ~(p = o /\ j = i)
    <3>1. /\ borrows'[p][j] = borrows[p][j]
          /\ borrows_asset_tiers'[p][j] = borrows_asset_tiers[p][j]
      BY <1>3, <2>2
    <3>2. BorrowSlot(p, j)
      BY <1>1
    <3>3. QED
      BY <3>1, <3>2 DEF BorrowSlot, TierOf, EmptyBorrow
  <2>3. QED
    BY <2>1, <2>2
<1>5. ASSUME NEW p \in Obligations PROVE BorrowsDistinct(p)'
  <2> SUFFICES ASSUME NEW r \in Reserves, NEW j \in 1..MaxBorrows, NEW k \in 1..MaxBorrows,
                      borrows'[p][j].borrow_reserve = r,
                      borrows'[p][k].borrow_reserve = r
      PROVE  j = k
    BY Zenon DEF BorrowsDistinct
  <2>1. /\ borrows'[p][j] = IF p = o /\ j = i THEN v ELSE borrows[p][j]
        /\ borrows'[p][k] = IF p = o /\ k = i THEN v ELSE borrows[p][k]
    BY <1>3
  <2>2. CASE p = o /\ (j = i \/ k = i)
    BY <2>1, <2>2
  <2>3. CASE ~(p = o /\ (j = i \/ k = i))
    <3>1. BorrowsDistinct(p)
      BY <1>1
    <3>2. borrows[p][j].borrow_reserve = r /\ borrows[p][k].borrow_reserve = r
      BY <2>1, <2>3
    <3>3. QED
      BY <3>1, <3>2, Zenon DEF BorrowsDistinct
  <2>4. QED
    BY <2>2, <2>3
<1>6. DOMAIN has_debt' = Obligations /\ \A p \in Obligations : has_debt'[p] <=> InUse(p)'
  <2>1. DOMAIN has_debt = Obligations /\ \A p \in Obligations : has_debt[p] <=> InUse(p)
    BY Zenon DEF BorrowTable
  <2>2. has_debt' = [has_debt EXCEPT ![o] = InUse(o)']
    BY Zenon DEF UpdateHasDebt, InUse
  <2>3. DOMAIN has_debt' = Obligations
    BY <2>1, <2>2, Zenon
  <2>4. ASSUME NEW p \in Obligations PROVE has_debt'[p] <=> InUse(p)'
    <3>1. CASE p = o
      BY <2>1, <2>2, <3>1, Zenon
    <3>2. CASE p # o
      <4>1. has_debt'[p] = has_debt[p]
        BY <2>1, <2>2, <3>2, Zenon
      <4>2. InUse(p)' <=> InUse(p)
        <5>1. \A j \in 1..MaxBorrows : borrows'[p][j] = borrows[p][j]
          BY <1>3, <3>2
        <5>2. QED
          BY <5>1, Zenon DEF InUse
      <4>3. QED
        BY <2>1, <4>1, <4>2, Zenon
    <3>3. QED
      BY <3>1, <3>2, Zenon
  <2>5. QED
    BY <2>3, <2>4, Zenon
<1>7. QED
  BY <1>2, <1>4, <1>5, <1>6, Zenon DEF BorrowTable

-----------------------------------------------------------------------------
(* One step per instruction that writes a slot *)

\* The slot an instruction writes, when the tables are in order.
LEMMA DepositSlotChosen ==
    ASSUME KlendMarketAssumption, DepositTable, NEW o \in Obligations, NEW r \in Reserves,
           HasSlot(DepositReserves(o), r)
    PROVE  /\ SlotFor(DepositReserves(o), r) \in 1..MaxDeposits
           /\ SlotsOf(DepositReserves(o), r) # {} =>
                 deposits[o][SlotFor(DepositReserves(o), r)].deposit_reserve = r
           /\ \A j \in 1..MaxDeposits :
                 j # SlotFor(DepositReserves(o), r) => deposits[o][j].deposit_reserve # r
<1> DEFINE table == DepositReserves(o)
<1>1. DOMAIN table = 1..MaxDeposits /\ \A j \in 1..MaxDeposits : table[j] = deposits[o][j].deposit_reserve
  BY DEF DepositReserves
<1>2. \A i, j \in 1..MaxDeposits : table[i] = r /\ table[j] = r => i = j
  <2>1. DepositsDistinct(o)
    BY Zenon DEF DepositTable
  <2>2. QED
    BY <1>1, <2>1, Zenon DEF DepositsDistinct
<1>3. MaxDeposits \in Nat /\ HasSlot(table, r)
  BY DEF KlendMarketAssumption
<1>4. SlotsOf(table, r) # {} => SlotFor(table, r) \in SlotsOf(table, r)
  <2>1. SlotsOf(table, r) \in SUBSET Nat
    BY <1>1 DEF SlotsOf
  <2>2. QED
    BY <2>1, FirstIsLeast DEF SlotFor
<1> HIDE DEF table
<1>5. /\ SlotFor(table, r) \in 1..MaxDeposits
      /\ \A j \in 1..MaxDeposits : j # SlotFor(table, r) => table[j] # r
  BY <1>1, <1>2, <1>3, SlotForFacts
<1>6. SlotsOf(table, r) # {} => table[SlotFor(table, r)] = r
  BY <1>4 DEF SlotsOf
<1>7. QED
  BY <1>1, <1>5, <1>6, Zenon DEF table

LEMMA BorrowSlotChosen ==
    ASSUME KlendMarketAssumption, BorrowTable, NEW o \in Obligations, NEW r \in Reserves,
           HasSlot(BorrowReserves(o), r)
    PROVE  /\ SlotFor(BorrowReserves(o), r) \in 1..MaxBorrows
           /\ SlotsOf(BorrowReserves(o), r) # {} =>
                 borrows[o][SlotFor(BorrowReserves(o), r)].borrow_reserve = r
           /\ \A j \in 1..MaxBorrows :
                 j # SlotFor(BorrowReserves(o), r) => borrows[o][j].borrow_reserve # r
<1> DEFINE table == BorrowReserves(o)
<1>1. DOMAIN table = 1..MaxBorrows /\ \A j \in 1..MaxBorrows : table[j] = borrows[o][j].borrow_reserve
  BY DEF BorrowReserves
<1>2. \A i, j \in 1..MaxBorrows : table[i] = r /\ table[j] = r => i = j
  <2>1. BorrowsDistinct(o)
    BY Zenon DEF BorrowTable
  <2>2. QED
    BY <1>1, <2>1, Zenon DEF BorrowsDistinct
<1>3. MaxBorrows \in Nat /\ HasSlot(table, r)
  BY DEF KlendMarketAssumption
<1>4. SlotsOf(table, r) # {} => SlotFor(table, r) \in SlotsOf(table, r)
  <2>1. SlotsOf(table, r) \in SUBSET Nat
    BY <1>1 DEF SlotsOf
  <2>2. QED
    BY <2>1, FirstIsLeast DEF SlotFor
<1> HIDE DEF table
<1>5. /\ SlotFor(table, r) \in 1..MaxBorrows
      /\ \A j \in 1..MaxBorrows : j # SlotFor(table, r) => table[j] # r
  BY <1>1, <1>2, <1>3, SlotForFacts
<1>6. SlotsOf(table, r) # {} => table[SlotFor(table, r)] = r
  BY <1>4 DEF SlotsOf
<1>7. QED
  BY <1>1, <1>5, <1>6, Zenon DEF table

\* A new amount in a slot leaves its reserve.
LEMMA AmountChanged ==
    ASSUME NEW d, "deposit_reserve" \in DOMAIN d, NEW a
    PROVE  /\ "deposit_reserve" \in DOMAIN [d EXCEPT !.deposited_amount = a]
           /\ [d EXCEPT !.deposited_amount = a].deposit_reserve = d.deposit_reserve
OBVIOUS

LEMMA DebtChanged ==
    ASSUME NEW b, "borrow_reserve" \in DOMAIN b, NEW a
    PROVE  /\ "borrow_reserve" \in DOMAIN [b EXCEPT !.borrowed_amount_sf = a]
           /\ [b EXCEPT !.borrowed_amount_sf = a].borrow_reserve = b.borrow_reserve
OBVIOUS

LEMMA AccruedReserve ==
    ASSUME NEW b, "borrow_reserve" \in DOMAIN b, NEW rate
    PROVE  /\ "borrow_reserve" \in DOMAIN Accrued(b, rate)
           /\ Accrued(b, rate).borrow_reserve = b.borrow_reserve
<1>1. ASSUME NEW x, NEW y
      PROVE /\ "borrow_reserve" \in DOMAIN [b EXCEPT !.borrowed_amount_sf = x,
                                                     !.cumulative_borrow_rate_bsf = y]
            /\ [b EXCEPT !.borrowed_amount_sf = x,
                         !.cumulative_borrow_rate_bsf = y].borrow_reserve = b.borrow_reserve
  OBVIOUS
<1>2. QED
  BY <1>1, Zenon DEF Accrued

LEMMA TierOfReserve ==
    ASSUME KlendMarketAssumption
    PROVE  /\ \A r \in Reserves : TierOf(r) = Config[r].asset_tier /\ r # NoReserve
           /\ TierOf(NoReserve) = NoTier
BY DEF KlendMarketAssumption, TierOf

LEMMA DepositStep ==
    ASSUME KlendMarketAssumption, DepositTable, NEW o \in Obligations, NEW r \in Reserves,
           NEW a, DepositReserveLiquidityAndObligationCollateral(o, r, a)
    PROVE  DepositTable'
<1> DEFINE i == SlotFor(DepositReserves(o), r)
           minted == LiquidityToCollateral(CollateralExchangeRate(r), a)
           v == [deposit_reserve |-> r,
                 deposited_amount |-> deposits[o][i].deposited_amount + minted]
<1>1. /\ HasSlot(DepositReserves(o), r)
      /\ deposits' = [deposits EXCEPT ![o][i] = [deposit_reserve |-> r,
                           deposited_amount |-> @.deposited_amount + minted]]
      /\ deposits_asset_tiers' = [deposits_asset_tiers EXCEPT ![o][i] = Config[r].asset_tier]
  BY Zenon DEF DepositReserveLiquidityAndObligationCollateral
<1>2. i \in 1..MaxDeposits /\ \A j \in 1..MaxDeposits : j # i => deposits[o][j].deposit_reserve # r
  BY <1>1, DepositSlotChosen, Zenon
<1>3. /\ "deposit_reserve" \in DOMAIN v
      /\ v.deposit_reserve = r
  OBVIOUS
<1>4. r # NoReserve /\ TierOf(r) = Config[r].asset_tier
  BY TierOfReserve, Zenon
<1>5. deposits' = [deposits EXCEPT ![o][i] = v]
  BY <1>1
<1> HIDE DEF i, minted, v
<1>6. QED
  BY <1>1, <1>2, <1>3, <1>4, <1>5, DepositSlotWritten

LEMMA WithdrawStep ==
    ASSUME KlendMarketAssumption, DepositTable, NEW o \in Obligations, NEW r \in Reserves,
           NEW a, WithdrawObligationCollateralAndRedeemReserveCollateral(o, r, a)
    PROVE  DepositTable'
<1> DEFINE i == SlotFor(DepositReserves(o), r)
           d == deposits[o][i]
           v == AfterWithdraw(d, a)
           t == TierLeft(deposits_asset_tiers[o][i], a, d.deposited_amount)
<1>1. /\ SlotsOf(DepositReserves(o), r) # {}
      /\ deposits' = [deposits EXCEPT ![o][i] = AfterWithdraw(@, a)]
      /\ deposits_asset_tiers' = [deposits_asset_tiers EXCEPT
              ![o][i] = TierLeft(@, a, deposits[o][i].deposited_amount)]
  BY Zenon DEF WithdrawObligationCollateralAndRedeemReserveCollateral
<1>2. /\ i \in 1..MaxDeposits /\ d.deposit_reserve = r
      /\ \A j \in 1..MaxDeposits : j # i => deposits[o][j].deposit_reserve # r
  BY <1>1, DepositSlotChosen, Zenon DEF HasSlot
<1>3. DepositSlot(o, i)
  BY <1>2, Zenon DEF DepositTable
<1>4. r # NoReserve /\ TierOf(r) = Config[r].asset_tier /\ TierOf(NoReserve) = NoTier
  BY TierOfReserve, Zenon
<1>5. /\ deposits' = [deposits EXCEPT ![o][i] = v]
      /\ deposits_asset_tiers' = [deposits_asset_tiers EXCEPT ![o][i] = t]
  BY <1>1
<1>6. "deposit_reserve" \in DOMAIN d /\ deposits_asset_tiers[o][i] = TierOf(r)
  BY <1>2, <1>3, Zenon DEF DepositSlot
<1>7. CASE a = d.deposited_amount
  <2>1. v = EmptyDeposit /\ t = NoTier
    BY <1>7, Zenon DEF AfterWithdraw, TierLeft
  <2>2. "deposit_reserve" \in DOMAIN v /\ v.deposit_reserve = NoReserve
    BY <2>1 DEF EmptyDeposit
  <2> HIDE DEF i, d, v, t
  <2>3. QED
    BY <1>2, <1>4, <1>5, <2>1, <2>2, DepositSlotWritten, KlendMarketAssumption DEF KlendMarketAssumption
<1>8. CASE a # d.deposited_amount
  <2>1. v = [d EXCEPT !.deposited_amount = @ - a] /\ t = TierOf(r)
    BY <1>6, <1>8, Zenon DEF AfterWithdraw, TierLeft
  <2>2. "deposit_reserve" \in DOMAIN v /\ v.deposit_reserve = r
    BY <1>2, <1>6, <2>1, AmountChanged
  <2> HIDE DEF i, d, v, t
  <2>3. QED
    BY <1>2, <1>4, <1>5, <2>1, <2>2, DepositSlotWritten
<1>9. QED
  BY <1>7, <1>8

\* The borrow an instruction works on is one of its reserve.
LEMMA CurrentBorrowReserve ==
    ASSUME KlendMarketAssumption, BorrowTable, NEW o \in Obligations, NEW r \in Reserves,
           HasSlot(BorrowReserves(o), r)
    PROVE  /\ "borrow_reserve" \in DOMAIN CurrentBorrow(o, r)
           /\ CurrentBorrow(o, r).borrow_reserve = r
<1> DEFINE i == SlotFor(BorrowReserves(o), r)
<1>1. CASE SlotsOf(BorrowReserves(o), r) # {}
  <2>1. i \in 1..MaxBorrows /\ borrows[o][i].borrow_reserve = r
    BY <1>1, BorrowSlotChosen, Zenon
  <2>2. "borrow_reserve" \in DOMAIN borrows[o][i]
    BY <2>1, Zenon DEF BorrowTable, BorrowSlot
  <2>3. CurrentBorrow(o, r) = Accrued(borrows[o][i], cumulative_borrow_rate_bsf[r])
    BY <1>1, Zenon DEF CurrentBorrow
  <2> HIDE DEF i
  <2>4. QED
    BY <2>1, <2>2, <2>3, AccruedReserve, Zenon
<1>2. CASE SlotsOf(BorrowReserves(o), r) = {}
  BY <1>2 DEF CurrentBorrow
<1>3. QED
  BY <1>1, <1>2

LEMMA BorrowStep ==
    ASSUME KlendMarketAssumption, BorrowTable, NEW o \in Obligations, NEW r \in Reserves,
           NEW a, NEW m, BorrowObligationLiquidity(o, r, a, m)
    PROVE  BorrowTable'
<1> DEFINE i == SlotFor(BorrowReserves(o), r)
           b == CurrentBorrow(o, r)
           v == [b EXCEPT !.borrowed_amount_sf = @ + CalculateBorrow(r, a, m).borrow_amount_f]
<1>1. /\ HasSlot(BorrowReserves(o), r)
      /\ borrows' = [borrows EXCEPT ![o][i] = v]
      /\ borrows_asset_tiers' = [borrows_asset_tiers EXCEPT ![o][i] = Config[r].asset_tier]
      /\ UpdateHasDebt(o)
  BY Zenon DEF BorrowObligationLiquidity
<1>2. i \in 1..MaxBorrows /\ \A j \in 1..MaxBorrows : j # i => borrows[o][j].borrow_reserve # r
  BY <1>1, BorrowSlotChosen, Zenon
<1>3. "borrow_reserve" \in DOMAIN b /\ b.borrow_reserve = r
  BY <1>1, CurrentBorrowReserve, Zenon
<1>4. r # NoReserve /\ TierOf(r) = Config[r].asset_tier
  BY TierOfReserve, Zenon
<1> HIDE DEF b
<1>5. "borrow_reserve" \in DOMAIN v /\ v.borrow_reserve = r
  BY <1>3, DebtChanged
<1> HIDE DEF i, v
<1>6. QED
  BY <1>1, <1>2, <1>4, <1>5, BorrowSlotWritten

\* A slot some of whose debt is settled, or all of it.
LEMMA DebtSettled ==
    ASSUME KlendMarketAssumption, NEW r \in Reserves, NEW b, NEW settled, NEW tier,
           "borrow_reserve" \in DOMAIN b, b.borrow_reserve = r, tier = TierOf(r)
    PROVE  /\ "borrow_reserve" \in DOMAIN AfterRepay(b, settled)
           /\ AfterRepay(b, settled).borrow_reserve \in {r, NoReserve}
           /\ AfterRepay(b, settled).borrow_reserve = NoReserve =>
                 AfterRepay(b, settled) = EmptyBorrow
           /\ TierLeft(tier, settled, b.borrowed_amount_sf)
                 = TierOf(AfterRepay(b, settled).borrow_reserve)
<1> DEFINE v == AfterRepay(b, settled)
<1>1. r # NoReserve /\ TierOf(NoReserve) = NoTier
  BY TierOfReserve, Zenon
<1>2. CASE settled = b.borrowed_amount_sf
  <2>1. v = EmptyBorrow /\ TierLeft(tier, settled, b.borrowed_amount_sf) = NoTier
    BY <1>2, Zenon DEF AfterRepay, TierLeft
  <2>2. "borrow_reserve" \in DOMAIN v /\ v.borrow_reserve = NoReserve
    BY <2>1 DEF EmptyBorrow
  <2>3. QED
    BY <1>1, <2>1, <2>2
<1>3. CASE settled # b.borrowed_amount_sf
  <2>1. /\ v = [b EXCEPT !.borrowed_amount_sf = @ - settled]
        /\ TierLeft(tier, settled, b.borrowed_amount_sf) = tier
    BY <1>3, Zenon DEF AfterRepay, TierLeft
  <2> HIDE DEF v
  <2>2. "borrow_reserve" \in DOMAIN v /\ v.borrow_reserve = r
    BY <2>1, DebtChanged
  <2>3. QED
    BY <1>1, <2>1, <2>2 DEF v
<1>4. QED
  BY <1>2, <1>3

LEMMA RepayStep ==
    ASSUME KlendMarketAssumption, BorrowTable, NEW o \in Obligations, NEW r \in Reserves,
           NEW a, RepayObligationLiquidity(o, r, a)
    PROVE  BorrowTable'
<1> DEFINE i == SlotFor(BorrowReserves(o), r)
           b == CurrentBorrow(o, r)
           settled == Settled(a, b.borrowed_amount_sf)
           v == AfterRepay(b, settled)
           t == TierLeft(borrows_asset_tiers[o][i], settled, b.borrowed_amount_sf)
<1>1. /\ SlotsOf(BorrowReserves(o), r) # {}
      /\ borrows' = [borrows EXCEPT ![o][i] = v]
      /\ borrows_asset_tiers' = [borrows_asset_tiers EXCEPT
              ![o][i] = TierLeft(@, settled, b.borrowed_amount_sf)]
      /\ UpdateHasDebt(o)
  BY Zenon DEF RepayObligationLiquidity
<1>2. /\ HasSlot(BorrowReserves(o), r)
      /\ i \in 1..MaxBorrows /\ borrows[o][i].borrow_reserve = r
      /\ \A j \in 1..MaxBorrows : j # i => borrows[o][j].borrow_reserve # r
  BY <1>1, BorrowSlotChosen, Zenon DEF HasSlot
<1>3. "borrow_reserve" \in DOMAIN b /\ b.borrow_reserve = r
  BY <1>2, CurrentBorrowReserve, Zenon
<1>4. BorrowSlot(o, i)
  BY <1>2, Zenon DEF BorrowTable
<1>5. borrows_asset_tiers[o][i] = TierOf(r)
  BY <1>2, <1>4 DEF BorrowSlot
<1> HIDE DEF i, b, settled
<1>6. borrows_asset_tiers' = [borrows_asset_tiers EXCEPT ![o][i] = t]
  BY <1>1
<1>7. /\ "borrow_reserve" \in DOMAIN v /\ v.borrow_reserve \in {r, NoReserve}
      /\ v.borrow_reserve = NoReserve => v = EmptyBorrow
      /\ t = TierOf(v.borrow_reserve)
  BY <1>3, <1>5, DebtSettled
<1>8. NoReserve \notin Reserves
  BY DEF KlendMarketAssumption
<1> HIDE DEF v, t
<1>9. /\ v.borrow_reserve \in Reserves \cup {NoReserve}
      /\ v.borrow_reserve \in Reserves => \A j \in 1..MaxBorrows :
            j # i => borrows[o][j].borrow_reserve # v.borrow_reserve
  BY <1>2, <1>7, <1>8
<1>10. i \in 1..MaxBorrows /\ borrows' = [borrows EXCEPT ![o][i] = v] /\ UpdateHasDebt(o)
  BY <1>1, <1>2, Zenon
<1>11. QED
  BY <1>6, <1>7, <1>9, <1>10, BorrowSlotWritten, Zenon

LEMMA ForgiveStep ==
    ASSUME KlendMarketAssumption, BorrowTable, NEW o \in Obligations, NEW r \in Reserves,
           ForgiveDebt(o, r)
    PROVE  BorrowTable'
<1> DEFINE i == SlotFor(BorrowReserves(o), r)
<1>1. /\ SlotsOf(BorrowReserves(o), r) # {}
      /\ borrows' = [borrows EXCEPT ![o][i] = EmptyBorrow]
      /\ borrows_asset_tiers' = [borrows_asset_tiers EXCEPT ![o][i] = NoTier]
      /\ UpdateHasDebt(o)
  BY Zenon DEF ForgiveDebt
<1>2. i \in 1..MaxBorrows
  BY <1>1, BorrowSlotChosen, Zenon DEF HasSlot
<1>3. TierOf(NoReserve) = NoTier /\ NoReserve \notin Reserves
  BY TierOfReserve, Zenon DEF KlendMarketAssumption
<1>4. "borrow_reserve" \in DOMAIN EmptyBorrow /\ EmptyBorrow.borrow_reserve = NoReserve
  BY DEF EmptyBorrow
<1> HIDE DEF i
<1>5. QED
  BY <1>1, <1>2, <1>3, <1>4, BorrowSlotWritten

-----------------------------------------------------------------------------
\* The tables are in order at the start.
LEMMA TablesInit ==
    ASSUME KlendMarketAssumption, Init
    PROVE  DepositTable /\ BorrowTable
<1>1. /\ deposits = [o \in Obligations |-> [i \in 1..MaxDeposits |-> EmptyDeposit]]
      /\ borrows = [o \in Obligations |-> [i \in 1..MaxBorrows |-> EmptyBorrow]]
      /\ deposits_asset_tiers = [o \in Obligations |-> [i \in 1..MaxDeposits |-> NoTier]]
      /\ borrows_asset_tiers = [o \in Obligations |-> [i \in 1..MaxBorrows |-> NoTier]]
      /\ has_debt = [o \in Obligations |-> FALSE]
  BY Zenon DEF Init, InitObligations
<1>2. TierOf(NoReserve) = NoTier /\ NoReserve \notin Reserves
  BY TierOfReserve, Zenon DEF KlendMarketAssumption
<1>3. "deposit_reserve" \in DOMAIN EmptyDeposit /\ EmptyDeposit.deposit_reserve = NoReserve
  BY DEF EmptyDeposit
<1>4. "borrow_reserve" \in DOMAIN EmptyBorrow /\ EmptyBorrow.borrow_reserve = NoReserve
  BY DEF EmptyBorrow
<1>5. DepositTable
  <2>1. \A o \in Obligations, i \in 1..MaxDeposits :
            deposits[o][i] = EmptyDeposit /\ deposits_asset_tiers[o][i] = NoTier
    BY <1>1
  <2>2. \A o \in Obligations, i \in 1..MaxDeposits : DepositSlot(o, i)
    BY <1>2, <1>3, <2>1 DEF DepositSlot
  <2>3. \A o \in Obligations : DepositDomains(o)
    BY <1>1 DEF DepositDomains
  <2>4. \A o \in Obligations : DepositsDistinct(o)
    BY <1>2, <1>3, <2>1 DEF DepositsDistinct
  <2>5. QED
    BY <1>1, <2>2, <2>3, <2>4 DEF DepositTable
<1>6. BorrowTable
  <2>1. \A o \in Obligations, i \in 1..MaxBorrows :
            borrows[o][i] = EmptyBorrow /\ borrows_asset_tiers[o][i] = NoTier
    BY <1>1
  <2>2. \A o \in Obligations, i \in 1..MaxBorrows : BorrowSlot(o, i)
    BY <1>2, <1>4, <2>1 DEF BorrowSlot
  <2>3. \A o \in Obligations : BorrowDomains(o)
    BY <1>1 DEF BorrowDomains
  <2>4. \A o \in Obligations : BorrowsDistinct(o)
    BY <1>2, <1>4, <2>1 DEF BorrowsDistinct
  <2>5. \A o \in Obligations : has_debt[o] <=> InUse(o)
    BY <1>1, <1>4, <2>1 DEF InUse
  <2>6. QED
    BY <1>1, <2>2, <2>3, <2>4, <2>5 DEF BorrowTable
<1>7. QED
  BY <1>5, <1>6

\* A step that leaves the obligations alone.
LEMMA DepositsUnchanged ==
    ASSUME DepositTable, UNCHANGED <<deposits, deposits_asset_tiers>>
    PROVE  DepositTable'
BY SMT DEF DepositTable, DepositSlot, DepositsDistinct, DepositDomains, TierOf, EmptyDeposit

LEMMA BorrowsUnchanged ==
    ASSUME BorrowTable, UNCHANGED <<borrows, borrows_asset_tiers, has_debt>>
    PROVE  BorrowTable'
BY SMT DEF BorrowTable, BorrowSlot, BorrowsDistinct, BorrowDomains, InUse, TierOf, EmptyBorrow

LEMMA TablesNext ==
    ASSUME KlendMarketAssumption, DepositTable, BorrowTable, [Next]_vars
    PROVE  DepositTable' /\ BorrowTable'
<1>1. ASSUME NEW r \in Reserves, NEW readings \in Readings, RefreshReserve(r, readings)
      PROVE  DepositTable' /\ BorrowTable'
  <2>1. UNCHANGED <<deposits, deposits_asset_tiers, borrows, borrows_asset_tiers, has_debt>>
    BY <1>1, Zenon DEF RefreshReserve, obligations, tiers
  <2>2. QED
    BY <2>1, DepositsUnchanged, BorrowsUnchanged, Zenon
<1>2. ASSUME NEW r \in Reserves, RedeemFees(r) \/ AccumulateReferrerFees(r) \/ WithdrawReferrerFees(r)
      PROVE  DepositTable' /\ BorrowTable'
  <2>1. UNCHANGED <<deposits, deposits_asset_tiers, borrows, borrows_asset_tiers, has_debt>>
    BY <1>2, Zenon DEF RedeemFees, AccumulateReferrerFees, WithdrawReferrerFees, obligations, tiers
  <2>2. QED
    BY <2>1, DepositsUnchanged, BorrowsUnchanged, Zenon
<1>3. ASSUME NEW r \in Reserves, NEW o \in Obligations, NEW a \in DepositAmounts,
             DepositReserveLiquidityAndObligationCollateral(o, r, a)
      PROVE  DepositTable' /\ BorrowTable'
  <2>1. UNCHANGED <<borrows, borrows_asset_tiers, has_debt>>
    BY <1>3, Zenon DEF DepositReserveLiquidityAndObligationCollateral
  <2>2. QED
    BY <1>3, <2>1, DepositStep, BorrowsUnchanged, Zenon
<1>4. ASSUME NEW r \in Reserves, NEW o \in Obligations, NEW a \in RedeemAmounts,
             WithdrawObligationCollateralAndRedeemReserveCollateral(o, r, a)
      PROVE  DepositTable' /\ BorrowTable'
  <2>1. UNCHANGED <<borrows, borrows_asset_tiers, has_debt>>
    BY <1>4, Zenon DEF WithdrawObligationCollateralAndRedeemReserveCollateral
  <2>2. QED
    BY <1>4, <2>1, WithdrawStep, BorrowsUnchanged, Zenon
<1>5. ASSUME NEW r \in Reserves, NEW o \in Obligations, NEW a \in BorrowAmounts,
             NEW v \in MaxDebtValues, BorrowObligationLiquidity(o, r, a, v)
      PROVE  DepositTable' /\ BorrowTable'
  <2>1. UNCHANGED <<deposits, deposits_asset_tiers>>
    BY <1>5, Zenon DEF BorrowObligationLiquidity
  <2>2. QED
    BY <1>5, <2>1, BorrowStep, DepositsUnchanged, Zenon
<1>6. ASSUME NEW r \in Reserves, NEW o \in Obligations, NEW a \in RepayAmounts,
             RepayObligationLiquidity(o, r, a)
      PROVE  DepositTable' /\ BorrowTable'
  <2>1. UNCHANGED <<deposits, deposits_asset_tiers>>
    BY <1>6, Zenon DEF RepayObligationLiquidity
  <2>2. QED
    BY <1>6, <2>1, RepayStep, DepositsUnchanged, Zenon
<1>7. ASSUME NEW r \in Reserves, NEW o \in Obligations, ForgiveDebt(o, r)
      PROVE  DepositTable' /\ BorrowTable'
  <2>1. UNCHANGED <<deposits, deposits_asset_tiers>>
    BY <1>7, Zenon DEF ForgiveDebt
  <2>2. QED
    BY <1>7, <2>1, ForgiveStep, DepositsUnchanged, Zenon
<1>8. CASE Tick \/ UNCHANGED vars
  <2>1. UNCHANGED <<deposits, deposits_asset_tiers, borrows, borrows_asset_tiers, has_debt>>
    BY <1>8, Zenon DEF Tick, vars, obligations, tiers
  <2>2. QED
    BY <2>1, DepositsUnchanged, BorrowsUnchanged, Zenon
<1>9. QED
  BY <1>1, <1>2, <1>3, <1>4, <1>5, <1>6, <1>7, <1>8, Zenon DEF Next

\* However many reserves, slots and customers there are, an obligation never has two
\* slots for one reserve, an emptied slot keeps nothing of what was in it, its tier
\* included, and has_debt is true exactly while something is borrowed: deposit,
\* withdraw, borrow, repay and forgive_debt each find the slot on their own, and the
\* asset tiers are kept in tables of their own.
THEOREM SlotsStayDistinct == Spec => []SlotsAreDistinct
<1>1. Init => DepositTable /\ BorrowTable
  BY TablesInit, KlendMarketAssumption, Zenon
<1>2. DepositTable /\ BorrowTable /\ [Next]_vars => DepositTable' /\ BorrowTable'
  BY TablesNext, KlendMarketAssumption, Zenon
<1>3. DepositTable /\ BorrowTable => SlotsAreDistinct
  BY TablesGiveSlots, Zenon
<1>4. QED
  BY <1>1, <1>2, <1>3, PTL DEF Spec

-----------------------------------------------------------------------------
(* The price an oracle gave *)

\* Among one to three times there is a first latest one.
LEMMA LatestExists ==
    ASSUME NEW n \in 1..3, NEW t, \A i \in 1..n : t[i] \in Nat
    PROVE  \E i \in 1..n : \A j \in 1..n : t[j] <= t[i] /\ (j < i => t[j] < t[i])
<1>1. CASE n = 1
  BY <1>1
<1>2. CASE n = 2
  <2>1. CASE t[1] >= t[2]
    <3>1. \A j \in 1..2 : t[j] <= t[1] /\ (j < 1 => t[j] < t[1])
      BY <1>2, <2>1
    <3>2. QED
      BY <1>2, <3>1
  <2>2. CASE t[1] < t[2]
    <3>1. \A j \in 1..2 : t[j] <= t[2] /\ (j < 2 => t[j] < t[2])
      BY <1>2, <2>2
    <3>2. QED
      BY <1>2, <3>1
  <2>3. QED
    BY <1>2, <2>1, <2>2
<1>3. CASE n = 3
  <2>1. CASE t[1] >= t[2] /\ t[1] >= t[3]
    <3>1. \A j \in 1..3 : t[j] <= t[1] /\ (j < 1 => t[j] < t[1])
      BY <1>3, <2>1
    <3>2. QED
      BY <1>3, <3>1
  <2>2. CASE t[1] < t[2] /\ t[2] >= t[3]
    <3>1. \A j \in 1..3 : t[j] <= t[2] /\ (j < 2 => t[j] < t[2])
      BY <1>3, <2>2
    <3>2. QED
      BY <1>3, <3>1
  <2>3. CASE t[1] < t[3] /\ t[2] < t[3]
    <3>1. \A j \in 1..3 : t[j] <= t[3] /\ (j < 3 => t[j] < t[3])
      BY <1>3, <2>3
    <3>2. QED
      BY <1>3, <3>1
  <2>4. QED
    BY <1>3, <2>1, <2>2, <2>3
<1>4. QED
  BY <1>1, <1>2, <1>3

Candidate == [source : {"pyth", "switchboard", "scope"}, reading : OracleReading]

\* A candidate is what an enabled source said, and Pyth was confident of it; its average
\* is left out or the one that came with it.
SaidBy(token_info, readings, c) ==
    LET said == readings[c.source]
    IN  /\ token_info[c.source].enabled /\ said # <<>>
        /\ c.reading.price = said[1].price /\ c.reading.timestamp = said[1].timestamp
        /\ c.reading.confidence = said[1].confidence
        /\ c.source = "pyth" => PythConfident(said[1])
        /\ c.reading.twap # <<>> => c.reading.twap = said[1].twap
SaidCandidates(token_info, readings) ==
    {c \in Candidate : SaidBy(token_info, readings, c)}

\* A source says nothing or one thing, and what is said of it has a price and a time.
LEMMA ReadingsTyped ==
    ASSUME NEW token_info, NEW readings, ReadingsValid(readings)
    PROVE  /\ PythReading(token_info, readings.pyth) # <<>> =>
                 PythReading(token_info, readings.pyth)[1] \in OracleReading
           /\ SwitchboardReading(token_info, readings.switchboard) # <<>> =>
                 SwitchboardReading(token_info, readings.switchboard)[1] \in OracleReading
           /\ ScopeReading(token_info, readings.scope) # <<>> =>
                 ScopeReading(token_info, readings.scope)[1] \in OracleReading
<1>1. /\ readings.pyth \in Seq(OracleReading) /\ readings.switchboard \in Seq(OracleReading)
      /\ readings.scope \in Seq(OracleReading)
  BY DEF ReadingsValid
<1>2. \A told \in Seq(OracleReading) : told # <<>> => told[1] \in OracleReading
  OBVIOUS
<1>3. \A reading \in OracleReading, twap \in Seq(Twap) :
          [reading EXCEPT !.twap = twap] \in OracleReading
  BY DEF OracleReading
<1>4. \A reading \in OracleReading : reading.twap \in Seq(Twap)
  BY DEF OracleReading
<1>5. <<>> \in Seq(Twap)
  OBVIOUS
<1> DEFINE pyth == readings.pyth
           switchboard == readings.switchboard
           scope == readings.scope
<1> HIDE DEF pyth, switchboard, scope
<1>6. PythReading(token_info, pyth) # <<>> => PythReading(token_info, pyth)[1] \in OracleReading
  BY <1>1, <1>2, Zenon DEF PythReading, pyth
<1>7. SwitchboardReading(token_info, switchboard) # <<>> =>
          SwitchboardReading(token_info, switchboard)[1] \in OracleReading
  <2> DEFINE twap == IF IsTwapEnabled(token_info) THEN switchboard[1].twap ELSE <<>>
             reading == [switchboard[1] EXCEPT !.twap = twap]
  <2> SUFFICES ASSUME SwitchboardReading(token_info, switchboard) # <<>>
      PROVE  SwitchboardReading(token_info, switchboard)[1] \in OracleReading
    OBVIOUS
  <2>1. SwitchboardReading(token_info, switchboard) = <<reading>> /\ switchboard # <<>>
    BY Zenon DEF SwitchboardReading
  <2>2. switchboard[1] \in OracleReading
    BY <1>1, <1>2, <2>1, Zenon DEF switchboard
  <2>3. twap \in Seq(Twap)
    BY <1>4, <1>5, <2>2, Zenon
  <2>4. reading \in OracleReading
    BY <1>3, <2>2, <2>3, Zenon
  <2> HIDE DEF reading
  <2>5. <<reading>>[1] = reading
    OBVIOUS
  <2>6. QED
    BY <2>1, <2>4, <2>5, Zenon
<1>8. ScopeReading(token_info, scope) # <<>> => ScopeReading(token_info, scope)[1] \in OracleReading
  <2> DEFINE twap == IF token_info.scope.has_twap THEN scope[1].twap ELSE <<>>
             reading == [scope[1] EXCEPT !.twap = twap]
  <2> SUFFICES ASSUME ScopeReading(token_info, scope) # <<>>
      PROVE  ScopeReading(token_info, scope)[1] \in OracleReading
    OBVIOUS
  <2>1. ScopeReading(token_info, scope) = <<reading>> /\ scope # <<>>
    BY Zenon DEF ScopeReading
  <2>2. scope[1] \in OracleReading
    BY <1>1, <1>2, <2>1, Zenon DEF scope
  <2>3. twap \in Seq(Twap)
    BY <1>4, <1>5, <2>2, Zenon
  <2>4. reading \in OracleReading
    BY <1>3, <2>2, <2>3, Zenon
  <2> HIDE DEF reading
  <2>5. <<reading>>[1] = reading
    OBVIOUS
  <2>6. QED
    BY <2>1, <2>4, <2>5, Zenon
<1>9. QED
  BY <1>6, <1>7, <1>8, Zenon DEF pyth, switchboard, scope

\* What each source has to say is what its oracle said.
LEMMA ReadingsSaid ==
    ASSUME NEW token_info, NEW readings, ReadingsValid(readings),
           NEW source \in {"pyth", "switchboard", "scope"}, NEW told,
           \/ source = "pyth" /\ told = PythReading(token_info, readings.pyth)
           \/ source = "switchboard"
              /\ told = SwitchboardReading(token_info, readings.switchboard)
           \/ source = "scope" /\ told = ScopeReading(token_info, readings.scope),
           told # <<>>
    PROVE  [source |-> source, reading |-> told[1]] \in SaidCandidates(token_info, readings)
<1> DEFINE c == [source |-> source, reading |-> told[1]]
           said == readings[source]
<1>1. told[1] \in OracleReading
  <2>1. CASE source = "pyth" /\ told = PythReading(token_info, readings.pyth)
    BY <2>1, ReadingsTyped, Zenon
  <2>2. CASE source = "switchboard"
             /\ told = SwitchboardReading(token_info, readings.switchboard)
    BY <2>2, ReadingsTyped, Zenon
  <2>3. CASE source = "scope" /\ told = ScopeReading(token_info, readings.scope)
    BY <2>3, ReadingsTyped, Zenon
  <2>4. QED
    BY <2>1, <2>2, <2>3, Zenon
<1>2. c \in Candidate /\ c.source = source /\ c.reading = told[1]
  BY <1>1 DEF Candidate
<1>3. /\ readings.pyth \in Seq(OracleReading) /\ readings.switchboard \in Seq(OracleReading)
      /\ readings.scope \in Seq(OracleReading)
  BY DEF ReadingsValid
<1>4. \A r \in OracleReading : \A twap :
          /\ [r EXCEPT !.twap = twap].price = r.price
          /\ [r EXCEPT !.twap = twap].timestamp = r.timestamp
          /\ [r EXCEPT !.twap = twap].confidence = r.confidence
          /\ [r EXCEPT !.twap = twap].twap = twap
  BY DEF OracleReading
<1>5. \A x \in Seq(OracleReading) : x # <<>> => x[1] \in OracleReading
  OBVIOUS
<1>6. \A x : <<x>>[1] = x
  OBVIOUS
<1> HIDE DEF c
<1>7. CASE source = "pyth" /\ told = PythReading(token_info, readings.pyth)
  <2> DEFINE pyth == readings.pyth
  <2>1. /\ token_info.pyth.enabled /\ pyth # <<>> /\ PythConfident(pyth[1]) /\ told = pyth
    BY <1>7, Zenon DEF PythReading
  <2>2. said = pyth /\ token_info[source].enabled
    BY <1>7, <2>1
  <2>3. SaidBy(token_info, readings, c)
    BY <1>2, <1>7, <2>1, <2>2, Zenon DEF SaidBy
  <2>4. QED
    BY <1>2, <2>3, Zenon DEF SaidCandidates, c
<1>8. CASE source = "switchboard" /\ told = SwitchboardReading(token_info, readings.switchboard)
  <2> DEFINE switchboard == readings.switchboard
             twap == IF IsTwapEnabled(token_info) THEN switchboard[1].twap ELSE <<>>
             reading == [switchboard[1] EXCEPT !.twap = twap]
  <2>1. /\ token_info.switchboard.enabled /\ switchboard # <<>> /\ told = <<reading>>
    BY <1>8, Zenon DEF SwitchboardReading
  <2>2. said = switchboard /\ token_info[source].enabled /\ source # "pyth"
    BY <1>8, <2>1
  <2>3. switchboard[1] \in OracleReading
    BY <1>3, <1>5, <2>1, Zenon
  <2>4. /\ reading.price = switchboard[1].price /\ reading.timestamp = switchboard[1].timestamp
        /\ reading.confidence = switchboard[1].confidence /\ reading.twap = twap
    <3> HIDE DEF twap, switchboard
    <3>1. QED
      BY <1>4, <2>3, Zenon
  <2>5. twap # <<>> => twap = switchboard[1].twap
    BY Zenon
  <2> HIDE DEF twap, reading
  <2>6. told[1] = reading
    BY <1>6, <2>1, Zenon
  <2>7. SaidBy(token_info, readings, c)
    BY <1>2, <2>1, <2>2, <2>4, <2>5, <2>6, Zenon DEF SaidBy
  <2>8. QED
    BY <1>2, <2>7, Zenon DEF SaidCandidates, c
<1>9. CASE source = "scope" /\ told = ScopeReading(token_info, readings.scope)
  <2> DEFINE scope == readings.scope
             twap == IF token_info.scope.has_twap THEN scope[1].twap ELSE <<>>
             reading == [scope[1] EXCEPT !.twap = twap]
  <2>1. /\ token_info.scope.enabled /\ scope # <<>> /\ told = <<reading>>
    BY <1>9, Zenon DEF ScopeReading
  <2>2. said = scope /\ token_info[source].enabled /\ source # "pyth"
    BY <1>9, <2>1
  <2>3. scope[1] \in OracleReading
    BY <1>3, <1>5, <2>1, Zenon
  <2>4. /\ reading.price = scope[1].price /\ reading.timestamp = scope[1].timestamp
        /\ reading.confidence = scope[1].confidence /\ reading.twap = twap
    <3> HIDE DEF twap, scope
    <3>1. QED
      BY <1>4, <2>3, Zenon
  <2>5. twap # <<>> => twap = scope[1].twap
    BY Zenon
  <2> HIDE DEF twap, reading
  <2>6. told[1] = reading
    BY <1>6, <2>1, Zenon
  <2>7. SaidBy(token_info, readings, c)
    BY <1>2, <2>1, <2>2, <2>4, <2>5, <2>6, Zenon DEF SaidBy
  <2>8. QED
    BY <1>2, <2>7, Zenon DEF SaidCandidates, c
<1>10. QED
  BY <1>7, <1>8, <1>9, Zenon

\* There are at most three candidates, each of them what a source said.
LEMMA CandidatesSaid ==
    ASSUME NEW token_info, NEW readings, ReadingsValid(readings)
    PROVE  /\ Candidates(token_info, readings) \in Seq(SaidCandidates(token_info, readings))
           /\ Len(Candidates(token_info, readings)) <= 3
<1> DEFINE tagged(told, source) ==
               IF told = <<>> THEN <<>> ELSE <<[source |-> source, reading |-> told[1]]>>
           p == PythReading(token_info, readings.pyth)
           s == SwitchboardReading(token_info, readings.switchboard)
           c == ScopeReading(token_info, readings.scope)
           Said1 == SaidCandidates(token_info, readings)
<1>1. ASSUME NEW told, NEW source,
             told # <<>> => [source |-> source, reading |-> told[1]] \in Said1
      PROVE  tagged(told, source) \in Seq(Said1) /\ Len(tagged(told, source)) <= 1
  <2> HIDE DEF Said1
  <2>1. CASE told = <<>>
    BY <2>1
  <2>2. CASE told # <<>>
    <3> DEFINE cand == [source |-> source, reading |-> told[1]]
    <3>1. cand \in Said1
      BY <1>1, <2>2
    <3> HIDE DEF cand
    <3>2. <<cand>> \in Seq(Said1) /\ Len(<<cand>>) = 1
      BY <3>1
    <3>3. tagged(told, source) = <<cand>>
      BY <2>2, Zenon DEF cand
    <3>4. QED
      BY <3>2, <3>3
  <2>3. QED
    BY <2>1, <2>2
<1>2. /\ p # <<>> => [source |-> "pyth", reading |-> p[1]] \in Said1
      /\ s # <<>> => [source |-> "switchboard", reading |-> s[1]] \in Said1
      /\ c # <<>> => [source |-> "scope", reading |-> c[1]] \in Said1
  BY ReadingsSaid, Zenon
<1> DEFINE x == tagged(p, "pyth")
           y == tagged(s, "switchboard")
           z == tagged(c, "scope")
<1>3. Candidates(token_info, readings) = x \o y \o z
  BY Zenon DEF Candidates
<1> HIDE DEF p, s, c, tagged, Said1
<1>4. /\ x \in Seq(Said1) /\ Len(x) <= 1
      /\ y \in Seq(Said1) /\ Len(y) <= 1
      /\ z \in Seq(Said1) /\ Len(z) <= 1
  BY <1>1, <1>2
<1> HIDE DEF x, y, z
<1>5. x \o y \in Seq(Said1) /\ Len(x \o y) = Len(x) + Len(y)
  BY <1>4
<1>6. x \o y \o z \in Seq(Said1) /\ Len(x \o y \o z) = Len(x \o y) + Len(z)
  BY <1>4, <1>5
<1>7. QED
  BY <1>3, <1>4, <1>5, <1>6 DEF Said1

\* The choice is not made among none: the price used is one that a source said.
LEMMA ChosenSaid ==
    ASSUME NEW token_info, NEW readings, ReadingsValid(readings),
           ~NoPriceFeed(token_info, readings)
    PROVE  MostRecent(Candidates(token_info, readings)) \in SaidCandidates(token_info, readings)
<1> DEFINE candidates == Candidates(token_info, readings)
           n == Len(candidates)
           t == [i \in 1..n |-> candidates[i].reading.timestamp]
           latest(i) == \A j \in DOMAIN candidates :
                  /\ candidates[j].reading.timestamp <= candidates[i].reading.timestamp
                  /\ j < i => candidates[j].reading.timestamp < candidates[i].reading.timestamp
           c == CHOOSE i \in DOMAIN candidates : latest(i)
           Said1 == SaidCandidates(token_info, readings)
<1>1. candidates \in Seq(Said1) /\ n <= 3
  BY CandidatesSaid
<1>2. candidates # <<>>
  BY DEF NoPriceFeed
<1>3. \A x \in Said1 : x \in Candidate
  BY DEF SaidCandidates
<1> HIDE DEF candidates, Said1
<1>4. n \in 1..3 /\ DOMAIN candidates = 1..n
  <2>1. n \in Nat /\ DOMAIN candidates = 1..n
    BY <1>1
  <2>2. n # 0
    BY <1>1, <1>2
  <2>3. QED
    BY <1>1, <2>1, <2>2
<1>5. \A i \in 1..n : candidates[i] \in Said1
  BY <1>1
<1>6. \A i \in 1..n : candidates[i].reading \in OracleReading
  BY <1>3, <1>5 DEF Candidate
<1>7. \A i \in 1..n : t[i] = candidates[i].reading.timestamp /\ t[i] \in Nat
  BY <1>6 DEF OracleReading
<1>8. \E i \in 1..n : \A j \in 1..n : t[j] <= t[i] /\ (j < i => t[j] < t[i])
  <2> HIDE DEF n, t
  <2>1. QED
    BY <1>4, <1>7, LatestExists
<1>9. \E i \in DOMAIN candidates : latest(i)
  <2>1. PICK i \in 1..n : \A j \in 1..n : t[j] <= t[i] /\ (j < i => t[j] < t[i])
    BY <1>8
  <2> HIDE DEF t
  <2>2. latest(i)
    BY <1>4, <1>7, <2>1
  <2>3. QED
    BY <1>4, <2>2
<1>10. c \in DOMAIN candidates
  <2> HIDE DEF latest
  <2>1. QED
    BY <1>9, Zenon
<1>11. candidates[c] = MostRecent(candidates)
  BY DEF MostRecent
<1> HIDE DEF c
<1>12. QED
  BY <1>4, <1>5, <1>10, <1>11 DEF candidates, Said1

\* Whatever the oracles say, the price saved is one of theirs: a number, not the
\* undefined result of a choice among none.
THEOREM PriceDefined ==
    ASSUME NEW token_info, NEW readings, ReadingsValid(readings), NEW now,
           ~NoPriceFeed(token_info, readings), GetPrice(token_info, readings, now) # <<>>
    PROVE  /\ GetPrice(token_info, readings, now)[1].price \in Nat
           /\ GetPrice(token_info, readings, now)[1].timestamp \in Nat
<1> DEFINE chosen == MostRecent(Candidates(token_info, readings))
           price == [price |-> chosen.reading.price, timestamp |-> chosen.reading.timestamp,
                     status |-> PriceStatus(chosen.source, chosen.reading, token_info, now)]
<1>1. chosen \in Candidate
  BY ChosenSaid, Zenon DEF SaidCandidates
<1>2. GetPrice(token_info, readings, now) = <<price>>
  BY Zenon DEF GetPrice
<1> HIDE DEF chosen
<1>3. chosen.reading.price \in Nat /\ chosen.reading.timestamp \in Nat
  BY <1>1 DEF Candidate, OracleReading
<1>4. price.price \in Nat /\ price.timestamp \in Nat
  BY <1>3
<1> HIDE DEF price
<1>5. QED
  BY <1>2, <1>4

\* What a price that passes every check is worth: an enabled source has said it, of
\* age, within the bounds, and with a narrow interval if it has one at all; and the
\* average that came with it, when it is asked for, is of age and close.
SoundSource(token_info, readings, now, price, source) ==
    LET said == readings[source]
    IN  /\ token_info[source].enabled /\ said # <<>>
        /\ price.price = said[1].price /\ price.timestamp = said[1].timestamp
        /\ AgeChecked(said[1].timestamp, token_info.max_age_price_seconds, now)
        /\ HeuristicChecked(said[1].price, token_info.heuristic)
        /\ token_info.block_price_usage = 0
        /\ source # "scope" => said[1].confidence * CONFIDENCE_FACTOR <= said[1].price
        /\ IsTwapEnabled(token_info) =>
              /\ said[1].twap # <<>>
              /\ AgeChecked(said[1].twap[1].timestamp, token_info.max_age_twap_seconds, now)
              /\ WithinTolerance(said[1].price, said[1].twap[1].price,
                                 token_info.max_twap_divergence_bps)
              /\ source = "switchboard" => SwitchboardConfident(said[1].twap[1])

\* Whatever the oracles say, of whatever token: the checks made before the choice of
\* the source, those made after it and those made on loading leave no gap.
THEOREM CheckedPriceIsSound ==
    ASSUME NEW token_info, NEW readings, ReadingsValid(readings), NEW now,
           ~NoPriceFeed(token_info, readings), GetPrice(token_info, readings, now) # <<>>,
           ALL_CHECKS \subseteq GetPrice(token_info, readings, now)[1].status
    PROVE  \E source \in {"pyth", "switchboard", "scope"} :
              SoundSource(token_info, readings, now, GetPrice(token_info, readings, now)[1],
                          source)
<1> DEFINE chosen == MostRecent(Candidates(token_info, readings))
           source == chosen.source
           reading == chosen.reading
           said == readings[source]
           status == PriceStatus(source, reading, token_info, now)
           price == [price |-> reading.price, timestamp |-> reading.timestamp,
                     status |-> status]
<1>1. chosen \in Candidate /\ SaidBy(token_info, readings, chosen)
  BY ChosenSaid, Zenon DEF SaidCandidates
<1>2. GetPrice(token_info, readings, now) = <<price>> /\ Loads(source, reading)
  BY Zenon DEF GetPrice
<1> HIDE DEF chosen, status
<1>3. /\ price.timestamp = reading.timestamp /\ price.price = reading.price
      /\ price.status = status
  OBVIOUS
<1> HIDE DEF price
<1>4. GetPrice(token_info, readings, now)[1] = price
  BY <1>2
<1>5. /\ "PRICE_AGE_CHECKED" \in status /\ "HEURISTIC_CHECKED" \in status
      /\ "TWAP_CHECKED" \in status /\ "TWAP_AGE_CHECKED" \in status
      /\ "PRICE_USAGE_ALLOWED" \in status
  BY <1>3, <1>4 DEF ALL_CHECKS, Flags
<1>6. /\ source \in {"pyth", "switchboard", "scope"} /\ reading \in OracleReading
  BY <1>1 DEF Candidate
<1>7. /\ token_info[source].enabled /\ said # <<>>
      /\ reading.price = said[1].price /\ reading.timestamp = said[1].timestamp
      /\ reading.confidence = said[1].confidence
      /\ source = "pyth" => PythConfident(said[1])
      /\ reading.twap # <<>> => reading.twap = said[1].twap
  BY <1>1, Zenon DEF SaidBy
<1> HIDE DEF source, reading
<1>8. "PRICE_AGE_CHECKED" \in AgeStatus(reading, token_info, now)
  BY <1>5 DEF status, PriceStatus, TwapStatus, HeuristicStatus, UsageStatus
<1>9. "HEURISTIC_CHECKED" \in HeuristicStatus(reading, token_info)
  BY <1>5 DEF status, PriceStatus, AgeStatus, TwapStatus, UsageStatus
<1>10. "PRICE_USAGE_ALLOWED" \in UsageStatus(token_info)
  BY <1>5 DEF status, PriceStatus, AgeStatus, TwapStatus, HeuristicStatus
<1>11. /\ "TWAP_CHECKED" \in TwapStatus(source, reading, token_info, now)
       /\ "TWAP_AGE_CHECKED" \in TwapStatus(source, reading, token_info, now)
  BY <1>5 DEF status, PriceStatus, AgeStatus, HeuristicStatus, UsageStatus
<1>12. AgeChecked(reading.timestamp, token_info.max_age_price_seconds, now)
  BY <1>8, Zenon DEF AgeStatus
<1>13. HeuristicChecked(reading.price, token_info.heuristic)
  BY <1>9, Zenon DEF HeuristicStatus
<1>14. token_info.block_price_usage = 0
  BY <1>10, Zenon DEF UsageStatus
<1>15. ASSUME IsTwapEnabled(token_info)
       PROVE  /\ reading.twap # <<>>
              /\ AgeChecked(reading.twap[1].timestamp, token_info.max_age_twap_seconds, now)
              /\ WithinTolerance(reading.price, reading.twap[1].price,
                                 token_info.max_twap_divergence_bps)
              /\ Loads(source, reading.twap[1])
  <2> DEFINE aged == AgeChecked(reading.twap[1].timestamp, token_info.max_age_twap_seconds, now)
             close == /\ Loads(source, reading.twap[1])
                      /\ WithinTolerance(reading.price, reading.twap[1].price,
                                         token_info.max_twap_divergence_bps)
  <2>1. TwapStatus(source, reading, token_info, now) =
            IF reading.twap = <<>> THEN {}
            ELSE (IF aged THEN {"TWAP_AGE_CHECKED"} ELSE {})
                    \cup (IF close THEN {"TWAP_CHECKED"} ELSE {})
    BY <1>15, Zenon DEF TwapStatus
  <2> HIDE DEF aged, close
  <2>2. reading.twap # <<>> /\ aged /\ close
    BY <1>11, <2>1
  <2>3. QED
    BY <2>2, Zenon DEF aged, close
<1>16. ASSUME source # "scope"
       PROVE  said[1].confidence * CONFIDENCE_FACTOR <= said[1].price
  <2>1. CASE source = "pyth"
    BY <1>7, <2>1, Zenon DEF PythConfident
  <2>2. CASE source = "switchboard"
    <3>1. reading.confidence * CONFIDENCE_FACTOR < reading.price
      BY <1>2, <2>2, Zenon DEF Loads, SwitchboardConfident
    <3>2. reading.confidence \in Nat /\ reading.price \in Nat
      BY <1>6 DEF OracleReading
    <3>3. reading.confidence * CONFIDENCE_FACTOR <= reading.price
      BY <3>1, <3>2 DEF CONFIDENCE_FACTOR
    <3>4. QED
      BY <1>7, <3>3, Zenon
  <2>3. QED
    BY <1>6, <1>16, <2>1, <2>2
<1>17. IsTwapEnabled(token_info) =>
              /\ said[1].twap # <<>>
              /\ AgeChecked(said[1].twap[1].timestamp, token_info.max_age_twap_seconds, now)
              /\ WithinTolerance(said[1].price, said[1].twap[1].price,
                                 token_info.max_twap_divergence_bps)
              /\ source = "switchboard" => SwitchboardConfident(said[1].twap[1])
  BY <1>7, <1>15, Zenon DEF Loads
<1>18. SoundSource(token_info, readings, now, price, source)
  BY <1>3, <1>7, <1>12, <1>13, <1>14, <1>16, <1>17, Zenon DEF SoundSource
<1>19. QED
  BY <1>4, <1>6, <1>18, Zenon

\* The readings that the run judges, and the token they are judged for.
LEMMA JudgedReadings ==
    ASSUME NEW said \in Said
    PROVE  /\ said \in Seq(OracleReading)
           /\ said # <<>> => /\ said[1].price = 100
                             /\ said[1].confidence \in Nat
                             /\ said[1].timestamp \in Nat
                             /\ said[1].twap # <<>> => /\ said[1].twap[1].price \in {60, 100}
                                                       /\ said[1].twap[1].timestamp \in Nat
<1>1. ASSUME NEW w \in Twaps
      PROVE  /\ w \in Seq(Twap) /\ w[1].price \in {60, 100} /\ w[1].timestamp \in Nat
  <2>1. PICK p \in {60, 100}, t \in {0, 2} :
            w = <<[price |-> p, timestamp |-> t, confidence |-> 0, twap |-> <<>>]>>
    BY DEF Twaps
  <2> DEFINE v == [price |-> p, timestamp |-> t, confidence |-> 0, twap |-> <<>>]
  <2>2. v \in Twap /\ v.price = p /\ v.timestamp = t
    BY DEF Twap
  <2> HIDE DEF v
  <2>3. <<v>> \in Seq(Twap) /\ <<v>>[1] = v
    BY <2>2
  <2>4. w = <<v>>
    BY <2>1, Zenon DEF v
  <2>5. QED
    BY <2>2, <2>3, <2>4
<1>2. CASE said = <<>>
  BY <1>2
<1>3. CASE said # <<>>
  <2>1. PICK t \in 0..1, c \in {2, 3}, w \in Twaps \cup {<<>>} :
            said = <<[price |-> 100, timestamp |-> t, confidence |-> c, twap |-> w]>>
    BY <1>3 DEF Said
  <2> DEFINE v == [price |-> 100, timestamp |-> t, confidence |-> c, twap |-> w]
  <2>2. w \in Seq(Twap) /\ (w # <<>> => w[1].price \in {60, 100} /\ w[1].timestamp \in Nat)
    <3>1. <<>> \in Seq(Twap)
      OBVIOUS
    <3>2. QED
      BY <1>1, <3>1
  <2>3. t \in Nat /\ c \in Nat
    OBVIOUS
  <2>4. v \in OracleReading /\ v.price = 100 /\ v.timestamp = t /\ v.confidence = c /\ v.twap = w
    BY <2>2, <2>3 DEF OracleReading
  <2> HIDE DEF v
  <2>5. <<v>> \in Seq(OracleReading) /\ <<v>>[1] = v
    BY <2>4
  <2>6. said = <<v>>
    BY <2>1, Zenon DEF v
  <2>7. QED
    BY <2>2, <2>3, <2>4, <2>5, <2>6
<1>4. QED
  BY <1>2, <1>3

\* The readings that the run enumerates are among those the theorem is about.
THEOREM UsablePricesAreSound == Spec => []UsablePriceIsSound
<1> DEFINE sound(readings, price, source, now) ==
               LET said == readings[source] IN
                /\ said # <<>> /\ price[1].timestamp = said[1].timestamp
                /\ now - said[1].timestamp <= 1
                /\ source # "scope" => 50 * said[1].confidence <= said[1].price
                /\ said[1].twap # <<>>
                /\ said[1].twap[1].price = 100 /\ now - said[1].twap[1].timestamp <= 1
<1>1. ASSUME NEW p \in Said, NEW sw \in Said, NEW sc \in Said, NEW now \in 0..2
      PROVE  LET readings == [pyth |-> p, switchboard |-> sw, scope |-> sc]
                 price == GetPrice(JudgedTokenInfo, readings, now)
             IN  ~NoPriceFeed(JudgedTokenInfo, readings) =>
                    (price # <<>> /\ price[1].status = ALL_CHECKS =>
                        \E source \in DOMAIN readings : sound(readings, price, source, now))
  <2> DEFINE readings == [pyth |-> p, switchboard |-> sw, scope |-> sc]
             price == GetPrice(JudgedTokenInfo, readings, now)
  <2> HIDE DEF sound
  <2> SUFFICES ASSUME ~NoPriceFeed(JudgedTokenInfo, readings), price # <<>>,
                      price[1].status = ALL_CHECKS
               PROVE  \E source \in DOMAIN readings : sound(readings, price, source, now)
    BY Zenon
  <2>1. /\ p \in Seq(OracleReading) /\ sw \in Seq(OracleReading) /\ sc \in Seq(OracleReading)
    BY JudgedReadings, Zenon
  <2>2. /\ DOMAIN readings = {"pyth", "switchboard", "scope"}
        /\ readings = [source \in {"pyth", "switchboard", "scope"} |-> readings[source]]
        /\ \A source \in {"pyth", "switchboard", "scope"} : readings[source] \in {p, sw, sc}
    OBVIOUS
  <2>3. ReadingsValid(readings)
    <3> HIDE DEF readings
    <3>1. QED
      BY <2>1, <2>2 DEF ReadingsValid
  <2> HIDE DEF readings
  <2>4. PICK source \in {"pyth", "switchboard", "scope"} :
            SoundSource(JudgedTokenInfo, readings, now, price[1], source)
    BY <2>3, CheckedPriceIsSound, Zenon
  <2> DEFINE said == readings[source]
  <2>5. /\ said # <<>> /\ price[1].timestamp = said[1].timestamp
        /\ AgeChecked(said[1].timestamp, JudgedTokenInfo.max_age_price_seconds, now)
        /\ source # "scope" => said[1].confidence * CONFIDENCE_FACTOR <= said[1].price
        /\ IsTwapEnabled(JudgedTokenInfo) =>
              /\ said[1].twap # <<>>
              /\ AgeChecked(said[1].twap[1].timestamp, JudgedTokenInfo.max_age_twap_seconds, now)
              /\ WithinTolerance(said[1].price, said[1].twap[1].price,
                                 JudgedTokenInfo.max_twap_divergence_bps)
    BY <2>4, Zenon DEF SoundSource
  <2>6. /\ JudgedTokenInfo.max_age_price_seconds = 1 /\ JudgedTokenInfo.max_age_twap_seconds = 1
        /\ JudgedTokenInfo.max_twap_divergence_bps = 2500 /\ IsTwapEnabled(JudgedTokenInfo)
    BY DEF JudgedTokenInfo, IsTwapEnabled
  <2>7. said \in Said
    BY <2>2
  <2> HIDE DEF said
  <2>8. /\ said[1].price = 100 /\ said[1].confidence \in Nat
        /\ said[1].twap[1].price \in {60, 100}
    BY <2>5, <2>6, <2>7, JudgedReadings
  <2>9. /\ now - said[1].timestamp <= 1 /\ now - said[1].twap[1].timestamp <= 1
    BY <2>5, <2>6 DEF AgeChecked
  <2>10. source # "scope" => 50 * said[1].confidence <= said[1].price
    BY <2>5, <2>8 DEF CONFIDENCE_FACTOR
  <2>11. said[1].twap[1].price = 100
    <3> DEFINE twap == said[1].twap[1].price
    <3>1. WithinTolerance(100, twap, 2500)
      BY <2>5, <2>6, <2>8
    <3>2. twap \in {60, 100}
      BY <2>8
    <3> HIDE DEF twap
    <3>3. twap = 100
      BY <3>1, <3>2 DEF WithinTolerance, FULL_BPS
    <3>4. QED
      BY <3>3 DEF twap
  <2>12. /\ said # <<>> /\ price[1].timestamp = said[1].timestamp /\ said[1].twap # <<>>
    BY <2>5, <2>6
  <2>13. sound(readings, price, source, now)
    BY <2>9, <2>10, <2>11, <2>12, Zenon DEF sound, said
  <2>14. QED
    BY <2>2, <2>13
<1>2. UsablePriceIsSound
  BY <1>1, Zenon DEF UsablePriceIsSound
<1>3. QED
  BY <1>2, PTL

-----------------------------------------------------------------------------
(* The price of a reserve *)

\* A price with every flag is of age and within its bounds.
LEMMA PriceIsChecked ==
    ASSUME NEW token_info, NEW readings, NEW now,
           GetPrice(token_info, readings, now) # <<>>,
           ALL_CHECKS \subseteq GetPrice(token_info, readings, now)[1].status
    PROVE  /\ now - GetPrice(token_info, readings, now)[1].timestamp
                  <= token_info.max_age_price_seconds
           /\ HeuristicChecked(GetPrice(token_info, readings, now)[1].price, token_info.heuristic)
<1> DEFINE chosen == MostRecent(Candidates(token_info, readings))
           status == PriceStatus(chosen.source, chosen.reading, token_info, now)
           price == [price |-> chosen.reading.price, timestamp |-> chosen.reading.timestamp,
                     status |-> status]
<1>1. GetPrice(token_info, readings, now) = <<price>>
  BY Zenon DEF GetPrice
<1>2. /\ price.timestamp = chosen.reading.timestamp /\ price.price = chosen.reading.price
      /\ price.status = status
  OBVIOUS
<1> HIDE DEF price
<1>3. GetPrice(token_info, readings, now)[1] = price
  BY <1>1
<1>4. "PRICE_AGE_CHECKED" \in status /\ "HEURISTIC_CHECKED" \in status
  BY <1>2, <1>3 DEF ALL_CHECKS, Flags
<1> HIDE DEF chosen, status
<1>5. "PRICE_AGE_CHECKED" \in AgeStatus(chosen.reading, token_info, now)
  BY <1>4 DEF status, PriceStatus, TwapStatus, HeuristicStatus, UsageStatus
<1>6. "HEURISTIC_CHECKED" \in HeuristicStatus(chosen.reading, token_info)
  BY <1>4 DEF status, PriceStatus, AgeStatus, TwapStatus, UsageStatus
<1>7. AgeChecked(chosen.reading.timestamp, token_info.max_age_price_seconds, now)
  BY <1>5, Zenon DEF AgeStatus
<1>8. HeuristicChecked(chosen.reading.price, token_info.heuristic)
  BY <1>6, Zenon DEF HeuristicStatus
<1>9. QED
  BY <1>2, <1>3, <1>7, <1>8, Zenon DEF AgeChecked

\* A reserve was refreshed no later than now.
Refreshed(r) ==
    /\ last_update[r].slot \in Nat /\ last_update[r].slot <= slot
    /\ {"slot", "stale", "price_status"} \subseteq DOMAIN last_update[r]
PricesInv ==
    /\ slot \in Nat
    /\ DOMAIN last_update = Reserves
    /\ DOMAIN market_price_sf = Reserves /\ DOMAIN market_price_last_updated_ts = Reserves
    /\ \A r \in Reserves : Refreshed(r)

LEMMA PricesInit ==
    ASSUME Init
    PROVE  PricesInv
<1>1. /\ slot = 0
      /\ last_update = [r \in Reserves |-> [slot |-> 0, stale |-> TRUE, price_status |-> {}]]
      /\ market_price_sf = [r \in Reserves |-> 0]
      /\ market_price_last_updated_ts = [r \in Reserves |-> 0]
  BY Zenon DEF Init, InitReserves, InitLiquidity
<1>2. ASSUME NEW r \in Reserves PROVE Refreshed(r)
  <2>1. last_update[r] = [slot |-> 0, stale |-> TRUE, price_status |-> {}]
    BY <1>1
  <2>2. QED
    BY <1>1, <2>1 DEF Refreshed
<1>3. QED
  BY <1>1, <1>2 DEF PricesInv

\* An instruction that marks the reserve stale, or leaves it, keeps its price.
LEMMA PricesKept ==
    ASSUME PricesInv, slot' = slot, UNCHANGED prices, NEW r \in Reserves,
           MarkStale(r) \/ UNCHANGED last_update
    PROVE  /\ PricesInv'
           /\ \A p \in Reserves : last_update'[p].price_status = last_update[p].price_status
<1>1. /\ DOMAIN last_update' = Reserves
      /\ \A p \in Reserves : /\ last_update'[p].slot = last_update[p].slot
                             /\ last_update'[p].price_status = last_update[p].price_status
                             /\ DOMAIN last_update'[p] = DOMAIN last_update[p]
  <2>1. DOMAIN last_update = Reserves
    BY Zenon DEF PricesInv
  <2>2. CASE UNCHANGED last_update
    BY <2>1, <2>2
  <2>3. CASE MarkStale(r)
    <3>1. /\ DOMAIN last_update' = Reserves
          /\ last_update'[r] = [last_update[r] EXCEPT !.stale = TRUE]
          /\ \A p \in Reserves : p # r => last_update'[p] = last_update[p]
      BY <2>1, <2>3 DEF MarkStale
    <3>2. {"slot", "stale", "price_status"} \subseteq DOMAIN last_update[r]
      BY Zenon DEF PricesInv, Refreshed
    <3>3. /\ last_update'[r].slot = last_update[r].slot
          /\ last_update'[r].price_status = last_update[r].price_status
          /\ DOMAIN last_update'[r] = DOMAIN last_update[r]
      BY <3>1, <3>2
    <3>4. QED
      BY <3>1, <3>3
  <2>4. QED
    BY <2>2, <2>3
<1>2. /\ market_price_sf' = market_price_sf
      /\ market_price_last_updated_ts' = market_price_last_updated_ts
  BY Zenon DEF prices
<1>3. ASSUME NEW p \in Reserves PROVE Refreshed(p)'
  <2>1. Refreshed(p)
    BY Zenon DEF PricesInv
  <2>2. QED
    BY <1>1, <2>1 DEF Refreshed
<1>4. PricesInv'
  BY <1>1, <1>2, <1>3, Zenon DEF PricesInv
<1>5. QED
  BY <1>1, <1>4

\* What UsablePriceWasChecked says of one reserve.
PriceStands(r) ==
    ALL_CHECKS \subseteq last_update'[r].price_status =>
        \/ /\ slot - market_price_last_updated_ts'[r] <= Config[r].token_info.max_age_price_seconds
           /\ HeuristicChecked(market_price_sf'[r], Config[r].token_info.heuristic)
        \/ /\ ALL_CHECKS \subseteq last_update[r].price_status
           /\ market_price_sf'[r] = market_price_sf[r]
           /\ market_price_last_updated_ts'[r] = market_price_last_updated_ts[r]

\* A refresh takes the price and its status together, or keeps both.
LEMMA PricesRefreshed ==
    ASSUME PricesInv, NEW r \in Reserves, NEW readings, RefreshReserve(r, readings)
    PROVE  PricesInv' /\ \A p \in Reserves : PriceStands(p)
<1> DEFINE token_info == Config[r].token_info
           price == GetPrice(token_info, readings, slot)
           status == StatusAfter(r, price)
<1>1. last_update' = [last_update EXCEPT
          ![r] = [slot |-> slot, stale |-> FALSE, price_status |-> status]]
  BY Zenon DEF RefreshReserve
<1>2. /\ slot' = slot
      /\ IF price # <<>>
         THEN /\ market_price_sf' = [market_price_sf EXCEPT ![r] = price[1].price]
              /\ market_price_last_updated_ts' =
                    [market_price_last_updated_ts EXCEPT ![r] = price[1].timestamp]
         ELSE UNCHANGED prices
  BY Zenon DEF RefreshReserve
<1>3. /\ slot \in Nat /\ DOMAIN last_update = Reserves /\ DOMAIN market_price_sf = Reserves
      /\ DOMAIN market_price_last_updated_ts = Reserves /\ \A p \in Reserves : Refreshed(p)
  BY Zenon DEF PricesInv
<1>4. status = IF price # <<>> THEN price[1].status ELSE last_update[r].price_status
  BY Zenon DEF StatusAfter
<1> HIDE DEF price, status
<1>5. /\ DOMAIN last_update' = Reserves /\ DOMAIN market_price_sf' = Reserves
      /\ DOMAIN market_price_last_updated_ts' = Reserves
      /\ \A p \in Reserves : p # r =>
            /\ last_update'[p] = last_update[p]
            /\ market_price_sf'[p] = market_price_sf[p]
            /\ market_price_last_updated_ts'[p] = market_price_last_updated_ts[p]
  BY <1>1, <1>2, <1>3 DEF prices
<1>6. last_update'[r] = [slot |-> slot, stale |-> FALSE, price_status |-> status]
  BY <1>1, <1>3
<1>7. ASSUME NEW p \in Reserves PROVE Refreshed(p)'
  <2>1. CASE p = r
    BY <1>2, <1>3, <1>6, <2>1 DEF Refreshed
  <2>2. CASE p # r
    BY <1>2, <1>3, <1>5, <2>2 DEF Refreshed
  <2>3. QED
    BY <2>1, <2>2
<1>8. PriceStands(r)
  <2>1. last_update'[r].price_status = status
    BY <1>6
  <2>2. CASE price # <<>>
    <3>1. /\ status = price[1].status
          /\ market_price_sf'[r] = price[1].price
          /\ market_price_last_updated_ts'[r] = price[1].timestamp
      BY <1>2, <1>3, <1>4, <2>2
    <3>2. ALL_CHECKS \subseteq status =>
              /\ slot - market_price_last_updated_ts'[r] <= token_info.max_age_price_seconds
              /\ HeuristicChecked(market_price_sf'[r], token_info.heuristic)
      BY <2>2, <3>1, PriceIsChecked, Zenon DEF price
    <3>3. QED
      BY <2>1, <3>2, Zenon DEF PriceStands
  <2>3. CASE price = <<>>
    <3>1. /\ market_price_sf' = market_price_sf
          /\ market_price_last_updated_ts' = market_price_last_updated_ts
      BY <1>2, <2>3 DEF prices
    <3>2. QED
      BY <1>4, <2>1, <2>3, <3>1, Zenon DEF PriceStands
  <2>4. QED
    BY <2>2, <2>3
<1>9. ASSUME NEW p \in Reserves, p # r PROVE PriceStands(p)
  BY <1>5, <1>9, Zenon DEF PriceStands
<1>10. PricesInv'
  BY <1>2, <1>3, <1>5, <1>7, Zenon DEF PricesInv
<1>11. QED
  BY <1>8, <1>9, <1>10, Zenon

\* A step that leaves the prices and the statuses alone.
LEMMA PricesStand ==
    ASSUME UNCHANGED prices,
           \A p \in Reserves : last_update'[p].price_status = last_update[p].price_status
    PROVE  \A p \in Reserves : PriceStands(p)
<1>1. /\ market_price_sf' = market_price_sf
      /\ market_price_last_updated_ts' = market_price_last_updated_ts
  BY Zenon DEF prices
<1>2. QED
  BY <1>1, Zenon DEF PriceStands

LEMMA PricesNext ==
    ASSUME PricesInv, [Next]_vars
    PROVE  PricesInv' /\ \A p \in Reserves : PriceStands(p)
<1> DEFINE Goal == PricesInv' /\ \A p \in Reserves : PriceStands(p)
<1>1. ASSUME NEW r \in Reserves, NEW readings \in Readings, RefreshReserve(r, readings)
      PROVE  Goal
  BY <1>1, PricesRefreshed
<1>2. ASSUME NEW r \in Reserves, RedeemFees(r) \/ AccumulateReferrerFees(r) \/ WithdrawReferrerFees(r)
      PROVE  Goal
  <2>1. slot' = slot /\ UNCHANGED prices /\ (MarkStale(r) \/ UNCHANGED last_update)
    BY <1>2, Zenon DEF RedeemFees, AccumulateReferrerFees, WithdrawReferrerFees
  <2>2. QED
    BY <2>1, PricesKept, PricesStand
<1>3. ASSUME NEW r \in Reserves, NEW o \in Obligations,
             \/ \E a \in DepositAmounts : DepositReserveLiquidityAndObligationCollateral(o, r, a)
             \/ \E a \in RedeemAmounts : WithdrawObligationCollateralAndRedeemReserveCollateral(o, r, a)
             \/ \E a \in BorrowAmounts, v \in MaxDebtValues : BorrowObligationLiquidity(o, r, a, v)
             \/ \E a \in RepayAmounts : RepayObligationLiquidity(o, r, a)
             \/ ForgiveDebt(o, r)
      PROVE  Goal
  <2>1. slot' = slot /\ UNCHANGED prices /\ MarkStale(r)
    BY <1>3, Zenon DEF DepositReserveLiquidityAndObligationCollateral,
         WithdrawObligationCollateralAndRedeemReserveCollateral, BorrowObligationLiquidity,
         RepayObligationLiquidity, ForgiveDebt
  <2>2. QED
    BY <2>1, PricesKept, PricesStand
<1>4. CASE Tick
  <2>1. /\ slot' = slot + 1 /\ last_update' = last_update
        /\ market_price_sf' = market_price_sf
        /\ market_price_last_updated_ts' = market_price_last_updated_ts
    BY <1>4, Zenon DEF Tick, prices
  <2>2. \A p \in Reserves : Refreshed(p)'
    BY <2>1 DEF PricesInv, Refreshed
  <2>3. PricesInv'
    BY <2>1, <2>2 DEF PricesInv
  <2>4. UNCHANGED prices
    BY <2>1 DEF prices
  <2>5. QED
    BY <2>1, <2>3, <2>4, PricesStand
<1>5. CASE UNCHANGED vars
  <2>1. /\ slot' = slot /\ last_update' = last_update
        /\ market_price_sf' = market_price_sf
        /\ market_price_last_updated_ts' = market_price_last_updated_ts
    BY <1>5, Zenon DEF vars, prices
  <2>2. \A p \in Reserves : Refreshed(p)'
    BY <2>1 DEF PricesInv, Refreshed
  <2>3. PricesInv'
    BY <2>1, <2>2 DEF PricesInv
  <2>4. UNCHANGED prices
    BY <2>1 DEF prices
  <2>5. QED
    BY <2>1, <2>3, <2>4, PricesStand
<1>6. QED
  BY <1>1, <1>2, <1>3, <1>4, <1>5, Zenon DEF Next

\* Whatever the oracles say and when, in any order of refreshes and other
\* instructions: a status that passes every price check was set together with the price
\* the reserve has saved, when that was at most max_age seconds old and within the
\* heuristic bounds.  No instruction changes the one without the other.
THEOREM UsablePricesWereChecked == Spec => UsablePriceWasChecked
<1>1. PricesInv /\ [Next]_vars =>
          [\A r \in Reserves : ALL_CHECKS \subseteq last_update'[r].price_status =>
              LET token_info == Config[r].token_info
              IN  \/ /\ slot - market_price_last_updated_ts'[r] <= token_info.max_age_price_seconds
                     /\ HeuristicChecked(market_price_sf'[r], token_info.heuristic)
                  \/ /\ ALL_CHECKS \subseteq last_update[r].price_status
                     /\ market_price_sf'[r] = market_price_sf[r]
                     /\ market_price_last_updated_ts'[r] = market_price_last_updated_ts[r]]_vars
  BY PricesNext, Zenon DEF PriceStands
<1>2. Init => PricesInv
  BY PricesInit
<1>3. PricesInv /\ [Next]_vars => PricesInv'
  BY PricesNext
<1>4. QED
  BY <1>1, <1>2, <1>3, PTL DEF Spec, UsablePriceWasChecked
=============================================================================
