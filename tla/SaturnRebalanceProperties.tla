---------------------- MODULE SaturnRebalanceProperties ----------------------
(***************************************************************************)
(* What the rebalance cycle must guarantee, and what it does instead.      *)
(***************************************************************************)
EXTENDS SaturnRebalance

\* A reserve of the obligation from which everything was withdrawn.
SomeDepositEmptied == \E m \in Mints : deposits[DepositKey(m)] = 0

HeldInKamino == SumOf([m \in Mints |-> Liquidity(m, deposits[m])], Mints)

\* The numerators of the percentages of type t.
ShareOfType(t) ==
    LET S(id) == IF PlatformType[id] = t THEN allocation[id].share ELSE 0
    IN  S(1) + S(2) + S(3) + S(4) + S(5) + S(6) + S(7)

-----------------------------------------------------------------------------
(* Invariants *)

\* The flags record one order: nothing counts as withdrawn before this cycle's
\* allocation, and no allocation counts before this cycle's balance, also when
\* calcu_balance is sent in the middle of a cycle.
CycleOrder ==
    /\ flag.kamino \/ flag.marginfi => flag.reallocate
    /\ flag.reallocate => flag.calcu_balance

\* Between two calcu_balance a venue is withdrawn from at most once, and its flag says
\* whether it was: the recorded amount, which klend_withdraw and marginfi_withdraw do
\* not reset, leaves the venue once per cycle.
OncePerCycle ==
    /\ withdrawals["kamino"] = IF flag.kamino THEN 1 ELSE 0
    /\ withdrawals["marginfi"] = IF flag.marginfi THEN 1 ELSE 0

\* reallocate hands out the whole percentage of each type of platform, or none of it
\* where nothing of the type is rated: the ratings are weighed within one type.
FullyAllocated ==
    \A p \in Platforms :
        ShareOfType(PlatformType[p])
            \in {0, PLATFORM_ALLOCATION[PlatformType[p]] * allocation[p].of}

\* The gate of klend_lend, marginfi_lend and both Meteora instructions never opens:
\* what a cycle withdraws stays in the treasury's own accounts.
LendGateShut == ~LendGate

\* Expected by the test "klend_lend (workflow2)", which follows the withdrawals: once
\* both venues are withdrawn from, lending may start.
LendsAfterWithdrawals == CycleReady /\ flag.kamino /\ flag.marginfi => LendGate

-----------------------------------------------------------------------------
(* Action and temporal properties *)

\* Once klend_withdraw has taken all of a reserve that get_value_in_kamino looks up,
\* no later valuation succeeds: the value recorded for Kamino stays what it was before
\* the withdrawal, for every calcu_balance to come.
EmptiedFreezesValue ==
    [][SomeDepositEmptied =>
          SomeDepositEmptied' /\ lend_value'["kamino"] = lend_value["kamino"]]_vars

\* values[1] is the value of the USDC position, as the comment beside it says; so what
\* get_value_in_kamino records is what the reserves hold.
KaminoValueIsHeld ==
    [][GetValueInKamino => lend_value'["kamino"] = HeldInKamino]_vars

\* Expected by the test "calculate balance by admin": the administrator can have the
\* balance taken.
BalanceIsTaken == <>flag.calcu_balance
=============================================================================
