----------------------------- MODULE SaturnArith -----------------------------
(***************************************************************************)
(* The arithmetic of the bond market: what apply_bond.rs computes from the *)
(* treasury's totals, the oracle price and the caller's spot price.        *)
(*                                                                         *)
(* The program's counters are u64.  The release profile of the workspace   *)
(* does not turn overflow checks on, so +, - and * wrap modulo 2^64; U64   *)
(* is that modulus, a parameter so that TLC can use a small one.  Amounts  *)
(* the code keeps in an f64 (treasury_value) are integers here: an f64     *)
(* holds every integer up to 2^53 exactly, and the only f64 operations are *)
(* sums of integers, one division and its truncation.                      *)
(***************************************************************************)
EXTENDS Integers

CONSTANT U64            \* one more than the largest u64

ASSUME U64Assumption == U64 \in Nat /\ U64 > 1 /\ U64 % 2 = 0

\* A u64 result: the mathematical one modulo 2^64.
Wrap(x) == x % U64

\* "x as i64", and the result of an i64 operation.
ToI64(x) == IF Wrap(x) < U64 \div 2 THEN Wrap(x) ELSE Wrap(x) - U64

\* "f as u64" of a float: saturates at both ends.
Saturate(f) == IF f < 0 THEN 0 ELSE IF f < U64 THEN f ELSE U64 - 1

\* (treasury_value / token_minted as f64) as u64.  Over zero a positive value is
\* infinite, which saturates; zero and negative values become NaN and -inf: 0.
BackingPrice(value, minted) ==
    IF minted > 0 THEN Saturate(value \div minted)
    ELSE IF value > 0 THEN U64 - 1 ELSE 0

\* By how many percent the spot price the caller names exceeds the backing
\* price.  A spot price below the backing price wraps to a huge premium.
Premium(spot, backing) == Wrap(Wrap(spot - backing) * 100) \div backing

\* The share of the premium, in percent, that a bond buyer pays.
Deduction(diff) == CASE diff < 25                -> 20
                     [] diff >= 25 /\ diff < 50  -> 35
                     [] diff >= 50 /\ diff < 100 -> 50
                     [] diff >= 100              -> 70

\* What the buyer pays above the backing price, and the price of a bond.
Markup(spot, backing) ==
    Wrap(Wrap(spot - backing) * Deduction(Premium(spot, backing))) \div 100
BondPrice(spot, backing) == Wrap(backing + Markup(spot, backing))

\* Mutant: the first division, by the backing price, is forgotten.
NumTokenToMint_AtPar(spot, backing, total_price) ==
    LET bond_price == BondPrice(spot, backing)
    IN  Wrap(Wrap(bond_price - backing) * Wrap(total_price)) \div bond_price

\* The STF credited to the stakers, and the STF owed to the buyer, for a
\* payment worth total_price.
NumTokenToMint(spot, backing, total_price) ==
    LET bond_price == BondPrice(spot, backing)
    IN  (Wrap(Wrap(bond_price - backing) * Wrap(total_price)) \div backing) \div bond_price

NumTokenToRedeem(spot, backing, total_price) ==
    (Wrap(backing * Wrap(total_price)) \div backing) \div BondPrice(spot, backing)
=============================================================================
