--------------------------- MODULE MCSaturnBonding ---------------------------
(***************************************************************************)
(* The values the TLC runs give to the constants of SaturnBonding.         *)
(***************************************************************************)
EXTENDS SaturnBondingProperties

CONSTANTS usdc, bonk, stf, other

MCMints == {usdc, bonk}
MCMintUnit == [m \in MCMints |-> IF m = usdc THEN 2 ELSE 3]
OneMint == {usdc}
OneMintUnit == [m \in OneMint |-> 1]
\* Beside the payment mint one with two decimals, which unstake_stf can pay in.
PaidAndOther == {usdc, other}
OnlyOther == {other}
NoToken == {}
MCU64 == 2^15
=============================================================================
