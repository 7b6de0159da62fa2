-------------------------- MODULE MCSaturnRebalance --------------------------
(***************************************************************************)
(* The values the TLC runs give to the constants of SaturnRebalance.       *)
(***************************************************************************)
EXTENDS SaturnRebalanceProperties

MCMints == {sol, usdc, usdt, wbtc}

\* A withdrawal of what is recorded, sol's two, empties sol's deposit and leaves one
\* of usdc's.
MCDeposits == [m \in MCMints |-> IF m = sol THEN 2 ELSE IF m = usdc THEN 3 ELSE 1]
MCShares == [m \in MCMints |-> IF m = usdt THEN 3 ELSE 1]
MCWallet == [m \in MCMints |-> IF m = usdc THEN 3 ELSE 0]
MCUnit == [m \in MCMints |-> 2]
MCExchangeRate == [m \in MCMints |-> IF m = sol THEN 3 ELSE 2]
MCShareValue == [m \in MCMints |-> IF m = usdt THEN 3 ELSE 2]

\* Exponents that calcu_balance can convert, and those Pyth publishes.
MCExponent == [m \in MCMints |-> 0]
PythExponent == [m \in MCMints |-> -8]

\* All platforms rated; marginfi and the whole of type 4 unrated; every rating the
\* same.  Risks divide MCRiskScale.
MCRates == {[return_rate |-> <<52, 32, 72, 152, 1, 1, 1>>,
             risk_rating |-> <<4, 6, 3, 12, 1, 2, 4>>],
            [return_rate |-> <<5, 3, 1, 0, 1, 1, 1>>,
             risk_rating |-> <<0, 2, 1, 1, 0, 0, 0>>],
            [return_rate |-> <<1, 1, 1, 1, 1, 1, 1>>,
             risk_rating |-> <<1, 1, 1, 1, 1, 1, 1>>]}
MCRiskScale == 12
=============================================================================
