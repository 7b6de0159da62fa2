---------------------------- MODULE MCKlendMarket ----------------------------
(***************************************************************************)
(* One reserve and two customers: o1 brings the liquidity and may borrow   *)
(* what it has deposited, o2 only borrows.  Half of the interest on a loan *)
(* goes to the protocol, most of that to referrers; a quarter per slot is  *)
(* a fixed rate.  The limits lie at everything there is, so that interest  *)
(* takes the debt across the borrow limit and a repayment takes it back.   *)
(***************************************************************************)
EXTENDS KlendMarketProperties, TLC

CONSTANTS r1, o1, o2

MCFunds == (o1 :> [r \in Reserves |-> 3]) @@ (o2 :> [r \in Reserves |-> 0])

\* A price must be of this very second and lie between a half and two.
MCTokenInfo ==
    [max_twap_divergence_bps |-> 0, max_age_twap_seconds |-> 1, max_age_price_seconds |-> 0,
     heuristic |-> [lower |-> 8, upper |-> 32], block_price_usage |-> 0,
     pyth |-> [enabled |-> TRUE],
     switchboard |-> [enabled |-> TRUE, has_twap |-> TRUE],
     scope |-> [enabled |-> FALSE, has_twap |-> FALSE]]

MCConfig ==
    [r \in Reserves |->
        [protocol_take_rate_pct |-> 50, host_fixed_interest_rate_bps |-> 2500,
         borrow_factor_pct |-> 100, borrow_fee_sf |-> 2,
         deposit_limit |-> 3, borrow_limit |-> 3, decimals |-> 1, asset_tier |-> 0,
         borrow_rate_curve |-> FromPoints(<<Point(0, 0), Point(5000, 5000), Point(10000, 10000)>>),
         token_info |-> MCTokenInfo]]

\* Pyth has a price of second 1; or it has a newer one, too high; or Switchboard has
\* that, too vague to load.
Reading(price, timestamp, confidence) ==
    [price |-> price, timestamp |-> timestamp, confidence |-> confidence, twap |-> <<>>]
MCReadings ==
    {[pyth |-> <<Reading(16, 1, 0)>>, switchboard |-> <<>>, scope |-> <<>>],
     [pyth |-> <<Reading(40, 2, 0)>>, switchboard |-> <<>>, scope |-> <<>>],
     [pyth |-> <<Reading(16, 1, 0)>>, switchboard |-> <<Reading(40, 2, 4)>>, scope |-> <<>>]}

\* Repayments of one unit, or of all there is; loans of two (one is too small for the
\* fee), or of all there may be; a debt value that allows two and a half.
MCAmounts == {1, U64MAX}
MCAsked == {2, U64MAX}
MCDebtValues == {40}

\* The model ends where the clock has reached its bound and the one reserve's total of
\* debts has wrapped.
Ended == slot = MaxSlot /\ (\E r \in Reserves : overdrawn[r] > 0) /\ UNCHANGED vars
MCSpec == Init /\ [][Next \/ Ended]_vars
=============================================================================
