----------------------------- MODULE KlendPrices -----------------------------
(***************************************************************************)
(* How the lending market picks and checks an oracle price                 *)
(* (utils/prices, state/token_info.rs).                                    *)
(*                                                                         *)
(* A reading is what one oracle account holds:                             *)
(*   price, timestamp   the price, a Fraction, and its publish time         *)
(*   confidence         the width of its confidence interval, same unit    *)
(*   twap               a sequence of at most one reading: the time-        *)
(*                      weighted average that comes with it                *)
(* An oracle slot is a sequence of at most one reading: empty when the     *)
(* account is not passed, not enabled or cannot be read.  Token            *)
(* information is a record of the TokenInfo fields that the checks read.   *)
(* Names, account keys and number formats are left out.                    *)
(***************************************************************************)
EXTENDS KlendMath

CONFIDENCE_FACTOR == 50      \* 100 / MAX_CONFIDENCE_PERCENTAGE

\* PriceStatusFlags.
Flags == {"PRICE_LOADED", "PRICE_AGE_CHECKED", "TWAP_CHECKED", "TWAP_AGE_CHECKED",
          "HEURISTIC_CHECKED", "PRICE_USAGE_ALLOWED"}
ALL_CHECKS == Flags

\* TokenInfo; a heuristic bound of 0 is no bound, Pyth always brings a twap.
PriceHeuristic == [lower : Nat, upper : Nat]
PythConfiguration == [enabled : BOOLEAN]
SwitchboardConfiguration == [enabled : BOOLEAN, has_twap : BOOLEAN]
ScopeConfiguration == [enabled : BOOLEAN, has_twap : BOOLEAN]
TokenInfo == [heuristic : PriceHeuristic, max_twap_divergence_bps : Nat,
              max_age_price_seconds : Nat, max_age_twap_seconds : Nat,
              block_price_usage : {0, 1}, pyth : PythConfiguration,
              switchboard : SwitchboardConfiguration, scope : ScopeConfiguration]

IsTwapEnabled(token_info) == token_info.max_twap_divergence_bps > 0

\* TokenInfo::is_valid and is_twap_config_valid; an oracle's configuration says
\* whether it is enabled and whether it names a twap.
ConfigValid(token_info) ==
    /\ \E source \in {"pyth", "switchboard", "scope"} : token_info[source].enabled
    /\ IsTwapEnabled(token_info) =>
          /\ token_info.max_age_twap_seconds > 0
          /\ \A source \in {"switchboard", "scope"} :
                token_info[source].enabled => token_info[source].has_twap

\* What the oracles of a reserve may say.
Twap == [price : Nat, timestamp : Nat, confidence : Nat, twap : {<<>>}]
OracleReading == [price : Nat, timestamp : Nat, confidence : Nat, twap : Seq(Twap)]
ReadingsValid(readings) ==
    readings \in [{"pyth", "switchboard", "scope"} -> Seq(OracleReading)]

\* validate_pyth_confidence, and the same test for switchboard, which is strict.
PythConfident(reading) ==
    reading.price > 0 /\ reading.confidence * CONFIDENCE_FACTOR <= reading.price
SwitchboardConfident(reading) ==
    reading.confidence * CONFIDENCE_FACTOR < reading.price

\* get_pyth_price_and_twap: a reading whose interval is too wide is no reading.
PythReading(token_info, slot) ==
    IF token_info.pyth.enabled /\ slot # <<>> /\ PythConfident(slot[1])
    THEN slot ELSE <<>>

\* get_switchboard_price_and_twap: the confidence is checked only when the price
\* is loaded, after the choice of the oracle.  A twap that cannot be read makes
\* the whole reading fail.
SwitchboardReading(token_info, slot) ==
    LET twap == IF IsTwapEnabled(token_info) THEN slot[1].twap ELSE <<>>
    IN  IF /\ token_info.switchboard.enabled /\ slot # <<>> /\ slot[1].price > 0
           /\ twap # <<>> => twap[1].price > 0
        THEN <<[slot[1] EXCEPT !.twap = twap]>>
        ELSE <<>>

\* get_scope_price_and_twap: no confidence interval at all; the timestamp of a
\* chain of prices is its oldest.
ScopeReading(token_info, slot) ==
    IF token_info.scope.enabled /\ slot # <<>>
    THEN <<[slot[1] EXCEPT !.twap = IF token_info.scope.has_twap THEN @ ELSE <<>>]>>
    ELSE <<>>

\* One reading per source that has one, in the order the code tries them.
Candidates(token_info, readings) ==
    LET tagged(slot, source) ==
            IF slot = <<>> THEN <<>> ELSE <<[source |-> source, reading |-> slot[1]]>>
    IN  tagged(PythReading(token_info, readings.pyth), "pyth")
            \o tagged(SwitchboardReading(token_info, readings.switchboard), "switchboard")
            \o tagged(ScopeReading(token_info, readings.scope), "scope")

\* get_most_recent_price_and_twap: the latest, the first of equals.
MostRecent(candidates) ==
    candidates[CHOOSE i \in DOMAIN candidates : \A j \in DOMAIN candidates :
                  /\ candidates[j].reading.timestamp <= candidates[i].reading.timestamp
                  /\ j < i => candidates[j].reading.timestamp < candidates[i].reading.timestamp]

\* check_price_age: a timestamp in the future has age 0.
AgeChecked(timestamp, max_age, now) == now - timestamp <= max_age

\* is_within_tolerance, relative to the price.
WithinTolerance(price, twap, tolerance_bps) ==
    (IF price >= twap THEN price - twap ELSE twap - price) * FULL_BPS < price * tolerance_bps

\* check_price_heuristics: a bound of 0 is no bound.
HeuristicChecked(price, heuristic) ==
    /\ heuristic.lower > 0 => price >= heuristic.lower
    /\ heuristic.upper > 0 => price <= heuristic.upper

\* price_load: switchboard's confidence is checked here.
Loads(source, reading) == source = "switchboard" => SwitchboardConfident(reading)

AgeStatus(reading, token_info, now) ==
    IF AgeChecked(reading.timestamp, token_info.max_age_price_seconds, now)
    THEN {"PRICE_AGE_CHECKED"} ELSE {}

\* Mutant: the twap is compared with the price, but may be of any age.
TwapStatus_AnyAge(source, reading, token_info, now) ==
    LET twap == reading.twap
    IN  IF ~IsTwapEnabled(token_info) THEN {"TWAP_CHECKED", "TWAP_AGE_CHECKED"}
        ELSE IF /\ twap # <<>> /\ Loads(source, twap[1])
                /\ WithinTolerance(reading.price, twap[1].price,
                                   token_info.max_twap_divergence_bps)
             THEN {"TWAP_CHECKED", "TWAP_AGE_CHECKED"} ELSE {}

TwapStatus(source, reading, token_info, now) ==
    LET twap == reading.twap
    IN  IF ~IsTwapEnabled(token_info) THEN {"TWAP_CHECKED", "TWAP_AGE_CHECKED"}
        ELSE IF twap = <<>> THEN {}
        ELSE (IF AgeChecked(twap[1].timestamp, token_info.max_age_twap_seconds, now)
              THEN {"TWAP_AGE_CHECKED"} ELSE {})
             \cup
             (IF /\ Loads(source, twap[1])
                 /\ WithinTolerance(reading.price, twap[1].price,
                                    token_info.max_twap_divergence_bps)
              THEN {"TWAP_CHECKED"} ELSE {})

HeuristicStatus(reading, token_info) ==
    IF HeuristicChecked(reading.price, token_info.heuristic)
    THEN {"HEURISTIC_CHECKED"} ELSE {}
UsageStatus(token_info) ==
    IF token_info.block_price_usage = 0 THEN {"PRICE_USAGE_ALLOWED"} ELSE {}

\* get_validated_price, of a price that loads: the checks it passes.
PriceStatus(source, reading, token_info, now) ==
    {"PRICE_LOADED"} \cup AgeStatus(reading, token_info, now)
                     \cup TwapStatus(source, reading, token_info, now)
                     \cup HeuristicStatus(reading, token_info)
                     \cup UsageStatus(token_info)

\* get_price: no oracle at all is an error; one that does not load is no price.
NoPriceFeed(token_info, readings) == Candidates(token_info, readings) = <<>>
GetPrice(token_info, readings, now) ==
    LET chosen == MostRecent(Candidates(token_info, readings))
    IN  IF Loads(chosen.source, chosen.reading)
        THEN <<[price |-> chosen.reading.price, timestamp |-> chosen.reading.timestamp,
                status |-> PriceStatus(chosen.source, chosen.reading, token_info, now)]>>
        ELSE <<>>
=============================================================================
