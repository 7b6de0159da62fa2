\* Tokens of a bank and of a vault, with interest and profits of a third and more,
\* and a profit that takes two seconds and a half to unlock.
CONSTANTS
    ONE = 10
    SECONDS_PER_YEAR = 2
    U64 = 1000
    DENOMINATOR = 10
    PRICE_PRECISION = 3
    locked_profit_degradation = 4
    BankShares = {10, 40}
    Liabilities = {0, 5, 30}
    Amounts = {1, 3}
    MaxShareValue = 12
    Profits = {0, 2}
    Fees = {0, 1}
    MaxTotal = 5
    MaxNow = 3
SPECIFICATION MCSpec
INVARIANTS
    TypeOK
    MarginfiValueBounded
    RateGrowsWithUse
    LockedProfitCovered
PROPERTIES
    RecordedAssetsWithdrawable
    VirtualPriceKept
    VaultShareKept
CHECK_DEADLOCK FALSE
