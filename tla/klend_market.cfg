\* A reserve of three units, ONE = 16 steps to a unit, two slots of interest.
CONSTANTS
    r1 = r1
    o1 = o1
    o2 = o2
    Reserves = {r1}
    Obligations = {o1, o2}
    NoReserve = NoReserve
    NoTier = NoTier
    MaxDeposits = 2
    MaxBorrows = 2
    ONE = 16
    SLOTS_PER_YEAR = 1
    FRACTION_MOD = 65536
    U64MAX = 100
    Config <- MCConfig
    ReferralFeeBps = 8000
    Funds <- MCFunds
    DepositAmounts = {2, 3}
    RedeemAmounts = {2}
    BorrowAmounts <- MCAsked
    RepayAmounts <- MCAmounts
    MaxDebtValues <- MCDebtValues
    Readings <- MCReadings
    MaxSlot = 2
SPECIFICATION MCSpec
INVARIANTS
    TypeOK
    BooksMatchTokens
    CollateralAccounted
    DebtsMatchReserve
    SlotsAreDistinct
    NoProfitAtOnce
    ReceiveNeverWraps
    CompoundingIsOrdered
    RateGrowsWithUse
    UsablePriceIsSound
PROPERTIES
    FeesStayCovered
    ShareValueKept
    CrossingRemembered
    UsablePriceWasChecked
