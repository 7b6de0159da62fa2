\* Two users, one payment mint; every order of their instructions.
SPECIFICATION Spec
CONSTANTS
    usdc = usdc
    bonk = bonk
    NoEscrow = NoEscrow
    U64 <- MCU64
    NumUsers = 2
    stf = stf
    other = other
    Stf = stf
    Tokens <- PaidAndOther
    TwoDecimals <- OnlyOther
    Mints <- OneMint
    MintUnit <- OneMintUnit
    TreasurySpace = 208
    FlagSpace = 15
    GenesisMinted = 4
    GenesisValue = 8
    InitialStf = 3
    InitialVault = 0
    InitialFunds = 3
    VestingPeriod = 1
    MaximumAge = 0
    AuthorityCanSign = TRUE
    Prices = {6}
    TokenAmounts = {1}
    SpotPrices = {1, 4}
    StakeAmounts = {3}
    UnstakeAmounts = {2}
    Revaluations = {30}
    MaxTime = 2
INVARIANTS
    TypeOK
    StakesBacked
    StakeConservation
    UnstakeHonoured
    SupplyAccounted
PROPERTIES
    WealthKept
    EscrowTermsKept
    BackingNotDiluted
    BondMarketStaysOpen
    BondMarketKept
