\* The units finish_bond mints.
SPECIFICATION Spec
CONSTANTS
    usdc = usdc
    bonk = bonk
    NoEscrow = NoEscrow
    U64 <- MCU64
    NumUsers = 2
    stf = stf
    other = other
    Stf = stf
    Tokens <- OneMint
    TwoDecimals <- NoToken
    Mints <- OneMint
    MintUnit <- OneMintUnit
    TreasurySpace = 208
    FlagSpace = 15
    GenesisMinted = 4
    GenesisValue = 8
    InitialStf = 3
    InitialVault = 0
    InitialFunds = 6
    VestingPeriod = 1
    MaximumAge = 1
    AuthorityCanSign = FALSE
    Prices = {6}
    TokenAmounts = {1, 2}
    SpotPrices = {1, 4}
    StakeAmounts = {3}
    UnstakeAmounts = {1}
    Revaluations = {}
    MaxTime = 2
PROPERTY
    RedemptionInWholeTokens
