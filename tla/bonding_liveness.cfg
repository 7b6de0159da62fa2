\* Two payment mints with different units, a longer clock, less staking; fairness.
SPECIFICATION FairSpec
CONSTANTS
    usdc = usdc
    bonk = bonk
    NoEscrow = NoEscrow
    U64 <- MCU64
    NumUsers = 2
    stf = stf
    other = other
    Stf = stf
    Tokens <- MCMints
    TwoDecimals <- NoToken
    Mints <- MCMints
    MintUnit <- MCMintUnit
    TreasurySpace = 208
    FlagSpace = 15
    GenesisMinted = 4
    GenesisValue = 8
    InitialStf = 3
    InitialVault = 0
    InitialFunds = 3
    VestingPeriod = 1
    MaximumAge = 1
    AuthorityCanSign = FALSE
    Prices = {6}
    TokenAmounts = {1}
    SpotPrices = {4}
    StakeAmounts = {3}
    UnstakeAmounts = {2}
    Revaluations = {}
    MaxTime = 2
INVARIANT
    EscrowsAccountForFunds
PROPERTY
    BondsMature
    BondMarketServed
