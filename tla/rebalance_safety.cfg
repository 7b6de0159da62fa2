\* Positions in both venues, and cycles of valuation, balance, allocation and withdrawal.
SPECIFICATION Spec
CONSTANTS
    sol = sol
    usdc = usdc
    usdt = usdt
    wbtc = wbtc
    Mints <- MCMints
    InitialDeposits <- MCDeposits
    InitialShares <- MCShares
    InitialWallet <- MCWallet
    Unit <- MCUnit
    Exponent <- MCExponent
    AuthorityCanSign = TRUE
    Prices = {3}
    Rates <- MCRates
    MaxExchangeRate <- MCExchangeRate
    MaxShareValue <- MCShareValue
    RiskScale <- MCRiskScale
INVARIANTS
    TypeOK
    CycleOrder
    OncePerCycle
    FullyAllocated
    LendGateShut
PROPERTY
    EmptiedFreezesValue
