\* The exponents Pyth publishes, and nobody who could sign for the treasury's authority.
SPECIFICATION FairSpec
CONSTANTS
    sol = sol
    usdc = usdc
    usdt = usdt
    wbtc = wbtc
    Mints <- MCMints
    InitialDeposits <- MCDeposits
    InitialShares <- MCShares
    InitialWallet <- MCWallet
    Unit <- MCUnit
    Exponent <- PythExponent
    AuthorityCanSign = FALSE
    Prices = {3}
    Rates <- MCRates
    MaxExchangeRate <- MCExchangeRate
    MaxShareValue <- MCShareValue
    RiskScale <- MCRiskScale
PROPERTY
    BalanceIsTaken
