\* All instructions, those behind the lending gate included.
SPECIFICATION FullSpec
CONSTANTS
    sol = sol
    usdc = usdc
    usdt = usdt
    wbtc = wbtc
    Mints <- MCMints
    InitialDeposits <- MCDeposits
    InitialShares <- MCShares
    InitialWallet <- MCWallet
    Unit <- MCUnit
    Exponent <- MCExponent
    AuthorityCanSign = TRUE
    Prices = {3}
    Rates <- MCRates
    MaxExchangeRate <- MCExchangeRate
    MaxShareValue <- MCShareValue
    RiskScale <- MCRiskScale
INVARIANT
    LendsAfterWithdrawals
