CONSTANTS
    ExchangeKey = exchange
    SigningKey = signing
    ViaObject = FALSE
    PowerCycle = TRUE
    MaxFaults = 1
    MaxActs = 2
    Builds <- MCBuilds
    Environments <- RotationRetried
SPECIFICATION FairSpec
PROPERTY VaultNeverDead
