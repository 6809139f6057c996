CONSTANTS
    ExchangeKey = exchange
    SigningKey = signing
    ViaObject = TRUE
    PowerCycle = TRUE
    MaxFaults = 2
    MaxActs = 2
    Builds <- MCBuilds
    Environments <- AllFaults
SPECIFICATION FairSpec
INVARIANTS
    TypeOK
    InStep
    KeysKept
    ChipOpens
    RotationTruthful
    OneFaultAbsorbed
PROPERTIES
    ImplementsVault
    VaultComesBack
