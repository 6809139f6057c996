CONSTANTS
    ExchangeKey = exchange
    SigningKey = signing
    ViaObject = FALSE
    PowerCycle = TRUE
    MaxFaults = 1
    MaxActs = 1
    Builds <- MCBuilds
    Environments <- LostAnswers
SPECIFICATION Spec
INVARIANT IdentityStable
