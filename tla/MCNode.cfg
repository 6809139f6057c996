CONSTANTS
    OtaTimeout = 9
    OtaBoots = 2
    IpTimeout = 9
    IpBoots = 2
    LinkDelay = 1
    Retry = 2
    Interval = 7
    MaxUptime = 9
    MaxRequests = 2
SPECIFICATION FairSpec
INVARIANTS
    TypeOK
    GoodImageConfirmed
PROPERTIES
    Settles
