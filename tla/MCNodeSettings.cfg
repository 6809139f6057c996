CONSTANTS
    a1 = a1
    a2 = a2
    NoAddr = NoAddr
    Default <- MCDefault
    Values <- MCValues
    Addrs <- MCAddrs
    Requests <- MCRequests
    IpTrialBoots = 3
    MaxWrites = 3
SPECIFICATION FairSpec
INVARIANTS
    TypeOK
    UnprovenOnTrial
    BootsAsReported
    FileMatchesRadio
PROPERTIES
    RefusalsComeFirst
    ProvenAddressKept
    NoStranding
