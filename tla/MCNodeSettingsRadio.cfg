CONSTANTS
    a1 = a1
    a2 = a2
    NoAddr = NoAddr
    Default <- MCDefault
    Values <- MCValues
    Addrs <- MCAddrs
    Requests <- MCRequests
    IpTrialBoots = 3
    MaxWrites = 3
SPECIFICATION Spec
INVARIANT FileNeverDisagrees
