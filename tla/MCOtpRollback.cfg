CONSTANTS
    k0 = k0
    k1 = k1
    Keys <- MCKeys
    SeedRows = 2
    FlagRows = 3
    FlagQuorum = 2
    CritRows = 8
    CritQuorum = 3
    MaxFaults = 1
SPECIFICATION Spec
INVARIANTS
    FallbackBoots
