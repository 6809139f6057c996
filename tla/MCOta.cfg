CONSTANTS
    a = a
    b = b
    bad = bad
    Absent = Absent
    Torn = Torn
    Images <- MCImages
    Sound <- MCSound
    TrialBoots = 3
    MaxUploads = 3
    MaxLosses = 2
    Environments <- Orderly
SPECIFICATION FairSpec
INVARIANTS
    TypeOK
    CommandNamesWholeImage
    FallbackIsPreviousImage
    ReportIsTrue
    TrialBudget
PROPERTIES
    OnlyTheTrialConfirms
    FallbackOutlivesTrial
    TrialEnds
    ImplementsTrialBoot
