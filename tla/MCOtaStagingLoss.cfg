CONSTANTS
    a = a
    b = b
    bad = bad
    Absent = Absent
    Torn = Torn
    Images <- MCImages
    Sound <- MCSound
    TrialBoots = 3
    MaxUploads = 1
    MaxLosses = 1
    Environments <- StagingLoss
SPECIFICATION Spec
INVARIANT ReportIsTrue
