CONSTANTS
    a = a
    b = b
    bad = bad
    Absent = Absent
    Torn = Torn
    Images <- MCImages
    Sound <- MCSound
    TrialBoots = 3
    MaxUploads = 2
    MaxLosses = 1
    Environments <- TrialUpload
SPECIFICATION Spec
INVARIANT RollbackRestores
