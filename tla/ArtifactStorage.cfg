SPECIFICATION Spec
CONSTANTS
    u = u
    r = r
    w1 = w1
    w2 = w2
    Uploads <- MCUploads
    Results <- MCResults
    Writers <- MCWriters
    MaxArtifacts = 2
    NoKey = NoKey
SYMMETRY MCSymmetry
INVARIANTS UsageExact NothingActiveAfterDeletion GoneLeavesNothing FreshWritesSurvive
