SPECIFICATION Spec
CONSTANTS
    u = u
    r = r
    w1 = w1
    w2 = w2
    Uploads <- MCUploads
    Results <- MCNoResults
    Writers <- MCWriters
    MaxArtifacts = 1
    NoKey = NoKey
SYMMETRY MCSymmetry
INVARIANTS ActiveHasBytes
