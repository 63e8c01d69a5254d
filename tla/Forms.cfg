CONSTANTS
    f1 = f1
    f2 = f2
    p1 = p1
    p2 = p2
    None = None
    Visits <- MCVisits
    Files = {f1, f2}
    Provinces = {p1, p2}
    PageTotal = 2
    MaxAsks = 4
    PhotoLimit = 2
    MaxInputs <- MCMaxInputs
    MaxMishaps = 1
    MaxWrites = 1
SPECIFICATION FairSpec
CHECK_DEADLOCK FALSE
INVARIANT OnlyOwnEdits
INVARIANT SavedWhole
INVARIANT OneRecord
INVARIANT FilesAccounted
INVARIANT PicksFit
 
