CONSTANTS
    f1 = f1
    f2 = f2
    p1 = p1
    p2 = p2
    None = None
    Visits <- MCVisits
    Files = {f1, f2}
    Provinces = {p1, p2}
    PageTotal = 2
    MaxAsks = 4
    PhotoLimit = 2
    MaxInputs <- MCMaxInputs
    MaxMishaps = 0
    MaxWrites = 0
SPECIFICATION Spec
CHECK_DEADLOCK FALSE
INVARIANT SavesItsRecord
