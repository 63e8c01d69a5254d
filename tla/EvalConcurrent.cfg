CONSTANTS
    Events = {e1}
    Vendors = {v1}
    Evals = {x1, x2}
    Photos = {p1, p2, p3}
    Requests = {r1, r2, r3}
    Calls = {"create", "update", "drive", "delete", "upload", "deletePhoto"}
    Ratings = {1}
    Limit = 2
    Faults = FALSE
    None = None
SYMMETRY Symmetry
SPECIFICATION Spec
CHECK_DEADLOCK FALSE
INVARIANT ShownIsStored
INVARIANT NoOrphan
