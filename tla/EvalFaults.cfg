CONSTANTS
    Events = {e1}
    Vendors = {v1, v2}
    Evals = {x1, x2}
    Photos = {p1, p2, p3}
    Requests = {r1, r2}
    Calls = {"create", "delete", "upload", "review", "deletePhoto"}
    Ratings = {1}
    Limit = 1
    Faults = TRUE
    None = None
SYMMETRY Symmetry
SPECIFICATION Spec
CHECK_DEADLOCK FALSE
INVARIANT OneEvaluation
INVARIANT PhotoOvershoot
