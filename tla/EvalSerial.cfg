CONSTANTS
    Events = {e1, e2}
    Vendors = {v1, v2}
    Evals = {x1, x2}
    Photos = {p1, p2, p3}
    Requests = {r1}
    Calls = {"create", "update", "drive", "delete", "upload", "review"}
    Ratings = {1, 2, 5}
    Limit = 2
    Faults = FALSE
    None = None
SYMMETRY Symmetry
SPECIFICATION Spec
CHECK_DEADLOCK FALSE
INVARIANT TypeOK
INVARIANT PhotoLimit
INVARIANT RatingIsAverage
