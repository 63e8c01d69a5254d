CONSTANTS
    Events = {e1, e2}
    Vendors = {v1, v2}
    Subs = {s1, s2}
    Requests = {r1, r2}
    Calls = {"create", "update", "pitch", "select", "standing"}
    EditStatus = {"open"}
    Standings = {"active"}
    MaxDay = 0
    Notifier = FALSE
    Faults = TRUE
    None = None
SYMMETRY Symmetry
SPECIFICATION Spec
CHECK_DEADLOCK FALSE
INVARIANT WinnerPitched
INVARIANT OnePitchPerVendor
