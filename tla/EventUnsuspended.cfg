CONSTANTS
    Events = {e1}
    Vendors = {v1, v2}
    Subs = {s1, s2}
    Requests = {r1}
    Calls = {"create", "update", "delete", "view", "list", "pitch", "select", "score", "shortlist", "standing", "deleteVendor"}
    EditStatus = {"draft", "open", "closed", "completed", "cancelled"}
    Standings = {"active"}
    MaxDay = 1
    Notifier = TRUE
    Faults = FALSE
    None = None
SYMMETRY Symmetry
SPECIFICATION Spec
CHECK_DEADLOCK FALSE
INVARIANT WinnerFlagged
