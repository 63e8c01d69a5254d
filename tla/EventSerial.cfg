CONSTANTS
    Events = {e1}
    Vendors = {v1, v2}
    Subs = {s1, s2}
    Requests = {r1}
    Calls = {"create", "update", "delete", "view", "list", "pitch", "select", "score", "shortlist", "standing", "deleteVendor"}
    EditStatus = {"open", "completed", "cancelled"}
    Standings = {"active", "suspended"}
    MaxDay = 0
    Notifier = TRUE
    Faults = FALSE
    None = None
SPECIFICATION FairSpec
CHECK_DEADLOCK FALSE
INVARIANTS
    TypeOK
    OneWinnerFlag
    ToldWinnerIsWinner
    OneVerdict
PROPERTIES
    DeletedStaysDeleted
    RefreshKeepsTheRest
    ScoreKept
    AwardKept
    RequestsEnd
