CONSTANTS
    d1 = d1
    d2 = d2
    d3 = d3
    Files = {d1, d2, d3}
    TypeOf <- MCTypeOf
    Before = {d1, d3}
    Begins = {"verify", "revision"}
    MaxCalls = 2
    MaxFaults = 1
SPECIFICATION FairSpec
CHECK_DEADLOCK FALSE
INVARIANT CodeAndReason
INVARIANT PageShowsServer
INVARIANT DocumentsSound
INVARIANT WholeVendor
PROPERTY ActivationChecked
PROPERTY BackToReview
PROPERTY CallsEnd
