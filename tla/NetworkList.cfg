\* Two networks, one call in flight, lists of up to three access points.
CONSTANTS
    Ssids = {a, b}
    NoAp = NoAp
    MaxCalls = 1
    Hidden = Hidden
    Strengths = {10, 100}
    MaxLen = 3
SPECIFICATION FairSpec
INVARIANTS OneTimer BeginsOnce ListIsRight
PROPERTY CatchesUp
CHECK_DEADLOCK FALSE
