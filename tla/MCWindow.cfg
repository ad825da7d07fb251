\* Any click, also on a banner that slides away; a slider of three values.
CONSTANTS
    NoPage = NoPage
    Upper = 2
    MaxTimers = 2
SPECIFICATION WindowSpec
INVARIANTS ControlsFit PasscodeFirst
PROPERTIES GateHolds SkipSticks GateOpens Stored
CHECK_DEADLOCK FALSE
