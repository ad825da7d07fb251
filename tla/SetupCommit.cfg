\* Overlapping requests and two crashes.
SPECIFICATION FairSpec
CONSTANTS
    Handlers = {h1, h2, h3}
    Passwords = {good, other}
    Default = dflt
    Languages = {en, de}
    MaxCrashes = 2
INVARIANTS CompletedMeansChanged OneSuccessSuffices
PROPERTY ChangeEndsSetup
CHECK_DEADLOCK FALSE
