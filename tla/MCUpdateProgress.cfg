\* A proxy in use, one that was replaced, and a new one; upgrades in both modes.
CONSTANTS
    Proxies = {p1, p2, p3}
    NoProxy = NoProxy
    Paths = {conf}
    NtpAnswers <- NtpAny
    MaxRounds = 2
SPECIFICATION FairSpec
INVARIANTS SingleChain NeverStranded FinishedIsQuiet BeliefMatchesDaemon
    ConflictsAnswered GoodMeansChecked
PROPERTIES InstallsOnlyWhatWasPlanned EventuallyDone Implements
CHECK_DEADLOCK FALSE
