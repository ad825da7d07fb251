CONSTANTS
    Proxies = {p1}
    NoProxy = NoProxy
    Paths = {}
    NtpAnswers <- NtpAny
    MaxRounds = 0
SPECIFICATION FairSpec
PROPERTY WaitForClockIsBounded
CHECK_DEADLOCK FALSE
