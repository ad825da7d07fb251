CONSTANTS
    Proxies = {p1, p2}
    NoProxy = NoProxy
    Paths = {}
    NtpAnswers <- NtpStays
    MaxRounds = 0
SPECIFICATION Spec
INVARIANT NoUpdatesInEitherMode
CHECK_DEADLOCK FALSE
