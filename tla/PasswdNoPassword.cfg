\* An account that has no password yet.
SPECIFICATION Spec
CONSTANTS
    Handlers = {h1}
    Passwords = {good, weak, short}
    Short = {short}
    Weak = {weak}
    Default = dflt
    NoPassword = nopw
    Accounts = {nopw}
    good = good
    weak = weak
    short = short
INVARIANT NewPasswordSentAtOnce
CHECK_DEADLOCK FALSE
