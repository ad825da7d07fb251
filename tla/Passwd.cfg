\* Three applies, one after the other or overlapping on the shared buffer.
SPECIFICATION Spec
CONSTANTS
    Handlers = {h1, h2, h3}
    Passwords = {good, weak, short}
    Short = {short}
    Weak = {weak}
    Default = dflt
    NoPassword = nopw
    Accounts = {dflt, good}
    good = good
    weak = weak
    short = short
SYMMETRY Symmetry
INVARIANTS SuccessIsReal AnswersFitPrompts NoStall ChangeIsReported
PROPERTY Implements
CHECK_DEADLOCK FALSE
