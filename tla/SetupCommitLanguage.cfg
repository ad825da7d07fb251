\* The locale1 proxy is not there yet.
SPECIFICATION Spec
CONSTANTS
    Handlers = {h1, h2, h3}
    Passwords = {good, other}
    Default = dflt
    Languages = {en, de}
    MaxCrashes = 0
INVARIANT EverythingWentWell
CHECK_DEADLOCK FALSE
