\* Attempts that may overlap: the sheet is opened again while calls are in flight.
CONSTANTS
    Agents = {a1, a2}
    NoAgent = NoAgent
    MaxCreating = 2
SPECIFICATION FairSpec
INVARIANTS
    FilmedOnlyWhileOpen OneFrameAtATime
    StartedIsTrue NoAgentForgotten ThreadHasProxy
PROPERTY AttemptConcludes
CHECK_DEADLOCK FALSE
