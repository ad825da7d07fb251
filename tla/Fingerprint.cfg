\* Three fingers; property calls fail and the call to Enroll times out at any time.
CONSTANTS
    Fingers = {thumb, index, middle}
    NoFinger = NoFinger
    MaxSignals = 2
SPECIFICATION FairSpec
INVARIANTS StepMeansEnrolling OffersTheRest
PROPERTY StepEnds
CHECK_DEADLOCK FALSE
