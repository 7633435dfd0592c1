SPECIFICATION FairSpec
CONSTANTS
    Timeout = 2
INVARIANTS
    SuccessIsEarned
    OutcomeIsTrue
PROPERTIES
    EndsUnlessCut
