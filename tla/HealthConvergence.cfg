SPECIFICATION FairSpec
CONSTANTS
    Builtins <- Startup
    Optional <- Extras
    Unprobed <- NoProbe
    Enabled <- Registry
    Standing <- StandingOf
    Timeout = 3
    Backoff = 1
    MaxFlips = 2
    None = None
INVARIANTS
    HealthyWasUp
    NoOverlap
    InTime
    SeverityFollowsProfile
PROPERTIES
    RunEnds
