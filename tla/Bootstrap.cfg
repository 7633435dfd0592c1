SPECIFICATION Spec
CONSTANTS
    Services <- FourServices
    Base <- BaseBundles
    Optional <- OneExtra
    Declared <- AllBundles
    MaxDaemons = 3
    Settings <- Hosts
    ExtraLists <- Requests
    MaxCommands = 3
    MaxDeaths = 1
INVARIANTS
    TypeOK
    DependenciesUp
    ReportFollowsRun
PROPERTIES
    ReportIsTrue
    ShutdownIsComplete
