SPECIFICATION FairSuites
CONSTANTS
    m1 = m1  m2 = m2  m3 = m3
    ghost = ghost
    stranger = stranger
    Stranger = stranger
    Registered <- ThreeModules
    Profiles <- SomeProfiles
    Registries <- AllRegistries
    UnfitSets <- FewUnfit
    Packages <- OneDeviates
    Sdk = m1
    Orchestrator = m2
    Focus <- FocusModules
    Targets <- TwoTargets
INVARIANTS
    DependenciesFirst
    CyclesAndNothingElseFail
    ContractIsExact
    SmokeIsEarned
    HooksInOrder
    AuditIsEarned
PROPERTIES
    SuiteEnds
