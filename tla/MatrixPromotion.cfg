SPECIFICATION Spec
CONSTANTS
    a1 = a1  a2 = a2  b1 = b1
    p1 = p1  p2 = p2
    s1 = s1  e1 = e1
    None = None
    Manual = Manual
    Contexts <- ThreeContexts
    KeyOf <- KeyOfContext
    ModulesOf <- ModulesOfContext
    RequiredOf <- SmokeOnly
    NumRows = 5
    InitialRows <- DraftsAndReentry
    InitialModules <- RegistryAtStart
    Promoters <- TwoPromoters
    SupportRuns <- TwoSupports
    SuiteOf <- TwoSmokes
    MaxEdits = 1
    EditsWait = TRUE
SYMMETRY Interchangeable
INVARIANTS
    VerifiedHasEvidence
    RejectedLeavesNoTrace
    ReportTellsTruth
    PromotedOnce
PROPERTIES
    NoLostUpdate
    ImplementsLifecycle
