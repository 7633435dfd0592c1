SPECIFICATION PipelineSpec
CONSTANTS
    a1 = a1  a2 = a2
    p1 = p1  p2 = p2
    z1 = z1  z2 = z2
    s1 = s1  e1 = e1
    None = None
    Manual = Manual
    Contexts <- TwoContexts
    KeyOf <- KeyOfContext
    ModulesOf <- ModulesOfContext
    RequiredOf <- AllSuites
    NumRows = 2
    InitialRows <- OldAndNew
    InitialModules <- RegistryAtStart
    Promoters <- OnePromoter
    Freezers <- OneFreezer
    SupportRuns <- TwoSupports
    SuiteOf <- SuiteOfTwo
    MaxEdits = 2
    EditsWait = FALSE
INVARIANTS
    LockNamesVerifiedRow
    LockIsProven
PROPERTIES
    PromotedRowsFreeze
