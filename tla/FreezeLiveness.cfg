SPECIFICATION FairPipeline
CONSTANTS
    a1 = a1  a2 = a2
    p1 = p1  p2 = p2
    z1 = z1  z2 = z2
    s1 = s1  e1 = e1
    None = None
    Manual = Manual
    Contexts <- OneContext
    KeyOf <- KeyOfContext
    ModulesOf <- ModulesOfContext
    RequiredOf <- ContractOnly
    NumRows = 1
    InitialRows <- OneDraft
    InitialModules <- RegistryAtStart
    Promoters <- TwoPromoters
    Freezers <- TwoFreezers
    SupportRuns <- NoRuns
    SuiteOf <- SuiteOfNone
    MaxEdits = 0
    EditsWait = TRUE
PROPERTIES
    FreezesEnd
    RunsEnd
