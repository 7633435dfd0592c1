SPECIFICATION Spec
CONSTANTS
    Probes <- TwoProbes
    Assets <- ThreeAssets
    Selected <- TwoSelected
    Checks <- TwoChecks
    Expected <- OneExpected
    FailSteps <- TwoFailSteps
    RuntimeSets <- SomeRuntime
    MaxRuns = 2
INVARIANTS
    ManifestMatchesFiles
    DatabaseAsAsked
PROPERTIES
    VerdictIsEarned
