SPECIFICATION EvidenceSpec
CONSTANTS
    d1 = d1  d2 = d2
    Dates <- BothDates
    WorkerLimit = 2
    Leftovers <- OneLeftover
    MaxRuns = 1
    Started <- HoldingsOnly
INVARIANTS
    ReasonsAreKept
