\* One source, two syncs that may overlap, one fault beside what an earlier run left.
CONSTANTS
    Sources = {s1}
    Syncs = {g1, g2}
    NoSync = NoSync
    NoSource = NoSource
    MaxFaults = 1
SPECIFICATION FairSpec
INVARIANTS
    RunningIsTrue
    TrackerIsTrue
    IInv
PROPERTIES
    NoUnheraldedRecovery
    RunningEnds
    MarkIsCleared
