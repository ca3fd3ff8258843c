\* One source, a job, its replacement and a manual trigger.  With one mutex,
\* a sync after RemoveJob waits for the one before.  No symmetry: liveness is
\* checked.
CONSTANTS
    Sources = {s1}
    Jobs = {j1, j2}
    Triggers = {t1}
    Locks = {l1}
    NoJob = NoJob
    NoLock = NoLock
    NoSource = NoSource
SPECIFICATION FairSpec
CHECK_DEADLOCK FALSE
PROPERTIES
    StoppedLoopsEnd
    LocksReleased
    StopTerminates
