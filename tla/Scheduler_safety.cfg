\* Two sources and two jobs: one each, or a job and its replacement.
CONSTANTS
    Sources = {s1, s2}
    Jobs = {j1, j2}
    Triggers = {}
    Locks = {l1, l2, l3}
    NoJob = NoJob
    NoLock = NoLock
    NoSource = NoSource
SPECIFICATION Spec
SYMMETRY Symmetry
CHECK_DEADLOCK FALSE
INVARIANTS
    NoDoubleClose
    NoOrphanLoop
    LockDiscipline
    ExclusiveUnlessRemoved
    LocksPrivate
    IInv
PROPERTIES
    ImplementsExclusion
