\* Requests one at a time, writes that may fail.
CONSTANTS
    Sources = {s1}
    Jobs = {j1, j2}
    Triggers = {t1}
    Locks = {l1, l2, l3}
    Handlers = {h1}
    DbMayFail = TRUE
    NoJob = NoJob
    NoLock = NoLock
    NoSource = NoSource
SPECIFICATION HSpec
SYMMETRY HSymmetry
CHECK_DEADLOCK FALSE
INVARIANTS
    HInv
    JobIffEnabled
