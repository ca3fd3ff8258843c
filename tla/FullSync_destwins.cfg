\* Two-way, dest_wins: the pull loop.
CONSTANTS
    c1 = c1
    c2 = c2
    u1 = u1
    u2 = u2
    u3 = u3
    v = v
    w = w
    x = x
    Calendars = {c1}
    Uids = {u1, u2}
    Contents = {v, w}
    Shared = {}
    Keyless = {}
    Past = {}
    Blank = {}
    Home <- HomeOne
    Direction <- BothWay
    Strategy = "dest_wins"
    Matching <- Never
    Differing <- Everything
    Concurrent = TRUE
    Faults = {"fetch", "put", "delete", "records", "crash"}
    MaxEdits = 2
    MaxFaults = 2
    Gone = Gone
    NoCalendar = NoCalendar
SPECIFICATION Spec
INVARIANTS
    IInv
PROPERTIES
    SourceLossJustified
    ForeignUntouched
    ImplementsMirror
