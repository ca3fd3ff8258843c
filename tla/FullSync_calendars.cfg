\* Two calendars of one source into one destination calendar, two-way.
CONSTANTS
    c1 = c1
    c2 = c2
    u1 = u1
    u2 = u2
    u3 = u3
    v = v
    w = w
    x = x
    Calendars = {c1, c2}
    Uids = {u1, u2}
    Contents = {v, w}
    Shared = {}
    Keyless = {}
    Past = {}
    Blank = {}
    Home <- HomeSplit
    Direction <- BothWay
    Strategy = "source_wins"
    Matching <- Coincident
    Differing <- Unhashed
    Concurrent = TRUE
    Faults = {"put"}
    MaxEdits = 1
    MaxFaults = 1
    Gone = Gone
    NoCalendar = NoCalendar
SPECIFICATION Spec
INVARIANTS
    NothingMissing
PROPERTIES
    OthersKept
