\* An event the encoder refuses, two-way.
CONSTANTS
    c1 = c1
    c2 = c2
    u1 = u1
    u2 = u2
    u3 = u3
    v = v
    w = w
    x = x
    Calendars = {c1}
    Uids = {u1, u2}
    Contents = {v, w}
    Shared = {}
    Keyless = {}
    Past = {}
    Blank = {w}
    Home <- HomeAll
    Direction <- BothWay
    Strategy = "source_wins"
    Matching <- Hashed
    Differing <- Unhashed
    Concurrent = FALSE
    Faults = {}
    MaxEdits = 0
    MaxFaults = 0
    Gone = Gone
    NoCalendar = NoCalendar
SPECIFICATION Spec
PROPERTIES
    SourceLossJustified
