\* One-way, source_wins, ETags that match, if at all, only by chance (v's on
\* the source and x's on the destination), an event too old (w) and one that
\* cannot be written (x).
CONSTANTS
    c1 = c1
    c2 = c2
    u1 = u1
    u2 = u2
    u3 = u3
    v = v
    w = w
    x = x
    Calendars = {c1}
    Uids = {u1, u2}
    Contents = {v, w, x}
    Shared = {}
    Keyless = {}
    Past = {w}
    Blank = {x}
    Home <- HomeOne
    Direction <- OneWay
    Strategy = "source_wins"
    Matching <- Coincidence
    Differing <- Everything
    Concurrent = TRUE
    Faults = {"fetch", "partial", "put", "delete", "records", "crash"}
    MaxEdits = 2
    MaxFaults = 2
    Gone = Gone
    NoCalendar = NoCalendar
SPECIFICATION Spec
INVARIANTS
    ExactMirror
PROPERTIES
    PastKept
