\* Recovery from a fault and an edit at any time; w events look alike.
CONSTANTS
    c1 = c1
    c2 = c2
    u1 = u1
    u2 = u2
    u3 = u3
    v = v
    w = w
    x = x
    Calendars = {c1}
    Uids = {u1, u2}
    Contents = {v, w}
    Shared = {w}
    Keyless = {v}
    Past = {}
    Blank = {}
    Home <- HomeAll
    Direction <- BothWay
    Strategy = "source_wins"
    Matching <- Coincident
    Differing <- Unhashed
    Concurrent = TRUE
    Faults = {"put", "delete", "records", "crash"}
    MaxEdits = 1
    MaxFaults = 1
    Gone = Gone
    NoCalendar = NoCalendar
SPECIFICATION FairSpec
PROPERTIES
    Converges
    DeletionsSettle
