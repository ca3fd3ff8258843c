\* Two calendars; batches of one path, so that a calendar takes several.
CONSTANTS
    c1 = c1
    c2 = c2
    e1 = e1
    e2 = e2
    e3 = e3
    Calendars = {c1, c2}
    Events = {e1, e2, e3}
    In <- InTwo
    BatchSize = 1
    Faults = {"discover", "db", "query", "propfind", "garbled", "multiget", "get",
              "delete", "crash"}
    MaxEdits = 1
    MaxFaults = 1
    NoCalendar = NoCalendar
    NoEvent = NoEvent
SPECIFICATION FairSpec
INVARIANTS
    ListingHonest
PROPERTIES
    BrokenShown
    RepairedCleared
