\* One event whose path is the same on both servers and one whose path is not.
CONSTANTS
    u1 = u1
    u2 = u2
    p1 = p1
    p2 = p2
    Uids = {u1, u2}
    Passes = {p1, p2}
    SameHref = {u1}
    Orphans = TRUE
    PassedOver = {u2}
    Elsewhere = TRUE
    Faults = {"read", "probe", "report", "nodata", "untold", "list", "partial",
              "destlist", "put", "delete", "save", "cancel", "crash", "expire",
              "repoint"}
    MaxChanges = 4
    MaxFaults = 2
    NoToken = NoToken
SPECIFICATION FairSpec
INVARIANTS
    IInv
    TokenHonest
PROPERTIES
    NoRegress
    Settles
