\* One source, two handlers, two preferences to save beside the defaults.
CONSTANTS
    s1 = s1
    h1 = h1
    h2 = h2
    Sources = {s1}
    Handlers = {h1, h2}
    Saves <- TwoSaves
    NoRow = NoRow
    NoCooldown = NoCooldown
    GlobalWebhook = FALSE
    GlobalEmail = TRUE
    GlobalUrl = TRUE
    CooldownPeriod = 2
    Minute = 2
    Half = 8
    MaxTime = 2
    MaxAlerts = 2
    MaxEvents = 1
SPECIFICATION FairSpec
INVARIANTS
    IInv
    AckedStored
    OptOutHonoured
    CooldownKept
PROPERTIES
    EveryChannelTried
