\* Two clients, no failures: an update during a remove.
CONSTANTS
    Clients = {c1, c2}
    Ids <- MCIds
    Names <- MCNames
    DefaultName = "default"
    Mods <- MCMods
    LockTypes <- MCLockTypes
    MaxFaults = 0
    MaxItems = 2
    NoId = NoId
    Absent = Absent
SPECIFICATION Spec
PROPERTY UpdateNeverCreates
