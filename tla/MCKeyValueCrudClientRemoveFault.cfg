\* One client; the SET_REMOVE of a remove may fail.
CONSTANTS
    Clients = {c1}
    Ids <- MCIds
    Names <- MCNames
    DefaultName = "default"
    Mods <- MCMods
    LockTypes <- MCLockTypes
    MaxFaults = 1
    MaxItems = 2
    NoId = NoId
    Absent = Absent
SPECIFICATION Spec
INVARIANT RemoveOkImpliesUnlisted
