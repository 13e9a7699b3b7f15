\* One client and a store whose requests all succeed.
CONSTANTS
    Clients = {c1}
    Ids <- MCIds
    Names <- MCNames
    DefaultName = "default"
    Mods <- MCMods
    LockTypes <- MCLockTypes
    MaxFaults = 0
    MaxItems = 2
    NoId = NoId
    Absent = Absent
SPECIFICATION Spec
INVARIANTS TypeOK IndexConsistent
PROPERTIES ReadAllComplete
