\* Two nodes registering at once over one store, with a failed request
\* and two restarts.  After register_self every node is registered or has
\* failed and nothing more happens, so the end of a behaviour is no deadlock.
CONSTANTS
    n1 = n1
    n2 = n2
    Clients = {n1, n2}
    Ids <- MCIds
    Names <- MCNames
    DefaultName = "default"
    Mods <- MCMods
    LockTypes <- MCLockTypes
    MaxFaults = 1
    MaxItems = 1
    NoId = NoId
    Absent = Absent
    NodeName <- MCNodeName
    MaxRestarts = 2
SPECIFICATION DSpec
INVARIANTS NodeTypeOK OneRecordPerNode RegisteredFindsSelf CreateOkDurable
PROPERTIES RegistryRefined
CHECK_DEADLOCK FALSE
