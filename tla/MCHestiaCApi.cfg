\* One thread calling the whole API in any order.
CONSTANTS
    Threads = {t1}
    MaxInits <- MCMaxInits
    Null = Null
SPECIFICATION Spec
INVARIANTS TypeOK NoClientUseAfterFree
