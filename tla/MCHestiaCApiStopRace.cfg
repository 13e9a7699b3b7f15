\* Two threads: one starts the server while the other stops it.
CONSTANTS
    Threads = {t1, t2}
    MaxInits <- MCMaxInits
    Null = Null
SPECIFICATION Spec
INVARIANT NoServerUseAfterFree
