\* Two threads: one finishes while the other makes a call.
CONSTANTS
    Threads = {t1, t2}
    MaxInits <- MCMaxInits
    Null = Null
SPECIFICATION Spec
INVARIANT NoClientUseAfterFree
