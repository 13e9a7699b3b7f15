\* One thread starts the server; requests arrive at any time.
CONSTANTS
    Threads = {t1}
    MaxInits <- MCMaxInits
    Null = Null
SPECIFICATION Spec
INVARIANT NoDanglingWebApp
