\* from_path_only against the Host form: a path-style request "/c/k/..."
\* loses the slashes of its key.
CONSTANTS
    Chars <- MCChars
    Hosts <- MCHosts
    MaxLen = 5
SPECIFICATION Spec
INVARIANT PathStyleAgreesWithHost
\* The parse of a path ends: a state with no successor is its result.
CHECK_DEADLOCK FALSE
