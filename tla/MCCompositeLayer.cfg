CONSTANTS
    Size <- MCSize
    IsWriteValues <- MCIsWriteValues

SPECIFICATION Spec

INVARIANT TypeOK
INVARIANT NoOverlap
PROPERTY MatchSound
 
