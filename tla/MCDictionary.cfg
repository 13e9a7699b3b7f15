\* The methods of one Dictionary with small arguments.
CONSTANTS
    Keys <- MCKeys
    Scalars <- MCScalars
    MaxSeq = 1
    MaxDepth = 2
SPECIFICATION Spec
INVARIANTS TypeOK GetScalarFindsPath ExpandInvertsFlatten GetScalarsMatchesFlatten
