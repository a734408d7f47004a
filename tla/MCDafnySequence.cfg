CONSTANTS
    v1 = v1
    v2 = v2
    Values <- MCValues
    MaxHandles = 4
    MaxLiteral = 1

SPECIFICATION Spec

SYMMETRY Symmetry

INVARIANT TypeOK
INVARIANT LengthMatchesContent

PROPERTY ImplementsSequenceValues
