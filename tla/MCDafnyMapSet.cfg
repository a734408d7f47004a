CONSTANTS
    v1 = v1
    v2 = v2
    Values <- MCValues
    MaxHandles = 3
    MaxLiteral = 2

SPECIFICATION Spec

SYMMETRY Symmetry

PROPERTY ImplementsMapSetValues
