\* Three handle variables: a class handle and two dyn Trait handles
\* upcast from it, which may have got different vtables.  Two addresses,
\* so that a cell is freed and another allocated while handles live.
CONSTANTS
    Slots = {s1, s2, s3}
    Cells = {c1, c2}
    VTables = {v1, v2}
    Null = Null

SPECIFICATION Spec

INVARIANT HashAgreesWithEq
