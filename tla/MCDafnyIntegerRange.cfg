\* A 4-bit signed A: 16 values, so every range up to the edges MIN and MAX
\* is enumerated.  A panic ends the program, so the panicked state is final.
CONSTANTS
    Width = 4
    Panic = Panic

SPECIFICATION Spec

CHECK_DEADLOCK FALSE

INVARIANT YieldsExactlyTheRange
INVARIANT PanicsOnlyAtTheEdge
