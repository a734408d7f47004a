\* A = a 4-bit signed machine integer in a release build (wrapping
\* arithmetic), standing for i8..i64 at their MIN.
CONSTANTS
    Width = 4
    Build = "release"
    Panic = Panic
    Operands <- NibbleOperands

SPECIFICATION Spec

INVARIANT EuclideanContract
