\* A = DafnyInt (BigInt): no overflow in any build.
CONSTANTS
    Width = 0
    Build = "release"
    Panic = Panic
    Operands <- BigIntOperands

SPECIFICATION Spec

INVARIANT EuclideanContract
