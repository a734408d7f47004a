----------------------------- MODULE DafnyEuclid -----------------------------
(***************************************************************************)
(* euclidian_division and euclidian_modulo of dafny_runtime_rust (lib.rs), *)
(* generic over A: Signed, and dafny_rational_to_int, which floors a       *)
(* BigRational through euclidian_division.  Dafny compiles / and % on int  *)
(* to these helpers; A is DafnyInt's BigInt or a fixed-width machine       *)
(* integer of a bounded newtype.                                           *)
(*                                                                         *)
(* The helpers are built from Rust's truncating / and %, unary minus, abs, *)
(* + and -.  With Width = 0 they are BigInt operations and never          *)
(* overflow.  With Width = w > 0 they are w-bit two's complement: an       *)
(* overflowing -, +, abs panics in a debug build and wraps in a release    *)
(* build; MIN / -1, MIN % -1 and a zero divisor panic in both builds.      *)
(* Panic is the outcome of a panicking expression.                         *)
(*                                                                         *)
(* The state is the last call: its operation, its operands and its result. *)
(***************************************************************************)
EXTENDS Integers

CONSTANTS Width, Build, Panic, Operands

VARIABLES call, result

vars == <<call, result>>

IntMin == -(2 ^ (Width - 1))
IntMax == 2 ^ (Width - 1) - 1

Representable(x) == Width = 0 \/ x \in IntMin..IntMax

\* Two's complement wrap-around into Width bits.
Wrap(x) == ((x - IntMin) % (2 ^ Width)) + IntMin

\* The outcome of an arithmetic result x in type A under the build.
Fix(x) ==
    IF Representable(x) THEN x
    ELSE IF Build = "release" THEN Wrap(x) ELSE Panic

AbsInt(x) == IF x < 0 THEN -x ELSE x

\* Rust's integer / and %: the quotient rounds toward zero, the remainder
\* has the sign of the dividend.
TruncQuot(x, y) ==
    IF (x >= 0) = (y > 0) THEN AbsInt(x) \div AbsInt(y) ELSE -(AbsInt(x) \div AbsInt(y))
TruncRem(x, y) == x - y * TruncQuot(x, y)

Neg(x) == IF x = Panic THEN Panic ELSE Fix(-x)
Plus(x, y) == IF x = Panic \/ y = Panic THEN Panic ELSE Fix(x + y)
Minus(x, y) == IF x = Panic \/ y = Panic THEN Panic ELSE Fix(x - y)
Abs(x) == IF x = Panic THEN Panic ELSE IF x < 0 THEN Neg(x) ELSE x

DivisionPanics(x, y) ==
    x = Panic \/ y = Panic \/ y = 0 \/ (Width > 0 /\ x = IntMin /\ y = -1)
Quot(x, y) == IF DivisionPanics(x, y) THEN Panic ELSE TruncQuot(x, y)
Rem(x, y) == IF DivisionPanics(x, y) THEN Panic ELSE TruncRem(x, y)

\* Defect of euclidian_division: a negative dividend over a positive divisor
\* truncated as -((-a) / b), the floor correction lost.
DivisionTruncating(a, b) ==
    IF a >= 0
    THEN IF b >= 0 THEN Quot(a, b) ELSE Neg(Quot(a, Neg(b)))
    ELSE IF b >= 0 THEN Neg(Quot(Neg(a), b))
         ELSE Plus(Quot(Neg(Plus(a, 1)), Neg(b)), 1)

\* euclidian_division: four sign cases; a negative dividend is shifted by
\* one so that the truncating quotient becomes the Euclidean one.
EuclidianDivision(a, b) ==
    IF a >= 0
    THEN IF b >= 0 THEN Quot(a, b) ELSE Neg(Quot(a, Neg(b)))
    ELSE IF b >= 0 THEN Minus(Neg(Quot(Neg(Plus(a, 1)), b)), 1)
         ELSE Plus(Quot(Neg(Plus(a, 1)), Neg(b)), 1)

\* euclidian_modulo: for a negative dividend, |b| - ((-a) % |b|) unless the
\* remainder is zero.
EuclidianModulo(a, b) ==
    IF a >= 0
    THEN IF b >= 0 THEN Rem(a, b) ELSE Rem(a, Neg(b))
    ELSE LET bp == Abs(b)
             c == Rem(Neg(a), bp)
         IN IF c = 0 THEN 0 ELSE Minus(bp, c)

\* dafny_rational_to_int: the numerator divided by the positive denominator
\* a BigRational keeps.
DafnyRationalToInt(n, d) == EuclidianDivision(n, d)

-----------------------------------------------------------------------------
(* One call per step: Dafny's verifier guarantees a non-zero divisor.      *)

NoCall == [op |-> "none", a |-> 0, b |-> 0]

Init ==
    /\ call = NoCall
    /\ result = 0

Divide ==
    \E a \in Operands, b \in Operands \ {0} :
        /\ call' = [op |-> "div", a |-> a, b |-> b]
        /\ result' = EuclidianDivision(a, b)

Modulo ==
    \E a \in Operands, b \in Operands \ {0} :
        /\ call' = [op |-> "mod", a |-> a, b |-> b]
        /\ result' = EuclidianModulo(a, b)

RationalToInt ==
    \E n \in Operands, d \in {x \in Operands : x > 0} :
        /\ call' = [op |-> "floor", a |-> n, b |-> d]
        /\ result' = DafnyRationalToInt(n, d)

Next == Divide \/ Modulo \/ RationalToInt

Spec == Init /\ [][Next]_vars

-----------------------------------------------------------------------------
(* Properties.  The reference is mathematical: the Euclidean quotient q    *)
(* and remainder r of a by b are the unique integers with a = q * b + r    *)
(* and 0 <= r < |b|; the floor of n / d for d > 0 is n \div d.             *)

EuclidQuot(a, b) == CHOOSE q \in -AbsInt(a)..AbsInt(a) :
                        a - q * b \in 0..(AbsInt(b) - 1)
EuclidRem(a, b) == a - EuclidQuot(a, b) * b

Expected ==
    CASE call.op = "div"   -> EuclidQuot(call.a, call.b)
      [] call.op = "mod"   -> EuclidRem(call.a, call.b)
      [] call.op = "floor" -> call.a \div call.b
      [] OTHER             -> 0

\* The contract spec.md states for euclidian_division, euclidian_modulo and
\* the floor of a rational: whenever the mathematical answer exists in A,
\* the helper returns exactly it: a = div * b + mod with 0 <= mod < |b|,
\* never a panic and never a wrapped value.  The four sign branches of each
\* helper and the intermediate negations are what can get it wrong.
EuclideanContract ==
    Representable(Expected) => result = Expected

=============================================================================
