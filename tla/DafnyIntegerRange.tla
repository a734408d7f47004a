-------------------------- MODULE DafnyIntegerRange --------------------------
(***************************************************************************)
(* The iterators that Dafny's compiled loops, quantifiers and set/map      *)
(* comprehensions run over (lib.rs): integer_range(low, hi),               *)
(* integer_range_down(hi, low), integer_range_unbounded(low),              *)
(* integer_range_down_unbounded(hi) and exact_range(value).  A is a        *)
(* Width-bit two's complement integer type, built with overflow checks, so *)
(* an overflowing + One::one() or - One::one() panics.                     *)
(*                                                                         *)
(* One iterator is live at a time: the caller creates one, calls next()    *)
(* on it, and may drop it at any point (a break) to create the next one.   *)
(* out holds the items next() returned so far; origin is the argument the  *)
(* iterator was created from (ghost, for the properties).                  *)
(***************************************************************************)
EXTENDS Integers, Sequences

CONSTANTS Width, Panic

IntMin == -(2 ^ (Width - 1))
IntMax == 2 ^ (Width - 1) - 1
ValuesOfA == IntMin..IntMax

\* No iterator over A yields more than the 2^Width values of A; the bound
\* keeps out finite should an iterator cycle.
YieldBound == 2 ^ Width

\* self.current + One::one() and self.current - One::one() in A.
Succ(x) == IF x < IntMax THEN x + 1 ELSE Panic
Pred(x) == IF x > IntMin THEN x - 1 ELSE Panic

VARIABLES kind,     \* which iterator is live, or "none"
          current,  \* its field current
          limit,    \* hi of IntegerRange, low of IntegerRangeDown
          yielded,  \* the field yielded of ExactPool
          out,      \* the items returned so far
          status,   \* "idle", "running", "exhausted" or "panicked"
          origin    \* ghost: the argument current started from

vars == <<kind, current, limit, yielded, out, status, origin>>

Init ==
    /\ kind = "none"
    /\ current = 0
    /\ limit = 0
    /\ yielded = FALSE
    /\ out = <<>>
    /\ status = "idle"
    /\ origin = 0

\* Creating an iterator; a panic has ended the program.
Start(k, cur, lim) ==
    /\ status # "panicked"
    /\ kind' = k
    /\ current' = cur
    /\ limit' = lim
    /\ yielded' = FALSE
    /\ out' = <<>>
    /\ status' = "running"
    /\ origin' = cur

IntegerRange(low, hi) == Start("up", low, hi)
IntegerRangeDown(hi, low) == Start("down", hi, low)
IntegerRangeUnbounded(low) == Start("up_unbounded", low, 0)
IntegerRangeDownUnbounded(hi) == Start("down_unbounded", hi, 0)
ExactRange(value) == Start("exact", value, 0)

\* next() returns item after setting current to c (or panics computing c).
Yield(c, item) ==
    IF c = Panic
    THEN /\ status' = "panicked"
         /\ UNCHANGED <<current, out>>
    ELSE /\ Len(out) < YieldBound
         /\ current' = c
         /\ out' = Append(out, item)
         /\ UNCHANGED status

\* next() returns None.
Exhaust ==
    /\ status' = "exhausted"
    /\ UNCHANGED <<current, out>>

\* Defect of IntegerRange::next: current <= hi, the bound included.
NextUpInclusive ==
    /\ kind = "up" /\ status = "running"
    /\ IF current <= limit THEN Yield(Succ(current), current) ELSE Exhaust
    /\ UNCHANGED <<kind, limit, yielded, origin>>

\* IntegerRange::next: the current value, then current + 1, while below hi.
NextUp ==
    /\ kind = "up" /\ status = "running"
    /\ IF current < limit THEN Yield(Succ(current), current) ELSE Exhaust
    /\ UNCHANGED <<kind, limit, yielded, origin>>

\* Defect of IntegerRangeDown::next: the value returned before decrementing.
NextDownLate ==
    /\ kind = "down" /\ status = "running"
    /\ IF current > limit THEN Yield(Pred(current), current) ELSE Exhaust
    /\ UNCHANGED <<kind, limit, yielded, origin>>

\* IntegerRangeDown::next: while above low, decrement, then return current.
NextDown ==
    /\ kind = "down" /\ status = "running"
    /\ IF current > limit THEN Yield(Pred(current), Pred(current)) ELSE Exhaust
    /\ UNCHANGED <<kind, limit, yielded, origin>>

\* IntegerRangeUnbounded::next: the current value, then current + 1.
NextUpUnbounded ==
    /\ kind = "up_unbounded" /\ status = "running"
    /\ Yield(Succ(current), current)
    /\ UNCHANGED <<kind, limit, yielded, origin>>

\* IntegerRangeDownUnbounded::next: decrement, then return current.
NextDownUnbounded ==
    /\ kind = "down_unbounded" /\ status = "running"
    /\ Yield(Pred(current), Pred(current))
    /\ UNCHANGED <<kind, limit, yielded, origin>>

\* ExactPool::next: the value once, then None.
NextExact ==
    /\ kind = "exact" /\ status = "running"
    /\ IF yielded
       THEN Exhaust /\ UNCHANGED yielded
       ELSE yielded' = TRUE /\ Yield(current, current)
    /\ UNCHANGED <<kind, limit, origin>>

Next ==
    \/ \E low, hi \in ValuesOfA : IntegerRange(low, hi) \/ IntegerRangeDown(hi, low)
    \/ \E v \in ValuesOfA :
         IntegerRangeUnbounded(v) \/ IntegerRangeDownUnbounded(v) \/ ExactRange(v)
    \/ NextUp \/ NextDown \/ NextUpUnbounded \/ NextDownUnbounded \/ NextExact

Spec == Init /\ [][Next]_vars

-----------------------------------------------------------------------------
(* Properties.  The reference is the interval each iterator denotes in     *)
(* Dafny: low..hi ascending, hi down to low exclusive of hi, every integer *)
(* from low up, every integer below hi down, and the single value.         *)

\* The i-th integer of the reference sequence of the live iterator.
Term(i) ==
    CASE kind \in {"up", "up_unbounded"}     -> origin + (i - 1)
      [] kind \in {"down", "down_unbounded"} -> origin - i
      [] OTHER                               -> origin

\* The length of the reference sequence (all of A for an unbounded one).
Count ==
    CASE kind = "up"    -> IF limit > origin THEN limit - origin ELSE 0
      [] kind = "down"  -> IF origin > limit THEN origin - limit ELSE 0
      [] kind = "exact" -> 1
      [] OTHER          -> IntMax - IntMin + 1

\* Every iterator returns a prefix of its interval, in order, each integer
\* once, and when it returns None it has returned all of it: the bound of
\* integer_range is excluded, the hi of integer_range_down is excluded and
\* its low included, and exact_range yields its value exactly once.
YieldsExactlyTheRange ==
    /\ Len(out) <= Count
    /\ \A i \in 1..Len(out) : out[i] = Term(i)
    /\ status = "exhausted" => Len(out) = Count

\* The bounded ranges never panic, even with hi = MAX or low = MIN, where
\* the code computes current + 1 = hi and current - 1 = low at the edge of
\* A.  An unbounded one panics only at the edge of A, and the two differ
\* there: integer_range_down_unbounded returns MIN and panics on the call
\* after, while integer_range_unbounded computes MAX + 1 before returning
\* MAX, so MAX is the item it panics on instead of returning.
PanicsOnlyAtTheEdge ==
    status = "panicked" =>
        \/ kind = "up_unbounded" /\ Term(Len(out) + 1) = IntMax
        \/ kind = "down_unbounded" /\ Term(Len(out) + 1) = IntMin - 1

=============================================================================
