--------------------------- MODULE SequenceValues ---------------------------
(***************************************************************************)
(* What a Dafny sequence promises its callers (spec.md 3, 4.2, 8): every   *)
(* handle denotes one immutable mathematical sequence.  Concatenation,     *)
(* slicing and point update make new values and never change an old one;   *)
(* reads return the value, equality is element-wise equality and the      *)
(* partial order is the strict-prefix order.                               *)
(*                                                                         *)
(* vals[h] is the value of handle h.  observed records the last call: its *)
(* operation, its arguments and what it returned (arr for an array or an  *)
(* element, cmp for a comparison).                                        *)
(***************************************************************************)
EXTENDS Naturals, Sequences, SequencesExt

CONSTANTS Values, MaxHandles, MaxLiteral

VARIABLES vals, observed

absVars == <<vals, observed>>

Call(op, args, arr, cmp) == [op |-> op, args |-> args, arr |-> arr, cmp |-> cmp]

NoResult == Call("none", <<>>, <<>>, "none")

\* The reference partial order on sequences: prefix inclusion.
PrefixOrder(a, b) ==
    CASE a = b                 -> "Equal"
      [] IsStrictPrefix(a, b)  -> "Less"
      [] IsStrictPrefix(b, a)  -> "Greater"
      [] OTHER                 -> "None"

Init ==
    /\ vals = <<>>
    /\ observed = NoResult

NewValue(v, op, args) ==
    /\ Len(vals) < MaxHandles
    /\ vals' = Append(vals, v)
    /\ observed' = Call(op, args, <<>>, "none")

Reply(op, args, arr, cmp) ==
    /\ observed' = Call(op, args, arr, cmp)
    /\ UNCHANGED vals

Literal == \E vs \in BoundedSeq(Values, MaxLiteral) : NewValue(vs, "literal", <<vs>>)

Concat(i, j) == NewValue(vals[i] \o vals[j], "concat", <<i, j>>)

Slice(i) ==
    \E lo \in 0..Len(vals[i]), hi \in 0..Len(vals[i]) :
        lo <= hi /\ NewValue(SubSeq(vals[i], lo + 1, hi), "slice", <<i, lo, hi>>)

Update(i) ==
    \E k \in 1..Len(vals[i]), v \in Values :
        NewValue([vals[i] EXCEPT ![k] = v], "update", <<i, k - 1, v>>)

\* Upcast re-tags the element type only: the same sequence (spec.md 8).
Upcast(i) == NewValue(vals[i], "upcast", <<i>>)

Read(i) == Reply("read", <<i>>, vals[i], "none")

ReadElement(i) ==
    \E k \in 1..Len(vals[i]) : Reply("get", <<i, k - 1>>, <<vals[i][k]>>, "none")

Equal(i, j) ==
    Reply("eq", <<i, j>>, <<>>, IF vals[i] = vals[j] THEN "true" ELSE "false")

Compare(i, j) == Reply("cmp", <<i, j>>, <<>>, PrefixOrder(vals[i], vals[j]))

Next ==
    \/ Literal
    \/ \E i \in DOMAIN vals :
         \/ Slice(i) \/ Update(i) \/ Upcast(i) \/ Read(i) \/ ReadElement(i)
         \/ \E j \in DOMAIN vals :
              Concat(i, j) \/ Equal(i, j) \/ Compare(i, j)

Spec == Init /\ [][Next]_absVars

=============================================================================
