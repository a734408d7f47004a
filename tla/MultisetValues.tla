--------------------------- MODULE MultisetValues ---------------------------
(***************************************************************************)
(* What a Dafny multiset promises (spec.md 3, 4.3, 8): every handle is an  *)
(* immutable bag.  merge adds multiplicities, intersect takes the minimum, *)
(* subtract clamps at zero, update_count sets one multiplicity; the        *)
(* cardinality is the total number of occurrences; equality is bag         *)
(* equality and the partial order is bag inclusion; the native vector of  *)
(* a multiset holds each element as often as it occurs.                    *)
(*                                                                         *)
(* observed records the last call: its operation, its arguments and what  *)
(* it returned (cmp for a comparison, num for a number).                  *)
(***************************************************************************)
EXTENDS Naturals, Sequences, SequencesExt, Bags

CONSTANTS Values, MaxHandles, MaxLiteral, MaxCount

VARIABLES vals, observed

absVars == <<vals, observed>>

Call(op, args, cmp, num) == [op |-> op, args |-> args, cmp |-> cmp, num |-> num]

NoResult == Call("none", <<>>, "none", 0)

BagIntersect(a, b) ==
    [e \in DOMAIN a \cap DOMAIN b |-> IF a[e] < b[e] THEN a[e] ELSE b[e]]

\* The bag with the multiplicity of v set to n.
BagSetCount(a, v, n) ==
    [e \in {d \in DOMAIN a \cup {v} : d # v \/ n > 0} |-> IF e = v THEN n ELSE a[e]]

\* The reference partial order on bags: inclusion.
InclusionOrder(a, b) ==
    CASE a = b             -> "Equal"
      [] a \sqsubseteq b   -> "Less"
      [] b \sqsubseteq a   -> "Greater"
      [] OTHER             -> "None"

SeqToBag(s) == [e \in ToSet(s) |-> Cardinality({k \in DOMAIN s : s[k] = e})]

Init ==
    /\ vals = <<>>
    /\ observed = NoResult

NewValue(b, op, args) ==
    /\ Len(vals) < MaxHandles
    /\ vals' = Append(vals, b)
    /\ observed' = Call(op, args, "none", 0)

Reply(op, args, c, n) ==
    /\ observed' = Call(op, args, c, n)
    /\ UNCHANGED vals

Truth(b) == IF b THEN "true" ELSE "false"

Literal ==
    \E s \in BoundedSeq(Values, MaxLiteral) : NewValue(SeqToBag(s), "literal", <<s>>)

FromMap ==
    \E S \in SUBSET Values : \E f \in [S -> 1..MaxCount] : NewValue(f, "from_map", <<f>>)

Next ==
    \/ Literal
    \/ FromMap
    \/ \E i \in DOMAIN vals :
         \/ \E v \in Values, n \in 0..MaxCount :
              NewValue(BagSetCount(vals[i], v, n), "update_count", <<i, v, n>>)
         \/ NewValue(vals[i], "upcast", <<i>>)
         \/ Reply("cardinality", <<i>>, "none", BagCardinality(vals[i]))
         \/ \E v \in Values : Reply("get", <<i, v>>, "none", CopiesIn(v, vals[i]))
         \/ \E v \in Values : Reply("to_vec", <<i, v>>, "none", CopiesIn(v, vals[i]))
         \/ \E j \in DOMAIN vals :
              \/ NewValue(vals[i] (+) vals[j], "merge", <<i, j>>)
              \/ NewValue(BagIntersect(vals[i], vals[j]), "intersect", <<i, j>>)
              \/ NewValue(vals[i] (-) vals[j], "subtract", <<i, j>>)
              \/ Reply("eq", <<i, j>>, Truth(vals[i] = vals[j]), 0)
              \/ Reply("disjoint", <<i, j>>,
                       Truth(DOMAIN vals[i] \cap DOMAIN vals[j] = {}), 0)
              \/ Reply("cmp", <<i, j>>, InclusionOrder(vals[i], vals[j]), 0)

Spec == Init /\ [][Next]_absVars

=============================================================================
