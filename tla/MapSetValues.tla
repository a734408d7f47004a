---------------------------- MODULE MapSetValues ----------------------------
(***************************************************************************)
(* What Dafny's immutable set and map promise (spec.md 3, 4.3): every      *)
(* handle is one mathematical set or finite map, never changed.  Set union,*)
(* intersection and difference; map union in which the right operand's     *)
(* binding wins, map minus a set of keys, point update; keys and values;  *)
(* a map display in which a later binding of a key overrides an earlier   *)
(* one.  Equality is extensional and the set order is inclusion.          *)
(*                                                                         *)
(* observed records the last call: operation, arguments and answer.       *)
(***************************************************************************)
EXTENDS Naturals, FiniteSets, Sequences, SequencesExt

CONSTANTS Values, MaxHandles, MaxLiteral

VARIABLES svals, mvals, observed

absVars == <<svals, mvals, observed>>

Call(op, args, res) == [op |-> op, args |-> args, res |-> res]

NoResult == Call("none", <<>>, "none")

Truth(b) == IF b THEN "true" ELSE "false"

InclusionOrder(a, b) ==
    CASE a = b            -> "Equal"
      [] a \subseteq b    -> "Less"
      [] b \subseteq a    -> "Greater"
      [] OTHER            -> "None"

\* The map a display of key/value pairs denotes: the last binding wins.
Display(s) ==
    [k \in {p[1] : p \in ToSet(s)} |->
        s[CHOOSE i \in DOMAIN s : s[i][1] = k /\ \A j \in DOMAIN s : s[j][1] = k => j <= i][2]]

\* Map union, the right operand's binding winning on a shared key.
Override(m, o) == [k \in DOMAIN m \cup DOMAIN o |-> IF k \in DOMAIN o THEN o[k] ELSE m[k]]

Init ==
    /\ svals = <<>>
    /\ mvals = <<>>
    /\ observed = NoResult

Room == Len(svals) + Len(mvals) < MaxHandles

NewSet(s, op, args) ==
    /\ Room
    /\ svals' = Append(svals, s)
    /\ observed' = Call(op, args, "none")
    /\ UNCHANGED mvals

NewMap(m, op, args) ==
    /\ Room
    /\ mvals' = Append(mvals, m)
    /\ observed' = Call(op, args, "none")
    /\ UNCHANGED svals

Reply(op, args, res) ==
    /\ observed' = Call(op, args, res)
    /\ UNCHANGED <<svals, mvals>>

SetNext ==
    \/ \E s \in BoundedSeq(Values, MaxLiteral) : NewSet(ToSet(s), "set_literal", <<s>>)
    \/ \E i \in DOMAIN svals :
         \/ NewSet(svals[i], "set_upcast", <<i>>)
         \/ Reply("set_card", <<i>>, Cardinality(svals[i]))
         \/ \E v \in Values : Reply("set_contains", <<i, v>>, Truth(v \in svals[i]))
         \/ \E v \in svals[i] : Reply("peek", <<i>>, v)
         \/ \E j \in DOMAIN svals :
              \/ NewSet(svals[i] \cup svals[j], "set_merge", <<i, j>>)
              \/ NewSet(svals[i] \cap svals[j], "set_intersect", <<i, j>>)
              \/ NewSet(svals[i] \ svals[j], "set_subtract", <<i, j>>)
              \/ Reply("set_disjoint", <<i, j>>, Truth(svals[i] \cap svals[j] = {}))
              \/ Reply("set_eq", <<i, j>>, Truth(svals[i] = svals[j]))
              \/ Reply("set_cmp", <<i, j>>, InclusionOrder(svals[i], svals[j]))

MapNext ==
    \/ \E s \in BoundedSeq(Values \X Values, MaxLiteral) :
         NewMap(Display(s), "map_literal", <<s>>)
    \/ \E i \in DOMAIN mvals :
         \/ \E k, v \in Values : NewMap(Override(mvals[i], k :> v), "map_update", <<i, k, v>>)
         \/ NewMap(mvals[i], "map_upcast", <<i>>)
         \/ NewSet(DOMAIN mvals[i], "keys", <<i>>)
         \/ NewSet({mvals[i][k] : k \in DOMAIN mvals[i]}, "values", <<i>>)
         \/ Reply("map_card", <<i>>, Cardinality(DOMAIN mvals[i]))
         \/ \E k \in Values :
              Reply("get_or_none", <<i, k>>, IF k \in DOMAIN mvals[i] THEN mvals[i][k] ELSE "none")
         \/ \E j \in DOMAIN mvals :
              \/ NewMap(Override(mvals[i], mvals[j]), "map_merge", <<i, j>>)
              \/ Reply("map_eq", <<i, j>>, Truth(mvals[i] = mvals[j]))
         \/ \E j \in DOMAIN svals :
              NewMap([k \in DOMAIN mvals[i] \ svals[j] |-> mvals[i][k]], "map_subtract", <<i, j>>)

Next == SetNext \/ MapNext

Spec == Init /\ [][Next]_absVars

=============================================================================
