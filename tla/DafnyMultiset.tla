--------------------------- MODULE DafnyMultiset ---------------------------
(***************************************************************************)
(* The multiset of dafny_runtime_rust (lib.rs, struct Multiset): a         *)
(* HashMap from element to DafnyInt multiplicity, `data`, and a separately *)
(* kept total, `size`.  Every operation builds a new value; none mutates   *)
(* an operand.  A multiset here is the record [data |-> f, size |-> n]     *)
(* with f a function from a set of elements to integers.                   *)
(*                                                                         *)
(* handles are the multisets the generated caller holds; observed is the  *)
(* caller's last call: operation, arguments and what it returned.         *)
(***************************************************************************)
EXTENDS Integers, Sequences, SequencesExt, TLC

CONSTANTS Values, MaxHandles, MaxLiteral, MaxCount

VARIABLES handles, observed

vars == <<handles, observed>>

Call(op, args, cmp, num) == [op |-> op, args |-> args, cmp |-> cmp, num |-> num]

NoResult == Call("none", <<>>, "none", 0)

\* HashMap::insert and HashMap::remove on the data map.
InsertEntry(f, k, n) == (k :> n) @@ f
RemoveEntry(f, k) == [e \in DOMAIN f \ {k} |-> f[e]]

\* get_total: the sum of all multiplicities of a map.
GetTotal(f) == FoldFunction(LAMBDA x, y : x + y, 0, f)

\* from_hashmap_owned: the size is recomputed from the map.
FromHashmapOwned(f) == [data |-> f, size |-> GetTotal(f)]

\* from_iterator (and the multiset! macro, from_array, from_set,
\* vec_to_dafny_multiset): one insert-or-increment and one increment of the
\* total per element.
FromIterator(s) ==
    LET step(acc, v) ==
            [data |-> InsertEntry(acc.data, v,
                             (IF v \in DOMAIN acc.data THEN acc.data[v] ELSE 0) + 1),
             size |-> acc.size + 1]
    IN FoldLeft(step, [data |-> <<>>, size |-> 0], s)

\* dafny_multiset_to_owned_vec: for each (value, count) of data, in the
\* HashMap's order, count.to_usize().unwrap() clones of the value pushed.
OwnedVec(m) ==
    FoldLeft(LAMBDA acc, k : acc \o [n \in 1..m.data[k] |-> k], <<>>, SetToSeq(DOMAIN m.data))

\* get: 0 for an absent element.
Get(m, v) == IF v \in DOMAIN m.data THEN m.data[v] ELSE 0

\* contains: present with a positive multiplicity.
MultisetContains(m, v) == v \in DOMAIN m.data /\ m.data[v] > 0

\* update_count
UpdateCount(m, v, n) ==
    [data |-> IF n = 0 THEN RemoveEntry(m.data, v) ELSE InsertEntry(m.data, v, n),
     size |-> m.size + n - Get(m, v)]

\* Defect of merge: the total of the result is self's total.
MergeKeepingSelfSize(m, o) ==
    CASE o.size = 0 -> m
      [] m.size = 0 -> o
      [] OTHER ->
           [data |-> [k \in DOMAIN m.data \cup DOMAIN o.data |->
                        IF k \in DOMAIN o.data THEN Get(m, k) + o.data[k]
                        ELSE m.data[k]],
            size |-> m.size]

\* merge: other's multiplicities are added to self's; size is the sum.
Merge(m, o) ==
    CASE o.size = 0 -> m
      [] m.size = 0 -> o
      [] OTHER ->
           [data |-> [k \in DOMAIN m.data \cup DOMAIN o.data |->
                        IF k \in DOMAIN o.data THEN Get(m, k) + o.data[k]
                        ELSE m.data[k]],
            size |-> m.size + o.size]

\* Defect of intersect: the larger of the two multiplicities is kept.
IntersectTakingMax(m, o) ==
    CASE o.size = 0 -> o
      [] m.size = 0 -> m
      [] OTHER ->
           LET cnt(k) == IF Get(m, k) < o.data[k] THEN o.data[k] ELSE Get(m, k)
               kept == {k \in DOMAIN o.data : cnt(k) > 0}
               f == [k \in kept |-> cnt(k)]
           IN [data |-> f, size |-> GetTotal(f)]

\* intersect: over other's entries, the smaller multiplicity, kept only if
\* positive; the size is summed while building.
Intersect(m, o) ==
    CASE o.size = 0 -> o
      [] m.size = 0 -> m
      [] OTHER ->
           LET cnt(k) == IF Get(m, k) < o.data[k] THEN Get(m, k) ELSE o.data[k]
               kept == {k \in DOMAIN o.data : cnt(k) > 0}
               f == [k \in kept |-> cnt(k)]
           IN [data |-> f, size |-> GetTotal(f)]

\* Defect of subtract: on clamping, other's multiplicity is taken off the
\* total instead of self's.
SubtractStepClampOther(m, acc, k, v) ==
    LET old == Get(m, k)
        new == old - v
    IN IF new <= 0
       THEN [data |-> RemoveEntry(acc.data, k), size |-> acc.size - v]
       ELSE [data |-> InsertEntry(acc.data, k, new), size |-> acc.size - v]

\* One loop step of subtract over an entry (k, v) of other.
SubtractStep(m, acc, k, v) ==
    LET old == Get(m, k)
        new == old - v
    IN IF new <= 0
       THEN [data |-> RemoveEntry(acc.data, k), size |-> acc.size - old]
       ELSE [data |-> InsertEntry(acc.data, k, new), size |-> acc.size - v]

\* subtract: self's map and total, corrected entry by entry over other.
Subtract(m, o) ==
    CASE o.size = 0 -> m
      [] m.size = 0 -> m
      [] OTHER ->
           FoldSet(LAMBDA k, acc : SubtractStep(m, acc, k, o.data[k]),
                   m, DOMAIN o.data)

\* disjoint: no entry of other is contained in self.
Disjoint(m, o) == \A k \in DOMAIN o.data : ~MultisetContains(m, k)

\* PartialEq::eq: equal sizes and every entry of other matched in self.
MultisetEq(m, o) ==
    /\ m.size = o.size
    /\ \A k \in DOMAIN o.data : MultisetContains(m, k) /\ Get(m, k) = o.data[k]

\* PartialOrd::partial_cmp, dispatched on the cardinalities.
MultisetPartialCmp(m, o) ==
    CASE m.size < o.size ->
           IF \E k \in DOMAIN o.data : ~MultisetContains(m, k) \/ Get(m, k) > Get(o, k)
           THEN "None" ELSE "Less"
      [] m.size = o.size ->
           IF \E k \in DOMAIN m.data : Get(m, k) # Get(o, k)
           THEN "None" ELSE "Equal"
      [] OTHER ->
           IF \E k \in DOMAIN m.data : ~MultisetContains(o, k) \/ Get(m, k) < Get(o, k)
           THEN "None" ELSE "Greater"

-----------------------------------------------------------------------------
(* Operations of the generated caller on the multisets it holds.          *)

Init ==
    /\ handles = <<>>
    /\ observed = NoResult

NewHandle(m, op, args) ==
    /\ Len(handles) < MaxHandles
    /\ handles' = Append(handles, m)
    /\ observed' = Call(op, args, "none", 0)

Observe(op, args, c, n) ==
    /\ observed' = Call(op, args, c, n)
    /\ UNCHANGED handles

Truth(b) == IF b THEN "true" ELSE "false"

NewFromIterator ==
    \E s \in BoundedSeq(Values, MaxLiteral) : NewHandle(FromIterator(s), "literal", <<s>>)

\* from_hashmap / from_hashmap_owned (also Map::as_dafny_multiset and the
\* upcast of a multiset) over a map with positive multiplicities.
NewFromHashmap ==
    \E S \in SUBSET Values : \E f \in [S -> 1..MaxCount] :
        NewHandle(FromHashmapOwned(f), "from_map", <<f>>)

\* ms[v := n] with a multiplicity n >= 0, as Dafny requires.
NewUpdateCount(i) ==
    \E v \in Values, n \in 0..MaxCount :
        NewHandle(UpdateCount(handles[i], v, n), "update_count", <<i, v, n>>)

\* UpcastTo<Multiset<V>> for Multiset<U>: each (value, count) of data,
\* the value upcast (an identity it keeps), inserted into a fresh HashMap
\* that from_hashmap_owned wraps, recomputing the size.
NewUpcast(i) == NewHandle(FromHashmapOwned(handles[i].data), "upcast", <<i>>)

NewMerge(i, j) == NewHandle(Merge(handles[i], handles[j]), "merge", <<i, j>>)
NewIntersect(i, j) == NewHandle(Intersect(handles[i], handles[j]), "intersect", <<i, j>>)
NewSubtract(i, j) == NewHandle(Subtract(handles[i], handles[j]), "subtract", <<i, j>>)

\* cardinality: the cached size.
QueryCardinality(i) == Observe("cardinality", <<i>>, "none", handles[i].size)
QueryGet(i) == \E v \in Values : Observe("get", <<i, v>>, "none", Get(handles[i], v))
QueryOwnedVec(i) ==
    LET vec == OwnedVec(handles[i])
    IN \E v \in Values :
         Observe("to_vec", <<i, v>>, "none", Cardinality({n \in DOMAIN vec : vec[n] = v}))
QueryEq(i, j) == Observe("eq", <<i, j>>, Truth(MultisetEq(handles[i], handles[j])), 0)
QueryDisjoint(i, j) ==
    Observe("disjoint", <<i, j>>, Truth(Disjoint(handles[i], handles[j])), 0)
QueryPartialCmp(i, j) ==
    Observe("cmp", <<i, j>>, MultisetPartialCmp(handles[i], handles[j]), 0)

\* Every operation except partial_cmp.
NextAlgebra ==
    \/ NewFromIterator
    \/ NewFromHashmap
    \/ \E i \in DOMAIN handles :
         \/ NewUpdateCount(i) \/ NewUpcast(i) \/ QueryCardinality(i) \/ QueryGet(i)
         \/ QueryOwnedVec(i)
         \/ \E j \in DOMAIN handles :
              \/ NewMerge(i, j) \/ NewIntersect(i, j) \/ NewSubtract(i, j)
              \/ QueryEq(i, j) \/ QueryDisjoint(i, j)

Next ==
    \/ NextAlgebra
    \/ \E i, j \in DOMAIN handles : QueryPartialCmp(i, j)

SpecAlgebra == Init /\ [][NextAlgebra]_vars
Spec == Init /\ [][Next]_vars

-----------------------------------------------------------------------------
(* Properties                                                              *)

TypeOK ==
    /\ \A h \in DOMAIN handles :
         /\ DOMAIN handles[h].data \subseteq Values
         /\ handles[h].size \in Nat
    /\ observed.cmp \in {"none", "true", "false", "Less", "Equal", "Greater", "None"}
    /\ observed.num \in Int

\* The cached total of every multiset equals the sum of its multiplicities,
\* and every stored multiplicity is positive (spec.md 3: removing the last
\* occurrence removes the entry).  cardinality, eq, partial_cmp and the
\* empty-operand short cuts of merge/intersect/subtract all read `size`
\* rather than the map, so a drift here silently changes their results.
SizeMatchesCounts ==
    \A h \in DOMAIN handles :
        /\ handles[h].size = GetTotal(handles[h].data)
        /\ \A k \in DOMAIN handles[h].data : handles[h].data[k] > 0

\* Refinement: each multiset denotes the bag of its positive entries; every
\* step of the implementation is then a step of MultisetValues, so every
\* operation computes the bag algebra and every query the bag answer.
Abstract == INSTANCE MultisetValues
    WITH vals <- [h \in DOMAIN handles |->
                    [k \in {d \in DOMAIN handles[h].data : handles[h].data[d] > 0} |->
                       handles[h].data[k]]]

ImplementsMultisetValues == Abstract!Spec

=============================================================================
