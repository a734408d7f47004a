----------------------------- MODULE DafnyMapSet -----------------------------
(***************************************************************************)
(* The immutable Set and Map of dafny_runtime_rust (lib.rs): a Set is an   *)
(* Rc<HashSet<V>>, a Map an Rc<HashMap<K, V>>.  Every operation builds a   *)
(* new HashSet or HashMap in a loop (after short cuts on an empty operand) *)
(* and wraps it; none mutates an operand.  A HashSet is modelled as a set, *)
(* a HashMap as a function; a loop over the entries as a set              *)
(* comprehension, since every loop here is order-independent.  Keys and   *)
(* values both range over Values.                                          *)
(*                                                                         *)
(* sets and maps are the values the generated caller holds; observed is   *)
(* its last call: operation, arguments and answer.                        *)
(***************************************************************************)
EXTENDS Naturals, FiniteSets, Sequences, SequencesExt, TLC

CONSTANTS Values, MaxHandles, MaxLiteral

VARIABLES sets, maps, observed

vars == <<sets, maps, observed>>

Call(op, args, res) == [op |-> op, args |-> args, res |-> res]

NoResult == Call("none", <<>>, "none")

Truth(b) == IF b THEN "true" ELSE "false"

\* cardinality_usize of a set: HashSet::len.
Card(s) == Cardinality(s)

\* Set::from_iterator / from_array, and SetBuilder::build over the keys it
\* was given: one HashSet::insert per element.
SetFromArray(a) == ToSet(a)

\* Set::merge: self's elements, then other's elements not yet in it.
SetMerge(s, o) ==
    CASE Card(s) = 0 -> o
      [] Card(o) = 0 -> s
      [] OTHER       -> s \cup {v \in o : v \notin s}

\* Set::intersect: self's elements that other contains.
SetIntersect(s, o) ==
    CASE Card(s) = 0 -> s
      [] Card(o) = 0 -> o
      [] OTHER       -> {v \in s : v \in o}

\* Set::subtract: self's elements that other does not contain.
SetSubtract(s, o) ==
    CASE Card(s) = 0 -> s
      [] Card(o) = 0 -> s
      [] OTHER       -> {v \in s : v \notin o}

\* Set::disjoint: the smaller side is probed against the larger.
SetDisjoint(s, o) ==
    CASE Card(s) = 0     -> TRUE
      [] Card(o) = 0     -> TRUE
      [] Card(o) < Card(s) -> \A v \in o : v \notin s
      [] OTHER           -> \A v \in s : v \notin o

\* PartialEq::eq on sets: equal sizes and containment both ways.
SetEq(s, o) ==
    /\ Card(s) = Card(o)
    /\ \A v \in s : v \in o
    /\ \A v \in o : v \in s

\* PartialOrd::partial_cmp on sets: inclusion, with the side to scan chosen
\* by size.
SetPartialCmp(s, o) ==
    IF Card(s) <= Card(o)
    THEN IF \E v \in s : v \notin o THEN "None"
         ELSE IF Card(s) = Card(o) THEN "Equal" ELSE "Less"
    ELSE IF \E v \in o : v \notin s THEN "None" ELSE "Greater"

\* cardinality_usize of a map: HashMap::len.
MapCard(m) == Cardinality(DOMAIN m)

\* HashMap::insert.
Insert(m, k, v) == (k :> v) @@ m

\* Map::from_iterator / from_array, and MapBuilder::add then build: one
\* HashMap::insert per pair, in order, so a later pair of a key replaces
\* an earlier one.
MapFromArray(a) == FoldLeft(LAMBDA acc, p : Insert(acc, p[1], p[2]), <<>>, a)

\* Defect of Map::merge: self's binding kept on a shared key.
MapMergeSelfWins(m, o) ==
    CASE MapCard(o) = 0 -> m
      [] MapCard(m) = 0 -> o
      [] OTHER ->
           [k \in DOMAIN o \cup DOMAIN m |-> IF k \in DOMAIN m THEN m[k] ELSE o[k]]

\* Map::merge: other's map, plus self's entries whose key other lacks.
MapMerge(m, o) ==
    CASE MapCard(o) = 0 -> m
      [] MapCard(m) = 0 -> o
      [] OTHER ->
           [k \in DOMAIN o \cup {d \in DOMAIN m : d \notin DOMAIN o} |->
              IF k \in DOMAIN o THEN o[k] ELSE m[k]]

\* Map::subtract: self's entries whose key is not in the set.
MapSubtract(m, keys) ==
    IF Card(keys) = 0 THEN m
    ELSE [k \in {d \in DOMAIN m : d \notin keys} |-> m[k]]

\* Map::update_index / update_index_owned: a clone with one insert.
MapUpdateIndex(m, k, v) == Insert(m, k, v)

\* Map::keys: a HashSet of the keys.
MapKeys(m) == {k : k \in DOMAIN m}

\* Map::values: the values pushed into a Vec, then Set::from_array.
MapValues(m) == SetFromArray(SetToSeq({m[k] : k \in DOMAIN m}))

\* PartialEq::eq on maps: equal sizes and each of self's entries found
\* with the same value in other.
MapEq(m, o) ==
    /\ MapCard(m) = MapCard(o)
    /\ \A k \in DOMAIN m : k \in DOMAIN o /\ o[k] = m[k]

\* Map::get_or_none.
MapGetOrNone(m, k) == IF k \in DOMAIN m THEN m[k] ELSE "none"

-----------------------------------------------------------------------------
(* Operations of the generated caller.                                    *)

Init ==
    /\ sets = <<>>
    /\ maps = <<>>
    /\ observed = NoResult

Room == Len(sets) + Len(maps) < MaxHandles

NewSet(s, op, args) ==
    /\ Room
    /\ sets' = Append(sets, s)
    /\ observed' = Call(op, args, "none")
    /\ UNCHANGED maps

NewMap(m, op, args) ==
    /\ Room
    /\ maps' = Append(maps, m)
    /\ observed' = Call(op, args, "none")
    /\ UNCHANGED sets

Reply(op, args, res) ==
    /\ observed' = Call(op, args, res)
    /\ UNCHANGED <<sets, maps>>

SetLiteral ==
    \E a \in BoundedSeq(Values, MaxLiteral) : NewSet(SetFromArray(a), "set_literal", <<a>>)

\* UpcastTo<Set<V>> for Set<U>: every element cloned, upcast (keeping its
\* identity) and inserted into a fresh HashSet for from_hashset_owned.
SetUpcast(i) == NewSet({v : v \in sets[i]}, "set_upcast", <<i>>)

\* UpcastTo<Map<K, V>> for Map<K, U>: each key cloned, its value upcast,
\* inserted into a fresh HashMap for from_hashmap_owned.
MapUpcast(i) == NewMap([k \in DOMAIN maps[i] |-> maps[i][k]], "map_upcast", <<i>>)

SetQuery(i) ==
    \/ Reply("set_card", <<i>>, Card(sets[i]))
    \/ \E v \in Values : Reply("set_contains", <<i, v>>, Truth(v \in sets[i]))
    \* peek: the first element the HashSet iterator yields, any one of them.
    \/ \E v \in sets[i] : Reply("peek", <<i>>, v)

SetBinary(i, j) ==
    \/ NewSet(SetMerge(sets[i], sets[j]), "set_merge", <<i, j>>)
    \/ NewSet(SetIntersect(sets[i], sets[j]), "set_intersect", <<i, j>>)
    \/ NewSet(SetSubtract(sets[i], sets[j]), "set_subtract", <<i, j>>)
    \/ Reply("set_disjoint", <<i, j>>, Truth(SetDisjoint(sets[i], sets[j])))
    \/ Reply("set_eq", <<i, j>>, Truth(SetEq(sets[i], sets[j])))
    \/ Reply("set_cmp", <<i, j>>, SetPartialCmp(sets[i], sets[j]))

MapLiteral ==
    \E a \in BoundedSeq(Values \X Values, MaxLiteral) :
        NewMap(MapFromArray(a), "map_literal", <<a>>)

MapUnary(i) ==
    \/ \E k, v \in Values :
         NewMap(MapUpdateIndex(maps[i], k, v), "map_update", <<i, k, v>>)
    \/ NewSet(MapKeys(maps[i]), "keys", <<i>>)
    \/ NewSet(MapValues(maps[i]), "values", <<i>>)
    \/ Reply("map_card", <<i>>, MapCard(maps[i]))
    \/ \E k \in Values : Reply("get_or_none", <<i, k>>, MapGetOrNone(maps[i], k))

MapBinary(i, j) ==
    \/ NewMap(MapMerge(maps[i], maps[j]), "map_merge", <<i, j>>)
    \/ Reply("map_eq", <<i, j>>, Truth(MapEq(maps[i], maps[j])))

MapMinus(i, j) == NewMap(MapSubtract(maps[i], sets[j]), "map_subtract", <<i, j>>)

Next ==
    \/ SetLiteral
    \/ MapLiteral
    \/ \E i \in DOMAIN sets :
         SetQuery(i) \/ SetUpcast(i) \/ \E j \in DOMAIN sets : SetBinary(i, j)
    \/ \E i \in DOMAIN maps :
         \/ MapUnary(i) \/ MapUpcast(i)
         \/ \E j \in DOMAIN maps : MapBinary(i, j)
         \/ \E j \in DOMAIN sets : MapMinus(i, j)

Spec == Init /\ [][Next]_vars

-----------------------------------------------------------------------------
(* Properties                                                              *)

\* Refinement: every step of the implementation is a step of MapSetValues.
\* So each short cut on an empty operand returns the right operand, merge
\* lets other's binding win as Dafny's map union does, disjoint and
\* partial_cmp answer correctly whichever side they choose to scan, and a
\* later pair of a map display overrides an earlier one.
Abstract == INSTANCE MapSetValues WITH svals <- sets, mvals <- maps

ImplementsMapSetValues == Abstract!Spec

=============================================================================
