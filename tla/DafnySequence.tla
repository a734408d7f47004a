--------------------------- MODULE DafnySequence ---------------------------
(***************************************************************************)
(* The persistent sequence of dafny_runtime_rust (lib.rs, enum Sequence).  *)
(*                                                                         *)
(* A Sequence value is either an ArraySequence over an immutable array or  *)
(* a ConcatSequence { left, right, length, boxed }.  left and right are    *)
(* Rc<UnsafeCell<Sequence>> cells, boxed is an Rc<RefCell<Option<..>>>     *)
(* memo slot; cloning a ConcatSequence shares all three.  to_array()       *)
(* flattens a concatenation once, stores the array in the memo slot and    *)
(* overwrites both child cells with seq!() through the UnsafeCell.         *)
(*                                                                         *)
(* State:                                                                  *)
(*   handles  - the Sequence values the generated caller holds;           *)
(*   cells    - the heap of UnsafeCell child slots, by allocation order;  *)
(*   boxes    - the heap of memo slots, by allocation order;              *)
(*   observed - the caller's last call: operation, arguments and what it  *)
(*              returned (an array, an element or a comparison).          *)
(* A heap H is the record [cells |-> .., boxes |-> ..]; the helpers take  *)
(* it as an argument so that one call can flatten two sequences in turn.  *)
(***************************************************************************)
EXTENDS Naturals, Sequences, SequencesExt

CONSTANTS Values, MaxHandles, MaxLiteral

VARIABLES handles, cells, boxes, observed

vars == <<handles, cells, boxes, observed>>

ArraySequence(vs) == [tag |-> "Array", values |-> vs]

\* seq!(): the placeholder written into a child cell after flattening.
Empty == ArraySequence(<<>>)

\* RefCell::new(None) and Some(result).
NoCache == [cached |-> FALSE, arr |-> <<>>]
Cached(a) == [cached |-> TRUE, arr |-> a]

Call(op, args, arr, cmp) == [op |-> op, args |-> args, arr |-> arr, cmp |-> cmp]

NoResult == Call("none", <<>>, <<>>, "none")

Heap == [cells |-> cells, boxes |-> boxes]

SetHeap(H) == cells' = H.cells /\ boxes' = H.boxes

\* cardinality_usize: the stored length of a concatenation, never its content.
CardinalityUsize(s) == IF s.tag = "Array" THEN Len(s.values) ELSE s.length

\* append_recursive: a node whose memo slot is filled contributes the memo;
\* otherwise the walk descends into both child cells.
RECURSIVE AppendRecursive(_, _)
AppendRecursive(s, H) ==
    IF s.tag = "Array" THEN s.values
    ELSE IF H.boxes[s.boxed].cached THEN H.boxes[s.boxed].arr
    ELSE AppendRecursive(H.cells[s.left], H) \o AppendRecursive(H.cells[s.right], H)

\* Defect of to_array: both child cells are cleared but the array is not
\* stored in the memo slot (the `*cache = Some(..)` line lost).
ToArrayWithoutMemo(s, H) ==
    IF s.tag = "Array" THEN [heap |-> H, arr |-> s.values]
    ELSE IF H.boxes[s.boxed].cached THEN [heap |-> H, arr |-> H.boxes[s.boxed].arr]
    ELSE LET result == AppendRecursive(s, H)
         IN [heap |-> [H EXCEPT !.cells = [H.cells EXCEPT ![s.left] = Empty,
                                                          ![s.right] = Empty]],
             arr  |-> result]

\* to_array: returns the flattened array and the heap after the call.  A
\* concatenation with an empty memo is walked, then both child cells are
\* overwritten with seq!() and the memo is filled.
ToArray(s, H) ==
    IF s.tag = "Array" THEN [heap |-> H, arr |-> s.values]
    ELSE IF H.boxes[s.boxed].cached THEN [heap |-> H, arr |-> H.boxes[s.boxed].arr]
    ELSE LET result == AppendRecursive(s, H)
         IN [heap |-> [cells |-> [H.cells EXCEPT ![s.left] = Empty,
                                                 ![s.right] = Empty],
                       boxes |-> [H.boxes EXCEPT ![s.boxed] = Cached(result)]],
             arr  |-> result]

\* PartialEq::eq: flattens self, compares the lengths, then reads other
\* with get_usize (which flattens other on its first call) element by
\* element.  An index past the end of other's array is a panic.
SeqEq(s, o, H) ==
    LET t == ToArray(s, H)
    IN IF CardinalityUsize(o) # Len(t.arr) THEN [heap |-> t.heap, eq |-> FALSE]
       ELSE IF Len(t.arr) = 0 THEN [heap |-> t.heap, eq |-> TRUE]
       ELSE LET u == ToArray(o, t.heap)
            IN [heap |-> u.heap, eq |-> \A k \in 1..Len(t.arr) : t.arr[k] = u.arr[k]]

\* The loop of partial_cmp over the first n positions: get_usize on self,
\* then on other; no call is made when n = 0.
PrefixLoop(s, o, n, ord, H) ==
    IF n = 0 THEN [heap |-> H, ord |-> ord]
    ELSE LET t == ToArray(s, H)
             u == ToArray(o, t.heap)
         IN [heap |-> u.heap,
             ord  |-> IF \A k \in 1..n : t.arr[k] = u.arr[k] THEN ord ELSE "None"]

\* PartialOrd::partial_cmp: prefix-based, dispatched on the cardinalities.
SeqPartialCmp(s, o, H) ==
    CASE CardinalityUsize(s) = CardinalityUsize(o) ->
            LET e == SeqEq(s, o, H)
            IN [heap |-> e.heap, ord |-> IF e.eq THEN "Equal" ELSE "None"]
      [] CardinalityUsize(s) < CardinalityUsize(o) ->
            PrefixLoop(s, o, CardinalityUsize(s), "Less", H)
      [] OTHER ->
            PrefixLoop(s, o, CardinalityUsize(o), "Greater", H)

-----------------------------------------------------------------------------
(* Operations of the generated caller on the handles it holds.            *)

Init ==
    /\ handles = <<>>
    /\ cells = <<>>
    /\ boxes = <<>>
    /\ observed = NoResult

NewHandle(s, op, args) ==
    /\ Len(handles) < MaxHandles
    /\ handles' = Append(handles, s)
    /\ observed' = Call(op, args, <<>>, "none")

\* from_array, from_array_owned, from_array_slice/take/drop, seq!,
\* FromIterator, vec_to_dafny_sequence: a fresh ArraySequence.
FromArray ==
    \E vs \in BoundedSeq(Values, MaxLiteral) :
        /\ NewHandle(ArraySequence(vs), "literal", <<vs>>)
        /\ UNCHANGED <<cells, boxes>>

\* Defect of new_concat_sequence: the length is computed one short.
ConcatLengthOffByOne(i, j) ==
    LET l == handles[i]
        r == handles[j]
    IN /\ NewHandle([tag    |-> "Concat",
                     left   |-> Len(cells) + 1,
                     right  |-> Len(cells) + 2,
                     length |-> CardinalityUsize(l) + CardinalityUsize(r) - 1,
                     boxed  |-> Len(boxes) + 1],
                    "concat", <<i, j>>)
       /\ cells' = cells \o <<l, r>>
       /\ boxes' = Append(boxes, NoCache)

\* Defect of new_concat_sequence: right's cardinality counted twice.
ConcatLengthRightTwice(i, j) ==
    LET l == handles[i]
        r == handles[j]
    IN /\ NewHandle([tag    |-> "Concat",
                     left   |-> Len(cells) + 1,
                     right  |-> Len(cells) + 2,
                     length |-> CardinalityUsize(r) + CardinalityUsize(r),
                     boxed  |-> Len(boxes) + 1],
                    "concat", <<i, j>>)
       /\ cells' = cells \o <<l, r>>
       /\ boxes' = Append(boxes, NoCache)

\* new_concat_sequence (also concat and &a + &b): clones of both operands go
\* into two fresh cells, the length is the sum of their cardinalities, the
\* memo slot starts empty.  Nothing is copied or flattened.
Concat(i, j) ==
    LET l == handles[i]
        r == handles[j]
    IN /\ NewHandle([tag    |-> "Concat",
                     left   |-> Len(cells) + 1,
                     right  |-> Len(cells) + 2,
                     length |-> CardinalityUsize(l) + CardinalityUsize(r),
                     boxed  |-> Len(boxes) + 1],
                    "concat", <<i, j>>)
       /\ cells' = cells \o <<l, r>>
       /\ boxes' = Append(boxes, NoCache)

\* iter, contains, hash, as_dafny_multiset, Set::from_sequence,
\* dafny_string_to_string: a call of to_array whose array is read.
Iter(i) ==
    LET t == ToArray(handles[i], Heap)
    IN /\ SetHeap(t.heap)
       /\ observed' = Call("read", <<i>>, t.arr, "none")
       /\ UNCHANGED handles

\* get / get_usize: to_array then index.  Dafny proves the index inside the
\* value, and the refinement below checks that to_array returns the value,
\* so indices range over the returned array.
Get(i) ==
    LET t == ToArray(handles[i], Heap)
    IN \E k \in 0..(Len(t.arr) - 1) :
         /\ SetHeap(t.heap)
         /\ observed' = Call("get", <<i, k>>, <<t.arr[k + 1]>>, "none")
         /\ UNCHANGED handles

\* slice(start, end), take(end) = slice(0, end), drop(start) =
\* slice(start, len): a fresh ArraySequence over a range of to_array.
Slice(i) ==
    LET t == ToArray(handles[i], Heap)
    IN \E lo \in 0..Len(t.arr), hi \in 0..Len(t.arr) :
         /\ lo <= hi
         /\ NewHandle(ArraySequence(SubSeq(t.arr, lo + 1, hi)), "slice", <<i, lo, hi>>)
         /\ SetHeap(t.heap)

\* update_index: copy of to_array with one slot replaced.
UpdateIndex(i) ==
    LET t == ToArray(handles[i], Heap)
    IN \E k \in 0..(Len(t.arr) - 1), v \in Values :
         /\ NewHandle(ArraySequence([t.arr EXCEPT ![k + 1] = v]), "update", <<i, k, v>>)
         /\ SetHeap(t.heap)

\* UpcastTo<Sequence<V>> for Sequence<U>: every element of to_array,
\* cloned and upcast in order, pushed into a Vec that from_array_owned
\* wraps.  The elements stand for object identities, which an upcast
\* keeps; the source is flattened (memo filled, cells cleared) on the way.
Upcast(i) ==
    LET t == ToArray(handles[i], Heap)
    IN /\ NewHandle(ArraySequence(t.arr), "upcast", <<i>>)
       /\ SetHeap(t.heap)

\* dafny_string_to_string (unicode_chars_true): to_array, then each
\* DafnyChar's char collected into a String; the char of a DafnyChar is
\* the Dafny character itself, so the String holds the array read.
DafnyStringToString(i) ==
    LET t == ToArray(handles[i], Heap)
    IN /\ SetHeap(t.heap)
       /\ observed' = Call("read", <<i>>, t.arr, "none")
       /\ UNCHANGED handles

\* dafny_sequence_to_vec: append_recursive into a fresh Vec; it reads
\* memo slots but never fills one.
ToVec(i) ==
    /\ observed' = Call("read", <<i>>, AppendRecursive(handles[i], Heap), "none")
    /\ UNCHANGED <<handles, cells, boxes>>

Eq(i, j) ==
    LET e == SeqEq(handles[i], handles[j], Heap)
    IN /\ SetHeap(e.heap)
       /\ observed' = Call("eq", <<i, j>>, <<>>, IF e.eq THEN "true" ELSE "false")
       /\ UNCHANGED handles

PartialCmp(i, j) ==
    LET c == SeqPartialCmp(handles[i], handles[j], Heap)
    IN /\ SetHeap(c.heap)
       /\ observed' = Call("cmp", <<i, j>>, <<>>, c.ord)
       /\ UNCHANGED handles

Next ==
    \/ FromArray
    \/ \E i \in DOMAIN handles :
         \/ Iter(i) \/ Get(i) \/ Slice(i) \/ UpdateIndex(i) \/ Upcast(i) \/ ToVec(i)
         \/ DafnyStringToString(i)
         \/ \E j \in DOMAIN handles :
              Concat(i, j) \/ Eq(i, j) \/ PartialCmp(i, j)

Spec == Init /\ [][Next]_vars

-----------------------------------------------------------------------------
(* Properties                                                              *)

Node == [tag : {"Array"}, values : Seq(Values)]
        \cup [tag : {"Concat"}, left : Nat \ {0}, right : Nat \ {0},
              length : Nat, boxed : Nat \ {0}]

TypeOK ==
    /\ handles \in Seq(Node)
    /\ cells \in Seq(Node)
    /\ boxes \in Seq([cached : BOOLEAN, arr : Seq(Values)])
    /\ observed.arr \in Seq(Values)
    /\ observed.cmp \in {"none", "true", "false", "Less", "Equal", "Greater", "None"}

\* Every concatenation the program can still reach, held directly or kept
\* in a child cell.
Concats == {s \in Range(handles) \cup Range(cells) : s.tag = "Concat"}

\* The stored length of every reachable concatenation equals the length of
\* its content, before and after its own or a nested node's flattening
\* (spec.md 3: length(Concatenation) = length(left) + length(right)).
\* cardinality_usize, the Eq length check and partial_cmp's branch all
\* trust this field.
LengthMatchesContent ==
    \A s \in Concats : s.length = Len(AppendRecursive(s, Heap))

\* Refinement: with each handle mapped to the content append_recursive
\* finds for it in the current heap, every step of the implementation is a
\* step of SequenceValues.  So the destructive clearing of child cells in
\* to_array never changes the value seen through any alias, and reads,
\* eq and partial_cmp return what the mathematical sequences give.
Abstract == INSTANCE SequenceValues
    WITH vals <- [h \in DOMAIN handles |-> AppendRecursive(handles[h], Heap)]

ImplementsSequenceValues == Abstract!Spec

=============================================================================
