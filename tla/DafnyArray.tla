------------------------------ MODULE DafnyArray ------------------------------
(***************************************************************************)
(* Dafny arrays in dafny_runtime_rust (lib.rs): a one-dimensional array is *)
(* a raw *mut [T] managed by the array module; an n-dimensional one is an  *)
(* ArrayN struct generated by ARRAY_DEF, whose data is nested boxed slices *)
(* and which stores every length but the first (length0 is data.len()).   *)
(* Array2 stands for the family: the macros build every ArrayN the same    *)
(* way, one nesting level per dimension.                                   *)
(*                                                                         *)
(* An array is either filled at creation (initialize, from_vec, array!)    *)
(* or created as placebos, uninitialized MaybeUninit cells that the        *)
(* generated code writes one by one before construct transmutes the       *)
(* pointer.  The program frees it with deallocate, or turns a 1-D array    *)
(* into a Vec with to_vec.  The native conversions of                    *)
(* dafny_runtime_conversions move a Vec into an array and copy an array   *)
(* back into a Vec.  A 1-D array may also live in an Object, the         *)
(* reference-counted Rc<UnsafeCell<[T]>> of rcmut mode: placebos_usize_rcmut *)
(* and construct_rcmut build it the same way, and the last handle dropped *)
(* frees it.                                                              *)
(*                                                                         *)
(* A cell holds Uninit or an element value Elem; which value is written   *)
(* matters to no property here, only whether one is.  owned is the ghost   *)
(* count of element values the arrays' storage owns (created and not yet  *)
(* dropped or moved out); vec is the last result of Array2::to_vec.       *)
(***************************************************************************)
EXTENDS Naturals, Sequences, FiniteSets

CONSTANTS MaxLen,     \* bound on every length
          MaxRefs     \* bound on the handles of the rcmut array

Uninit == 0
Elem == 1

Lengths == 0..MaxLen

VARIABLES a1,       \* [phase, cells]: the 1-D array
          a2,       \* [phase, length1, data]: the Array2
          vec,      \* the rows returned by the last Array2::to_vec
          owned,    \* ghost: element values owned by array storage
          ar        \* [phase, cells, refs]: the 1-D array in an Object

vars == <<a1, a2, vec, owned, ar>>

NoArray1 == [phase |-> "none", cells |-> <<>>]
NoArray2 == [phase |-> "none", length1 |-> 0, data |-> <<>>]
NoArrayR == [phase |-> "none", cells |-> <<>>, refs |-> 0]

\* The number of written cells of a slice, and of nested rows.
Held(s) == Cardinality({k \in DOMAIN s : s[k] # Uninit})
HeldRows(rows) == Cardinality({<<i, j>> \in (DOMAIN rows) \X (1..MaxLen) :
                                  j \in DOMAIN rows[i] /\ rows[i][j] # Uninit})
HasUninit(rows) == \E i \in DOMAIN rows : \E j \in DOMAIN rows[i] : rows[i][j] = Uninit

\* Dropping the old content of a cell by assignment.
DropOld(c) == owned' = owned - (IF c = Uninit THEN 0 ELSE 1) + 1

\* initialize_usize / initialize_box_usize: a Vec of n initializer results.
Filled(n) == [k \in 1..n |-> Elem]

\* placebos_box_usize: n MaybeUninit::uninit() cells.
Placebos(n) == [k \in 1..n |-> Uninit]

\* length0_usize is data.len(); length1_usize the stored field.
Length0Usize(a) == Len(a.data)
Length1Usize(a) == a.length1

Init ==
    /\ a1 = NoArray1
    /\ a2 = NoArray2
    /\ vec = <<>>
    /\ owned = 0
    /\ ar = NoArrayR

Free1 == a1.phase \in {"none", "freed"}
Free2 == a2.phase \in {"none", "freed"}

-----------------------------------------------------------------------------
(* The 1-D array module.                                                   *)

\* array::initialize(n, f): the initializer's values, into_raw.
Initialize1(n) ==
    /\ Free1
    /\ a1' = [phase |-> "constructed", cells |-> Filled(n)]
    /\ owned' = owned + n
    /\ UNCHANGED <<a2, vec, ar>>

\* array::from_vec(v) / from_native(v): the Vec's elements, moved into a
\* boxed slice and leaked as a raw pointer.
FromVec1(n) ==
    /\ Free1
    /\ a1' = [phase |-> "constructed", cells |-> Filled(n)]
    /\ owned' = owned + n
    /\ UNCHANGED <<a2, vec, ar>>

\* array::placebos(n) / placebos_usize(n).
Placebos1(n) ==
    /\ Free1
    /\ a1' = [phase |-> "placebo", cells |-> Placebos(n)]
    /\ UNCHANGED <<a2, vec, owned, ar>>

\* The generated code's first write of a placebo cell: a MaybeUninit is
\* overwritten without dropping anything.
WriteCell1(k) ==
    /\ a1.phase = "placebo"
    /\ a1.cells[k] = Uninit
    /\ a1' = [a1 EXCEPT !.cells[k] = Elem]
    /\ owned' = owned + 1
    /\ UNCHANGED <<a2, vec, ar>>

\* array::construct: a transmute, once Dafny's definite assignment has
\* written every cell.
Construct1 ==
    /\ a1.phase = "placebo"
    /\ \A k \in DOMAIN a1.cells : a1.cells[k] # Uninit
    /\ a1' = [a1 EXCEPT !.phase = "constructed"]
    /\ UNCHANGED <<a2, vec, owned, ar>>

\* array::update(this, i, v): an assignment into the slice, dropping the
\* old element.
Update1(k) ==
    /\ a1.phase = "constructed"
    /\ a1' = [a1 EXCEPT !.cells[k] = Elem]
    /\ DropOld(a1.cells[k])
    /\ UNCHANGED <<a2, vec, ar>>

\* array::to_vec: Box::from_raw(v).into_vec(); the elements move to the
\* Vec, which the caller owns from now on.
ToVec1 ==
    /\ a1.phase = "constructed"
    /\ a1' = [phase |-> "freed", cells |-> <<>>]
    /\ owned' = owned - Held(a1.cells)
    /\ UNCHANGED <<a2, vec, ar>>

\* deallocate(pointer): Box::from_raw, dropped at the end of the call.
Deallocate1 ==
    /\ a1.phase = "constructed"
    /\ a1' = [phase |-> "freed", cells |-> <<>>]
    /\ owned' = owned - Held(a1.cells)
    /\ UNCHANGED <<a2, vec, ar>>

-----------------------------------------------------------------------------
(* Array2, as ARRAY_DEF generates it.                                      *)

\* Array2::placebos_usize(length0, length1): the length1 field, and data
\* from INIT_ARRAY_DATA, an ARRAY_INIT of length0 rows each built by
\* ARRAY_INIT_INNER as length1 placebos.
Placebos2(l0, l1) ==
    /\ Free2
    /\ a2' = [phase |-> "placebo", length1 |-> l1,
              data |-> [i \in 1..l0 |-> Placebos(l1)]]
    /\ UNCHANGED <<a1, vec, owned, ar>>

\* The generated code's first write of cell (i, j) of a placebo Array2.
WriteCell2(i, j) ==
    /\ a2.phase = "placebo"
    /\ a2.data[i][j] = Uninit
    /\ a2' = [a2 EXCEPT !.data[i][j] = Elem]
    /\ owned' = owned + 1
    /\ UNCHANGED <<a1, vec, ar>>

\* Array2::construct, once every cell is written.
Construct2 ==
    /\ a2.phase = "placebo"
    /\ ~HasUninit(a2.data)
    /\ a2' = [a2 EXCEPT !.phase = "constructed"]
    /\ UNCHANGED <<a1, vec, owned, ar>>

\* The generated code's assignment (*a).data[i][j] = v: the old element
\* is dropped.
Update2(i, j) ==
    /\ a2.phase = "constructed"
    /\ a2' = [a2 EXCEPT !.data[i][j] = Elem]
    /\ DropOld(a2.data[i][j])
    /\ UNCHANGED <<a1, vec, ar>>

\* Array2::to_vec: ARRAY_TO_VEC_LOOP, rows 0..length0_usize(), in each the
\* columns 0..length1_usize(), every element cloned.
ToVec2 ==
    /\ a2.phase = "constructed"
    /\ vec' = [i \in 1..Length0Usize(a2) |->
                 [j \in 1..Length1Usize(a2) |-> a2.data[i][j]]]
    /\ UNCHANGED <<a1, a2, owned, ar>>

\* deallocate(pointer) of the Array2: the struct, each row, each element.
Deallocate2 ==
    /\ a2.phase = "constructed"
    /\ a2' = [phase |-> "freed", length1 |-> 0, data |-> <<>>]
    /\ owned' = owned - HeldRows(a2.data)
    /\ UNCHANGED <<a1, vec, ar>>

-----------------------------------------------------------------------------
(* The 1-D array as an Object (rcmut mode).                                *)

\* placebos_usize_rcmut(n): placebos_box_usize(n) turned into an Rc<[T]>
\* by array_object_from_box and wrapped in Object(Some(..)), one handle.
PlacebosUsizeRcmut(n) ==
    /\ ar.phase \in {"none", "freed"}
    /\ ar' = [phase |-> "placebo", cells |-> Placebos(n), refs |-> 1]
    /\ UNCHANGED <<a1, a2, vec, owned>>

\* The generated code's first write of a cell through md!(a.clone()): the
\* clone is dropped at the end of the statement, and the MaybeUninit cell
\* is overwritten without dropping anything.
WriteCellRcmut(k) ==
    /\ ar.phase = "placebo"
    /\ ar.cells[k] = Uninit
    /\ ar' = [ar EXCEPT !.cells[k] = Elem]
    /\ owned' = owned + 1
    /\ UNCHANGED <<a1, a2, vec>>

\* construct_rcmut(p): the Object<[MaybeUninit<T>]> transmuted into an
\* Object<[T]>; the handle moves, the count is unchanged.
ConstructRcmut ==
    /\ ar.phase = "placebo"
    /\ \A k \in DOMAIN ar.cells : ar.cells[k] # Uninit
    /\ ar' = [ar EXCEPT !.phase = "constructed"]
    /\ UNCHANGED <<a1, a2, vec, owned>>

\* md!(a.clone())[k] = v in a method: an assignment, the old element dropped.
UpdateRcmut(k) ==
    /\ ar.phase = "constructed"
    /\ ar' = [ar EXCEPT !.cells[k] = Elem]
    /\ DropOld(ar.cells[k])
    /\ UNCHANGED <<a1, a2, vec>>

\* Object::clone of the array: one more strong reference.
CloneRcmut ==
    /\ ar.phase = "constructed"
    /\ ar.refs < MaxRefs
    /\ ar' = [ar EXCEPT !.refs = @ + 1]
    /\ UNCHANGED <<a1, a2, vec, owned>>

\* Dropping a handle; the last one drops the Rc<UnsafeCell<[T]>> and with
\* it every element.
DropRcmut ==
    /\ ar.phase = "constructed"
    /\ IF ar.refs = 1
       THEN /\ ar' = [phase |-> "freed", cells |-> <<>>, refs |-> 0]
            /\ owned' = owned - Held(ar.cells)
       ELSE /\ ar' = [ar EXCEPT !.refs = @ - 1]
            /\ UNCHANGED owned
    /\ UNCHANGED <<a1, a2, vec>>

-----------------------------------------------------------------------------
(* dafny_runtime_conversions, which "all take ownership" of the array.    *)

\* vec_to_dafny_array(array): Box::into_raw(array.into_boxed_slice()).
VecToDafnyArray(n) == FromVec1(n)

\* dafny_array_to_vec(ptr): ptr.as_ref().unwrap().to_vec() clones every
\* element into the Vec returned; the array behind ptr is never freed, and
\* the caller has handed the pointer over, so its elements stay in storage
\* that no one frees.
DafnyArrayToVec ==
    /\ a1.phase = "constructed"
    /\ a1' = [phase |-> "freed", cells |-> <<>>]
    /\ UNCHANGED <<a2, vec, owned, ar>>

\* dafny_array2_to_vec(ptr): Box::from_raw(ptr).to_vec(): the rows cloned
\* by Array2::to_vec, then the box dropped with every element.
DafnyArray2ToVec ==
    /\ a2.phase = "constructed"
    /\ vec' = [i \in 1..Length0Usize(a2) |->
                 [j \in 1..Length1Usize(a2) |-> a2.data[i][j]]]
    /\ a2' = [phase |-> "freed", length1 |-> 0, data |-> <<>>]
    /\ owned' = owned - HeldRows(a2.data)
    /\ UNCHANGED <<a1, ar>>

Next ==
    \/ \E n \in Lengths : Initialize1(n) \/ FromVec1(n) \/ Placebos1(n) \/ VecToDafnyArray(n)
    \/ \E k \in DOMAIN a1.cells : WriteCell1(k) \/ Update1(k)
    \/ Construct1 \/ ToVec1 \/ Deallocate1
    \/ \E l0, l1 \in Lengths : Placebos2(l0, l1)
    \/ \E i \in DOMAIN a2.data : \E j \in DOMAIN a2.data[i] :
         WriteCell2(i, j) \/ Update2(i, j)
    \/ Construct2 \/ ToVec2 \/ Deallocate2
    \/ DafnyArrayToVec \/ DafnyArray2ToVec
    \/ \E n \in Lengths : PlacebosUsizeRcmut(n)
    \/ \E k \in DOMAIN ar.cells : WriteCellRcmut(k) \/ UpdateRcmut(k)
    \/ ConstructRcmut \/ CloneRcmut \/ DropRcmut

Spec == Init /\ [][Next]_vars

-----------------------------------------------------------------------------
(* Properties                                                              *)

\* The comment above the conversions of dafny_runtime_conversions says
\* they "all take ownership" of the array: whatever element values array
\* storage still owns are in an array the program holds a pointer to, so
\* that handing a pointer to a conversion, like deallocate, to_vec or the
\* drop of the last handle of the rcmut array, leaves nothing behind.
ConversionsTakeOwnership ==
    owned = Held(a1.cells) + HeldRows(a2.data) + Held(ar.cells)

=============================================================================
