---------------------------- MODULE DafnyObjectRef ----------------------------
(***************************************************************************)
(* Handles of reference-counted objects in dafny_runtime_rust (lib.rs):    *)
(* Object<T>(Option<Rc<UnsafeCell<T>>>), with object::new, Clone, drop,    *)
(* UpcastTo<Object<To>> for Object<From>, cast_object!, PartialEq, Hash,   *)
(* refcount! and nullable_referential_equality.                            *)
(*                                                                         *)
(* A handle sits in one of the caller's Slots.  It is Object(None) (cell   *)
(* Null) or points to a cell, through a static type: "class" (a sized      *)
(* class, a thin pointer) or "trait" (dyn Trait, a fat pointer whose       *)
(* metadata is a vtable).  Rust does not promise one vtable per            *)
(* (class, trait) pair: each codegen unit may emit its own, so an upcast   *)
(* yields any of VTables.  rc is each cell's strong count; observed the    *)
(* caller's last call, with the handles it was given.                      *)
(***************************************************************************)
EXTENDS Integers, FiniteSets

CONSTANTS Slots,     \* the caller's variables holding handles
          Cells,     \* addresses of objects
          VTables,   \* vtables a (class, trait) pair may get
          Null       \* the cell of Object(None)

Thin == "thin"

VARIABLES handle, rc, observed

vars == <<handle, rc, observed>>

Handle(c, ty, vt) == [cell |-> c, ty |-> ty, vt |-> vt]

\* A slot holding no handle.
Empty == Handle(Null, "none", Thin)

Call(op, args, res) == [op |-> op, args |-> args, res |-> res]

Holders(c) == {s \in Slots : handle[s] # Empty /\ handle[s].cell = c}

Init ==
    /\ handle = [s \in Slots |-> Empty]
    /\ rc = [c \in Cells |-> 0]
    /\ observed = Call("none", <<>>, "none")

\* One more or one fewer strong reference to the cell of h (none for null).
Count(h, d) ==
    IF h.cell = Null THEN rc ELSE [rc EXCEPT ![h.cell] = @ + d]

\* object::new(val) / allocate_rcmut: a fresh Rc with count 1, at any free
\* address.
New(s) ==
    /\ handle[s] = Empty
    /\ \E c \in Cells :
         /\ rc[c] = 0
         /\ handle' = [handle EXCEPT ![s] = Handle(c, "class", Thin)]
         /\ rc' = [rc EXCEPT ![c] = 1]
    /\ observed' = Call("new", <<s>>, "none")

\* Object(None): the null reference of either static type.
NullObject(s) ==
    /\ handle[s] = Empty
    /\ \E ty \in {"class", "trait"} :
         handle' = [handle EXCEPT ![s] = Handle(Null, ty, Thin)]
    /\ UNCHANGED rc
    /\ observed' = Call("null", <<s>>, "none")

\* Object::clone: Object(self.0.clone()).
CloneHandle(s, t) ==
    /\ handle[s] # Empty /\ handle[t] = Empty
    /\ handle' = [handle EXCEPT ![t] = handle[s]]
    /\ rc' = Count(handle[s], 1)
    /\ observed' = Call("clone", <<s, t>>, "none")

\* Dropping the Option<Rc>: one strong reference fewer.
DropHandle(s) ==
    /\ handle[s] # Empty
    /\ handle' = [handle EXCEPT ![s] = Empty]
    /\ rc' = Count(handle[s], -1)
    /\ observed' = Call("drop", <<s>>, "none")

\* Defect of upcast_to: self's reference forgotten instead of dropped.
UpcastLeaking(s, t) ==
    /\ handle[s] # Empty /\ handle[t] = Empty
    /\ handle[s].cell # Null /\ handle[s].ty = "class"
    /\ \E vt \in VTables :
         handle' = [handle EXCEPT ![t] = Handle(handle[s].cell, "trait", vt)]
    /\ rc' = Count(handle[s], 2)
    /\ observed' = Call("upcast", <<s, t>>, "none")

\* x.clone().upcast_to(): the caller's clone (+1) is self; upcast_to
\* clones self.0 (+1), re-tags the Rc as Rc<dyn Trait>, and drops self
\* (-1).  self.0.unwrap() panics on Object(None): the generated code
\* upcasts values of a non-null class type.
Upcast(s, t) ==
    /\ handle[s] # Empty /\ handle[t] = Empty
    /\ handle[s].cell # Null /\ handle[s].ty = "class"
    /\ \E vt \in VTables :
         handle' = [handle EXCEPT ![t] = Handle(handle[s].cell, "trait", vt)]
    /\ rc' = Count(handle[s], 1)
    /\ observed' = Call("upcast", <<s, t>>, "none")

\* cast_object!(x, C): Rc::into_raw of x.0.unwrap(), cast to the class's
\* thin pointer, and Rc::from_raw: the downcast moves x's reference into
\* the class handle, the count unchanged.  The generated code casts a
\* trait handle it knows points to a C (a verified `as`), so the cast
\* target is the object's own class; x.0.unwrap() panics on null.
CastObject(s, t) ==
    /\ handle[s] # Empty /\ handle[t] = Empty
    /\ handle[s].cell # Null /\ handle[s].ty = "trait"
    /\ handle' = [handle EXCEPT ![s] = Empty, ![t] = Handle(handle[s].cell, "class", Thin)]
    /\ UNCHANGED rc
    /\ observed' = Call("cast", <<s, t>>, "none")

\* PartialEq for Object: both Some, and ptr::eq of the addresses cast to
\* thin *const (); false as soon as either side is None.
ObjectEq(a, b) ==
    a.cell # Null /\ b.cell # Null /\ a.cell = b.cell

\* nullable_referential_equality: Rc::ptr_eq (addresses, metadata ignored
\* since Rust 1.72), or both None.
NullableEq(a, b) == a.cell = b.cell

\* Hash for Object: the *mut T of the cell, a fat pointer for dyn Trait
\* (address and vtable), or 0 for None.
ObjectHash(h) == IF h.cell = Null THEN 0 ELSE <<h.cell, h.vt>>

\* Comparisons are between handles of one static type.
Compare(s, t) ==
    /\ handle[s] # Empty /\ handle[t] # Empty
    /\ handle[s].ty = handle[t].ty
    /\ \/ observed' = Call("eq", <<handle[s], handle[t]>>, ObjectEq(handle[s], handle[t]))
       \/ observed' = Call("nullable_eq", <<handle[s], handle[t]>>,
                           NullableEq(handle[s], handle[t]))
    /\ UNCHANGED <<handle, rc>>

\* refcount!(x): Rc::strong_count(as_rc(&x.0.unwrap())).  The macro takes
\* x.0 by value, so the handle passed (a clone, in generated code) is
\* counted, then dropped at the end of the statement.
Refcount(s) ==
    /\ handle[s] # Empty /\ handle[s].cell # Null
    /\ handle' = [handle EXCEPT ![s] = Empty]
    /\ rc' = Count(handle[s], -1)
    /\ observed' = Call("refcount", <<handle[s]>>, rc[handle[s].cell])

Next ==
    \/ \E s \in Slots : New(s) \/ NullObject(s) \/ DropHandle(s) \/ Refcount(s)
    \/ \E s, t \in Slots : CloneHandle(s, t) \/ Upcast(s, t) \/ CastObject(s, t)
                         \/ Compare(s, t)

Spec == Init /\ [][Next]_vars

-----------------------------------------------------------------------------
(* Properties                                                              *)

\* The strong count of every cell is the number of handles that point to
\* it, through clones, drops and upcasts, whose clone of self.0 and drop of
\* self must cancel out: an object is freed exactly when its last handle
\* goes (spec.md 4.5: upcast leaves the reference count unchanged).
RefcountMatchesHandles ==
    \A c \in Cells : rc[c] = Cardinality(Holders(c))

\* Equal handles hash equally (spec.md 2 and 9: equal => equal hash), so a
\* hash-keyed container over a value holding an Object finds that value
\* whichever vtable its handle got.
HashAgreesWithEq ==
    observed.op = "eq" /\ observed.res
        => ObjectHash(observed.args[1]) = ObjectHash(observed.args[2])

\* Two null references are equal, as Dafny's null == null and the runtime's
\* own nullable_referential_equality say.
NullEqualsNull ==
    observed.op = "eq" /\ observed.args[1].cell = Null /\ observed.args[2].cell = Null
        => observed.res

=============================================================================
