----------------------------- MODULE DafnyObject -----------------------------
(***************************************************************************)
(* One object of a generated class (lib.rs), in either of the runtime's    *)
(* two modes: reference-counted (allocate_rcmut, update_field_*_rcmut,     *)
(* md!, Object::clone/drop) or raw pointers (allocate, update_field_*,     *)
(* modify!, deallocate).  The generated code uses one mode throughout.     *)
(*                                                                         *)
(* allocate_rcmut returns a cell whose fields are uninitialized bits.  The *)
(* constructor's first phase writes fields without dropping what was      *)
(* there: a field Dafny assigns exactly once with update_field_nodrop,    *)
(* any other with update_field_uninit, which keeps a local flag           *)
(* `<field>_assigned` to tell the first write (no drop) from a later one  *)
(* (an ordinary assignment that drops the old value).  At the end of the  *)
(* first phase update_field_if_uninit writes a default into each flagged  *)
(* field still unassigned.  Afterwards methods assign through md! (drop   *)
(* old value), read through rd!, clone and drop handles; when the last    *)
(* handle goes, the value is dropped, and with it every field.  A raw     *)
(* *mut T has no count: copying or forgetting it changes nothing, and the *)
(* object is dropped only by deallocate.                                   *)
(*                                                                         *)
(* Every value written is a fresh token.  live is the ghost set of tokens  *)
(* the program still owns (written and not yet dropped); badDrop records   *)
(* a drop of uninitialized bits, which Rust leaves undefined.              *)
(***************************************************************************)
EXTENDS Naturals, FiniteSets

CONSTANTS OnceFields,      \* fields Dafny assigns exactly once in phase one
          FlaggedFields,   \* fields written with update_field_uninit
          MaxTokens,       \* bound on the number of values written
          MaxRefs          \* bound on the number of live handles

Fields == OnceFields \cup FlaggedFields

Uninit == 0   \* the uninitialized bits of a field; tokens are positive

VARIABLES mode,      \* "rcmut" or "raw"
          phase,     \* "body", "epilogue", "ready" or "freed"
          memory,    \* memory[f]: the token in field f, or Uninit
          assigned,  \* assigned[f]: the constructor's flag for a flagged field
          pending,   \* flagged fields whose update_field_if_uninit is still to run
          refs,      \* strong count of the Rc
          tokens,    \* tokens written so far
          live,      \* ghost: tokens owned and not yet dropped
          badDrop    \* ghost: uninitialized bits were dropped

vars == <<mode, phase, memory, assigned, pending, refs, tokens, live, badDrop>>

\* Writing token t into field f without dropping the old content
\* (update_nodrop: ptr::addr_of_mut!(..).write(value)).
WriteNoDrop(f, t) ==
    /\ memory' = [memory EXCEPT ![f] = t]
    /\ live' = live \cup {t}
    /\ UNCHANGED badDrop

\* Writing token t by assignment: the old content is dropped first.
Assign(f, t) ==
    /\ memory' = [memory EXCEPT ![f] = t]
    /\ live' = (live \ {memory[f]}) \cup {t}
    /\ badDrop' = (badDrop \/ memory[f] = Uninit)

Fresh == tokens + 1

\* The bound applies to the writes of the body and of methods; the epilogue
\* computes at most one default per flagged field on top of it.
CanWrite == tokens < MaxTokens

TokenIds == 1..(MaxTokens + Cardinality(FlaggedFields))

\* allocate_rcmut / allocate: a fresh object whose fields are MaybeUninit.
Init ==
    /\ mode \in {"rcmut", "raw"}
    /\ phase = "body"
    /\ memory = [f \in Fields |-> Uninit]
    /\ assigned = [f \in FlaggedFields |-> FALSE]
    /\ pending = FlaggedFields
    /\ refs = 1
    /\ tokens = 0
    /\ live = {}
    /\ badDrop = FALSE

\* update_field_nodrop(_rcmut) on a field Dafny proves is assigned once.
UpdateFieldNodrop(f) ==
    /\ phase = "body"
    /\ f \in OnceFields
    /\ memory[f] = Uninit
    /\ CanWrite
    /\ WriteNoDrop(f, Fresh)
    /\ tokens' = Fresh
    /\ UNCHANGED <<mode, phase, assigned, pending, refs>>

\* Defect of update_field_uninit: the flag is never set.
UpdateFieldUninitNoFlag(f) ==
    /\ phase = "body"
    /\ f \in FlaggedFields
    /\ CanWrite
    /\ IF assigned[f]
       THEN Assign(f, Fresh) /\ UNCHANGED assigned
       ELSE WriteNoDrop(f, Fresh) /\ UNCHANGED assigned
    /\ tokens' = Fresh
    /\ UNCHANGED <<mode, phase, pending, refs>>

\* update_field_uninit(_rcmut): assign if the flag is set, otherwise write
\* without drop and set the flag.
UpdateFieldUninit(f) ==
    /\ phase = "body"
    /\ f \in FlaggedFields
    /\ CanWrite
    /\ IF assigned[f]
       THEN Assign(f, Fresh) /\ UNCHANGED assigned
       ELSE WriteNoDrop(f, Fresh) /\ assigned' = [assigned EXCEPT ![f] = TRUE]
    /\ tokens' = Fresh
    /\ UNCHANGED <<mode, phase, pending, refs>>

\* The generated constructor ends its first phase; Dafny's definite
\* assignment rules guarantee every once-field has been written.
EndBody ==
    /\ phase = "body"
    /\ \A f \in OnceFields : memory[f] # Uninit
    /\ phase' = "epilogue"
    /\ UNCHANGED <<mode, memory, assigned, pending, refs, tokens, live, badDrop>>

\* Defect of update_field_if_uninit: the flag test inverted.
UpdateFieldIfUninitInverted(f) ==
    /\ phase = "epilogue"
    /\ f \in pending
    /\ IF assigned[f]
       THEN WriteNoDrop(f, Fresh) /\ UNCHANGED assigned
       ELSE UNCHANGED <<memory, live, badDrop, assigned>>
    /\ tokens' = Fresh
    /\ pending' = pending \ {f}
    /\ UNCHANGED <<mode, phase, refs>>

\* update_field_if_uninit(_rcmut): the default value is computed, and written
\* without drop only if the flag is still clear.
UpdateFieldIfUninit(f) ==
    /\ phase = "epilogue"
    /\ f \in pending
    /\ IF ~assigned[f]
       THEN WriteNoDrop(f, Fresh) /\ assigned' = [assigned EXCEPT ![f] = TRUE]
       ELSE UNCHANGED <<memory, live, badDrop, assigned>>
    /\ tokens' = Fresh
    /\ pending' = pending \ {f}
    /\ UNCHANGED <<mode, phase, refs>>

\* The constructor returns the object once every if_uninit call has run.
EndConstructor ==
    /\ phase = "epilogue"
    /\ pending = {}
    /\ phase' = "ready"
    /\ UNCHANGED <<mode, memory, assigned, pending, refs, tokens, live, badDrop>>

\* md!(this).f = v (modify!(this).f = v in raw mode) in a method: an
\* ordinary assignment.
MethodAssign(f) ==
    /\ phase = "ready"
    /\ CanWrite
    /\ Assign(f, Fresh)
    /\ tokens' = Fresh
    /\ UNCHANGED <<mode, phase, assigned, pending, refs>>

\* Object::clone: one more strong reference.
CloneHandle ==
    /\ mode = "rcmut"
    /\ phase = "ready"
    /\ refs < MaxRefs
    /\ refs' = refs + 1
    /\ UNCHANGED <<mode, phase, memory, assigned, pending, tokens, live, badDrop>>

\* Defect of the handle drop: the last handle never releases the object.
DropHandleNeverFrees ==
    /\ mode = "rcmut"
    /\ phase = "ready"
    /\ refs' = refs - 1
    /\ UNCHANGED <<mode, phase, memory, assigned, pending, tokens, live, badDrop>>

\* Dropping a handle; the last one drops the object and every field.
DropHandle ==
    /\ mode = "rcmut"
    /\ phase = "ready"
    /\ refs' = refs - 1
    /\ IF refs = 1
       THEN /\ phase' = "freed"
            /\ live' = live \ {memory[f] : f \in Fields}
            /\ badDrop' = (badDrop \/ \E f \in Fields : memory[f] = Uninit)
       ELSE UNCHANGED <<phase, live, badDrop>>
    /\ UNCHANGED <<mode, memory, assigned, pending, tokens>>

\* deallocate(this): Box::from_raw(this) dropped at the end of the call,
\* which drops the object and every field.
Deallocate ==
    /\ mode = "raw"
    /\ phase = "ready"
    /\ phase' = "freed"
    /\ live' = live \ {memory[f] : f \in Fields}
    /\ badDrop' = (badDrop \/ \E f \in Fields : memory[f] = Uninit)
    /\ UNCHANGED <<mode, memory, assigned, pending, refs, tokens>>

Next ==
    \/ EndBody \/ EndConstructor \/ CloneHandle \/ DropHandle \/ Deallocate
    \/ \E f \in Fields :
         \/ UpdateFieldNodrop(f) \/ UpdateFieldUninit(f)
         \/ UpdateFieldIfUninit(f) \/ MethodAssign(f)

Spec == Init /\ [][Next]_vars

-----------------------------------------------------------------------------
(* Properties                                                              *)

TypeOK ==
    /\ mode \in {"rcmut", "raw"}
    /\ phase \in {"body", "epilogue", "ready", "freed"}
    /\ memory \in [Fields -> {Uninit} \cup TokenIds]
    /\ assigned \in [FlaggedFields -> BOOLEAN]
    /\ pending \subseteq FlaggedFields
    /\ refs \in 0..MaxRefs
    /\ tokens \in {0} \cup TokenIds
    /\ live \subseteq TokenIds
    /\ badDrop \in BOOLEAN

\* Exactly the values held by the fields are owned, at every step of the
\* first-write protocol, the epilogue, method assignments and the final
\* drop: a write without drop never lands on an initialized field (which
\* would leak its value), an assignment never drops uninitialized bits,
\* and nothing is owned once the last handle is gone or deallocate has run
\* (spec.md 4.4).
FieldsOwnedExactly ==
    /\ ~badDrop
    /\ live = IF phase = "freed" THEN {}
              ELSE {memory[f] : f \in Fields} \ {Uninit}

\* When the constructor has returned, every field holds a value: fields no
\* path of the first phase assigned got their default from
\* update_field_if_uninit, and none was written twice without a drop.
ConstructedFullyInitialized ==
    phase \in {"ready", "freed"} => \A f \in Fields : memory[f] # Uninit

=============================================================================
