# TLA+ models of the Dafny Rust runtime

These modules model `dafny_runtime_rust`
(`src/TestModels/dafny-dependencies/dafny_runtime_rust/src/lib.rs`), the
runtime that code generated by Dafny's Rust back end links against. They also
cover the two generated Smithy glue files under `src/TestModels/SimpleTypes`,
which are not modelled (see below). TLC checks every module. `PROJECT.json`
lists the components, the runs, the mutants that show each property can
fail, the map from every definition to the source lines it translates, the
findings and the hazards.

## 1. Inventory of the system

The runtime is single-threaded and synchronous (spec.md 5). It has no
scheduler, no I/O, no messages and nothing persisted. Its hard behaviour lies
in sharing and aliasing:

- immutable values share internal structure through `Rc`;
- one of them is rewritten in place through `UnsafeCell`;
- objects are written field by field into uninitialized memory.

The "actors" of the models are therefore the **calls of the generated caller**,
in any order, on any of the values it holds. No interleaving of threads is
modelled, and no fairness is assumed. Every property is a safety property or a
refinement.

| Part (spec.md) | Code | State | Operations | Interactions |
|---|---|---|---|---|
| Persistent sequence (3, 4.2) | `enum Sequence` 598-875, `dafny_sequence_to_vec` 105-112 | `ArraySequence{values}` or `ConcatSequence{left, right: Rc<UnsafeCell<Sequence>>, length, boxed: Rc<RefCell<Option<Rc<Vec>>>>}` | `from_array*`, `seq!`, `new_concat_sequence`/`concat`/`+`, `to_array` (memo + clears both child cells), `append_recursive`, `cardinality`, `get`, `slice`/`take`/`drop`, `update_index`, `iter`, `eq`, `partial_cmp`, `hash`, `contains` | feeds `Multiset::from_array`, `Set::from_sequence` |
| Multiset (3, 4.3) | `struct Multiset` 1431-1685 | `data: HashMap<V, DafnyInt>`, cached `size` | `multiset!`, `from_iterator`, `from_hashmap`, `update_count`, `merge`, `intersect`, `subtract`, `disjoint`, `cardinality`, `get`, `contains`, `eq`, `partial_cmp`, `hash` | built from sequences, sets and `Map<K, DafnyInt>` |
| Set (3) | `struct Set` 1162-1400 | `Rc<HashSet<V>>` | `set!`, `from_array`, `SetBuilder`, `merge`, `intersect`, `subtract`, `disjoint`, `equals`, `eq`, `partial_cmp`, `contains`, `peek` | `Map::keys`, `Map::values`, `Map::subtract` |
| Map (3) | `struct Map` 906-1124 | `Rc<HashMap<K, V>>` | `map!`, `from_iterator`, `MapBuilder`, `merge`, `subtract`, `update_index`, `keys`, `values`, `get`, `get_or_none`, `eq` | takes a `Set` of keys |
| Euclidean division (8) | `euclidian_division`/`euclidian_modulo` 1726-1758, `dafny_rational_to_int` 1714 | none | four sign cases each | used for every Dafny `/` and `%` |
| Object cell (4.4, 5) | `Object`, `allocate_rcmut`, `update_field_*`, `md!`, `rd!`, `rcmut` 2860-3240 | `Rc<UnsafeCell<T>>` per object; the constructor's `*_assigned` flags | allocate, first write without drop, flagged write, `if_uninit` epilogue, assignment, clone, last drop | carries fields of any of the above types |
| Arrays | `array` module 2759-2857, `ARRAY_*` macros 2367-2758, `deallocate` 2869 | `*mut [MaybeUninit<T>]`; `ArrayN{length1.., data: Box<[Box<[T]>]>}` | `placebos`, `construct`, `initialize`, `get`/`update`, `to_vec`, `deallocate` | same first-write idiom as objects |
| Integer ranges | `IntegerRange*` 1760-1848, `ExactPool` 2889-2911 | `current` and a bound | `next` | drive compiled loops and comprehensions |
| Upcast (4.5) | `UpcastTo` 3337-3455 | none | re-tags objects, rebuilds containers element by element | all containers |
| DafnyInt | 245-570 | `Rc<BigInt>` | arithmetic delegated to `num`, truncating `Into<iN/uN>` | everything |
| Conversions, printing, chars | 47-240, 1850-2300 | none | encoding loops, formatting; array conversions move or (`dafny_array_to_vec`) abandon storage | arrays, sequences, multisets |
| Smithy glue | `get_blob.rs`, `get_string_utf8.rs` | none | convert input, call Dafny through `md!`, map `Success` to `Ok` | depends on the runtime |

What a unit test hardly reaches, and what the models target:

- **Sharing through `to_array`.** A `ConcatSequence` and its clones share their
  child cells and memo slot. Flattening one of them overwrites both child
  cells with `seq!()`, and every other alias then relies on the memo slot. The
  order in which shared and nested concatenations are flattened is free.
- **Cached totals.** `Multiset.size` is maintained by arithmetic in each
  operation, not recomputed. Concatenation `length` is stored, and `eq`,
  `partial_cmp` and `hash` trust it.
- **Comparison branches.** Every `partial_cmp`, `disjoint` and `eq` picks which
  side to scan from the two sizes.
- **Signs and widths in the Euclidean helpers.**
- **The first-write protocol for fields.** It is driven by a flag the caller
  keeps.

## 2. Plan

1. Sequence: a detailed model (`DafnySequence`) with an explicit heap of cells
   and memo slots, refined to `SequenceValues`. **Done.**
2. Multiset: `DafnyMultiset` refined to `MultisetValues` (Bags). **Done.**
3. Set and Map: `DafnyMapSet` refined to `MapSetValues`. **Done.**
4. Euclidean helpers as operators, checked against the mathematical
   definition over BigInt and over a 4-bit type. **Done.**
5. Object field-initialisation protocol: `DafnyObject`. **Done** for rcmut
   mode.
6. Integer range iterators and `exact_range`: `DafnyIntegerRange`. **Done.**
7. Arrays, 1-D and `Array2` for the `ARRAY_DEF` family: `DafnyArray`.
   **Done.**
8. Object handles: `DafnyObjectRef` covers identity, reference counts,
   upcast, `eq` and `hash`. **Done.**
9. Upcast of containers, as actions of the container models, checked by
   their refinements. **Done.**
10. Liveness of range loops: withdrawn. Over a fixed width it held only by
    the overflow panic of a debug build, and the bounded case follows from
    `YieldsExactlyTheRange`. See §6.
11. The raw-pointer object mode, in `DafnyObject`. **Done.**
12. Native conversions that change ownership or a memo: array and string
    conversions, `dafny_multiset_to_owned_vec`, and `cast_object!`. **Done.**
13. The rcmut 1-D array (`placebos_usize_rcmut`, `construct_rcmut`, handle
    clone and drop) in `DafnyArray`. **Done.**
14. Next sittings:
   - `Sequence::as_dafny_multiset` and `Set::from_sequence`, composing the
     sequence heap with the multiset and set models;
   - larger bounds for `DafnySequence` (five handles) once a state
     constraint keeps the run under five minutes.

## 3. Modules

In every collection module, the caller's values are a sequence `handles`
(or `sets`/`maps`). The variable `observed` records the caller's last call:
the operation name, its arguments (handle indices, elements) and its answer.
Each operation is one action. It reads its operands from the handles, and it
either appends a new value or sets `observed`.

Each abstract module (`*Values`) has the same actions over mathematical values.
The refinement therefore checks that every new value and every answer is the
mathematical one for **that** call. Recording the call matters: without it, a
wrong result could pass as some other operation's result.

### DafnySequence / SequenceValues

- `handles` are Sequence values. A `Concat` node holds the indices of its
  two child cells in `cells` and of its memo slot in `boxes`. Clones share
  these indices, as clones of the Rust value share the `Rc`s.
- `ToArray(s, H)` translates `to_array`. It either returns the memo, or
  computes `AppendRecursive`, clears both cells to `Empty` (`seq!()`) and fills
  the memo. All of this happens in one action, because it is one call.
- `SeqEq` and `SeqPartialCmp` translate `eq` and `partial_cmp`. They call
  `to_array` on the operands in the code's order, threading the heap through,
  so comparing two aliases flattens both.
- `ToVec` translates `dafny_sequence_to_vec`. It reads memos and never fills
  one. `DafnyStringToString` translates the `unicode_chars_true`
  `dafny_string_to_string`, which calls `to_array` and so flattens and
  memoises its argument like every other reader.
- The refinement maps each handle to the content `AppendRecursive` finds in
  the current heap.

### DafnyMultiset / MultisetValues

- A multiset is `[data, size]`. `Merge`, `Intersect`, `Subtract` (a fold of
  `SubtractStep` over other's keys), `UpdateCount`, `FromIterator` and
  `FromHashmapOwned` translate the code, short-cuts on `size` included.
- `MultisetPartialCmp` translates `partial_cmp` literally.
- `QueryOwnedVec` translates `dafny_multiset_to_owned_vec` through
  `OwnedVec`: each key pushed as often as its count, in the map's order.
  The caller observes how often an element occurs in the vector, and
  `MultisetValues` answers with the bag's count.
- `SpecAlgebra` leaves out `partial_cmp`, so that the algebra run is not
  stopped by the bug found in it (§5).

### DafnyMapSet / MapSetValues

- A HashSet is a set and a HashMap is a function. The code's loops are
  order-independent and become comprehensions.
- `MapFromArray` is a left fold of inserts, so a later pair wins.
- Every short cut on an empty operand, and every choice of scan side, is
  kept.

### DafnyEuclid

- Rust's truncating `/` and `%`, unary minus, `abs`, `+` and `-` are operators
  over BigInt (`Width = 0`) or `Width`-bit integers.
- An overflowing operation panics (`Build = "debug"`) or wraps (`"release"`).
  `MIN / -1`, `MIN % -1` and a zero divisor always panic.
- `EuclidianDivision`, `EuclidianModulo` and `DafnyRationalToInt` are built
  from these operators, exactly as the code writes them.

### DafnyObject

- One object is modelled, in either mode. `Init` picks the mode: `rcmut`
  (`allocate_rcmut` and the `_rcmut` macros) or `raw` (`allocate` and the
  plain macros). The field macros of the two modes have the same control.
  Its fields are `OnceFields` (written
  once with `update_field_nodrop`) and `FlaggedFields` (written with
  `update_field_uninit`).
- Every written value is a fresh token. The ghost `live` is the set of tokens
  still owned. The ghost `badDrop` records a drop of uninitialized bits.
- Phases are `body`, then `epilogue` (`update_field_if_uninit` on each flagged
  field), then `ready` (`md!` assignment, clone, drop), then `freed`. In
  rcmut mode the last handle's drop frees the value and every field. In raw
  mode `deallocate` does, through `Box::from_raw`, and copying a `*mut T`
  is no action.

### DafnyIntegerRange

- One iterator is live at a time. `kind`, `current` and `limit` are its
  fields. The caller may drop it (a `break`) and create the next one, so every
  `Start` action is enabled in every state except after a panic.
- A is a 4-bit signed type with overflow checks: `Succ` and `Pred` are
  `+ One::one()` and `- One::one()`, and `Panic` when the result leaves A.
- Each `next()` is one action per iterator type, with the code's order of
  compare, increment and return. `out` records the items returned, and the
  ghost `origin` records the argument.
- `YieldBound` (`2^Width`) caps `out`. A correct iterator never reaches it,
  because A has only `2^Width` values. The cap keeps the state space finite
  when an iterator cycles.
### DafnyArray

- One 1-D array `a1` and one `Array2` `a2`. Each is `none`, `placebo`,
  `constructed` or `freed`. An `Array2` is `[length1, data]`, as
  `ARRAY_STRUCT` lays it out. `length0` is `Len(data)`.
- A cell is `Uninit` or `Elem`. The ghost `owned` counts the element values
  the storage owns.
- The generated code's element writes and `data[i][j]` assignments are not in
  `src/`, so they are modelled from spec.md 4.4 and marked `spec_modelled`.
  `get` and `length` change nothing, so they are not actions.
- The native conversions of `dafny_runtime_conversions` are actions.
  `VecToDafnyArray` is `array::from_vec` (`FromVec1`). `DafnyArray2ToVec`
  frees the `Array2` with `Box::from_raw`. `DafnyArrayToVec` follows the
  code, not the comment above it ("They all take ownership"): it clones
  the elements through `ptr.as_ref()` and never frees the array. The
  caller holds no pointer afterwards, so the model marks the array `freed`
  and leaves `owned` as it was. `ConversionsTakeOwnership` states what the
  comment claims: the owned elements are exactly those of the arrays the
  program still holds. The `array_ownership` run finds it violated (§5).
- The guards of the element writes and of `construct` (each placebo cell
  written once, all of them before `construct`) are Dafny's definite
  assignment, not code of the runtime. With them every other action keeps
  `owned` equal to the held cells, so only the conversion is checked.
- A third array `ar` is the 1-D array of rcmut mode, an
  `Object<[T]>` (`Rc<UnsafeCell<[T]>>`) with a strong count `refs`.
  `PlacebosUsizeRcmut` is `placebos_usize_rcmut` (the placebo box made an
  `Rc` by `array_object_from_box`). `WriteCellRcmut` and `UpdateRcmut` are
  the generated writes through `md!(a.clone())`, whose temporary clone is
  dropped within the statement. `ConstructRcmut` is the transmute of
  `construct_rcmut`. `CloneRcmut` and `DropRcmut` are `Object::clone` and
  the handle drop; the last drop frees the slice and every element. The
  Rc drops the slice with the type of the handle dropped last, so the
  transmute must reach every handle before the last drop. In the
  generated code it does, because clones of the placebo handle live only
  within one `md!` statement; the model clones only constructed handles.

### DafnyObjectRef

- This module models handles rather than fields. `handle` maps each of the
  caller's `Slots` to a handle `[cell, ty, vt]`, or to `Empty`. The cell is
  an address from `Cells`, or `Null` for `Object(None)`. `ty` is the static
  type: `class` is a thin pointer and `trait` is `dyn Trait`, a fat pointer.
  `vt` is the vtable of a `trait` handle. `rc` is every cell's
  `Rc::strong_count`. `observed` holds the last call, with the handles that
  were passed to it.
- Actions: `New` (`object::new`), `NullObject`, `CloneHandle`, `DropHandle`,
  `Upcast`, `CastObject`, `Compare` and `Refcount`. `CastObject` is
  `cast_object!`: it moves the `Rc` out of a non-null trait handle through
  `Rc::into_raw`/`Rc::from_raw` into a class handle, so the count does not
  change and the source handle is consumed. `Compare` takes two disjuncts,
  `PartialEq` and `nullable_referential_equality`.
- `Upcast` counts the way the code does. The caller passes a clone (+1),
  `upcast_to` clones `self.0` (+1) and drops `self` (-1). It guards on a
  non-null handle because `self.0.unwrap()` panics on a null one.
- `Refcount` consumes the handle it is given, because the macro takes
  `$x.0` by value.
- The upcast picks any vtable from `VTables`. Rust does not promise one
  vtable per (type, trait) pair: each codegen unit may emit its own, and the
  `std::ptr::eq` documentation warns about this. The comment at lib.rs:3042
  exists for the same reason.
- `Rc::ptr_eq` is modelled as comparing addresses only, which is what std
  does since Rust 1.72.
- Container upcasts are actions of the container models: `Upcast` in
  `DafnySequence` goes through `to_array`, so it flattens and memoises its
  source. `NewUpcast` in `DafnyMultiset` recomputes the size with
  `from_hashmap_owned`. `SetUpcast` and `MapUpcast` are in `DafnyMapSet`.
  Each abstract module has a matching step that keeps the value, so the
  refinements check spec.md 8: an upcast keeps cardinality, order and
  membership.

## 4. Runs

| Run | Config | Checks | Result |
|---|---|---|---|
| `seq_memo` | `MCDafnySequence.cfg`: values {v1, v2} with symmetry, 4 handles, literals of length ≤ 1 | `TypeOK`, `LengthMatchesContent`, `ImplementsSequenceValues` | pass, ~39k states, 50 s |
| `multiset_algebra` | `MCDafnyMultiset.cfg`: 3 handles, literals ≤ 2, counts ≤ 2 | `TypeOK`, `SizeMatchesCounts`, `ImplementsMultisetValues` under `SpecAlgebra` | pass, ~18.6k states |
| `multiset_order` | `MCDafnyMultisetOrder.cfg`: same, with `partial_cmp` | `ImplementsMultisetValues` | **violation** (§5) |
| `mapset_algebra` | `MCDafnyMapSet.cfg`: 3 handles, literals ≤ 2 | `ImplementsMapSetValues` | pass, ~17k states |
| `euclid_bigint` | `MCDafnyEuclid.cfg`: BigInt, operands -6..6 | `EuclideanContract` | pass |
| `euclid_fixed_width` | `MCDafnyEuclidNibble.cfg`: 4-bit release build, operands -8..7 | `EuclideanContract` | **violation** (§5) |
| `integer_ranges` | `MCDafnyIntegerRange.cfg`: 4-bit A with overflow checks, every bound in -8..7 | `YieldsExactlyTheRange`, `PanicsOnlyAtTheEdge` | pass, ~2.7k states |
| `array_ownership` | `MCDafnyArray.cfg`: lengths 0..2, `MaxRefs` = 2 | `ConversionsTakeOwnership` | **violation** (§5) |
| `object_init` | `MCDafnyObject.cfg`: one once-field, two flagged fields, 4 writes, 2 handles | `TypeOK`, `FieldsOwnedExactly`, `ConstructedFullyInitialized` | pass |
| `object_refs` | `MCDafnyObjectRef.cfg`: 3 slots, 2 cells, 2 vtables | `RefcountMatchesHandles` | pass, ~8.4k states |
| `object_hash` | `MCDafnyObjectRefHash.cfg`: same | `HashAgreesWithEq` | **violation** (§5) |
| `object_null_eq` | `MCDafnyObjectRefNull.cfg`: same | `NullEqualsNull` | **violation** (§5) |

Why the bounds are enough:

- **Sequences.** Four handles allow a concatenation of a concatenation
  (nested memo), a clone shared by two parents (the child cell seen through
  two nodes), and a self-concatenation `s + s` (both cells holding the same
  node). Each operation can be applied to any of them, in any order.
- **Multisets.** Counts up to 2 separate minimum from maximum, clamping from
  removal, and "count set to its current value" from "count changed".
- **Maps.** Two keys and two values give shared keys with different
  bindings.
- **Euclid.** The ranges contain every sign combination, exact multiples, and
  (at 4 bits) `MIN` and `-1`.
- **Ranges.** All 16 values of a 4-bit type are bounds, so ranges that end at
  `MIN` and `MAX`, empty ranges and inverted bounds are all enumerated.
- **Arrays.** Lengths 0..2 give empty arrays, an `Array2` with no rows but a
  stored `length1`, empty rows, and non-square shapes. `MaxRefs` = 2 lets the rcmut array be freed by either of two handles,
  so a drop that is not the last is separated from the one that is.
- **Objects.** Two flagged fields let one be assigned twice and the other
  never.
- **Object handles.** Three slots hold a class handle and two `dyn Trait`
  upcasts of it, which may have different vtables. Two cells let an object
  be freed and another allocated while handles are live.

Each property of a passing run has a mutant in `PROJECT.json`: a plausible bug in a mapped
definition that TLC catches under the run's own cfg.

Deadlock is checked everywhere except `object_init` and `integer_ranges`. In
`object_init`, a behaviour really ends once the last handle has freed the
object. In `integer_ranges`, a panic ends the program.

`PanicsOnlyAtTheEdge` states one asymmetry of the code.
`integer_range_down_unbounded` returns `MIN` and panics on the following
call. `integer_range_unbounded` computes `MAX + 1` before it returns `MAX`, so
it panics instead of returning `MAX`. Neither spec.md nor a comment describes
this behaviour, so it is recorded as a property and a hazard, not as a
finding.

## 5. Findings

- **Multiset `partial_cmp` is not inclusion (lib.rs:1619).** When `self` is
  smaller, the code requires every key of `other` to be in `self`. So
  `multiset{}` compared with `multiset{x}` returns `None` where Dafny and
  spec.md 8 say `Less`. The `Greater` branch has the mirror bug. TLC finds the
  three-step trace in `multiset_order`.
- **`euclidian_modulo` at `MIN` of a machine integer (lib.rs:1751).** `-a`
  overflows. A release build wraps and returns a remainder outside `[0, |b|)`:
  at 4 bits, `-8 mod -7` gives `-8` instead of `6`. A debug build panics,
  although the answer is representable. Over BigInt the helpers are correct
  (`euclid_bigint`).
- **`Object` hash disagrees with `eq` (lib.rs:3057).** `eq` casts both
  pointers to thin `*const ()` before comparing them. `Hash` hashes the fat
  `*mut T`, vtable included. Two upcasts of one object that got different
  vtables are therefore equal but hash differently, against the contract
  of spec.md 2 and 9 (equal ⇒ equal hash). `Object` has no `Eq` impl, so
  the runtime's containers cannot key on it directly. A type that hashes
  and compares an `Object` field can, though, for example a generated
  datatype with a manual `Eq`. Such a value can then sit in a `Set` twice. TLC's trace: new, two upcasts, eq.
  Whether it shows up depends on the build (codegen units, LTO).
- **Null objects are unequal (lib.rs:3047).** `Object::eq` returns `false`
  as soon as either side is `None`, so `null == null` is false. The
  runtime's own `nullable_referential_equality` (line 1720) and Dafny both
  answer `true`.
- **`dafny_array_to_vec` does not take ownership (lib.rs:86).** The comment
  on line 85 says the conversions "all take ownership" of the array, and
  `dafny_array2_to_vec` does free its argument with `Box::from_raw`. The
  one-dimensional version only reads `ptr.as_ref().unwrap().to_vec()`:
  it clones the elements and never frees the array. The caller has handed
  over its pointer, so the array and the element values in it are leaked.
  TLC's trace in `array_ownership`: initialize a one-element array, convert it.

## 6. Not modelled, and why

- **Termination of range loops in a release build.** `DafnyIntegerRange`
  assumes overflow checks, as a debug build has them: the unbounded
  iterators end in a panic at the edge of A. In a release build
  `current + 1` wraps, and a loop `for i := lo to *` over a machine
  integer never ends. The project does not check termination: the
  bounded iterators end by `YieldsExactlyTheRange`, and the unbounded
  ones need a release-build instance, which no run has.

- **Generated Smithy glue.** `GetBlob::send` (get_blob.rs:11-33) converts
  the input, calls the Dafny client through `md!(handle.inner.clone())`,
  whose temporary clone is dropped at the end of the statement, and maps
  `Success` to `Ok` and `Failure` to `Err`. `Client::get_string_utf8`
  clones the handle into a fluent builder. Neither keeps state, and the
  reference count they touch returns to its value within one statement;
  the rest of get_blob.rs is error formatting.
- **Printing, `Debug`, chars and the remaining conversions.** These are
  formatting and per-element encoding. No property is about text. The set,
  map and hashmap conversions (`set_to_dafny_set`, `dafny_set_to_set`,
  `Map::from_hashmap`, `to_hashmap_owned`) map a `HashSet` or `HashMap`
  element by element with a converter that is a bijection at this
  abstraction, so they are the identity on the models' values.
  `DafnyCharUTF16::fmt_print` (lib.rs:1994) decodes one code unit at a
  time, so a surrogate pair prints as two "Invalid UTF-16 code point"
  messages; this too is a fact about text. One observation was
  not model-checked. With `--unicode-chars:false`, `dafny_string_to_string`
  (lib.rs:190) decodes with `String::from_utf16_lossy`. A Dafny string
  with an unpaired surrogate therefore becomes U+FFFD rather than failing,
  although spec.md 7 says conversion failures produce no fallback value.
  This is a single-call fact that a unit test with one lone surrogate
  shows, with no interleaving for a model to explore.
- **`DafnyInt` arithmetic and conversions.** They delegate to
  `num::BigInt`, and the models use TLA+ integers for them. `Into<uN/iN>`
  is `to_xN().unwrap()`, a fatal error out of range, as spec.md 4.1 says.
  The comment above `truncate!` (lib.rs:264) speaks of truncation, but
  the code does not truncate, so there is nothing to check.
- **Hash functions.** The models use mathematical equality. The hazards in
  `PROJECT.json` note where `hash` trusts a cached field.
- **`cast!`, `is!`, `cast_any!` and `AllocationTracker`.** The first three
  are `Any` downcasts that change no state. `AllocationTracker` is a
  debugging list of `Weak` handles.
- **Upcast of a null handle.** `DafnyObjectRef` leaves out the panic of
  upcasting a null handle (and of `cast_object!` on one), because the
  generated code upcasts only values of a non-null type. The container
  upcasts (lib.rs:3403-3452) call `upcast_to` on every element and would
  panic on a null element the same way. Container upcasts keep each element's identity, and
  the elements are model values. Re-tagging one element is the `Upcast` of
  `DafnyObjectRef`.
- **Zero counts from `from_hashmap`.** `Multiset::from_hashmap` (lib.rs:1453)
  and `Map::as_dafny_multiset` keep zero and negative counts. `eq`
  compares key sets, so a bag with a zero entry is unequal to the same bag
  without it. The model feeds `from_hashmap` positive counts only, as
  the generated callers do; the hazard is listed in `PROJECT.json`.
- **Array `get` and `length`, and the rcmut `ArrayN`.** The queries change
  nothing. The `ArrayN` variant in an `Object` (`ARRAY_METHODS::construct_rcmut`,
  `rcmut::Array::placebos_usize`) is built the way the modelled 1-D rcmut
  array is, one nesting level per dimension, and is left out.
- **Aliasing of `md!` and `rd!`.** Both macros hand out references into the
  `UnsafeCell` of any clone of an object. A statement that holds a `&T` from
  `rd!` while assigning through `md!` to the same object is undefined
  behaviour under Rust's aliasing rules. The models take each generated
  statement as one step, so the order of loads and stores inside it is
  below their abstraction; `PROJECT.json` lists the hazard.
- **`DafnyInt`, lazy fields, function wrappers and `MaybePlacebo`.** Each is a
  single `Rc`, `Lazy` or `Option` with no control of its own:
  `MaybePlacebo::read` is `unwrap_unchecked`, which Dafny's definite
  assignment makes safe, and its drop is the `Option`'s.
