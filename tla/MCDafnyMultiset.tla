-------------------------- MODULE MCDafnyMultiset --------------------------
(* Model-checking instance of DafnyMultiset: two elements as model values, *)
(* literals of up to two elements, update_count up to 2, three handles.    *)
EXTENDS DafnyMultiset

CONSTANTS v1, v2

MCValues == {v1, v2}

Symmetry == Permutations(MCValues)

=============================================================================
