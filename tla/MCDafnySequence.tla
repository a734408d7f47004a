-------------------------- MODULE MCDafnySequence --------------------------
(* Model-checking instance of DafnySequence: two element values as model   *)
(* values, literals of at most one element, at most five live handles.    *)
EXTENDS DafnySequence, TLC

CONSTANTS v1, v2

MCValues == {v1, v2}

Symmetry == Permutations(MCValues)

=============================================================================
