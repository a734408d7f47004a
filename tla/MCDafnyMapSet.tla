---------------------------- MODULE MCDafnyMapSet ----------------------------
EXTENDS DafnyMapSet

CONSTANTS v1, v2

MCValues == {v1, v2}

\* Elements are interchangeable: no operation looks at their identity.
Symmetry == Permutations(MCValues)

=============================================================================
