\* One field Dafny assigns exactly once, two written through the flag
\* protocol (enough for one to be assigned twice and the other never).
CONSTANTS
    OnceFields = {a}
    FlaggedFields = {b, c}
    MaxTokens = 4
    MaxRefs = 2

SPECIFICATION Spec

\* A behaviour ends when the last handle has dropped the object.
CHECK_DEADLOCK FALSE

INVARIANT TypeOK
INVARIANT FieldsOwnedExactly
INVARIANT ConstructedFullyInitialized
