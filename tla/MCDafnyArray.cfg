\* Lengths 0..2 give empty arrays, empty rows and non-square Array2s;
\* a 2 x 2 Array2 and a 1-D array of 2 are the largest shapes.  Two
\* handles of the rcmut array separate its last drop from an earlier one.
\* Arrays are created again after they are freed, so no behaviour stops.
CONSTANTS
    MaxLen = 2
    MaxRefs = 2
SPECIFICATION Spec
INVARIANT ConversionsTakeOwnership
