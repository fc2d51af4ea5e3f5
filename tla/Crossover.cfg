\* Every pair of series of length 1..4 over 0..2, both counts 1..2, both
\* buffers 0 or 50 percent, with and without the cross index.
CONSTANTS
    Values = {0, 1, 2}
    MaxLen = 4
    MinCounts = {1, 2}
    BufferPercents = {0, 50}
    ReturnIndex = {FALSE, TRUE}
SPECIFICATION Spec
INVARIANTS
    CrossoverMeetsSpec
