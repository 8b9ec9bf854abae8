SPECIFICATION Spec
CONSTANTS
    MinSeqSparseZeros = 2
    OutSize = 2
    MaxLen = 8
INVARIANTS CopiesSource
