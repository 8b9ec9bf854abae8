SPECIFICATION Spec
CONSTANTS
    MinSeqSparseZeros = 2
    OutSize = 2
    MaxLen = 3
INVARIANTS DownloadCanBeFlushed
