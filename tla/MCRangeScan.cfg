\* ListTransactionsByNonce over every keyspace of two prefix-related
\* hex-style signers, nonces within the key width, every cursor, limit and
\* direction; and ListListeners / ListStreamListeners over every
\* listeners family of three IDs in two streams; ListTransactionsByCreateTime
\* and ListTransactionsPending over every created and pending index of
\* three sequence IDs, with two created times of different digit counts.
CONSTANTS
    Signers <- MCHexSigners
    Nonces <- MCInRangeNonces
    NonceWidth = 1
    Createds = {5, 10}
    CreatedWidth = 2
    Seqs = {1, 2, 3}
    Limits = {0, 1, 2}
    ListenerIDs = {1, 2, 3}
    Streams = {e1, e2}
    NoCursor = NoCursor
    NoFilter = NoFilter
    Orphan = Orphan
SPECIFICATION Spec
INVARIANT TypeOK ScanMatchesReference
\* A scan ends in "done"; nothing runs after it.
CHECK_DEADLOCK FALSE
