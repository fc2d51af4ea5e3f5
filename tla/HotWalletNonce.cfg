\* Four swap transactions: enough for a batch of two to leave one pending
\* or dropped, a later cycle to raise part way through a batch of two, and
\* a restart to re-read the nonce below what is still pending.
CONSTANTS
    a = a
    b = b
    c = c
    d = d
    Txs <- MCTxs
SPECIFICATION Spec
INVARIANTS
    TypeOK
    RecordedNoncesUnique
