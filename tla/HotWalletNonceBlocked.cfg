\* Three swap transactions, with mempool eviction: a recorded transaction
\* that is never mined leaves a nonce the restart cannot get past.
CONSTANTS
    a = a
    b = b
    c = c
    d = d
    Txs <- MCTxs3
SPECIFICATION Spec
PROPERTY NonceEventuallyFree
