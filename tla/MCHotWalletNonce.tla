--------------------------- MODULE MCHotWalletNonce ---------------------------
EXTENDS HotWalletNonce

CONSTANTS a, b, c, d

\* Four transactions for the safety run.
MCTxs == {a, b, c, d}

\* Three for the liveness run, whose behaviour graph grows faster.
MCTxs3 == {a, b, c}
=============================================================================
