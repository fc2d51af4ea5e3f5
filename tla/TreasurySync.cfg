\* Treasury sync against a node that reports the true chain tip, with two
\* spot tokens and six blocks after the deployment.
CONSTANTS
    USDC = USDC
    WETH = WETH
    WBTC = WBTC
    Reserve <- USDC
    Spot <- MCSpotPair
    DeployBlock = 2
    MaxBlock = 8
    MaxAmount = 2
    NodeLag = 0
SPECIFICATION Spec
\* A window holding a redemption that empties a holder makes sync_treasury
\* raise on every cycle (vault.py:197): the executor then really stops.
CHECK_DEADLOCK FALSE
INVARIANTS
    TypeOK
    LedgerReconciled
    NoDoubleApplication
    UpdateIdsInOrder
PROPERTIES
    SyncIdempotent
    LedgerRefined
