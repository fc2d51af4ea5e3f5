\* Treasury sync against a node whose reported block number may lag the tip
\* by one block (a load-balanced or lagging JSON-RPC endpoint).
CONSTANTS
    USDC = USDC
    WETH = WETH
    WBTC = WBTC
    Reserve <- USDC
    Spot <- MCSpot
    DeployBlock = 2
    MaxBlock = 6
    MaxAmount = 1
    NodeLag = 1
SPECIFICATION Spec
CHECK_DEADLOCK FALSE
INVARIANTS
    NoDoubleApplication
