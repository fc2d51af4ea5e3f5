\* Liveness of the treasury sync under the cycle loop's repeated calls.
CONSTANTS
    USDC = USDC
    WETH = WETH
    WBTC = WBTC
    Reserve <- USDC
    Spot <- MCSpot
    DeployBlock = 2
    MaxBlock = 5
    MaxAmount = 1
    NodeLag = 0
SPECIFICATION Spec
CHECK_DEADLOCK FALSE
PROPERTIES
    SyncEventuallyCatchesUp
