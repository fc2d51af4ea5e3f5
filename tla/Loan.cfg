\* Trades of up to 2 units, balances up to 4, one unit of interest per side,
\* slippage of one unit either way, liquidation at 80 % loan-to-value.
CONSTANTS
    MaxQty = 2
    MaxBalance = 4
    MaxAccrual = 1
    Slip <- MCSlip
    LiquidationLTV = 80
    MaxInterestGain = 50
SPECIFICATION Spec
CONSTRAINT BookedBound
INVARIANTS
    ShortTrackersConsistent
