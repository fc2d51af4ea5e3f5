---------------------------- MODULE MCTradeRepair ----------------------------
EXTENDS TradeRepair

CONSTANTS t1, t2, t3, p1, p2

MCTrades == {t1, t2, t3}
MCPositions == {p1, p2}
MCPosOf == (t1 :> p1) @@ (t2 :> p1) @@ (t3 :> p2)
=============================================================================
