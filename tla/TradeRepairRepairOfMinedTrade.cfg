\* repair_trades counter-trades a broadcasted trade whatever its transaction
\* did on chain.
CONSTANTS
    t1 = t1
    t2 = t2
    t3 = t3
    p1 = p1
    p2 = p2
    Trades <- MCTrades
    Positions <- MCPositions
    PosOf <- MCPosOf
SPECIFICATION Spec
INVARIANTS
    LedgerMatchesChain
