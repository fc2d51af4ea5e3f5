----------------------------- MODULE TradeRepair -----------------------------
(***************************************************************************)
(* Trade execution lifecycle and the repair engine.                        *)
(*                                                                         *)
(* A strategy cycle decides a batch of trades, broadcasts their            *)
(* transactions and waits for receipts up to the confirmation timeout      *)
(* (broadcast_and_resolve, src/tradeexecutor/ethereum/execution.py).      *)
(* Receipts are resolved: a success marks the trade success, a revert      *)
(* marks it failed and freezes its position (report_failure,              *)
(* src/tradeexecutor/ethereum/swap.py).  execute_trades leaves           *)
(* stop_on_execution_failure at its default False, so every mined receipt *)
(* is resolved.  Transactions without a receipt stay broadcasted and may  *)
(* still be mined later.  repair_trades (src/tradeexecutor/state/repair.py)*)
(* makes a zero-value counter-trade for every trade needing repair and    *)
(* then tries to unfreeze the frozen positions.                           *)
(*                                                                         *)
(* Every trade buys one unit of its position's asset; the ledger quantity  *)
(* of a position is the number of its success trades that are not         *)
(* repaired (a repaired trade counts zero), the chain quantity the number *)
(* of its transactions mined successfully.                                *)
(***************************************************************************)
EXTENDS Integers, Sequences, SequencesExt, FiniteSets

CONSTANTS
    Trades,                  \* trade ids the strategy may create
    Positions,               \* trading positions
    PosOf                    \* the position each trade belongs to

ASSUME PosOf \in [Trades -> Positions]

VARIABLES
    status,      \* TradeExecution status: none (not created), broadcasted, success, failed
    repaired,    \* TradeExecution.repaired_at is set
    tx,          \* the fate of the trade's transaction on chain
    posStatus,   \* none (not opened), open or frozen
    counters     \* repaired_trade_id of every counter-trade, in creation order

vars == <<status, repaired, tx, posStatus, counters>>

TradeStatus == {"none", "broadcasted", "success", "failed"}
TxState == {"none", "pending", "ok", "reverted"}
PositionStatus == {"none", "open", "frozen"}

TradesOf(p) == {t \in Trades : PosOf[t] = p}

-----------------------------------------------------------------------------
(* Trade state machine (TradeExecution, from the spec).                    *)

\* is_repair_needed: broadcast but never resolved, or failed, and not yet
\* compensated by a counter-trade.
IsRepairNeeded(t) ==
    /\ status[t] \in {"broadcasted", "failed"}
    /\ ~repaired[t]

-----------------------------------------------------------------------------
(* Execution (execution.py, swap.py).                                      *)

\* Mutant: a failed trade does not freeze its position.
FreezeOnFailureNone(st, failed) == st

\* state.mark_trade_failed in report_failure: the position of every failed
\* trade is frozen.
FreezeOnFailure(st, failed) ==
    [p \in Positions |-> IF \E t \in failed : PosOf[t] = p THEN "frozen" ELSE st[p]]

\* broadcast: every trade of the batch is marked broadcasted (before the
\* transactions are sent).
Broadcast(B) == [t \in Trades |-> IF t \in B THEN "broadcasted" ELSE status[t]]

\* One strategy cycle: decide_trades returns the batch B (possibly empty) on
\* positions that are not frozen; execute_trades starts and broadcasts it,
\* waits for receipts until the timeout and resolves every mined one
\* (resolve_trades with stop_on_execution_failure=False).  fate[t] is what
\* the chain did with t's transaction by the end of the wait.
StrategyCycle(B, fate) ==
    LET done   == {t \in B : fate[t] # "pending"}
        failed == {t \in done : fate[t] = "revert"}
        opened == [p \in Positions |->
                     IF posStatus[p] = "none" /\ TradesOf(p) \cap B # {}
                     THEN "open" ELSE posStatus[p]]
    IN /\ status' = [t \in Trades |->
                       IF t \notin done THEN Broadcast(B)[t]
                       ELSE IF fate[t] = "ok" THEN "success" ELSE "failed"]
       /\ tx' = [t \in Trades |->
                   IF t \notin B THEN tx[t]
                   ELSE CASE fate[t] = "ok"      -> "ok"
                          [] fate[t] = "revert"  -> "reverted"
                          [] fate[t] = "pending" -> "pending"]
       /\ posStatus' = FreezeOnFailure(opened, failed)
       /\ UNCHANGED <<repaired, counters>>

NewBatches ==
    {B \in SUBSET Trades : \A t \in B : status[t] = "none" /\ posStatus[PosOf[t]] # "frozen"}

\* A transaction left pending after the wait is mined later.
LateMine(t) ==
    /\ tx[t] = "pending"
    /\ \E outcome \in {"ok", "reverted"} : tx' = [tx EXCEPT ![t] = outcome]
    /\ UNCHANGED <<status, repaired, posStatus, counters>>

-----------------------------------------------------------------------------
(* Repair engine (repair.py).                                              *)

\* find_trades_to_be_repaired: trades of open and frozen positions that need
\* repair.
FindTradesToBeRepaired ==
    {t \in Trades : posStatus[PosOf[t]] \in {"open", "frozen"} /\ IsRepairNeeded(t)}

\* Mutant: the counter-trade records the position id of the broken trade.
RepairTradePositionId(t) == PosOf[t]

\* repair_trade: the repaired_trade_id of the counter-trade made for t
\* (make_counter_trade) is t's id; t gets repaired_at.
RepairTrade(t) == t

\* unfreeze_position: the body is `pass`, so it never unfreezes.
UnfreezePosition(p) == FALSE

\* repair_trades(attempt_repair=True, interactive=False), or interactive with
\* the operator answering y: one counter-trade per trade needing repair
\* (repair_trade, make_counter_trade), then unfreeze_position on every
\* position that was frozen.  With nothing to repair it returns early.
RepairTrades ==
    LET broken == FindTradesToBeRepaired
    IN /\ broken # {}
       /\ repaired' = [t \in Trades |-> repaired[t] \/ t \in broken]
       /\ counters' = counters \o [i \in 1..Cardinality(broken) |-> RepairTrade(SetToSeq(broken)[i])]
       /\ posStatus' = [p \in Positions |->
                          IF posStatus[p] = "frozen" /\ UnfreezePosition(p)
                          THEN "open" ELSE posStatus[p]]
       /\ UNCHANGED <<status, tx>>

-----------------------------------------------------------------------------

Init ==
    /\ status = [t \in Trades |-> "none"]
    /\ repaired = [t \in Trades |-> FALSE]
    /\ tx = [t \in Trades |-> "none"]
    /\ posStatus = [p \in Positions |-> "none"]
    /\ counters = <<>>

Next ==
    \/ \E B \in NewBatches : \E fate \in [B -> {"ok", "revert", "pending"}] : StrategyCycle(B, fate)
    \/ \E t \in Trades : LateMine(t)
    \/ RepairTrades

\* repair_trades is run by an operator command, not by the cycle loop, so no
\* fairness is assumed of it.
Spec == Init /\ [][Next]_vars

-----------------------------------------------------------------------------
(* Properties.                                                             *)

TypeOK ==
    /\ status \in [Trades -> TradeStatus]
    /\ repaired \in [Trades -> BOOLEAN]
    /\ tx \in [Trades -> TxState]
    /\ posStatus \in [Positions -> PositionStatus]
    /\ counters \in Seq(Trades)

LedgerQty(p) == Cardinality({t \in TradesOf(p) : status[t] = "success" /\ ~repaired[t]})
ChainQty(p) == Cardinality({t \in TradesOf(p) : tx[t] = "ok"})
Unresolved(p) == {t \in TradesOf(p) : status[t] = "broadcasted" /\ ~repaired[t]}

(* Every unit the chain delivered to a position is booked by a success     *)
(* trade or still awaits resolution as an unresolved broadcasted trade:    *)
(* execution and repair never lose or invent tokens.                      *)
LedgerMatchesChain ==
    \A p \in Positions :
        ChainQty(p) = LedgerQty(p) + Cardinality({t \in Unresolved(p) : tx[t] = "ok"})

=============================================================================
