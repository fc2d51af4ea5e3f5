---------------------------- MODULE HotWalletNonce ----------------------------
(***************************************************************************)
(* Nonce management of the live executor's hot wallet across strategy     *)
(* cycles, failed broadcasts, process restarts and the mempool            *)
(* (src/tradeexecutor/ethereum/execution.py: initialize, prepare_swaps,   *)
(* translate_to_naive_swap, broadcast, broadcast_and_resolve).            *)
(*                                                                         *)
(* Each element of Txs is one signed swap transaction.  A strategy cycle   *)
(* signs a batch with consecutive nonces from the wallet, broadcasts it,  *)
(* waits for receipts and resolves them; the state is saved after every   *)
(* completed cycle (spec: state persistence), so a cycle that raises       *)
(* leaves the saved state as it was while what it sent stays in the       *)
(* mempool.  The process then exits and its restart re-reads the wallet   *)
(* nonce from the chain.  The chain mines pending transactions in nonce   *)
(* order; a pending transaction may also be evicted from the mempool.     *)
(***************************************************************************)
EXTENDS Integers, Sequences, SequencesExt, FiniteSets

CONSTANTS
    Txs            \* the swap transactions the executor may sign

NoNonce == -1

VARIABLES
    recNonce,      \* saved state: the nonce of each recorded transaction
    recStatus,     \* saved state: its trade's status (none: not recorded)
    repaired,      \* saved state: the trade's repaired_at is set
    pool,          \* chain: none, pending, ok, reverted, dropped
    poolNonce,     \* chain: the nonce each sent transaction carries
    mined,         \* chain: the wallet's transaction count (nonces mined)
    walletNonce,   \* HotWallet.current_nonce of the running process
    up             \* the executor process is running

vars == <<recNonce, recStatus, repaired, pool, poolNonce, mined, walletNonce, up>>

Nonces == 0 .. Cardinality(Txs)
TradeStatus == {"none", "broadcasted", "success", "failed"}
PoolState == {"none", "pending", "ok", "reverted", "dropped"}

\* The nonces the saved state knows of (Portfolio.check_for_nonce_reuse
\* compares against these; from the spec's used-nonce set).
RecordedNonces == {recNonce[t] : t \in {u \in Txs : recNonce[u] # NoNonce}}

PendingNonces == {poolNonce[t] : t \in {u \in Txs : pool[u] = "pending"}}

-----------------------------------------------------------------------------
(* execution.py                                                            *)

\* Mutant: the restart resumes one past the mined count.
InitializeAhead == mined + 1

\* initialize: hot_wallet.sync_nonce reads the wallet's transaction count
\* from the chain, which counts mined transactions only.
Initialize == mined

\* Mutant: prepare_swaps without the reuse check.
NonceCheckPassesAlways(n) == TRUE

\* prepare_swaps: state.portfolio.check_for_nonce_reuse(hot_wallet.current_nonce)
\* before each trade is signed; it raises on a nonce the state holds.
NonceCheckPasses(n) == n \notin RecordedNonces

\* translate_to_naive_swap signs the i-th trade of the batch with
\* sign_transaction_with_new_nonce: consecutive nonces from the wallet.
SignedNonce(order, t) == walletNonce + (CHOOSE i \in DOMAIN order : order[i] = t) - 1

\* broadcast_transactions sends the batch one transaction at a time; the
\* node refuses a nonce already mined or already pending.
NodeAccepts(n) == n >= mined /\ n \notin PendingNonces

\* The transactions of the batch sent: the first j of its order.
Sent(order, j) == {order[i] : i \in 1 .. j}

\* A cycle that raises: the saved state is untouched and the process exits.
CycleRaises ==
    /\ up' = FALSE
    /\ UNCHANGED <<recNonce, recStatus, repaired, walletNonce>>

\* One strategy cycle over the batch B: the trades are signed (prepare_swaps,
\* the signing path of this repository, standing for the routing model's
\* setup_trades that execute_trades calls), then broadcast_and_resolve with
\* the default stop_on_execution_failure=False, then the state is saved.  Its outcomes, in the order the code meets them:
\*  - a nonce check raises during prepare_swaps: nothing is sent;
\*  - broadcast_transactions raises after the node took the first j < k
\*    transactions (a busy node, or a nonce it refuses); broadcast re-raises;
\*  - all are sent and the chain mines the nonces from `mined` up to m - 1
\*    while the cycle waits; then either the process dies before the state
\*    is saved, or resolve_trades marks the batch's mined trades success or
\*    failed, leaves the rest broadcasted, and the state is saved with the
\*    batch's nonces.  An empty batch only waits and saves.
StrategyCycle(B) ==
    LET order   == SetToSeq(B)
        k       == Len(order)
        checked == \A j \in 1 .. k : NonceCheckPasses(walletNonce + j - 1)
    IN
    /\ up
    /\ \/ /\ ~checked
          /\ CycleRaises
          /\ UNCHANGED <<pool, poolNonce, mined>>
       \/ /\ checked
          /\ \E j \in 0 .. k - 1 :
                /\ \A i \in 1 .. j : NodeAccepts(walletNonce + i - 1)
                /\ pool' = [t \in Txs |-> IF t \in Sent(order, j) THEN "pending" ELSE pool[t]]
                /\ poolNonce' = [t \in Txs |-> IF t \in Sent(order, j)
                                               THEN SignedNonce(order, t) ELSE poolNonce[t]]
          /\ CycleRaises
          /\ UNCHANGED mined
       \/ /\ checked
          /\ \A i \in 1 .. k : NodeAccepts(walletNonce + i - 1)
          /\ LET nonceAfter == [t \in Txs |-> IF t \in B THEN SignedNonce(order, t) ELSE poolNonce[t]]
                 pendingAfter == {t \in Txs : t \in B \/ pool[t] = "pending"}
             IN \E m \in mined .. mined + Cardinality(pendingAfter) :
                LET done == {t \in pendingAfter : nonceAfter[t] < m}
                IN
                /\ \A n \in mined .. m - 1 : \E t \in pendingAfter : nonceAfter[t] = n
                /\ \E fate \in [done -> {"ok", "reverted"}] :
                      /\ pool' = [t \in Txs |-> IF t \in done THEN fate[t]
                                               ELSE IF t \in B THEN "pending" ELSE pool[t]]
                      /\ poolNonce' = nonceAfter
                      /\ mined' = m
                      /\ \/ CycleRaises
                         \/ /\ recNonce' = [t \in Txs |-> IF t \in B THEN nonceAfter[t] ELSE recNonce[t]]
                            /\ recStatus' = [t \in Txs |->
                                               IF t \notin B THEN recStatus[t]
                                               ELSE IF t \notin done THEN "broadcasted"
                                               ELSE IF fate[t] = "ok" THEN "success" ELSE "failed"]
                            /\ walletNonce' = walletNonce + k
                            /\ UNCHANGED <<repaired, up>>

-----------------------------------------------------------------------------
(* Repair engine (repair.py, as in TradeRepair).                           *)

\* repair_trades: every recorded trade broadcasted or failed and not yet
\* repaired gets a counter-trade and repaired_at; no transaction is sent.
RepairTrades ==
    LET broken == {t \in Txs : recStatus[t] \in {"broadcasted", "failed"} /\ ~repaired[t]}
    IN /\ broken # {}
       /\ repaired' = [t \in Txs |-> repaired[t] \/ t \in broken]
       /\ UNCHANGED <<recNonce, recStatus, pool, poolNonce, mined, walletNonce, up>>

-----------------------------------------------------------------------------
(* Environment.                                                            *)

\* The chain mines the pending transaction whose nonce is next.
Mine(t) ==
    /\ pool[t] = "pending" /\ poolNonce[t] = mined
    /\ \E outcome \in {"ok", "reverted"} : pool' = [pool EXCEPT ![t] = outcome]
    /\ mined' = mined + 1
    /\ UNCHANGED <<recNonce, recStatus, repaired, poolNonce, walletNonce, up>>

\* The mempool evicts a pending transaction (underpriced, or a node
\* restart); it is never mined.
Drop(t) ==
    /\ pool[t] = "pending"
    /\ pool' = [pool EXCEPT ![t] = "dropped"]
    /\ UNCHANGED <<recNonce, recStatus, repaired, poolNonce, mined, walletNonce, up>>

\* The supervisor restarts the exited executor; initialize re-reads the
\* wallet nonce.
Restart ==
    /\ ~up
    /\ up' = TRUE
    /\ walletNonce' = Initialize
    /\ UNCHANGED <<recNonce, recStatus, repaired, pool, poolNonce, mined>>

\* Batches the strategy may decide: transactions never signed into a saved
\* or sent state.
FreshTxs == {t \in Txs : recStatus[t] = "none" /\ pool[t] = "none"}

-----------------------------------------------------------------------------

Init ==
    /\ recNonce = [t \in Txs |-> NoNonce]
    /\ recStatus = [t \in Txs |-> "none"]
    /\ repaired = [t \in Txs |-> FALSE]
    /\ pool = [t \in Txs |-> "none"]
    /\ poolNonce = [t \in Txs |-> NoNonce]
    /\ mined = 0
    /\ walletNonce = 0
    /\ up = TRUE

Next ==
    \/ \E B \in SUBSET FreshTxs : StrategyCycle(B)
    \/ RepairTrades
    \/ \E t \in Txs : Mine(t) \/ Drop(t)
    \/ Restart

\* The cycle loop keeps deciding trades while there are any to decide, the
\* chain mines the next nonce when it is pending, and the supervisor
\* restarts an exited executor.
Fairness ==
    /\ WF_vars(\E B \in SUBSET FreshTxs \ {{}} : StrategyCycle(B))
    /\ WF_vars(\E t \in Txs : Mine(t))
    /\ WF_vars(Restart)

Spec == Init /\ [][Next]_vars /\ Fairness

-----------------------------------------------------------------------------
(* Properties.                                                             *)

TypeOK ==
    /\ recNonce \in [Txs -> Nonces \cup {NoNonce}]
    /\ recStatus \in [Txs -> TradeStatus]
    /\ repaired \in [Txs -> BOOLEAN]
    /\ pool \in [Txs -> PoolState]
    /\ poolNonce \in [Txs -> Nonces \cup {NoNonce}]
    /\ mined \in Nonces
    /\ walletNonce \in Nonces
    /\ up \in BOOLEAN

(* No two transactions in the saved state carry the same nonce: the       *)
(* reuse check in prepare_swaps holds across restarts, timeouts and       *)
(* evicted transactions.                                                  *)
RecordedNoncesUnique ==
    \A t, u \in Txs : t # u /\ recNonce[t] # NoNonce => recNonce[t] # recNonce[u]

\* The wallet's next nonce is one the state already holds, so every cycle
\* with trades raises in prepare_swaps.
Blocked == ~NonceCheckPasses(walletNonce)

(* An executor whose wallet nonce clashes with the state gets past it while *)
(* it has trades to make: the restart re-reads the nonce once the chain    *)
(* mined the recorded transactions (the repair pass is the recovery path  *)
(* for a transaction that never confirms).                                *)
NonceEventuallyFree == (up /\ Blocked /\ FreshTxs # {}) ~> (up /\ ~Blocked)

====
