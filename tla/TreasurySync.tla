---------------------------- MODULE TreasurySync ----------------------------
(***************************************************************************)
(* Enzyme vault treasury reconciliation (EnzymeVaultSyncModel,             *)
(* src/tradeexecutor/ethereum/enzyme/vault.py).                            *)
(*                                                                         *)
(* The chain side is the vault: investors deposit the denomination token   *)
(* and redeem shares in kind, one event per block.  The executor side is   *)
(* the portfolio ledger (reserve position and open spot positions), the    *)
(* balance-update id counter and the treasury sync checkpoint.  Each call  *)
(* of sync_treasury reads the events of the window [start, end], turns     *)
(* every event into BalanceUpdates that mutate the ledger, checks them     *)
(* against processed_events and moves last_block_scanned to end.  A call   *)
(* that raises (an assertion or UnknownAsset) aborts the cycle and leaves  *)
(* the persisted state as it was, so it is not a step of the model.        *)
(***************************************************************************)
EXTENDS Integers, Sequences, SequencesExt, FiniteSets, TLC

CONSTANTS
    Reserve,        \* the vault denomination token (reserve currency)
    Spot,           \* tokens the strategy can hold in spot positions
    DeployBlock,    \* block of the vault deployment event
    MaxBlock,       \* last block the model mines
    MaxAmount,      \* largest token amount of one deposit, trade or redemption
    NodeLag         \* how far web3.eth.block_number may lag the chain tip

ASSUME Reserve \notin Spot
ASSUME DeployBlock \in Nat /\ DeployBlock > 1      \* vault.py:257
ASSUME MaxBlock \in Nat /\ MaxBlock > DeployBlock
ASSUME MaxAmount \in Nat \ {0}
ASSUME NodeLag \in Nat

Assets == {Reserve} \cup Spot

\* The order in which Enzyme lists redeemed assets of one in-kind redemption.
AssetOrder == <<Reserve>> \o SetToSeq(Spot)

Amounts == 0 .. MaxAmount

VARIABLES
    \* chain
    head,           \* chain tip block number
    chain,          \* vault balance events, in block order
    vault,          \* on-chain vault balance of every asset
    \* executor state (State.portfolio and State.sync)
    deployBlock,    \* sync.deployment.block_number, 0 = not initialised
    reserves,       \* TRUE once portfolio.initialise_reserves ran
    qty,            \* reserve position and open spot position quantities
    nextId,         \* portfolio.next_balance_update_id
    processed,      \* treasury_sync.processed_events: id -> BalanceUpdate
    lastScanned     \* treasury_sync.last_block_scanned, 0 = None

chainVars == <<head, chain, vault>>
ledgerVars == <<deployBlock, reserves, qty, nextId, processed, lastScanned>>
vars == <<chainVars, ledgerVars>>

Event == [block : Nat, kind : {"deposit", "redemption"}, amount : [Assets -> Amounts]]

\* BalanceUpdate: id, the asset, the chain event it came from (tx_hash and
\* log_index) and past_quantity / new_quantity.
Update == [id : Nat, asset : Assets, src : Nat, past : Int, new : Int]

BU(id, a, src, past, new) ==
    [id |-> id, asset |-> a, src |-> src, past |-> past, new |-> new]

-----------------------------------------------------------------------------
(* Translating events (vault.py).                                          *)

\* get_related_position: the reserve position, else the open position that
\* holds the asset, else UnknownAsset.  Asserts exactly one reserve first.
IsRelated(acc, a) ==
    /\ acc.reserves
    /\ a = Reserve \/ acc.qty[a] > 0

\* process_deposit: initialise reserves on the first deposit, add the
\* investment to the reserve position, allocate the next balance update id.
\* Mutant: the id counter is not advanced after a deposit.
ProcessDepositNoIdIncrement(acc, i) ==
    LET x == chain[i].amount[Reserve]
    IN [acc EXCEPT !.reserves = TRUE,
                   !.qty[Reserve] = @ + x,
                   !.new = Append(@, BU(acc.next, Reserve, i, acc.qty[Reserve],
                                        acc.qty[Reserve] + x))]

ProcessDeposit(acc, i) ==
    LET x == chain[i].amount[Reserve]
    IN [acc EXCEPT !.reserves = TRUE,
                   !.qty[Reserve] = @ + x,
                   !.next = @ + 1,
                   !.new = Append(@, BU(acc.next, Reserve, i, acc.qty[Reserve],
                                        acc.qty[Reserve] + x))]

\* One redeemed asset of process_redemption: map it to its holder, allocate
\* an id, subtract the quantity and assert the holder stays above zero.  An
\* amount of 0 stands for an asset absent from event.redeemed_assets.
\* Mutant: every redeemed amount is taken from the reserve position.
RedeemAssetFromReserve(acc, i, a) ==
    LET x == chain[i].amount[a]
    IN IF ~acc.ok \/ x = 0 THEN acc
       ELSE IF ~IsRelated(acc, a) \/ acc.qty[a] - x <= 0
            THEN [acc EXCEPT !.ok = FALSE]
            ELSE [acc EXCEPT !.qty[Reserve] = @ - x,
                             !.next = @ + 1,
                             !.new = Append(@, BU(acc.next, a, i, acc.qty[a],
                                                  acc.qty[a] - x))]

RedeemAsset(acc, i, a) ==
    LET x == chain[i].amount[a]
    IN IF ~acc.ok \/ x = 0 THEN acc
       ELSE IF ~IsRelated(acc, a) \/ acc.qty[a] - x <= 0
            THEN [acc EXCEPT !.ok = FALSE]
            ELSE [acc EXCEPT !.qty[a] = @ - x,
                             !.next = @ + 1,
                             !.new = Append(@, BU(acc.next, a, i, acc.qty[a],
                                                  acc.qty[a] - x))]

ProcessRedemption(acc, i) ==
    FoldLeft(LAMBDA ac, a : RedeemAsset(ac, i, a), acc, AssetOrder)

\* translate_and_apply_event: dispatch on the event kind.
TranslateAndApply(acc, i) ==
    IF ~acc.ok THEN acc
    ELSE IF chain[i].kind = "deposit" THEN ProcessDeposit(acc, i)
    ELSE ProcessRedemption(acc, i)

\* The events fetch_vault_balance_events yields for [start, end], in order.
WindowIdx(start, end) ==
    SelectSeq([k \in 1 .. Len(chain) |-> k],
              LAMBDA k : start <= chain[k].block /\ chain[k].block <= end)

\* Mutant: the window starts at the last scanned block itself.
ScanStartNoIncrement == IF lastScanned # 0 THEN lastScanned ELSE deployBlock

\* First block of the scan window: one past the checkpoint, or the
\* deployment block on the first scan.
ScanStart == IF lastScanned # 0 THEN lastScanned + 1 ELSE deployBlock

\* Mutant: the checkpoint records the next block to scan.
CheckpointNextBlock(end) == end + 1

\* The checkpoint recorded after scanning up to end.
Checkpoint(end) == end

\* The block numbers web3.eth.block_number may report.
ReportedHead == {h \in (head - NodeLag) .. head : h >= 1}

-----------------------------------------------------------------------------
(* Executor actions.                                                       *)

\* sync_initial: find the deployment event; initialising twice is refused.
SyncInitial ==
    /\ deployBlock = 0
    /\ deployBlock' = DeployBlock
    /\ UNCHANGED <<chainVars, reserves, qty, nextId, processed, lastScanned>>

\* sync_treasury: scan [last_block_scanned + 1, head], apply every event,
\* refuse updates already in processed_events, move the checkpoint.
SyncTreasury ==
    /\ deployBlock # 0
    /\ \E end \in ReportedHead :
        LET start == ScanStart
            base  == [ok |-> TRUE, reserves |-> reserves, qty |-> qty,
                      next |-> nextId, new |-> <<>>]
            r     == FoldLeft(TranslateAndApply, base, WindowIdx(start, end))
        IN /\ r.ok
           /\ \A k \in 1 .. Len(r.new) : r.new[k] \notin Range(processed)
           /\ reserves' = r.reserves
           /\ qty' = r.qty
           /\ nextId' = r.next
           /\ processed' = FoldLeft(LAMBDA p, u : (u.id :> u) @@ p, processed, r.new)
           /\ lastScanned' = Checkpoint(end)
    /\ UNCHANGED <<chainVars, deployBlock>>

\* A strategy cycle may trade only after the treasury was synced once
\* (runner.py:54).  A successful trade moves the same amount on chain and
\* in the ledger; failed trades are the subject of TradeRepair.
CycleMayTrade == lastScanned # 0

BuySpot(a, x) ==
    /\ CycleMayTrade
    /\ head < MaxBlock
    /\ x <= qty[Reserve] /\ x <= vault[Reserve]
    /\ head' = head + 1
    /\ vault' = [vault EXCEPT ![Reserve] = @ - x, ![a] = @ + x]
    /\ qty' = [qty EXCEPT ![Reserve] = @ - x, ![a] = @ + x]
    /\ UNCHANGED <<chain, deployBlock, reserves, nextId, processed, lastScanned>>

SellSpot(a, x) ==
    /\ CycleMayTrade
    /\ head < MaxBlock
    /\ x <= qty[a] /\ x <= vault[a]
    /\ head' = head + 1
    /\ vault' = [vault EXCEPT ![Reserve] = @ + x, ![a] = @ - x]
    /\ qty' = [qty EXCEPT ![Reserve] = @ + x, ![a] = @ - x]
    /\ UNCHANGED <<chain, deployBlock, reserves, nextId, processed, lastScanned>>

-----------------------------------------------------------------------------
(* Chain actions: investors and block production.                          *)

MineBlock ==
    /\ head < MaxBlock
    /\ head' = head + 1
    /\ UNCHANGED <<chain, vault, ledgerVars>>

\* Enzyme SharesBought: x denomination tokens enter the vault.
InvestorDeposit(x) ==
    /\ head < MaxBlock
    /\ head' = head + 1
    /\ chain' = Append(chain, [block |-> head + 1, kind |-> "deposit",
                               amount |-> [a \in Assets |-> IF a = Reserve THEN x ELSE 0]])
    /\ vault' = [vault EXCEPT ![Reserve] = @ + x]
    /\ UNCHANGED ledgerVars

\* Enzyme redeemSharesInKind: the redeemer receives amt[a] of every asset.
InvestorRedeem(amt) ==
    /\ head < MaxBlock
    /\ \A a \in Assets : amt[a] <= vault[a]
    /\ \E a \in Assets : amt[a] > 0
    /\ head' = head + 1
    /\ chain' = Append(chain, [block |-> head + 1, kind |-> "redemption", amount |-> amt])
    /\ vault' = [a \in Assets |-> vault[a] - amt[a]]
    /\ UNCHANGED ledgerVars

-----------------------------------------------------------------------------

Init ==
    /\ head = DeployBlock
    /\ chain = <<>>
    /\ vault = [a \in Assets |-> 0]
    /\ deployBlock = 0
    /\ reserves = FALSE
    /\ qty = [a \in Assets |-> 0]
    /\ nextId = 1
    /\ processed = <<>>
    /\ lastScanned = 0

Next ==
    \/ SyncInitial
    \/ SyncTreasury
    \/ \E a \in Spot, x \in 1 .. MaxAmount : BuySpot(a, x) \/ SellSpot(a, x)
    \/ MineBlock
    \/ \E x \in 1 .. MaxAmount : InvestorDeposit(x)
    \/ \E amt \in [Assets -> Amounts] : InvestorRedeem(amt)

\* The cycle loop calls sync_treasury on every cycle.
Fairness == WF_vars(SyncInitial) /\ WF_vars(SyncTreasury)

Spec == Init /\ [][Next]_vars /\ Fairness

-----------------------------------------------------------------------------
(* Properties.                                                             *)

TypeOK ==
    /\ head \in DeployBlock .. MaxBlock
    /\ chain \in Seq(Event)
    /\ vault \in [Assets -> Nat]
    /\ deployBlock \in {0, DeployBlock}
    /\ reserves \in BOOLEAN
    /\ qty \in [Assets -> Int]
    /\ nextId \in Nat \ {0}
    /\ \A id \in DOMAIN processed : processed[id] \in Update
    /\ lastScanned \in 0 .. MaxBlock

\* What the events after the checkpoint do to asset a on chain.
Effect(i, a) == IF chain[i].kind = "deposit" THEN chain[i].amount[a] ELSE -chain[i].amount[a]

PendingEffect(a) ==
    LET pending == {i \in 1 .. Len(chain) : chain[i].block > lastScanned}
    IN FoldSet(LAMBDA i, s : Effect(i, a) + s, 0, pending)

(* Conservation against chain truth: for every asset, the ledger quantity  *)
(* kept by sync_treasury and the trades equals the vault balance minus the *)
(* effect of the events not yet scanned.  Breaks if a scan window skips    *)
(* or repeats a block, or an event is applied to the wrong holder.         *)
LedgerReconciled ==
    \A a \in Assets : qty[a] = vault[a] - PendingEffect(a)

(* No chain event is turned into balance updates twice: the spec's         *)
(* "must never double-apply an event" for sync_treasury.                  *)
NoDoubleApplication ==
    \A i, j \in DOMAIN processed :
        i # j => ~(processed[i].src = processed[j].src /\ processed[i].asset = processed[j].asset)

(* Balance update ids come from one counter in application order: every   *)
(* id the sync allocated is recorded in processed_events, and an update of *)
(* a later chain event has a larger id.                                    *)
UpdateIdsInOrder ==
    /\ DOMAIN processed = 1 .. nextId - 1
    /\ \A i, j \in DOMAIN processed :
        processed[i].src < processed[j].src => i < j

(* Idempotent sync: a sync_treasury call when no block was mined since the *)
(* checkpoint creates no balance update and leaves the checkpoint and the  *)
(* ledger unchanged.                                                      *)
SyncIdempotent ==
    [][SyncTreasury /\ lastScanned = head => UNCHANGED ledgerVars]_vars

(* Every event on chain is eventually reconciled: under the cycle loop's   *)
(* repeated sync_treasury calls the checkpoint eventually stays at the tip.*)
SyncEventuallyCatchesUp ==
    <>[](deployBlock # 0 /\ lastScanned = head)

-----------------------------------------------------------------------------
(* Refinement of TreasuryLedger.                                           *)

\* The vault events without their blocks.
LedgerEvents == [i \in 1 .. Len(chain) |-> [kind |-> chain[i].kind, amount |-> chain[i].amount]]

\* The events the checkpoint covers: those in blocks up to last_block_scanned.
AppliedEvents == Cardinality({i \in 1 .. Len(chain) : chain[i].block <= lastScanned})

Ledger == INSTANCE TreasuryLedger WITH events <- LedgerEvents, applied <- AppliedEvents

(* sync_treasury implements the abstract ledger: every step either leaves  *)
(* the ledger's view alone or applies the events after the checkpoint in  *)
(* chain order, each once, and the checkpoint never moves back over an    *)
(* applied event.                                                         *)
LedgerRefined == Ledger!Spec

=============================================================================
