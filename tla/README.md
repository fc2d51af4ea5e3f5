# TLA+ models of the trade executor

This directory holds TLA+ models of the trade executor in `src/tradeexecutor`,
together with the TLC configurations that check them. Each module is
translated from the Python source. The JSON manifest `PROJECT.json` maps every
modelled definition to the lines it stands for, and it lists each run, each
mutant, each finding and each hazard.

## The system's parts and how they interact

A live executor runs one **strategy cycle** per tick. Each cycle:

1. **Treasury sync** (`ethereum/enzyme/vault.py`, `EnzymeVaultSyncModel`). This
   step reads the Enzyme vault's deposit and redemption events between the
   last scanned block and the node's head, applies them to the reserve and
   spot positions of the portfolio as `BalanceUpdate`s, and moves the
   checkpoint `last_block_scanned`. The runner (`pandas_trader/runner.py:54`)
   refuses to trade before the first sync.
2. **decide_trades**. The strategy script creates trades on positions that
   are not frozen.
3. **Execution** (`ethereum/execution.py`, `ethereum/swap.py`). This step
   starts the trades, then `broadcast` marks them broadcasted and sends their
   transactions. `broadcast_and_resolve` waits for receipts up to the
   confirmation timeout. `resolve_trades` then marks each trade with a receipt
   as success, or as failed through `report_failure`. A failure freezes the
   trade's position. `execute_trades` leaves `stop_on_execution_failure` at
   its default (False), so every receipt is resolved; a transaction still
   pending at the timeout leaves its trade broadcasted. Each swap is
   signed with the hot wallet's next nonce; `prepare_swaps` first asks
   `check_for_nonce_reuse` whether the state already holds that nonce.
4. **Save.** The state is written to its JSON file after the cycle (spec:
   state persistence). A cycle that raises is not saved: the process exits,
   and its restart (`initialize`) re-reads the wallet nonce from the chain,
   which counts mined transactions only.

Out of the cycle, an operator runs the **repair engine**
(`state/repair.py`, `repair_trades`). It finds every trade that is
broadcasted-but-unresolved or failed and not yet repaired. For each such
trade it books a zero-value counter-trade and sets `repaired_at`. It then
asks `unfreeze_position` to reopen the frozen positions.

**Lending loans** (`strategy/lending_protocol_leverage.py`) are built and updated
when credit-supply and short trades are planned and again when they execute.
The interest pokes in `strategy/interest.py` (`update_interest`) book the growth
of the aToken/vToken balances as interest. The **interest distribution**
(`accrue_interest`, `prepare_interest_distribution`) is the sync that
measures that growth over all open loans and hands each loan its share. The
**crossover detection** (`state/crossover.py`) is a pure function used by
strategies.

## Inventory

| Component | Source | State | Operations | Status |
|---|---|---|---|---|
| Treasury sync | vault.py, runner.py | the deployment block, the reserves, the position quantities, `next_balance_update_id`, `processed_events`, `last_block_scanned` | sync_initial, sync_treasury (process_deposit, process_redemption, get_related_position) | modelled: `TreasurySync`, refining `TreasuryLedger` |
| Execution and resolution | execution.py, swap.py | the trade status, each transaction's fate on chain, frozen positions; the recorded nonces, the mempool, the wallet nonce, the process being up | initialize, prepare_swaps, translate_to_naive_swap, broadcast, broadcast_and_resolve, report_failure | partly: `TradeRepair`, `HotWalletNonce` (approvals and gas not) |
| Repair engine | repair.py | `repaired_at`, counter-trades, frozen positions | repair_trades, find_trades_to_be_repaired, repair_trade, make_counter_trade, unfreeze_position | modelled: `TradeRepair` |
| Interest distribution | interest.py | the distribution entries and totals, `state.sync.interest.assets` | prepare_interest_distribution, accrue_interest_for_asset, accrue_interest | partly: `Loan` (initialise_tracking, estimate_interest not) |
| Loans | lending_protocol_leverage.py, interest.py | collateral, borrowed and interest trackers | create/update credit-supply loan, create/update short loan, update_interest, update_leveraged_position_interest | modelled: `Loan` |
| Crossover | crossover.py | none (a pure algorithm) | has_crossover_occurred, has_crossunder_occurred | modelled: `Crossover` |
| CLI, logging, universe loading, backtest, pricing, reports | cli/, utils/, trading_strategy_universe.py, backtest/, uniswap_v2_live_pricing.py, statistics/ | configuration, files, dataframes | I/O and data transformation | not modelled |

## Modules

### `TreasurySync` (with `MCTreasurySync`)

**Chain side.** The variables are `head`, `chain` (a sequence of events, one
per block, each a deposit or a redemption with an amount per asset) and
`vault` (the on-chain holdings).

**Executor side.** The variables mirror `state.sync` and the portfolio:
`deployBlock`, `reserves` (whether the reserve position exists), `qty`,
`nextId`, `processed` (`processed_events`) and `lastScanned`.

**`SyncTreasury`** is the whole of `sync_treasury`:

- the window start (`ScanStart`);
- an end block, one of the values the node may report (`ReportedHead`,
  where `NodeLag` bounds how far behind the node may be);
- the fold of `translate_and_apply_event` over the window (`TranslateAndApply`,
  `ProcessDeposit`, `ProcessRedemption`, `RedeemAsset`);
- the duplicate check against `processed_events`;
- the checkpoint.

An assertion or exception anywhere in the fold (an unknown asset, a
non-positive quantity) aborts the cycle. The persisted state is then
unchanged, which the model expresses as the step not being taken.

**Trades and investors.** These are environment actions (`BuySpot`,
`SellSpot`, `InvestorDeposit`, `InvestorRedeem`, `MineBlock`). Each trade is a
successful trade that moves the same amount in the vault and in the ledger.
`CycleMayTrade` is the runner's guard that the treasury was synced first.

### `TreasuryLedger` (the abstract treasury)

What the sync promises, without blocks, windows, checkpoints or ids. The
vault's events form a sequence `events`. The ledger has applied a prefix of
it (`applied`). `Reconcile` applies the next events, in order, adding
their effect to `qty`. `Invest` appends an event and changes `vault`.
`Trade` moves the same amount in both.

`TreasurySync` maps onto it with `INSTANCE TreasuryLedger WITH`:

- `events` is `chain` without the blocks (`LedgerEvents`);
- `applied` is the number of events in blocks up to `last_block_scanned`
  (`AppliedEvents`);
- `vault` and `qty` map to themselves.

`LedgerRefined == Ledger!Spec` is checked as a property of the pass run. It
fails as soon as a sync re-applies an event, skips one, or moves the
checkpoint back over an applied one.

### `TradeRepair` (with `MCTradeRepair`)

Each trade buys one unit for a fixed position (`PosOf`).

- `status` is none, broadcasted, success or failed.
- `tx` is the transaction's fate on chain.
- `posStatus` is none, open or frozen.
- `repaired` records `repaired_at`.
- `counters` holds the `repaired_trade_id`s of the counter-trades, in order.

**`StrategyCycle(B, fate)`** is one cycle over a batch `B`: `Broadcast`, then
the wait, whose result is `fate` (ok, revert or pending per transaction), then
resolution of every mined receipt. `FreezeOnFailure` freezes the positions of failed
trades. An empty batch is a cycle in which `decide_trades` returned nothing.

**`LateMine`** is the chain mining a transaction that was still pending when
the wait ended.

**`RepairTrades`** is `repair_trades` with the repair confirmed:
`FindTradesToBeRepaired`, then `RepairTrade` for each trade found, then
`UnfreezePosition`, which is a stub that returns nothing. The dry-run path and
the declined interactive path change no state, so they are not steps.

### `Crossover` (with `MCCrossover`)

Both detectors are operators over integer sequences:

- the trim to a common length (`TrimmedLen`);
- the scan for the latest cross (`LatestCross`, RECURSIVE);
- the epsilon substitution (`CrossValue`);
- the buffer ratios with Python's signed division (`RatioAtLeast`);
- the sequence of early returns (`HasCrossoverOccurred`,
  `HasCrossunderOccurred`).

Values are doubled and epsilon is taken as 1, which keeps every comparison
exact. The module's variables are the arguments of one call. `Init`
enumerates every valid call, and `Next` leaves them unchanged.
`CrossoverSpec` is the reference for `has_crossover_occurred`. They are written over
positions, from the docstrings: the latest cross, the count of values on each
side of it, and the buffer as a percentage of the cross value's magnitude.

### `Loan` (with `MCLoan`)

The model has one credit-supply loan (`credit`) and one short loan (`short`).
Each loan is a record:

- the collateral and borrowed principal (`col`, `bor`);
- for each side, the Interest tracker's cached `last_token_amount` (`colLast`,
  `borLast`) and the interest booked by balance updates (`colBooked`,
  `borBooked`).

`chain` holds the on-chain aToken/vToken balances, and `accrued` the interest
that has grown on them. Prices are 1.

- `CreateCreditSupplyLoan`, `UpdateCreditSupplyLoan`, `CreateShortLoan`,
  `UpdateShortLoan` and `ShortLoanChecked` translate the loan functions.
- `InterestUpdatable` is the `0 < |gained| < 999` assertion, and
  `UpdateCreditInterest` / `UpdateShortInterest` are `update_interest` and
  `update_leveraged_position_interest`.
- The actions `OpenShort` and `TradeShort` are the callers, which are not
  under `src/` and are taken from the spec. A trade is planned (plan mode must
  pass its health check), then executes on chain with an output slippage in
  `Slip`, then the loan is rebuilt in execute mode. If that mode's health
  check raises, the loan is left as it was, although the chain has moved.
- `Accrue` is interest growing on chain.
- `SyncInterests` is `accrue_interest` over `prepare_interest_distribution`.
  `Entries` holds one entry per tracked side of an open loan, and `Totals`
  sums them per asset (aToken or vToken). The guards are the assertion that
  every entry is positive (interest.py:379) and the two tripwires of
  `accrue_interest_for_asset` (`AccrualAccepted`: accrued interest positive
  and at most `MaxInterestGain` percent of the total). The step then sets
  `synced` (`state.sync.interest.assets`) to the on-chain balances
  (`OnChainBalance`). It books nothing on the loans. `accrue_interest_for_asset`
  yields `entry.distribute(...)`, and `distribute` is itself a generator
  (it contains `yield`), so the `update_interest` inside it never runs.

### `HotWalletNonce` (with `MCHotWalletNonce`)

This module covers nonces across cycles, failures and restarts. Each
element of `Txs` is one swap transaction. Variables:

- the saved state: `recNonce` and `recStatus` (a transaction recorded with
  its trade), and `repaired`;
- the chain: `pool` (none, pending, ok, reverted, dropped), `poolNonce`,
  and `mined`, the wallet's mined transaction count;
- the process: `walletNonce` (`HotWallet.current_nonce`) and `up`.

`StrategyCycle(B)` is one cycle over batch `B`. The check and the signing
come from `prepare_swaps` and `translate_to_naive_swap` (`NonceCheckPasses`,
`SignedNonce`: consecutive nonces from the wallet). Sending comes from
`broadcast` (`Sent`, `NodeAccepts`), and the wait and resolution from
`broadcast_and_resolve`. Its outcomes, in the code's order:

1. the reuse check raises, and nothing is sent;
2. `broadcast_transactions` raises after the node took the first `j`
   transactions, and `broadcast` re-raises;
3. everything is sent, the chain mines some nonces during the wait, and then
   either the process dies before the save, or the batch is resolved and
   saved.

Outcomes 1 and 2, and a death in outcome 3, are `CycleRaises`: the saved
state stays as it was, and the process is down.

The other actions:

- `Restart` is the supervisor starting the process again. `Initialize`
  (`initialize`) sets the wallet nonce to the mined count.
- `Mine` and `Drop` are the chain mining the next nonce, and the mempool
  evicting a pending transaction.
- `RepairTrades` marks broadcasted and failed trades repaired. It sends
  nothing.

No caller under `src/` calls `prepare_swaps`: the routing models that sign
live trades are outside the repository. The model takes `prepare_swaps` as
the repository's own signing path.

## Runs

| Run | Config | Expect | What it shows |
|---|---|---|---|
| treasury_sync | TreasurySync.cfg | pass | With a node that does not lag, every event is applied exactly once, in order (`NoDoubleApplication`, `UpdateIdsInOrder`). The ledger equals the vault minus the effect of unscanned events (`LedgerReconciled`). A sync at the head changes nothing (`SyncIdempotent`). The sync implements the abstract `TreasuryLedger` (`LedgerRefined`). |
| treasury_lagging_node | TreasurySyncLaggingNode.cfg | violation | If the node reports a head one block lower than before, the checkpoint moves back and a deposit is applied twice. The duplicate check cannot see this because it compares updates with fresh ids. |
| treasury_full_redemption_stuck | TreasurySyncStuck.cfg | violation | A redemption that empties the reserve trips `assert position.quantity > 0` (vault.py:197) on every later sync, so the ledger never catches up. |
| trade_repair | TradeRepair.cfg | pass | Reverts, timeouts, late mining and repair passes in every order keep the trade, position and counter-trade state well formed (`TypeOK`), and every step of the lifecycle model fires. The properties that freezing, idempotent repair and eventual repair would give are not stated: each rests on a guard the model takes from the spec (`is_repair_needed`, the frozen-position filter of `decide_trades`) or on an operator who runs repair, not on this repository's code. |
| trade_repair_mined_trade | TradeRepairRepairOfMinedTrade.cfg | violation | Repair zeroes a broadcasted trade whose transaction succeeded. The trade was left broadcasted because its transaction was still pending at the confirmation timeout and was mined afterwards; repair never looks at the receipt. The ledger quantity then falls below the wallet's holdings. |
| crossover | Crossover.cfg | pass | Checks every pair of series of length ≤ 4 over 0..2, both counts in 1..2, both buffers 0 or 50 %, with and without the index. `has_crossover_occurred` equals its reference on all of them (460,800 calls). |
| loan | Loan.cfg | pass | A short loan's principal plus booked interest always equals the cached `last_token_amount` on both sides, through every mix of trades, slippage, accrual and interest pokes. |
| loan_credit_deposit_as_interest | LoanCreditDepositAsInterest.cfg | violation | `update_credit_supply_loan` does not adjust `collateral_interest` (line 87). After a deposit of 1 and a withdrawal of 1, the next `update_interest` books -1 of interest. |
| loan_short_debt_drift | LoanShortDebtDrift.cfg | violation | The tracked debt of an open short leaves the vToken balance. The execute-mode health check can raise after the trade went through, and line 237 books the planned borrow change. |
| loan_interest_not_distributed | LoanInterestNotDistributed.cfg | violation | An interest sync that accepts accrued interest records the new on-chain balances but books none of the interest on a loan. The property is stated only for syncs whose surplus is interest the chain really accrued. TLC's trace: a credit supply of 2, one unit of aToken interest accrues, and the sync records 3 while the loan still holds 2 and has booked nothing. The distribute generators never run (interest.py:106). |
| hot_wallet_nonce | HotWalletNonce.cfg | pass | No two recorded transactions share a nonce (`RecordedNoncesUnique`). This holds across node errors part way through a broadcast, deaths before the save, restarts that re-read the nonce from the chain, and evictions from the mempool. |
| hot_wallet_nonce_blocked | HotWalletNonceBlocked.cfg | violation | `NonceEventuallyFree` fails. A recorded transaction that the mempool evicts is never mined, so every restart re-reads a nonce the state holds. From then on, `check_for_nonce_reuse` raises in every cycle with trades, whether or not the trade was repaired. |

## Bounds

**TreasurySync.**

- The pass run has one reserve asset and two spot assets (`MCSpotPair`).
  One in-kind redemption can then pay out three holders in Enzyme's asset
  order, and a later holder can make it raise after the earlier ones were
  debited.
- Amounts are 0..2 and blocks run from `DeployBlock = 2` to `MaxBlock = 8`.
  This leaves room for deposits, redemptions of every asset, trades and
  several syncs with windows of more than one event.
- The pass run takes about 309k states (30 s).
- The lagging-node and liveness runs keep one spot asset (`MCSpot`) and
  amounts of 1; their counterexamples need no more. The lagging-node run
  uses `NodeLag = 1`, the smallest regression.

**TradeRepair.** Three trades on two positions, two of them on the same
position. This lets a batch mix a revert with a success on one position
(the partial-resolution case), and lets repair run while another position is
healthy.

**Crossover.** The pass run covers series of length 1 to 4, which is enough
for two crosses and a cross with two values on either side. Values are
0..2, so 0 (epsilon) and a positive cross value both occur.

**HotWalletNonce.** The safety run has four transactions (model values
`a` to `d`, `MCTxs`). This is enough for the following:

- a saved batch of two to leave one transaction pending or evicted;
- a later cycle to raise part way through a batch of two, and a restart
  to re-read a nonce below what is still pending;
- another transaction to be signed on that nonce.

Nonces run from 0 to 4. The safety run takes about 1.3M states (25 s). The
liveness run uses three transactions (`MCTxs3`, about 38k states), which is
already enough for its counterexample.

**Loan.**

- Trades are of up to 2 units, and balances are at most 4.
- Interest accrues one unit per side, and slippage is one unit either way.
- The liquidation threshold is 80 %.
- These bounds give both health-check outcomes in plan and in execute mode.
- Booked interest and the loan's drift from the chain are running sums, and
  a loop of trades grows them without limit. The state constraint
  `BookedBound` (in `MCLoan`) stops exploring past 2 units. The pass run
  takes about 1.25M states (40 s).
- `MaxInterestGain` is 50 %, so one unit of interest on a total of 2 passes
  the tripwire.

## Fairness

- **TreasurySync** assumes weak fairness of `SyncInitial` and `SyncTreasury`.
  The cycle loop runs the sync on every tick.
- **TradeRepair** assumes no fairness. `repair_trades` is an operator
  command that no code schedules, so no liveness property is claimed of it.
  A frozen position is never unfrozen, under any fairness; this is kept as a
  hazard.
- **HotWalletNonce** assumes weak fairness for three actions:
  - cycles with trades while trades remain undecided (the cycle loop);
  - `Mine` (the chain mines the next pending nonce);
  - `Restart` (the supervisor restarts an exited executor).

  `Drop` and `RepairTrades` are not fair. Under these assumptions the blocked
  executor still never trades, so the violation is not caused by a missing
  assumption.

## Deadlock

Loan checks deadlock: a credit-supply trade or an accrual is always possible.
TreasurySync runs with `CHECK_DEADLOCK FALSE`. After a full redemption, or
once `MaxBlock` is reached, no sync can succeed and the executor really stops
making progress. TradeRepair and HotWalletNonce check deadlock: an empty
strategy cycle is always possible while the process is up, and a restart
while it is down.

## What is not modelled, and why

- **`execute_trades`.** As written, it calls `broadcast_and_resolve` without
  its `resolve_trades` argument, and then calls the undefined
  `freeze_position_on_failed_trade`. The models take `broadcast_and_resolve`
  as the cycle, with `stop_on_execution_failure` at its default (False) in
  both `HotWalletNonce` and `TradeRepair`. The raise of `report_failure`
  under the flag (swap.py:66-70) is reached only from unit tests.
- **`repair_unconfirmed_trades`.** It raises NameError at line 177
  (`TradeStatus` is not imported) as soon as it meets an unfinished trade.
- **`reconfirm_trade`.** It raises NotImplementedError at its first line.
- **Approvals** (`approve_tokens`, `approve_infinity`, `confirm_approvals`).
  No code under `src/` calls them, and the order in which a caller would mix
  them with `prepare_swaps` is not fixed by the repository. An approval round
  before the swaps takes nonces without the reuse check. It would fill the
  gap that an evicted transaction leaves, so the blocking that
  `hot_wallet_nonce_blocked` shows is a property of the `prepare_swaps` path
  alone.
- **`initialise_tracking` and `estimate_interest`.** The first only creates
  trackers for new assets. The second is floating-point compounding.
- **Defects found while modelling, kept as hazards without a run of their
  own.** The project is limited to twelve runs, and spends them on the
  stateful components.
  - `has_crossunder_occurred` counts values after the cross against
    `min_values_above_cross` (crossover.py:225). `[1,2,0]` under `[0,0,1]`
    with 2 required values is rejected.
  - Below zero, the crossover buffer divides by a negative cross value
    (crossover.py:97), so `[-2,0]` over `[-2,-1]` is not reported.
  - With `return_cross_index=True`, `has_crossunder_occurred` returns a bare
    `False` at crossover.py:224.
  - `create_short_loan` can raise `LiquidationRisked` in execute mode
    (lending_protocol_leverage.py:182) after the opening trade is on chain.
  - `unfreeze_position` is a stub (repair.py:164), so a repaired position is
    never reopened.
  - A swap that executed on chain can be missing from the saved state, if
    the cycle raised after sending it. The model's `pool` and `recStatus`
    show this in three steps. It follows from saving once per cycle rather
    than from one line.
- **Out of scope.** The spec lists these as external collaborators:
  - the CLI, logging and state backups (`cli/`, `utils/`);
  - the trading-universe and data loading layer
    (`trading_strategy_universe.py`, `backtest/data_preload.py`);
  - the backtest harness (`backtest/`);
  - pricing, valuation and reports.

  They are I/O, dataframe transformation or test doubles, with no state
  machine of the core's. This is why the map covers only part of the
  source lines. `trading_strategy_universe.py`, `backtest_runner.py`,
  `bootstrap.py` and `cli/log.py` alone are 3843 of the 7197 lines. In the
  core files, the lines left over are the uncallable paths listed above,
  logging, and argument checks.

## Further work

Each item below needs its own run, and the project already has twelve.
That is as many as its checks allow, and every one asks a distinct question.

1. **The live signer.** The execution models that `bootstrap.py` builds
   sign through `TransactionBuilder.sign_transaction` (tx.py:48), which has
   no nonce-reuse check. `HotWalletNonce` with that signing step would trade
   the blocking of `hot_wallet_nonce_blocked` for duplicate nonces in the
   saved state (`RecordedNoncesUnique`).
2. **Loan close.** Position close, and with it the zero-entry assertion of
   the interest sync (interest.py:379), is decided by `TradingPosition`,
   which is not under `src/`.
3. **Interest distribution.** Once `distribute` is run by its caller, a
   property that the distributed interest sums to the accrued interest. This
   would also expose the multiplication at interest.py:62.
4. **State backups.** `backup_state` (bootstrap.py:463) checks whether a
   numbered file exists and then copies to it. Two commands backing up at
   once can pick the same number. The loop also tries 98 names where its
   comment says 99.
