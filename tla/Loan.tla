--------------------------------- MODULE Loan ---------------------------------
(***************************************************************************)
(* Loan lifecycle of credit-supply and short positions                     *)
(* (src/tradeexecutor/strategy/lending_protocol_leverage.py) and the       *)
(* interest updates that poke them (update_interest and                   *)
(* update_leveraged_position_interest, src/tradeexecutor/strategy/         *)
(* interest.py).                                                           *)
(*                                                                         *)
(* One credit-supply position and one short position.  Each loan keeps the *)
(* tracked principal of its collateral (aToken) and borrowed (vToken)     *)
(* sides, and for each side an Interest tracker: last_token_amount and the *)
(* interest booked by balance updates.  The chain keeps the aToken and     *)
(* vToken balances and the interest accrued on them.  Prices are 1 and    *)
(* quantities small integers.  Trades are exact-in swaps: the output side  *)
(* of a short trade may differ from plan by a slippage in Slip.           *)
(***************************************************************************)
EXTENDS Integers, FiniteSetsExt

CONSTANTS
    MaxQty,            \* largest trade quantity
    MaxBalance,        \* largest on-chain aToken / vToken balance
    MaxAccrual,        \* interest accrued per side, at most
    Slip,              \* slippage of a short trade's output side
    LiquidationLTV,    \* loan-to-value, in percent, at which check_health raises
    MaxInterestGain    \* accrue_interest's max_interest_gain, in percent

ASSUME Slip \subseteq Int /\ 0 \in Slip

VARIABLES
    credit,       \* the credit-supply position's loan
    short,        \* the short position's loan
    chain,        \* on-chain balances: credit aToken, short aToken and vToken
    accrued,      \* interest accrued on chain on each of those balances
    synced        \* state.sync.interest.assets: asset -> balance at the last sync

vars == <<credit, short, chain, accrued, synced>>

Sides == {"creditCol", "shortCol", "shortDebt"}

\* A loan: open, the collateral / borrowed principal and their Interest
\* trackers (last_token_amount, booked interest).  Closed loans are zero.
NoLoan == [open |-> FALSE, col |-> 0, bor |-> 0, colLast |-> 0, borLast |-> 0,
           colBooked |-> 0, borBooked |-> 0]

-----------------------------------------------------------------------------
(* Loan and Interest (from the spec).                                      *)

\* Loan.check_health: no immediate liquidation; a loan without borrow is
\* healthy.
IsHealthy(l) == l.bor = 0 \/ l.bor * 100 < l.col * LiquidationLTV

\* Interest.adjust: the cached last_token_amount follows a principal change.
Adjust(last, delta) == last + delta

-----------------------------------------------------------------------------
(* lending_protocol_leverage.py                                            *)

\* create_credit_supply_loan: collateral = planned_reserve, interest opened
\* on the same amount, no borrow.
CreateCreditSupplyLoan(x) == [NoLoan EXCEPT !.open = TRUE, !.col = x, !.colLast = x]

\* update_credit_supply_loan: the collateral changes by planned_quantity;
\* collateral_interest is left as it was.
UpdateCreditSupplyLoan(l, q) == [l EXCEPT !.col = @ + q]

\* create_short_loan: borrowed |quantity|, collateral = reserve plus the
\* collateral the sale of the borrowed token brings; interest opened on both.
CreateShortLoan(q, c) ==
    [NoLoan EXCEPT !.open = TRUE, !.bor = q, !.col = c, !.borLast = q, !.colLast = c]

\* Mutant: collateral_interest is not adjusted with the collateral.
UpdateShortLoanNoCollateralAdjust(l, plannedQty, colChange) ==
    [l EXCEPT !.col = @ + colChange,
              !.bor = @ - plannedQty,
              !.borLast = Adjust(@, -plannedQty)]

\* update_short_loan: collateral changes by the mode's collateral change,
\* borrowed by -planned_quantity in either mode (line 237), and both
\* Interest trackers are adjusted by the same amounts.
UpdateShortLoan(l, plannedQty, colChange) ==
    [l EXCEPT !.col = @ + colChange,
              !.bor = @ - plannedQty,
              !.borLast = Adjust(@, -plannedQty),
              !.colLast = Adjust(@, colChange)]

\* The health check at the end of update_short_loan runs only while
\* something is borrowed.
ShortLoanChecked(l) == l.bor > 0 => IsHealthy(l)

-----------------------------------------------------------------------------
(* interest.py                                                             *)

\* update_interest on one side: gained = new - last_token_amount must be
\* non-zero and below 999; it is booked as a balance update and becomes
\* last_token_amount.
InterestUpdatable(last, new) == new # last /\ new - last < 999 /\ last - new < 999

-----------------------------------------------------------------------------
(* Actions.                                                                *)

\* A credit-supply position opens with a deposit of x.
OpenCreditSupply(x) ==
    /\ ~credit.open
    /\ credit' = CreateCreditSupplyLoan(x)
    /\ chain' = [chain EXCEPT !["creditCol"] = x]
    /\ UNCHANGED <<short, accrued, synced>>

\* A credit-supply trade deposits (q > 0) or withdraws (q < 0) aTokens.
TradeCreditSupply(q) ==
    /\ credit.open
    /\ 0 <= chain["creditCol"] + q /\ chain["creditCol"] + q <= MaxBalance
    /\ credit' = UpdateCreditSupplyLoan(credit, q)
    /\ chain' = [chain EXCEPT !["creditCol"] = @ + q]
    /\ UNCHANGED <<short, accrued, synced>>

\* A short opens by borrowing q and selling it, with reserve r: the plan
\* (create_short_loan in plan mode) must be healthy; the chain executes; the
\* loan is then built from the executed amounts (mode "execute"), whose
\* check_health raising leaves the position without a loan.  The position
\* is new: nothing is lent or borrowed for it yet.
OpenShort(q, r, s) ==
    /\ ~short.open /\ chain["shortDebt"] = 0 /\ chain["shortCol"] = 0
    /\ IsHealthy(CreateShortLoan(q, r + q))
    /\ r + q + s <= MaxBalance /\ q <= MaxBalance
    /\ chain' = [chain EXCEPT !["shortDebt"] = q, !["shortCol"] = r + q + s]
    /\ short' = IF IsHealthy(CreateShortLoan(q, r + q + s))
                THEN CreateShortLoan(q, r + q + s) ELSE short
    /\ UNCHANGED <<credit, accrued, synced>>

\* A short trade of planned quantity q: q < 0 sells |q| more borrowed token
\* for collateral, q > 0 buys q back with collateral.  The plan-mode update
\* must pass the health check; the chain executes, the executed output
\* differing by s; the execute-mode update is applied unless its health
\* check raises.
TradeShort(q, s) ==
    LET plannedCol == -q
        execCol    == IF q < 0 THEN -q + s ELSE -q
        debtChange == IF q < 0 THEN -q ELSE -(q + s)
        planned    == UpdateShortLoan(short, q, plannedCol)
        executed   == UpdateShortLoan(short, q, execCol)
    IN /\ short.open
       /\ ShortLoanChecked(planned)
       /\ 0 <= chain["shortCol"] + execCol /\ chain["shortCol"] + execCol <= MaxBalance
       /\ 0 <= chain["shortDebt"] + debtChange /\ chain["shortDebt"] + debtChange <= MaxBalance
       /\ chain' = [chain EXCEPT !["shortCol"] = @ + execCol, !["shortDebt"] = @ + debtChange]
       /\ short' = IF ShortLoanChecked(executed) THEN executed ELSE short
       /\ UNCHANGED <<credit, accrued, synced>>

\* Interest accrues on an open balance.
Accrue(side) ==
    /\ IF side = "creditCol" THEN credit.open ELSE short.open
    /\ accrued[side] < MaxAccrual /\ chain[side] < MaxBalance
    /\ chain' = [chain EXCEPT ![side] = @ + 1]
    /\ accrued' = [accrued EXCEPT ![side] = @ + 1]
    /\ UNCHANGED <<credit, short, synced>>

\* update_interest on the credit position's aToken with the on-chain amount.
UpdateCreditInterest ==
    /\ credit.open
    /\ InterestUpdatable(credit.colLast, chain["creditCol"])
    /\ credit' = [credit EXCEPT !.colBooked = @ + (chain["creditCol"] - credit.colLast),
                                !.colLast = chain["creditCol"]]
    /\ UNCHANGED <<short, chain, accrued, synced>>

\* update_leveraged_position_interest: vToken, then aToken, with the on-chain
\* amounts; either update_interest failing aborts the sync.
UpdateShortInterest ==
    /\ short.open
    /\ InterestUpdatable(short.borLast, chain["shortDebt"])
    /\ InterestUpdatable(short.colLast, chain["shortCol"])
    /\ short' = [short EXCEPT !.borBooked = @ + (chain["shortDebt"] - short.borLast),
                              !.borLast = chain["shortDebt"],
                              !.colBooked = @ + (chain["shortCol"] - short.colLast),
                              !.colLast = chain["shortCol"]]
    /\ UNCHANGED <<credit, chain, accrued, synced>>

-----------------------------------------------------------------------------
(* Interest distribution (interest.py).  Both collateral sides hold the    *)
(* same aToken, pooled on chain; the short's debt is the vToken.           *)

InterestAssets == {"aToken", "vToken"}

\* The pooled on-chain balance of each interest-bearing asset, as the sync
\* passes it in on_chain_balances.
OnChainBalance(a) ==
    IF a = "aToken" THEN chain["creditCol"] + chain["shortCol"] ELSE chain["shortDebt"]

\* prepare_interest_distribution: one entry per open position and
\* interest-accruing side, with the tracker's quantity.  A credit-supply
\* pair has one such side, a short pair two.
Entries ==
    (IF credit.open THEN {[pos |-> "credit", asset |-> "aToken", qty |-> credit.col]} ELSE {})
    \cup (IF short.open THEN {[pos |-> "short", asset |-> "vToken", qty |-> short.bor],
                              [pos |-> "short", asset |-> "aToken", qty |-> short.col]}
          ELSE {})

\* The assets of the distribution and their totals of tracked quantity.
DistributionAssets == {e.asset : e \in Entries}

Totals(a) == MapThenSumSet(LAMBDA e : IF e.asset = a THEN e.qty ELSE 0, Entries)

\* accrue_interest_for_asset's two assertions: interest_accrued is
\* positive and at most max_interest_gain of the totals.
AccrualAccepted(a) ==
    LET interestAccrued == OnChainBalance(a) - Totals(a)
    IN /\ interestAccrued > 0
       /\ interestAccrued * 100 <= MaxInterestGain * Totals(a)

\* accrue_interest: for each asset in on_chain_balances the assertions,
\* then one item per entry of the asset: accrue_interest_for_asset yields
\* entry.distribute(...), which is itself a generator, so its body (and
\* the update_interest in it) never runs and no loan changes.  Finally the
\* balances are stored as state.sync.interest.assets.  The sync is prepare_interest_distribution
\* (whose entry assertion rejects a zero tracked quantity) followed by it.
SyncInterests ==
    /\ \A e \in Entries : e.qty > 0
    /\ \A a \in DistributionAssets : AccrualAccepted(a)
    /\ synced' = [a \in DistributionAssets |-> OnChainBalance(a)]
    /\ UNCHANGED <<credit, short, chain, accrued>>

-----------------------------------------------------------------------------

Init ==
    /\ credit = NoLoan
    /\ short = NoLoan
    /\ chain = [s \in Sides |-> 0]
    /\ accrued = [s \in Sides |-> 0]
    /\ synced = [a \in {} |-> 0]

Next ==
    \/ \E x \in 1 .. MaxQty : OpenCreditSupply(x)
    \/ \E q \in (-MaxQty .. MaxQty) \ {0} : TradeCreditSupply(q)
    \/ \E q \in 1 .. MaxQty, r \in 1 .. MaxQty, s \in Slip : OpenShort(q, r, s)
    \/ \E q \in (-MaxQty .. MaxQty) \ {0}, s \in Slip : TradeShort(q, s)
    \/ \E side \in Sides : Accrue(side)
    \/ UpdateCreditInterest
    \/ UpdateShortInterest
    \/ SyncInterests

Spec == Init /\ [][Next]_vars

-----------------------------------------------------------------------------
(* Properties.                                                             *)

\* Interest booked on an asset over all positions.
BookedOn(a) ==
    IF a = "aToken" THEN credit.colBooked + short.colBooked ELSE short.borBooked

\* Interest the chain has accrued on an asset's balances so far.
AccruedOn(a) ==
    IF a = "aToken" THEN accrued["creditCol"] + accrued["shortCol"] ELSE accrued["shortDebt"]

(* Every sync_interests step (prepare_interest_distribution, then         *)
(* accrue_interest) whose interest_accrued for an asset is interest the   *)
(* chain really accrued (the pooled balance exceeds the tracked totals by  *)
(* no more than the accrual) books exactly that interest_accrued on the   *)
(* asset's positions, as the spec's distribution promises: the delta is   *)
(* fanned out, one balance update per holding position.                   *)
InterestDistributedOnSync ==
    [][synced' # synced =>
         \A a \in DOMAIN synced' :
             synced'[a] - Totals(a) <= AccruedOn(a)
                 => BookedOn(a)' - BookedOn(a) = synced'[a] - Totals(a)]_vars

(* A short loan's Interest trackers move with its principal: tracked      *)
(* collateral (borrowed) plus the interest booked on it is the cached     *)
(* last_token_amount, through opens, trades in both modes and interest    *)
(* updates (update_short_loan lines 264-265, update_interest).            *)
ShortTrackersConsistent ==
    /\ short.col + short.colBooked = short.colLast
    /\ short.bor + short.borBooked = short.borLast

(* The same holds of a credit-supply loan through update_credit_supply_loan *)
(* and update_interest: a deposit is principal, never interest.           *)
CreditTrackersConsistent ==
    credit.col + credit.colBooked = credit.colLast

(* While a short loan is open, the borrowed principal it tracks is the     *)
(* vToken balance on chain less the interest accrued on it: execute mode  *)
(* of update_short_loan books the debt the trade really repaid.           *)
ShortDebtMatchesChain ==
    short.open => short.bor = chain["shortDebt"] - accrued["shortDebt"]

=============================================================================
