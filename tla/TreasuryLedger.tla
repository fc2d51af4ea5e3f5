---------------------------- MODULE TreasuryLedger ----------------------------
(***************************************************************************)
(* What treasury reconciliation promises, without blocks, windows,         *)
(* checkpoints or balance-update ids: the vault's deposit and redemption   *)
(* events form a sequence; the ledger applies a prefix of it, advancing    *)
(* over the next events in order, each applied exactly once and never      *)
(* un-applied; a trade moves the same amount in the vault and the ledger.  *)
(* TreasurySync implements this specification (TreasurySync!LedgerRefined).*)
(***************************************************************************)
EXTENDS Integers, Sequences, FiniteSetsExt

CONSTANTS
    Reserve,        \* the vault denomination token
    Spot,           \* tokens held in spot positions
    MaxAmount       \* largest amount of one event or trade

VARIABLES
    events,         \* the vault's balance events, in chain order
    vault,          \* the vault balance of every asset
    applied,        \* how many events of the sequence the ledger applied
    qty             \* the ledger quantity of every asset

vars == <<events, vault, applied, qty>>

Assets == {Reserve} \cup Spot

VaultEvent == [kind : {"deposit", "redemption"}, amount : [Assets -> 0 .. MaxAmount]]

\* What event e does to the balance of asset a.
Effect(e, a) == IF e.kind = "deposit" THEN e.amount[a] ELSE -e.amount[a]

\* The summed effect on asset a of the events at the positions in I.
EffectOf(I, a) == MapThenSumSet(LAMBDA i : Effect(events[i], a), I)

Init ==
    /\ events = <<>>
    /\ vault = [a \in Assets |-> 0]
    /\ applied = 0
    /\ qty = [a \in Assets |-> 0]

\* An investor deposits or redeems: the vault changes now, the ledger later.
Invest ==
    \E e \in VaultEvent :
        /\ events' = Append(events, e)
        /\ vault' = [a \in Assets |-> vault[a] + Effect(e, a)]
        /\ UNCHANGED <<applied, qty>>

\* A trade swaps x of the reserve for x of a spot token (x < 0: a sale).
Trade ==
    \E a \in Spot, x \in -MaxAmount .. MaxAmount :
        /\ x # 0
        /\ vault' = [vault EXCEPT ![Reserve] = @ - x, ![a] = @ + x]
        /\ qty' = [qty EXCEPT ![Reserve] = @ - x, ![a] = @ + x]
        /\ UNCHANGED <<events, applied>>

\* The ledger applies the next events up to position k, in order.
Reconcile ==
    \E k \in applied + 1 .. Len(events) :
        /\ applied' = k
        /\ qty' = [a \in Assets |-> qty[a] + EffectOf(applied + 1 .. k, a)]
        /\ UNCHANGED <<events, vault>>

Next == Invest \/ Trade \/ Reconcile

Spec == Init /\ [][Next]_vars

=============================================================================
