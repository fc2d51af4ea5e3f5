-------------------------------- MODULE MCLoan --------------------------------
EXTENDS Loan

\* Slippage of one unit either way on a short trade's output.
MCSlip == -1 .. 1

\* Booked interest, and the drift of the tracked debt from the chain, are
\* running sums that a loop of trades and interest updates grows without
\* limit; exploration stops once one of them passes MaxDrift units.
MaxDrift == 2

BookedBound ==
    /\ \A v \in {credit.colBooked, short.colBooked, short.borBooked} :
          -MaxDrift <= v /\ v <= MaxDrift
    /\ \A d \in {short.bor - chain["shortDebt"], short.col - chain["shortCol"]} :
          -MaxDrift <= d /\ d <= MaxDrift
=============================================================================
