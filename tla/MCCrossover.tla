----------------------------- MODULE MCCrossover -----------------------------
EXTENDS Crossover

=============================================================================
