----------------------------- MODULE MCInProcess -----------------------------
EXTENDS InProcessRuns, TLC
Sym == Permutations(Requests)
=============================================================================
