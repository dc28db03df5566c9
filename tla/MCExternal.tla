------------------------------ MODULE MCExternal ------------------------------
EXTENDS ExternalWorkers, TLC
Sym == Permutations(WorkerIds) \cup Permutations(Requests)
=============================================================================
