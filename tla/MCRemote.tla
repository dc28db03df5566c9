------------------------------- MODULE MCRemote -------------------------------
EXTENDS RemoteWorkers, TLC
Sym == Permutations(Calls)
=============================================================================
