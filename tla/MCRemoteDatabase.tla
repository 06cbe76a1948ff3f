-------------------------- MODULE MCRemoteDatabase --------------------------
EXTENDS RemoteDatabase, TLC
Processes == Permutations(Process)
==============================================================================
