--------------------------- MODULE MC_SyncEngine ----------------------------
(* Model checking of SyncEngine: one account, calls the contract accepts.   *)
EXTENDS SyncEngine, TLC

MC_DataLength == [d \in Payloads |-> 1]
WorkerSymmetry == Permutations(Workers)
ProcSymmetry == Permutations(Workers) \cup Permutations(Procs)
=============================================================================
