----------------------------- MODULE MC_ChainFS -----------------------------
(* Model checking of ChainFS: payloads below, at and above the limit, and   *)
(* the two arguments createFile refuses.                                    *)
EXTENDS ChainFS, TLC

CONSTANTS empty, good, big

MC_DataLength == (empty :> 0) @@ (good :> 2) @@ (big :> 3)
MC_Payloads == {empty, good, big}
Symmetry == Permutations(Accounts) \cup Permutations(FileIds)
=============================================================================
