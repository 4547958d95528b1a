---------------------------- MODULE MC_NodeBots -----------------------------
(* Model checking of NodeBots: each process on a machine of its own, with   *)
(* one wallet.  The content makes two chunks here and one in another        *)
(* encoding, whose only chunk is a wrong first chunk for the first.         *)
EXTENDS NodeBots, TLC

CONSTANTS TheAccount, c0, c1

MC_DataLength == [d \in Payloads |-> 1]
MC_Content == [f \in FileIds |-> <<c0, c1>>]
MC_Encodings == [f \in FileIds |-> {<<c0, c1>>, <<c1>>}]
MC_AccountOf == [j \in Jobs |-> TheAccount]
MC_OwnHosts == [j \in Jobs |-> j]

Symmetry == Permutations(Jobs)
=============================================================================
