---------------------------- MODULE MC_Pipeline -----------------------------
(* Model checking of Pipeline: runs upload one content.  gzip writes the    *)
(* time of the run into its stream, so each has its own bytes, which make   *)
(* TotalBytes / InitialChunkSize chunks, the last one possibly shorter.     *)
EXTENDS Pipeline, TLC

CONSTANTS TheFile, TheName, TheAccount, TotalBytes,
          SharedWallet      \* the runs use one wallet, or each its own

\* From a shared wallet the contract cannot tell the chunks of the runs apart.
MC_Upload == [u \in Uploaders |->
    [fileId |-> TheFile, name |-> TheName, size |-> 5,
     account |-> IF SharedWallet THEN TheAccount ELSE u,
     data |-> [i \in 1..TotalBytes |-> <<u, i>>]]]

MC_Accounts == {TheAccount} \cup Uploaders
MC_Bytes == Uploaders \X (1..TotalBytes)
MC_Payloads == {SubSeq(MC_Upload[u].data, i, j) :
                    u \in Uploaders, i \in 1..TotalBytes, j \in 1..TotalBytes}
MC_DataLength == [d \in MC_Payloads |-> Len(d)]

\* The stream of each run decompresses to the content; mixtures do not.
MC_Encodings == [f \in FileIds |-> {MC_Upload[u].data : u \in Uploaders}]

MC_WholeChain == {WholeChain}
MC_Windows == {WholeChain, [from |-> 2, to |-> Latest], [from |-> 0, to |-> 1]}
Symmetry == Permutations(Uploaders)
=============================================================================
