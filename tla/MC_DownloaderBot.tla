-------------------------- MODULE MC_DownloaderBot --------------------------
(* Model checking of DownloaderBot.  The creator of a file uploads chunks   *)
(* of its content and others, at any index and any number of times.         *)
EXTENDS DownloaderBot

MC_Payloads == {<<1>>, <<2>>}
MC_DataLength == [d \in Payloads |-> Len(d)]

\* The bytes of the content: two compressed streams of it, in two chunks and in one.
MC_Encodings == [f \in FileIds |-> {<<1, 2>>, <<1>>}]

MC_WholeChain == {WholeChain}
=============================================================================
