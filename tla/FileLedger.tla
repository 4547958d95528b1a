----------------------------- MODULE FileLedger -----------------------------
(***************************************************************************)
(* What the contract promises to whoever waits until its events are final: *)
(* a ledger that only grows, in which a file is created once and receives  *)
(* chunks from its creator alone, after its creation and within what the   *)
(* creation announced.  There is no storage, no fork and no call here;     *)
(* ChainFS implements it with its finalized blocks.                        *)
(***************************************************************************)
EXTENDS Naturals, Sequences

CONSTANTS
    Events,             \* what a block may hold, nothing included
    DataLength,         \* the length of each payload
    MaxChunkSize        \* the longest payload

VARIABLE ledger         \* the events, oldest first

LedgerInit == ledger = <<>>

CreatedAt(b, f) == ledger[b].type = "FileCreated" /\ ledger[b].fileId = f

Legal(e) ==
    /\ e.type = "FileCreated" => \A b \in 1..Len(ledger) : ~CreatedAt(b, e.fileId)
    /\ e.type = "ChunkUploaded" => \E b \in 1..Len(ledger) :
        /\ CreatedAt(b, e.fileId)
        /\ ledger[b].owner = e.sender
        /\ e.chunkIndex < ledger[b].chunkCount
        /\ DataLength[e.data] \in 1..MaxChunkSize

\* One more event becomes final.
Publish ==
    /\ Len(ledger') = Len(ledger) + 1
    /\ LET e == ledger'[Len(ledger')]
       IN  /\ e \in Events
           /\ Legal(e)
           /\ ledger' = Append(ledger, e)

LedgerSpec == LedgerInit /\ [][Publish]_ledger
=============================================================================
