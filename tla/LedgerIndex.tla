---------------------------- MODULE LedgerIndex -----------------------------
(***************************************************************************)
(* What an index of the ledger is: rows of final events only, at most one  *)
(* per key, never changed and never removed, and a cursor below which      *)
(* every event is in the rows or in the reports of what failed.  There are *)
(* no forks, processes, batches, retries or crashes here; SyncEngine       *)
(* implements it, whichever of those it meets.  The cursor may move back:  *)
(* two processes that commit do not wait for each other.                   *)
(***************************************************************************)
EXTENDS FileLedger

VARIABLES
    rows,               \* the rows: [key, content, at]
    reported,           \* the positions reported as failed
    cursor              \* how far the index goes

HasRow(b) == ledger[b].type # "None"

Row(b) ==
    LET e == ledger[b]
    IN  IF e.type = "FileCreated"
        THEN [key |-> <<e.fileId>>, at |-> b,
              content |-> <<e.name, e.size, e.chunkCount, e.owner>>]
        ELSE [key |-> <<e.fileId, e.chunkIndex>>, at |-> b, content |-> <<e.data>>]

Covered(b) == HasRow(b) => b \in reported \/ \E r \in rows : r.key = Row(b).key

IndexInit == LedgerInit /\ rows = {} /\ reported = {} /\ cursor = 0

Grow == Publish /\ UNCHANGED <<rows, reported, cursor>>

\* Rows of final events are added under keys that are free; reports are kept.
Index ==
    /\ rows \subseteq rows'
    /\ \A r \in rows' \ rows :
        /\ r.at \in 1..Len(ledger) /\ HasRow(r.at) /\ r = Row(r.at)
        /\ \A s \in rows' : s.key = r.key => s = r
    /\ reported \subseteq reported' /\ reported' \subseteq 1..Len(ledger)
    /\ UNCHANGED <<ledger, cursor>>

Advance ==
    /\ cursor' \in 0..Len(ledger)
    /\ \A b \in 1..cursor' : Covered(b)
    /\ UNCHANGED <<ledger, rows, reported>>

IndexSpec == IndexInit /\ [][Grow \/ Index \/ Advance]_<<ledger, rows, reported, cursor>>
=============================================================================
