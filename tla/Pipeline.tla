------------------------------ MODULE Pipeline ------------------------------
(***************************************************************************)
(* The Python programs together: runs of upload_file() write through the   *)
(* mempool to the contract what runs of the downloader read from its log,  *)
(* and the runs meet nowhere else.  A file is asked for once a run has     *)
(* printed "Upload complete"; other runs may still upload the same file.   *)
(***************************************************************************)
EXTENDS StorageBot, DownloaderBot

\* What gzip.compress() makes of a content decompresses to it.
ASSUME PipelineAssumption ==
    \A u \in Uploaders : Upload[u].data \in Encodings[Upload[u].fileId]

pipelineVars == <<uploadVars, downVars>>

PipelineInit == UploadInit /\ DownloadInit

\* cmd_download for a file whose upload was reported as complete.
Fetch(d) == \E u \in Uploaders : up[u].pc = "done" /\ AskFor(d, Upload[u].fileId)

PipelineNext ==
    \/ UploadNext /\ UNCHANGED downVars
    \/ \E d \in Downloaders : (Fetch(d) \/ Progress(d) \/ Die(d)) /\ UNCHANGED botVars

PipelineSpec == PipelineInit /\ [][PipelineNext]_pipelineVars

\* Every call returns or raises, in the uploads and in the downloads.
FairPipelineSpec ==
    /\ PipelineSpec
    /\ \A u \in Uploaders : WF_pipelineVars(Uploader(u) /\ UNCHANGED downVars)
    /\ \A d \in Downloaders : WF_pipelineVars(Progress(d) /\ UNCHANGED botVars)

-----------------------------------------------------------------------------
\* What one run stored another fetches: after a reported upload, a download over
\* the whole chain fails only when its own calls do or it is killed, never for a
\* chunk that is missing, repeated or from another run; and what it saves are the
\* chunks of a run that reported success, not of one that is still uploading.
StoredIsFetched ==
    \A d \in Downloaders :
        /\ down[d].pc = "failed" /\ down[d].window = WholeChain =>
                down[d].error \in {"rpc", "killed", "unresolved"}
        /\ output[d] # <<>> =>
                \E u \in Uploaders : up[u].pc = "done" /\ output[d] = Upload[u].data

\* A run of either program ends, whatever happens to its transactions and calls.
EveryRunEnds ==
    /\ UploadEnds
    /\ \A d \in Downloaders : down[d].pc \notin Resting ~> down[d].pc \in Resting
=============================================================================
