-------------------------- MODULE SyncEngineProofs --------------------------
(* Proofs about SyncEngine for every value of its constants: any number of  *)
(* processes and workers, any window, batch size and number of retries.     *)
EXTENDS SyncEngine, ChainFSProofs

USE ConstantsAssumption, SyncAssumption

-----------------------------------------------------------------------------
(* Whatever a step does to the database or a process, it moves the chain by *)
(* Next or leaves it.                                                       *)

LEMMA SyncStepIsChainStep == [SyncNext]_syncVars => [AnyNext]_chainVars
<1>1. [SyncNext]_syncVars => [Next]_chainVars
  BY DEF SyncNext, syncVars, ChainStep, RequestTip, ProcessStep, Fault, Begin, Commit,
         WorkerStep, TakeBatch, AnswerFiles, AnswerChunks, ApplyBatch, Crash,
         FetchFails, CrashInBatch
<1> QED BY <1>1, NextIsAnyNext

(* What is proved of the contract and its chain holds beside the indexer    *)
(* too.                                                                     *)
LEMMA SyncKeepsChainInv == SyncSpec => []ChainInv
<1>1. SyncInit => ChainInv
  BY ChainInvStarts DEF SyncInit
<1>2. ChainInv /\ [SyncNext]_syncVars => ChainInv'
  BY SyncStepIsChainStep, ChainInvSteps
<1> QED BY <1>1, <1>2, PTL DEF SyncSpec

-----------------------------------------------------------------------------
(* Types.  A worker is free, or its batch is a piece of its process's run   *)
(* below the next one to be taken.                                          *)

ProcState == [pc: {"idle", "tip", "run"}, tip: 0..MaxBlocks, safe: 0..MaxBlocks,
              next: Nat \ {0}]

Batch == [start: 0..MaxBlocks, end: 0..MaxBlocks, attempt: 0..MaxRetries,
          fileLogs: {NoLogs} \cup SUBSET Log, chunkLogs: {NoLogs} \cup SUBSET Log]

BatchOfRun(s, b) ==
    /\ s.pc = "run"
    /\ b.attempt >= 1
    /\ 1 <= b.start /\ b.start <= b.end
    /\ b.end <= s.safe /\ b.end < s.next

RunInv ==
    /\ proc \in [Procs -> ProcState]
    /\ worker \in [Procs -> [Workers -> Batch]]
    /\ \A p \in Procs, w \in Workers : Free(p, w) \/ BatchOfRun(proc[p], worker[p][w])

TableInv ==
    /\ fileRows \subseteq FileRow
    /\ chunkRows \subseteq ChunkRow
    /\ lastSynced \in 0..MaxBlocks
    /\ skipped \subseteq Blocks
    /\ dropped \subseteq Blocks

(* A worker without a batch is a worker state.                              *)
LEMMA FreeWorkerType == FreeWorker \in Batch /\ FreeWorker.attempt = 0
                        /\ FreeWorker.start = 0 /\ FreeWorker.end = 0
                        /\ FreeWorker.fileLogs = NoLogs /\ FreeWorker.chunkLogs = NoLogs
  BY DEF FreeWorker, Batch

(* A process that is not syncing is a process state.                        *)
LEMMA IdleProcType == IdleProc \in ProcState /\ IdleProc.pc = "idle" /\ IdleProc.tip = 0
                      /\ IdleProc.safe = 0 /\ IdleProc.next = 1
  BY DEF IdleProc, ProcState

(* What the endpoint answers are logs.                                      *)
LEMMA LogsOfType ==
    ASSUME ChainInv, RunInv, NEW p \in Procs, NEW w \in Workers, ~Free(p, w),
           NEW type \in {"FileCreated", "ChunkUploaded"}
    PROVE  LogsOf(p, w, type) \subseteq Log
<1> SUFFICES ASSUME NEW b \in worker[p][w].start..worker[p][w].end,
                    b <= Len(chain), chain[b].event.type = type
             PROVE  [block |-> b, event |-> chain[b].event] \in Log
  BY DEF LogsOf
<1>1. worker[p][w] \in Batch /\ BatchOfRun(proc[p], worker[p][w])
  BY DEF RunInv
<1>2. b \in Nat /\ 1 <= b
  BY <1>1 DEF Batch, BatchOfRun
<1>3. chain \in Seq(Block) /\ Len(chain) \in Nat /\ Len(chain) <= MaxBlocks
  BY DEF ChainInv, IInv, TypeOK
<1>4. b \in Blocks /\ b \in 1..Len(chain)
  BY <1>2, <1>3 DEF Blocks
<1>5. chain[b] \in Block
  BY <1>3, <1>4
<1>6. chain[b].event \in FileCreated \cup ChunkUploaded
  BY <1>5 DEF Block, Events, NoEvent
<1> QED BY <1>4, <1>6 DEF Log

(* A step of one process: its state and all its workers may change.         *)
LEMMA ProcessMoves ==
    ASSUME RunInv, NEW p \in Procs, NEW s \in ProcState, NEW ws \in [Workers -> Batch],
           proc' = [proc EXCEPT ![p] = s],
           worker' = [worker EXCEPT ![p] = ws],
           \A w \in Workers : ws[w] = FreeWorker \/ BatchOfRun(s, ws[w])
    PROVE  RunInv'
<1>1. proc' \in [Procs -> ProcState] /\ worker' \in [Procs -> [Workers -> Batch]]
  BY DEF RunInv
<1>2. worker'[p] = ws /\ proc'[p] = s /\ \A q \in Procs \ {p} : worker'[q] = worker[q] /\ proc'[q] = proc[q]
  BY DEF RunInv
<1>3. ASSUME NEW q \in Procs, NEW w \in Workers
      PROVE  Free(q, w)' \/ BatchOfRun(proc'[q], worker'[q][w])
  <2>1. CASE q = p
    BY <1>2, <2>1 DEF Free
  <2>2. CASE q # p
    BY <1>2, <2>2 DEF RunInv, Free, BatchOfRun
  <2> QED BY <2>1, <2>2
<1> QED BY <1>1, <1>3 DEF RunInv

(* A step of one worker, in which its process goes on.                      *)
WorkerBecomes(p, w, s, b) ==
    /\ proc' = [proc EXCEPT ![p] = s]
    /\ worker' = [worker EXCEPT ![p][w] = b]
    /\ s.pc = proc[p].pc /\ s.safe = proc[p].safe /\ s.next >= proc[p].next
    /\ b = FreeWorker \/ BatchOfRun(s, b)

(* A step of one worker keeps the shape of all runs, and the other workers  *)
(* where they are.                                                          *)
LEMMA WorkerMoves ==
    ASSUME RunInv, NEW p \in Procs, NEW w \in Workers,
           NEW s \in ProcState, NEW b \in Batch, WorkerBecomes(p, w, s, b)
    PROVE  /\ RunInv'
           /\ worker'[p][w] = b
           /\ \A q \in Procs, v \in Workers :
                q # p \/ v # w => worker'[q][v] = worker[q][v]
<1> DEFINE ws == [worker[p] EXCEPT ![w] = b]
<1>1. worker[p] \in [Workers -> Batch] /\ worker \in [Procs -> [Workers -> Batch]]
      /\ proc \in [Procs -> ProcState]
  BY DEF RunInv
<1>2. ws \in [Workers -> Batch] /\ worker' = [worker EXCEPT ![p] = ws]
      /\ proc' = [proc EXCEPT ![p] = s]
  BY <1>1 DEF WorkerBecomes
<1>3. proc'[p] = s /\ worker'[p] = ws
  BY <1>1, <1>2
<1>4. ASSUME NEW v \in Workers
      PROVE  ws[v] = FreeWorker \/ BatchOfRun(s, ws[v])
  <2>1. CASE v = w
    BY <1>1, <2>1 DEF WorkerBecomes
  <2>2. CASE v # w
    <3>1. ws[v] = worker[p][v] /\ ws[v] \in Batch
      BY <1>1, <2>2
    <3>2. worker[p][v] = FreeWorker \/ BatchOfRun(proc[p], worker[p][v])
      BY DEF RunInv, Free
    <3>3. /\ ws[v].end \in Nat /\ s.next \in Nat
          /\ proc[p].next \in Nat
      BY <1>1, <3>1 DEF ProcState, Batch
    <3> QED BY <3>1, <3>2, <3>3 DEF BatchOfRun, WorkerBecomes
  <2> QED BY <2>1, <2>2
<1>5. RunInv'
  BY <1>2, <1>4, ProcessMoves
<1> QED BY <1>1, <1>2, <1>3, <1>5

(* The actions, each by one of the two lemmas.                              *)
LEMMA TakeBatchEffect ==
    ASSUME RunInv, NEW p \in Procs, NEW w \in Workers, TakeBatch(p, w)
    PROVE  /\ RunInv'
           /\ worker'[p][w].start = proc[p].next /\ worker'[p][w].end = LastOfBatch(p)
           /\ worker'[p][w].fileLogs = NoLogs /\ worker'[p][w].chunkLogs = NoLogs
           /\ proc'[p].next = proc[p].next + BatchSize
           /\ proc'[p].safe = proc[p].safe /\ proc'[p].tip = proc[p].tip
           /\ proc'[p].pc = "run"
           /\ \A q \in Procs \ {p} : proc'[q] = proc[q]
           /\ \A q \in Procs, v \in Workers :
                q # p \/ v # w => worker'[q][v] = worker[q][v]
<1> DEFINE b == [FreeWorker EXCEPT !.start = proc[p].next, !.end = LastOfBatch(p),
                                   !.attempt = 1]
           s == [proc[p] EXCEPT !.next = @ + BatchSize]
<1>1. proc \in [Procs -> ProcState] /\ proc[p] \in ProcState
      /\ worker \in [Procs -> [Workers -> Batch]]
  BY DEF RunInv
<1>2. proc[p].pc = "run" /\ proc[p].next <= proc[p].safe
      /\ proc' = [proc EXCEPT ![p] = s]
      /\ worker' = [worker EXCEPT ![p][w] = b]
  BY <1>1 DEF TakeBatch
<1>3. s \in ProcState /\ s.pc = "run" /\ s.safe = proc[p].safe /\ s.tip = proc[p].tip
      /\ s.next = proc[p].next + BatchSize
  BY <1>1, <1>2 DEF ProcState
<1>4. proc[p].next \in Nat \ {0} /\ proc[p].safe \in 0..MaxBlocks
  BY <1>1 DEF ProcState
<1>5. LastOfBatch(p) \in 0..MaxBlocks /\ LastOfBatch(p) <= proc[p].safe
      /\ proc[p].next <= LastOfBatch(p) /\ LastOfBatch(p) < proc[p].next + BatchSize
  BY <1>2, <1>4 DEF LastOfBatch
<1>6. b \in Batch /\ b.start = proc[p].next /\ b.end = LastOfBatch(p) /\ b.attempt = 1
      /\ b.fileLogs = NoLogs /\ b.chunkLogs = NoLogs
  <2> DEFINE b1 == [FreeWorker EXCEPT !.start = proc[p].next]
             b2 == [b1 EXCEPT !.end = LastOfBatch(p)]
             b3 == [b2 EXCEPT !.attempt = 1]
  <2>1. b1 \in Batch /\ b1.start = proc[p].next
        /\ b1.fileLogs = NoLogs /\ b1.chunkLogs = NoLogs
    BY <1>2, <1>4, FreeWorkerType DEF Batch
  <2> HIDE DEF b1
  <2>2. b2 \in Batch /\ b2.start = proc[p].next /\ b2.end = LastOfBatch(p)
        /\ b2.fileLogs = NoLogs /\ b2.chunkLogs = NoLogs
    BY <1>5, <2>1 DEF Batch
  <2> HIDE DEF b2
  <2>3. b3 \in Batch /\ b3.start = proc[p].next /\ b3.end = LastOfBatch(p) /\ b3.attempt = 1
        /\ b3.fileLogs = NoLogs /\ b3.chunkLogs = NoLogs
    BY <2>2 DEF Batch
  <2> QED BY <2>3 DEF b1, b2
<1>7. BatchOfRun(s, b)
  BY <1>3, <1>4, <1>5, <1>6 DEF BatchOfRun
<1>8. PICK t \in ProcState, c \in Batch : t = s /\ c = b
  BY <1>3, <1>6
<1> HIDE DEF s, b
<1>9. RunInv' /\ worker'[p][w] = c /\ \A q \in Procs, v \in Workers :
        q # p \/ v # w => worker'[q][v] = worker[q][v]
  <2>1. t.next >= proc[p].next
    BY <1>3, <1>4, <1>8
  <2>2. t.pc = proc[p].pc /\ t.safe = proc[p].safe
    BY <1>2, <1>3, <1>8
  <2>3. c = FreeWorker \/ BatchOfRun(t, c)
    BY <1>7, <1>8
  <2>4. proc' = [proc EXCEPT ![p] = t] /\ worker' = [worker EXCEPT ![p][w] = c]
    BY <1>2, <1>8
  <2>5. WorkerBecomes(p, w, t, c)
    BY <2>1, <2>2, <2>3, <2>4 DEF WorkerBecomes
  <2> QED BY <2>5, WorkerMoves
<1>10. proc'[p] = s /\ \A q \in Procs \ {p} : proc'[q] = proc[q]
  BY <1>1, <1>2
<1> QED BY <1>3, <1>6, <1>8, <1>9, <1>10

(* The batch of worker w goes on as b, or has ended and the worker is free. *)
BatchBecomes(p, w, b) ==
    /\ b \in Batch
    /\ worker' = [worker EXCEPT ![p][w] = b]
    /\ proc' = proc
    /\ ~Free(p, w)
    /\ \/ b = FreeWorker
       \/ /\ b.start = worker[p][w].start /\ b.end = worker[p][w].end
          /\ b.attempt >= 1

(* The same, for a step that leaves the run of its process alone.           *)
LEMMA BatchMoves ==
    ASSUME RunInv, NEW p \in Procs, NEW w \in Workers, NEW b, BatchBecomes(p, w, b)
    PROVE  /\ RunInv'
           /\ worker'[p][w] = b
           /\ \A q \in Procs, v \in Workers :
                q # p \/ v # w => worker'[q][v] = worker[q][v]
<1>1. proc \in [Procs -> ProcState] /\ proc[p] \in ProcState
      /\ worker[p][w] \in Batch /\ BatchOfRun(proc[p], worker[p][w])
  BY DEF RunInv, BatchBecomes
<1>2. proc' = [proc EXCEPT ![p] = proc[p]] /\ worker' = [worker EXCEPT ![p][w] = b]
  BY <1>1 DEF BatchBecomes
<1>3. b \in Batch /\ (b = FreeWorker \/ BatchOfRun(proc[p], b))
  BY <1>1 DEF BatchBecomes, BatchOfRun
<1>4. proc[p].next >= proc[p].next
  BY <1>1 DEF ProcState
<1>5. WorkerBecomes(p, w, proc[p], b)
  BY <1>2, <1>3, <1>4 DEF WorkerBecomes
<1> QED BY <1>1, <1>3, <1>5, WorkerMoves

(* An answer to the file query: the batch now holds the creations of its    *)
(* range.                                                                   *)
LEMMA AnswerFilesEffect ==
    ASSUME ChainInv, RunInv, NEW p \in Procs, NEW w \in Workers, AnswerFiles(p, w)
    PROVE  \E b : /\ BatchBecomes(p, w, b) /\ b # FreeWorker
                  /\ b.fileLogs = LogsOf(p, w, "FileCreated")
                  /\ b.chunkLogs = worker[p][w].chunkLogs
<1> DEFINE b == [worker[p][w] EXCEPT !.fileLogs = LogsOf(p, w, "FileCreated")]
<1>1. proc \in [Procs -> ProcState] /\ worker \in [Procs -> [Workers -> Batch]]
      /\ worker[p][w] \in Batch /\ ~Free(p, w) /\ BatchOfRun(proc[p], worker[p][w])
  BY DEF RunInv, AnswerFiles
<1>2. LogsOf(p, w, "FileCreated") \subseteq Log
  BY <1>1, LogsOfType
<1>3. b \in Batch /\ b.fileLogs = LogsOf(p, w, "FileCreated")
      /\ b.chunkLogs = worker[p][w].chunkLogs
      /\ b.start = worker[p][w].start /\ b.end = worker[p][w].end
      /\ b.attempt = worker[p][w].attempt
  BY <1>1, <1>2 DEF Batch
<1>4. worker' = [worker EXCEPT ![p][w] = b]
  BY <1>1 DEF AnswerFiles
<1>5. BatchBecomes(p, w, b)
  BY <1>1, <1>3, <1>4 DEF BatchBecomes, BatchOfRun, AnswerFiles
<1>6. b.attempt >= 1
  BY <1>1, <1>3 DEF BatchOfRun
<1> HIDE DEF b
<1>7. b # FreeWorker
  BY <1>6, FreeWorkerType
<1> QED BY <1>3, <1>5, <1>7

(* An answer to the chunk query: the batch now holds the uploads of its     *)
(* range.                                                                   *)
LEMMA AnswerChunksEffect ==
    ASSUME ChainInv, RunInv, NEW p \in Procs, NEW w \in Workers, AnswerChunks(p, w)
    PROVE  \E b : /\ BatchBecomes(p, w, b) /\ b # FreeWorker
                  /\ b.chunkLogs = LogsOf(p, w, "ChunkUploaded")
                  /\ b.fileLogs = worker[p][w].fileLogs
<1> DEFINE b == [worker[p][w] EXCEPT !.chunkLogs = LogsOf(p, w, "ChunkUploaded")]
<1>1. proc \in [Procs -> ProcState] /\ worker \in [Procs -> [Workers -> Batch]]
      /\ worker[p][w] \in Batch /\ ~Free(p, w) /\ BatchOfRun(proc[p], worker[p][w])
  BY DEF RunInv, AnswerChunks
<1>2. LogsOf(p, w, "ChunkUploaded") \subseteq Log
  BY <1>1, LogsOfType
<1>3. b \in Batch /\ b.chunkLogs = LogsOf(p, w, "ChunkUploaded")
      /\ b.fileLogs = worker[p][w].fileLogs
      /\ b.start = worker[p][w].start /\ b.end = worker[p][w].end
      /\ b.attempt = worker[p][w].attempt
  BY <1>1, <1>2 DEF Batch
<1>4. worker' = [worker EXCEPT ![p][w] = b]
  BY <1>1 DEF AnswerChunks
<1>5. BatchBecomes(p, w, b)
  BY <1>1, <1>3, <1>4 DEF BatchBecomes, BatchOfRun, AnswerChunks
<1>6. b.attempt >= 1
  BY <1>1, <1>3 DEF BatchOfRun
<1> HIDE DEF b
<1>7. b # FreeWorker
  BY <1>6, FreeWorkerType
<1> QED BY <1>3, <1>5, <1>7

(* A failed query starts the batch over, or gives it up and reports its     *)
(* blocks.                                                                  *)
LEMMA FetchFailsEffect ==
    ASSUME RunInv, NEW p \in Procs, NEW w \in Workers, FetchFails(p, w)
    PROVE  \/ \E b : BatchBecomes(p, w, b) /\ b.fileLogs = NoLogs /\ b.chunkLogs = NoLogs
                     /\ b # FreeWorker /\ UNCHANGED skipped
           \/ /\ BatchBecomes(p, w, FreeWorker)
              /\ skipped' = skipped \cup (worker[p][w].start..worker[p][w].end)
<1> DEFINE b == [worker[p][w] EXCEPT !.attempt = @ + 1,
                                     !.fileLogs = NoLogs, !.chunkLogs = NoLogs]
<1>1. proc \in [Procs -> ProcState] /\ worker \in [Procs -> [Workers -> Batch]]
      /\ worker[p][w] \in Batch /\ ~Free(p, w) /\ BatchOfRun(proc[p], worker[p][w])
      /\ UNCHANGED proc
  BY DEF RunInv, FetchFails
<1>2. CASE AttemptsLeft(worker[p][w].attempt)
  <2>1. b \in Batch /\ b.fileLogs = NoLogs /\ b.chunkLogs = NoLogs
        /\ b.start = worker[p][w].start /\ b.end = worker[p][w].end
        /\ b.attempt = worker[p][w].attempt + 1 /\ b.attempt >= 1
    <3> DEFINE b1 == [worker[p][w] EXCEPT !.attempt = @ + 1]
               b2 == [b1 EXCEPT !.fileLogs = NoLogs]
               b3 == [b2 EXCEPT !.chunkLogs = NoLogs]
    <3>0. worker[p][w].attempt + 1 \in 0..MaxRetries
      BY <1>1, <1>2 DEF Batch, AttemptsLeft
    <3>1. b1 \in Batch /\ b1.start = worker[p][w].start /\ b1.end = worker[p][w].end
          /\ b1.attempt = worker[p][w].attempt + 1
      BY <1>1, <3>0 DEF Batch
    <3> HIDE DEF b1
    <3>2. b2 \in Batch /\ b2.start = worker[p][w].start /\ b2.end = worker[p][w].end
          /\ b2.attempt = worker[p][w].attempt + 1 /\ b2.fileLogs = NoLogs
      BY <3>1 DEF Batch
    <3> HIDE DEF b2
    <3>3. b3 \in Batch /\ b3.start = worker[p][w].start /\ b3.end = worker[p][w].end
          /\ b3.attempt = worker[p][w].attempt + 1
          /\ b3.fileLogs = NoLogs /\ b3.chunkLogs = NoLogs
      BY <3>2 DEF Batch
    <3>4. worker[p][w].attempt + 1 >= 1
      BY <1>1 DEF Batch
    <3> QED BY <3>3, <3>4 DEF b1, b2
  <2>2. worker' = [worker EXCEPT ![p][w] = b] /\ UNCHANGED skipped
    BY <1>1, <1>2 DEF FetchFails
  <2>3. b # FreeWorker
    <3>1. worker[p][w].attempt \in Nat
      BY <1>1 DEF Batch
    <3> HIDE DEF b
    <3> QED BY <2>1, <3>1, FreeWorkerType
  <2> QED BY <1>1, <2>1, <2>2, <2>3 DEF BatchBecomes
<1>3. CASE ~AttemptsLeft(worker[p][w].attempt)
  BY <1>1, <1>3, FreeWorkerType DEF FetchFails, BatchBecomes
<1> QED BY <1>2, <1>3

(* A batch that is applied leaves its worker free.                          *)
LEMMA ApplyBatchEffect ==
    ASSUME RunInv, NEW p \in Procs, NEW w \in Workers, ApplyBatch(p, w)
    PROVE  BatchBecomes(p, w, FreeWorker)
  BY FreeWorkerType DEF ApplyBatch, Fetched, BatchBecomes

(* A process moves on with all its workers free: it starts, begins a run,   *)
(* ends one, or dies.                                                       *)
ProcBecomes(p, s) ==
    /\ s \in ProcState
    /\ proc' = [proc EXCEPT ![p] = s]
    /\ \/ worker' = worker /\ \A w \in Workers : Free(p, w)
       \/ worker' = [worker EXCEPT ![p] = [w \in Workers |-> FreeWorker]]

(* A process that starts or ends a run has all its workers free and         *)
(* disturbs no other process.                                               *)
LEMMA ProcessTurns ==
    ASSUME RunInv, NEW p \in Procs, NEW s, ProcBecomes(p, s)
    PROVE  RunInv' /\ (\A w \in Workers : worker'[p][w] = FreeWorker) /\ proc'[p] = s
           /\ \A q \in Procs \ {p} : proc'[q] = proc[q] /\ worker'[q] = worker[q]
<1> DEFINE ws == [w \in Workers |-> FreeWorker]
<1>1. proc \in [Procs -> ProcState] /\ worker \in [Procs -> [Workers -> Batch]]
      /\ s \in ProcState /\ proc' = [proc EXCEPT ![p] = s]
  BY DEF RunInv, ProcBecomes
<1>2. ws \in [Workers -> Batch]
  BY FreeWorkerType
<1>3. worker' = [worker EXCEPT ![p] = ws]
  <2>1. CASE worker' = worker /\ \A w \in Workers : Free(p, w)
    <3>1. worker[p] = ws
      BY <1>1, <2>1 DEF Free
    <3> QED BY <1>1, <2>1, <3>1
  <2> QED BY <2>1 DEF ProcBecomes
<1>4. RunInv'
  BY <1>1, <1>2, <1>3, ProcessMoves
<1> QED BY <1>1, <1>3, <1>4

(* The tip a process holds is a length the chain had.                       *)
LEMMA RequestTipEffect ==
    ASSUME ChainInv, RunInv, NEW p \in Procs, RequestTip(p)
    PROVE  \E s : ProcBecomes(p, s) /\ s.pc = "tip" /\ s.tip = Len(chain) /\ s.safe = 0
<1> DEFINE s1 == [IdleProc EXCEPT !.pc = "tip"]
           s2 == [s1 EXCEPT !.tip = Len(chain)]
<1>1. Len(chain) \in 0..MaxBlocks
  BY DEF ChainInv, IInv, TypeOK
<1>2. s1 \in ProcState /\ s1.pc = "tip" /\ s1.safe = 0
  BY IdleProcType DEF ProcState
<1>3. proc' = [proc EXCEPT ![p] = s2] /\ worker' = worker /\ proc[p].pc = "idle"
  BY DEF RequestTip
<1> HIDE DEF s1
<1>4. s2 \in ProcState /\ s2.pc = "tip" /\ s2.tip = Len(chain) /\ s2.safe = 0
  BY <1>1, <1>2 DEF ProcState
<1>5. \A w \in Workers : Free(p, w)
  BY <1>3 DEF RunInv, BatchOfRun
<1>6. ProcBecomes(p, s2)
  BY <1>3, <1>4, <1>5 DEF ProcBecomes
<1> QED BY <1>4, <1>6

(* A run starts above the cursor and ends at the safe block, or does not    *)
(* start.                                                                   *)
LEMMA BeginEffect ==
    ASSUME RunInv, lastSynced \in Nat, NEW p \in Procs, Begin(p)
    PROVE  \E s : /\ ProcBecomes(p, s)
                  /\ \/ s = IdleProc
                     \/ /\ s.pc = "run" /\ s.tip = proc[p].tip
                        /\ s.safe = SafeBlock(proc[p].tip) /\ s.next = lastSynced + 1
                        /\ lastSynced < s.safe
<1> DEFINE safe == SafeBlock(proc[p].tip)
           t == [pc |-> "run", tip |-> proc[p].tip, safe |-> safe, next |-> lastSynced + 1]
<1>1. proc[p] \in ProcState /\ proc[p].tip \in 0..MaxBlocks
  BY DEF RunInv, ProcState
<1>2. safe \in 0..MaxBlocks
  BY <1>1 DEF SafeBlock
<1>3. t \in ProcState
  BY <1>1, <1>2 DEF ProcState
<1>4. \A w \in Workers : Free(p, w)
  BY DEF RunInv, BatchOfRun, Begin
<1>5. worker' = worker
      /\ proc' = [proc EXCEPT ![p] = IF lastSynced + 1 > safe THEN IdleProc ELSE t]
  BY DEF Begin
<1>6. CASE lastSynced + 1 > safe
  <2>1. ProcBecomes(p, IdleProc)
    BY <1>4, <1>5, <1>6, IdleProcType DEF ProcBecomes
  <2> QED BY <2>1
<1>7. CASE ~(lastSynced + 1 > safe)
  <2>1. ProcBecomes(p, t)
    BY <1>3, <1>4, <1>5, <1>7 DEF ProcBecomes
  <2>2. lastSynced < safe
    BY <1>2, <1>7
  <2> QED BY <2>1, <2>2
<1> QED BY <1>6, <1>7

(* A run that commits is over.                                              *)
LEMMA CommitEffect ==
    ASSUME RunInv, NEW p \in Procs, Commit(p)
    PROVE  ProcBecomes(p, IdleProc)
  BY IdleProcType DEF Commit, ProcBecomes

(* A run that is killed is over.                                            *)
LEMMA CrashEffect ==
    ASSUME RunInv, NEW p \in Procs, Crash(p)
    PROVE  ProcBecomes(p, IdleProc)
  BY IdleProcType DEF Crash, ProcBecomes

(* A run that is killed in mid-batch is over.                               *)
LEMMA CrashInBatchEffect ==
    ASSUME RunInv, NEW p \in Procs, NEW w \in Workers, CrashInBatch(p, w)
    PROVE  ProcBecomes(p, IdleProc)
  BY IdleProcType DEF CrashInBatch, ProcBecomes

(* No step of any process, and no block, breaks the shape of the runs.      *)
LEMMA RunInvSteps ==
    ASSUME ChainInv, RunInv, lastSynced \in Nat, [SyncNext]_syncVars
    PROVE  RunInv'
<1>1. CASE UNCHANGED runVars
  BY <1>1 DEF runVars, RunInv, Free
<1>2. ASSUME NEW p \in Procs, \E s : ProcBecomes(p, s)
      PROVE  RunInv'
  BY <1>2, ProcessTurns
<1>3. ASSUME NEW p \in Procs, NEW w \in Workers, \E b : BatchBecomes(p, w, b)
      PROVE  RunInv'
  BY <1>3, BatchMoves
<1>4. ASSUME NEW p \in Procs, RequestTip(p) \/ Begin(p) \/ Commit(p) \/ Crash(p)
      PROVE  RunInv'
  BY <1>2, <1>4, RequestTipEffect, BeginEffect, CommitEffect, CrashEffect
<1>5. ASSUME NEW p \in Procs, NEW w \in Workers,
             WorkerStep(p, w) \/ FetchFails(p, w) \/ CrashInBatch(p, w)
      PROVE  RunInv'
  BY <1>2, <1>3, <1>5, TakeBatchEffect, AnswerFilesEffect, AnswerChunksEffect,
     ApplyBatchEffect, FetchFailsEffect, CrashInBatchEffect DEF WorkerStep
<1>6. CASE ChainStep \/ UNCHANGED syncVars
  BY <1>1, <1>6 DEF ChainStep, syncVars
<1> QED BY <1>4, <1>5, <1>6 DEF SyncNext, ProcessStep, Fault

-----------------------------------------------------------------------------
(* The window.  What a process knows of the tip may be out of date, but the *)
(* block SAFE_WINDOW behind it was final when it asked and stays so.        *)

WindowOf(s, final) == SafeBlock(s.tip) <= final /\ s.safe <= final

WindowInv ==
    /\ lastSynced \in Nat /\ lastSynced <= finalized
    /\ \A p \in Procs : WindowOf(proc[p], finalized)

(* What all the following step lemmas use of the chain.                     *)
LEMMA ChainGoesOn ==
    ASSUME ChainInv, [SyncNext]_syncVars
    PROVE  /\ ChainInv'
           /\ finalized \in Nat /\ finalized' \in Nat
           /\ finalized <= finalized' /\ finalized' <= finalized + 1
           /\ finalized <= Len(chain) /\ finalized' <= Len(chain')
           /\ Len(chain) \in Nat /\ Len(chain') \in Nat /\ Len(chain) <= MaxBlocks
           /\ Len(chain) - MaxReorg <= finalized
           /\ \A b \in 1..finalized : chain'[b] = chain[b]
<1>1. [AnyNext]_chainVars
  BY SyncStepIsChainStep
<1>2. finalized \in 0..Len(chain) /\ finalized' \in 0..Len(chain')
      /\ Len(chain) \in 0..MaxBlocks /\ Len(chain') \in 0..MaxBlocks
      /\ finalized' \in {finalized, finalized + 1}
  BY <1>1, ChainInvSteps
<1> QED BY <1>1, <1>2, ChainInvSteps

(* The safe block is final: the window is as deep as any reorganisation.    *)
LEMMA SafeIsFinal ==
    ASSUME finalized \in Nat, Len(chain) \in Nat, Len(chain) - MaxReorg <= finalized
    PROVE  SafeBlock(Len(chain)) <= finalized
  BY WindowAssumption DEF SafeBlock

(* A process that is not syncing looks at no block.                         *)
LEMMA IdleWindow == ASSUME NEW n \in Nat PROVE WindowOf(IdleProc, n)
  BY IdleProcType DEF WindowOf, SafeBlock

(* A process that turns keeps the invariant if its new state has it.        *)
LEMMA WindowMoves ==
    ASSUME RunInv, WindowInv, NEW p \in Procs, NEW s, ProcBecomes(p, s),
           WindowOf(s, finalized)
    PROVE  \A q \in Procs : WindowOf(proc'[q], finalized)
<1> TAKE q \in Procs
<1>1. proc'[p] = s /\ (q # p => proc'[q] = proc[q])
  BY ProcessTurns
<1>2. CASE q = p
  BY <1>1, <1>2 DEF WindowOf
<1>3. CASE q # p
  BY <1>1, <1>3 DEF WindowOf, WindowInv
<1> QED BY <1>2, <1>3

(* The cursor and every run stay at or below the finalized block.           *)
LEMMA WindowInvSteps ==
    ASSUME ChainInv, RunInv, WindowInv, [SyncNext]_syncVars
    PROVE  WindowInv'
<1>1. finalized \in Nat /\ finalized' \in Nat /\ finalized <= finalized'
      /\ Len(chain) \in Nat /\ Len(chain) - MaxReorg <= finalized
  BY ChainGoesOn
<1>2. \A p \in Procs : proc[p] \in ProcState
  BY DEF RunInv
<1>3. RunInv'
  BY RunInvSteps DEF WindowInv
<1>4. \A p \in Procs : proc'[p] \in ProcState
  BY <1>3 DEF RunInv
<1>5. SUFFICES /\ lastSynced' \in Nat /\ lastSynced' <= finalized
               /\ \A p \in Procs : WindowOf(proc'[p], finalized)
  <2>1. SUFFICES ASSUME NEW s \in ProcState, WindowOf(s, finalized)
                 PROVE  WindowOf(s, finalized')
    BY <1>1, <1>4, <1>5, <2>1 DEF WindowInv
  <2>2. s.tip \in Nat /\ s.safe \in Nat
    BY DEF ProcState
  <2>3. SafeBlock(s.tip) \in Nat
    BY <2>2 DEF SafeBlock
  <2> QED BY <1>1, <2>1, <2>2, <2>3 DEF WindowOf
<1>6. CASE UNCHANGED <<lastSynced, proc>>
  BY <1>6 DEF WindowInv
<1>7. ASSUME NEW p \in Procs, RequestTip(p)
      PROVE  UNCHANGED lastSynced /\ \A q \in Procs : WindowOf(proc'[q], finalized)
  <2>1. PICK s : ProcBecomes(p, s) /\ s.tip = Len(chain) /\ s.safe = 0
    BY <1>7, RequestTipEffect
  <2>2. WindowOf(s, finalized)
    BY <1>1, <2>1, SafeIsFinal DEF WindowOf
  <2> QED BY <1>7, <2>1, <2>2, WindowMoves DEF RequestTip, indexVars
<1>8. ASSUME NEW p \in Procs, Begin(p)
      PROVE  UNCHANGED lastSynced /\ \A q \in Procs : WindowOf(proc'[q], finalized)
  <2>1. PICK s : ProcBecomes(p, s) /\ \/ s = IdleProc
                                      \/ s.tip = proc[p].tip /\ s.safe = SafeBlock(proc[p].tip)
    BY <1>8, BeginEffect DEF WindowInv
  <2>2. WindowOf(s, finalized)
    BY <1>1, <2>1, IdleWindow DEF WindowOf, WindowInv
  <2> QED BY <1>8, <2>1, <2>2, WindowMoves DEF Begin, indexVars
<1>9. ASSUME NEW p \in Procs, Crash(p) \/ \E w \in Workers : CrashInBatch(p, w)
      PROVE  UNCHANGED lastSynced /\ \A q \in Procs : WindowOf(proc'[q], finalized)
  BY <1>1, <1>9, CrashEffect, CrashInBatchEffect, IdleWindow, WindowMoves
     DEF Crash, CrashInBatch, indexVars
<1>10. ASSUME NEW p \in Procs, Commit(p)
       PROVE  /\ lastSynced' \in Nat /\ lastSynced' <= finalized
              /\ \A q \in Procs : WindowOf(proc'[q], finalized)
  <2>1. lastSynced' = proc[p].safe /\ proc[p].safe \in Nat /\ proc[p].safe <= finalized
    BY <1>2, <1>10 DEF Commit, WindowInv, WindowOf, ProcState
  <2> QED BY <1>1, <1>10, <2>1, CommitEffect, IdleWindow, WindowMoves
<1>11. ASSUME NEW p \in Procs, NEW w \in Workers, TakeBatch(p, w)
       PROVE  UNCHANGED lastSynced /\ \A q \in Procs : WindowOf(proc'[q], finalized)
  <2>1. /\ proc'[p].safe = proc[p].safe /\ proc'[p].tip = proc[p].tip
        /\ \A q \in Procs \ {p} : proc'[q] = proc[q]
    BY <1>11, TakeBatchEffect
  <2> QED BY <1>11, <2>1 DEF TakeBatch, indexVars, WindowInv, WindowOf
<1>12. ASSUME NEW p \in Procs, NEW w \in Workers,
              \/ AnswerFiles(p, w) \/ AnswerChunks(p, w)
              \/ ApplyBatch(p, w) \/ FetchFails(p, w)
       PROVE  UNCHANGED <<lastSynced, proc>>
  BY <1>12 DEF AnswerFiles, AnswerChunks, ApplyBatch, FetchFails, indexVars
<1>13. ChainStep \/ UNCHANGED syncVars => UNCHANGED <<lastSynced, proc>>
  BY DEF ChainStep, syncVars, indexVars, runVars
<1> QED BY <1>6, <1>7, <1>8, <1>9, <1>10, <1>11, <1>12, <1>13
        DEF SyncNext, ProcessStep, WorkerStep, Fault, WindowInv

-----------------------------------------------------------------------------
(* The answers.  A query for a batch is answered at one moment and used at  *)
(* a later one; below the safe block the two chains agree, so that what was *)
(* answered is still what the chain holds.                                  *)

LogsIn(c, lo, hi, type) ==
    {[block |-> b, event |-> c[b].event] :
        b \in {n \in lo..hi : n <= Len(c) /\ c[n].event.type = type}}

Answered(b, c) ==
    /\ b.fileLogs \in {NoLogs, LogsIn(c, b.start, b.end, "FileCreated")}
    /\ b.chunkLogs \in {NoLogs, LogsIn(c, b.start, b.end, "ChunkUploaded")}

AnswersOK(wk, c) ==
    \A p \in Procs, w \in Workers : wk[p][w] # FreeWorker => Answered(wk[p][w], c)

AnswersInv == AnswersOK(worker, chain)

(* The logs of a range of final blocks never change.                        *)
LEMMA LogsStay ==
    ASSUME ChainInv, [SyncNext]_syncVars, NEW lo \in Nat \ {0}, NEW hi \in Nat,
           hi <= finalized, NEW type
    PROVE  LogsIn(chain', lo, hi, type) = LogsIn(chain, lo, hi, type)
<1>1. /\ finalized \in Nat /\ finalized <= Len(chain) /\ finalized <= finalized'
      /\ finalized' <= Len(chain') /\ Len(chain) \in Nat /\ Len(chain') \in Nat
      /\ finalized' \in Nat
      /\ \A b \in 1..finalized : chain'[b] = chain[b]
  BY ChainGoesOn
<1>2. \A n \in lo..hi : n <= Len(chain) /\ n <= Len(chain') /\ chain'[n] = chain[n]
  BY <1>1
<1> QED BY <1>2 DEF LogsIn

(* What one worker does leaves the answers of the others alone.             *)
LEMMA AnswersMove ==
    ASSUME RunInv, AnswersInv, NEW p \in Procs, NEW w \in Workers, NEW b,
           BatchBecomes(p, w, b), b # FreeWorker => Answered(b, chain)
    PROVE  AnswersOK(worker', chain)
<1>1. worker'[p][w] = b /\ \A q \in Procs, v \in Workers :
            q # p \/ v # w => worker'[q][v] = worker[q][v]
  BY BatchMoves
<1> QED BY <1>1 DEF AnswersInv, AnswersOK

(* An answer a worker holds stays true however long it holds it.            *)
LEMMA AnswersInvSteps ==
    ASSUME ChainInv, RunInv, WindowInv, AnswersInv, [SyncNext]_syncVars
    PROVE  AnswersInv'
<1>1. CASE UNCHANGED runVars
  <2> SUFFICES ASSUME NEW p \in Procs, NEW w \in Workers, worker[p][w] # FreeWorker
               PROVE  Answered(worker[p][w], chain')
    BY <1>1 DEF AnswersInv, AnswersOK, runVars
  <2>1. worker[p][w] \in Batch /\ BatchOfRun(proc[p], worker[p][w])
        /\ proc[p] \in ProcState
    BY DEF RunInv, Free
  <2>2. worker[p][w].start \in Nat \ {0} /\ worker[p][w].end \in Nat
    BY <2>1 DEF Batch, BatchOfRun
  <2>3. finalized \in Nat /\ proc[p].safe <= finalized /\ proc[p].safe \in Nat
    BY <2>1, ChainGoesOn DEF WindowInv, WindowOf, ProcState
  <2>4. worker[p][w].end <= finalized
    BY <2>1, <2>2, <2>3 DEF BatchOfRun
  <2>5. Answered(worker[p][w], chain)
    BY DEF AnswersInv, AnswersOK
  <2> QED BY <2>2, <2>4, <2>5, LogsStay DEF Answered
<1>2. CASE UNCHANGED chainVars /\ AnswersOK(worker', chain)
  BY <1>2 DEF AnswersInv, AnswersOK, chainVars
<1>3. ASSUME NEW p \in Procs, NEW s, ProcBecomes(p, s)
      PROVE  AnswersOK(worker', chain)
  <2>1. \A w \in Workers : worker'[p][w] = FreeWorker
    BY <1>3, ProcessTurns
  <2>2. \A q \in Procs \ {p} : worker'[q] = worker[q]
    BY <1>3, ProcessTurns
  <2> QED BY <2>1, <2>2 DEF AnswersInv, AnswersOK
<1>4. ASSUME NEW p \in Procs, RequestTip(p) \/ Begin(p) \/ Commit(p) \/ Crash(p)
      PROVE  UNCHANGED chainVars /\ AnswersOK(worker', chain)
  <2>1. \E s : ProcBecomes(p, s)
    BY <1>4, RequestTipEffect, BeginEffect, CommitEffect, CrashEffect DEF WindowInv
  <2> QED BY <1>3, <1>4, <2>1 DEF RequestTip, Begin, Commit, Crash
<1>5. ASSUME NEW p \in Procs, NEW w \in Workers, CrashInBatch(p, w)
      PROVE  UNCHANGED chainVars /\ AnswersOK(worker', chain)
  BY <1>3, <1>5, CrashInBatchEffect DEF CrashInBatch
<1>6. ASSUME NEW p \in Procs, NEW w \in Workers, TakeBatch(p, w)
      PROVE  UNCHANGED chainVars /\ AnswersOK(worker', chain)
  <2>1. Answered(worker'[p][w], chain)
    BY <1>6, TakeBatchEffect DEF Answered
  <2>2. \A q \in Procs, v \in Workers : q # p \/ v # w => worker'[q][v] = worker[q][v]
    BY <1>6, TakeBatchEffect
  <2>3. AnswersOK(worker', chain)
    BY <2>1, <2>2 DEF AnswersInv, AnswersOK
  <2> QED BY <1>6, <2>3 DEF TakeBatch
<1>7. ASSUME NEW p \in Procs, NEW w \in Workers, AnswerFiles(p, w)
      PROVE  UNCHANGED chainVars /\ AnswersOK(worker', chain)
  <2>1. PICK b : /\ BatchBecomes(p, w, b)
                 /\ b.fileLogs = LogsOf(p, w, "FileCreated")
                 /\ b.chunkLogs = worker[p][w].chunkLogs
    BY <1>7, AnswerFilesEffect
  <2>2. Answered(worker[p][w], chain)
    BY <1>7 DEF AnswersInv, AnswersOK, AnswerFiles, Free
  <2>3. b # FreeWorker => Answered(b, chain)
    BY <2>1, <2>2 DEF Answered, BatchBecomes, LogsOf, LogsIn
  <2> QED BY <1>7, <2>1, <2>3, AnswersMove DEF AnswerFiles
<1>8. ASSUME NEW p \in Procs, NEW w \in Workers, AnswerChunks(p, w)
      PROVE  UNCHANGED chainVars /\ AnswersOK(worker', chain)
  <2>1. PICK b : /\ BatchBecomes(p, w, b)
                 /\ b.chunkLogs = LogsOf(p, w, "ChunkUploaded")
                 /\ b.fileLogs = worker[p][w].fileLogs
    BY <1>8, AnswerChunksEffect
  <2>2. Answered(worker[p][w], chain)
    BY <1>8 DEF AnswersInv, AnswersOK, AnswerChunks, Free
  <2>3. b # FreeWorker => Answered(b, chain)
    BY <2>1, <2>2 DEF Answered, BatchBecomes, LogsOf, LogsIn
  <2> QED BY <1>8, <2>1, <2>3, AnswersMove DEF AnswerChunks
<1>9. ASSUME NEW p \in Procs, NEW w \in Workers, FetchFails(p, w)
      PROVE  UNCHANGED chainVars /\ AnswersOK(worker', chain)
  <2>1. PICK b : BatchBecomes(p, w, b) /\ (b # FreeWorker => b.fileLogs = NoLogs /\ b.chunkLogs = NoLogs)
    BY <1>9, FetchFailsEffect
  <2> QED BY <1>9, <2>1, AnswersMove DEF FetchFails, Answered
<1>10. ASSUME NEW p \in Procs, NEW w \in Workers, ApplyBatch(p, w)
       PROVE  UNCHANGED chainVars /\ AnswersOK(worker', chain)
  BY <1>10, ApplyBatchEffect, AnswersMove DEF ApplyBatch
<1>11. ChainStep \/ UNCHANGED syncVars => UNCHANGED runVars
  BY DEF ChainStep, syncVars
<1> QED BY <1>1, <1>2, <1>4, <1>5, <1>6, <1>7, <1>8, <1>9, <1>10, <1>11
        DEF SyncNext, ProcessStep, WorkerStep, Fault

-----------------------------------------------------------------------------
(* The tables.  A row names a final block and says what its event says, so  *)
(* no reorganisation can make it wrong; nor can it a report.                *)

FileRowFinal(r, c, final) ==
    /\ r \in FileRow /\ r.block <= final
    /\ Creates(c, r.block, r.fileId)
    /\ r.meta = MetadataOf(c[r.block].event)

ChunkRowFinal(r, c, final) ==
    /\ r \in ChunkRow /\ r.block <= final
    /\ Uploads(c, r.block)
    /\ r.fileId = c[r.block].event.fileId
    /\ r.chunkIndex = c[r.block].event.chunkIndex
    /\ r.hash = c[r.block].event.data

RowsInv ==
    /\ \A r \in fileRows : FileRowFinal(r, chain, finalized)
    /\ \A r \in chunkRows : ChunkRowFinal(r, chain, finalized)
    /\ skipped \cup dropped \subseteq 1..finalized

(* INSERT OR IGNORE keeps the old rows and adds only new ones.              *)
LEMMA InsertAllBounds ==
    ASSUME NEW table, NEW new
    PROVE  table \subseteq InsertAll(table, new) /\ InsertAll(table, new) \subseteq table \cup new
  BY DEF InsertAll

(* An event of the chain has the fields its type says.                      *)
LEMMA EventOfBlock ==
    ASSUME ChainInv, NEW b \in 1..Len(chain)
    PROVE  /\ chain[b].event.type = "FileCreated" => chain[b].event \in FileCreated
           /\ chain[b].event.type = "ChunkUploaded" => chain[b].event \in ChunkUploaded
           /\ chain[b].event.type \in {"FileCreated", "ChunkUploaded", "None"}
<1>1. chain \in Seq(Block)
  BY DEF ChainInv, IInv, TypeOK
<1>2. chain[b] \in Block
  BY <1>1
<1>3. chain[b].event \in Events
  BY <1>2 DEF Block
<1> QED BY <1>3 DEF Events, FileCreated, ChunkUploaded, NoEvent

(* A file log of a range of final blocks gives a row of a final event.      *)
LEMMA FileLogsFinal ==
    ASSUME ChainInv, finalized <= Len(chain), finalized \in Nat, NEW lo \in Nat \ {0}, NEW hi \in Nat,
           hi <= finalized, NEW l \in LogsIn(chain, lo, hi, "FileCreated")
    PROVE  /\ FileRowFinal(FileRowOf(l), chain, finalized)
           /\ l.block \in lo..hi /\ l.block \in 1..finalized /\ l.event = chain[l.block].event
           /\ chain[l.block].event.type = "FileCreated"
<1>1. PICK b \in lo..hi : /\ l = [block |-> b, event |-> chain[b].event]
                          /\ chain[b].event.type = "FileCreated"
  BY DEF LogsIn
<1>2. Len(chain) \in Nat /\ Len(chain) <= MaxBlocks
  BY DEF ChainInv, IInv, TypeOK
<1>3. b \in 1..Len(chain) /\ b \in 1..finalized /\ b \in Blocks
  BY <1>2 DEF Blocks
<1>4. chain[b].event \in FileCreated
  BY <1>1, <1>3, EventOfBlock
<1>5. l.block = b /\ l.event = chain[b].event
  BY <1>1
<1>6. chain[b].event.fileId \in FileIds /\ MetadataOf(chain[b].event) \in FileMetadata
  BY <1>4 DEF FileCreated, MetadataOf, FileMetadata
<1>7. FileRowOf(l) \in FileRow
  BY <1>3, <1>5, <1>6 DEF FileRowOf, FileRow
<1> QED BY <1>1, <1>3, <1>5, <1>7 DEF FileRowFinal, FileRowOf, Creates

(* A chunk log of a range of final blocks gives a row of a final event.     *)
LEMMA ChunkLogsFinal ==
    ASSUME ChainInv, finalized <= Len(chain), finalized \in Nat, NEW lo \in Nat \ {0}, NEW hi \in Nat,
           hi <= finalized, NEW l \in LogsIn(chain, lo, hi, "ChunkUploaded")
    PROVE  /\ ChunkRowFinal(ChunkRowOf(l), chain, finalized)
           /\ l.block \in lo..hi /\ l.block \in 1..finalized /\ l.event = chain[l.block].event
           /\ chain[l.block].event.type = "ChunkUploaded"
<1>1. PICK b \in lo..hi : /\ l = [block |-> b, event |-> chain[b].event]
                          /\ chain[b].event.type = "ChunkUploaded"
  BY DEF LogsIn
<1>2. Len(chain) \in Nat /\ Len(chain) <= MaxBlocks
  BY DEF ChainInv, IInv, TypeOK
<1>3. b \in 1..Len(chain) /\ b \in 1..finalized /\ b \in Blocks
  BY <1>2 DEF Blocks
<1>4. chain[b].event \in ChunkUploaded
  BY <1>1, <1>3, EventOfBlock
<1>5. l.block = b /\ l.event = chain[b].event
  BY <1>1
<1>6. /\ chain[b].event.fileId \in FileIds /\ chain[b].event.chunkIndex \in Nat
      /\ chain[b].event.data \in Payloads
  BY <1>4 DEF ChunkUploaded
<1>7. ChunkRowOf(l) \in ChunkRow
  BY <1>3, <1>5, <1>6 DEF ChunkRowOf, ChunkRow
<1> QED BY <1>1, <1>3, <1>5, <1>7 DEF ChunkRowFinal, ChunkRowOf, Uploads

(* The batch of a worker, with all its answers in.                          *)
LEMMA BatchIsFinal ==
    ASSUME ChainInv, RunInv, WindowInv, finalized \in Nat,
           NEW p \in Procs, NEW w \in Workers, ~Free(p, w)
    PROVE  /\ worker[p][w].start \in Nat \ {0} /\ worker[p][w].end \in Nat
           /\ worker[p][w].end <= finalized /\ worker[p][w].start <= worker[p][w].end
           /\ worker[p][w].end < proc[p].next /\ worker[p][w].end <= proc[p].safe
           /\ proc[p].pc = "run"
<1>1. worker[p][w] \in Batch /\ BatchOfRun(proc[p], worker[p][w]) /\ proc[p] \in ProcState
  BY DEF RunInv
<1>2. proc[p].safe \in Nat /\ proc[p].safe <= finalized
  BY <1>1 DEF ProcState, WindowInv, WindowOf
<1> QED BY <1>1, <1>2 DEF Batch, BatchOfRun

(* What a worker is about to insert are the logs of its range, all of them  *)
(* final.                                                                   *)
LEMMA FetchedIsFinal ==
    ASSUME ChainInv, RunInv, WindowInv, AnswersInv, finalized \in Nat, finalized <= Len(chain),
           NEW p \in Procs, NEW w \in Workers, Fetched(p, w)
    PROVE  /\ worker[p][w].fileLogs
                = LogsIn(chain, worker[p][w].start, worker[p][w].end, "FileCreated")
           /\ worker[p][w].chunkLogs
                = LogsIn(chain, worker[p][w].start, worker[p][w].end, "ChunkUploaded")
           /\ \A l \in worker[p][w].fileLogs : FileRowFinal(FileRowOf(l), chain, finalized)
           /\ \A l \in worker[p][w].chunkLogs : ChunkRowFinal(ChunkRowOf(l), chain, finalized)
           /\ \A l \in worker[p][w].fileLogs \cup worker[p][w].chunkLogs :
                    l.block \in 1..finalized
<1>1. ~Free(p, w)
  BY DEF Fetched
<1>2. /\ worker[p][w].start \in Nat \ {0} /\ worker[p][w].end \in Nat
      /\ worker[p][w].end <= finalized
  BY <1>1, BatchIsFinal
<1>3. Answered(worker[p][w], chain)
  BY <1>1 DEF AnswersInv, AnswersOK, Free
<1>4. /\ worker[p][w].fileLogs
            = LogsIn(chain, worker[p][w].start, worker[p][w].end, "FileCreated")
      /\ worker[p][w].chunkLogs
            = LogsIn(chain, worker[p][w].start, worker[p][w].end, "ChunkUploaded")
  BY <1>3 DEF Answered, Fetched
<1>5. \A l \in worker[p][w].fileLogs :
        FileRowFinal(FileRowOf(l), chain, finalized) /\ l.block \in 1..finalized
  BY <1>2, <1>4, FileLogsFinal
<1>6. \A l \in worker[p][w].chunkLogs :
        ChunkRowFinal(ChunkRowOf(l), chain, finalized) /\ l.block \in 1..finalized
  BY <1>2, <1>4, ChunkLogsFinal
<1> QED BY <1>4, <1>5, <1>6

(* INSERT OR IGNORE: a row that is new in the table shares its key with     *)
(* rows of the same block alone.                                            *)
OneBlockPerNewKey(old, new) ==
    \A r \in new \ old, s \in new : PrimaryKey(s) = PrimaryKey(r) => s.block = r.block

(* INSERT OR IGNORE adds the rows of one block at most for a new key.       *)
LEMMA InsertAllNewKeys ==
    ASSUME NEW table, NEW new, \A r \in new : r.block \in Nat
    PROVE  OneBlockPerNewKey(table, InsertAll(table, new))
<1> SUFFICES ASSUME NEW r \in InsertAll(table, new) \ table, NEW s \in InsertAll(table, new),
                    PrimaryKey(s) = PrimaryKey(r)
             PROVE  s.block = r.block
  BY DEF OneBlockPerNewKey
<1>1. r \in new /\ s \in new
  BY DEF InsertAll
<1>2. ~(s.block < r.block) /\ ~(r.block < s.block)
  BY <1>1 DEF InsertAll
<1> QED BY <1>1, <1>2

(* What one batch, whole or cut short, does to the tables.                  *)
LEMMA InsertsAreFinal ==
    ASSUME RowsInv, NEW F, NEW C, InsertLogs(F, C),
           \A l \in F : FileRowFinal(FileRowOf(l), chain, finalized),
           \A l \in C : ChunkRowFinal(ChunkRowOf(l), chain, finalized)
    PROVE  /\ fileRows \subseteq fileRows' /\ chunkRows \subseteq chunkRows'
           /\ \A r \in fileRows' : FileRowFinal(r, chain, finalized)
           /\ \A r \in chunkRows' : ChunkRowFinal(r, chain, finalized)
           /\ OneBlockPerNewKey(fileRows, fileRows')
           /\ OneBlockPerNewKey(chunkRows, chunkRows')
<1>1. /\ fileRows \subseteq fileRows'
      /\ fileRows' \subseteq fileRows \cup {FileRowOf(l) : l \in F}
      /\ chunkRows \subseteq chunkRows'
      /\ chunkRows' \subseteq chunkRows \cup {ChunkRowOf(l) : l \in C}
  BY InsertAllBounds DEF InsertLogs
<1>2. \A r \in fileRows' : FileRowFinal(r, chain, finalized)
  BY <1>1 DEF RowsInv
<1>3. \A r \in chunkRows' : ChunkRowFinal(r, chain, finalized)
  BY <1>1 DEF RowsInv
<1>4. OneBlockPerNewKey(fileRows, fileRows')
  <2>1. \A r \in {FileRowOf(l) : l \in F} : r.block \in Nat
    BY DEF FileRowFinal, FileRow, Blocks
  <2> QED BY <2>1, InsertAllNewKeys DEF InsertLogs
<1>5. OneBlockPerNewKey(chunkRows, chunkRows')
  <2>1. \A r \in {ChunkRowOf(l) : l \in C} : r.block \in Nat
    BY DEF ChunkRowFinal, ChunkRow, Blocks
  <2> QED BY <2>1, InsertAllNewKeys DEF InsertLogs
<1> QED BY <1>1, <1>2, <1>3, <1>4, <1>5

(* Inserting a row that is there already, losing one and reporting it, or   *)
(* dying half-way: every step leaves rows and reports of final blocks.      *)
TablesMove ==
    /\ fileRows \subseteq fileRows' /\ chunkRows \subseteq chunkRows'
    /\ \A r \in fileRows' : FileRowFinal(r, chain, finalized)
    /\ \A r \in chunkRows' : ChunkRowFinal(r, chain, finalized)
    /\ OneBlockPerNewKey(fileRows, fileRows')
    /\ OneBlockPerNewKey(chunkRows, chunkRows')
    /\ skipped \subseteq skipped' /\ dropped \subseteq dropped'
    /\ skipped' \cup dropped' \subseteq 1..finalized

(* Every step keeps the tables or adds to them rows of final events under   *)
(* free keys.                                                               *)
LEMMA TablesMoveSteps ==
    ASSUME ChainInv, RunInv, WindowInv, AnswersInv, RowsInv, [SyncNext]_syncVars
    PROVE  TablesMove
<1>1. finalized \in Nat /\ finalized <= Len(chain)
  BY ChainGoesOn
<1>2. CASE UNCHANGED <<fileRows, chunkRows, skipped, dropped>>
  BY <1>2 DEF TablesMove, RowsInv, OneBlockPerNewKey
<1>3. ASSUME NEW p \in Procs, NEW w \in Workers, ApplyBatch(p, w)
      PROVE  TablesMove
  <2>1. Fetched(p, w) /\ UNCHANGED skipped
    BY <1>3 DEF ApplyBatch
  <2>2. PICK lost \in SUBSET (worker[p][w].fileLogs \cup worker[p][w].chunkLogs) :
            /\ InsertLogs(worker[p][w].fileLogs \ lost, worker[p][w].chunkLogs \ lost)
            /\ dropped' = dropped \cup {l.block : l \in lost}
    BY <1>3 DEF ApplyBatch
  <2>3. /\ \A l \in worker[p][w].fileLogs : FileRowFinal(FileRowOf(l), chain, finalized)
        /\ \A l \in worker[p][w].chunkLogs : ChunkRowFinal(ChunkRowOf(l), chain, finalized)
        /\ \A l \in worker[p][w].fileLogs \cup worker[p][w].chunkLogs :
                l.block \in 1..finalized
    BY <1>1, <2>1, FetchedIsFinal
  <2>4. /\ fileRows \subseteq fileRows' /\ chunkRows \subseteq chunkRows'
        /\ \A r \in fileRows' : FileRowFinal(r, chain, finalized)
        /\ \A r \in chunkRows' : ChunkRowFinal(r, chain, finalized)
        /\ OneBlockPerNewKey(fileRows, fileRows')
        /\ OneBlockPerNewKey(chunkRows, chunkRows')
    BY <2>2, <2>3, InsertsAreFinal
  <2> QED BY <2>1, <2>2, <2>3, <2>4 DEF TablesMove, RowsInv
<1>4. ASSUME NEW p \in Procs, NEW w \in Workers, CrashInBatch(p, w)
      PROVE  TablesMove
  <2>1. Fetched(p, w) /\ UNCHANGED <<skipped, dropped>>
    BY <1>4 DEF CrashInBatch
  <2>2. PICK f \in SUBSET worker[p][w].fileLogs, c \in SUBSET worker[p][w].chunkLogs :
            InsertLogs(f, c)
    BY <1>4 DEF CrashInBatch
  <2>3. /\ \A l \in f : FileRowFinal(FileRowOf(l), chain, finalized)
        /\ \A l \in c : ChunkRowFinal(ChunkRowOf(l), chain, finalized)
    BY <1>1, <2>1, FetchedIsFinal
  <2>4. /\ fileRows \subseteq fileRows' /\ chunkRows \subseteq chunkRows'
        /\ \A r \in fileRows' : FileRowFinal(r, chain, finalized)
        /\ \A r \in chunkRows' : ChunkRowFinal(r, chain, finalized)
        /\ OneBlockPerNewKey(fileRows, fileRows')
        /\ OneBlockPerNewKey(chunkRows, chunkRows')
    BY <2>2, <2>3, InsertsAreFinal
  <2> QED BY <2>1, <2>4 DEF TablesMove, RowsInv
<1>5. ASSUME NEW p \in Procs, NEW w \in Workers, FetchFails(p, w)
      PROVE  TablesMove
  <2>1. UNCHANGED <<fileRows, chunkRows, dropped>> /\ ~Free(p, w)
    BY <1>5 DEF FetchFails, indexVars
  <2>2. \/ UNCHANGED skipped
        \/ skipped' = skipped \cup (worker[p][w].start..worker[p][w].end)
    BY <1>5, FetchFailsEffect
  <2>3. worker[p][w].start..worker[p][w].end \subseteq 1..finalized
    BY <1>1, <2>1, BatchIsFinal
  <2> QED BY <2>1, <2>2, <2>3 DEF TablesMove, RowsInv, OneBlockPerNewKey
<1>6. ASSUME NEW p \in Procs,
             \/ RequestTip(p) \/ Begin(p) \/ Commit(p) \/ Crash(p)
             \/ \E w \in Workers :
                    TakeBatch(p, w) \/ AnswerFiles(p, w) \/ AnswerChunks(p, w)
      PROVE  UNCHANGED <<fileRows, chunkRows, skipped, dropped>>
  BY <1>6 DEF RequestTip, Begin, Commit, Crash, TakeBatch, AnswerFiles, AnswerChunks,
              indexVars, observed
<1>7. ChainStep \/ UNCHANGED syncVars => UNCHANGED <<fileRows, chunkRows, skipped, dropped>>
  BY DEF ChainStep, syncVars, indexVars, observed
<1> QED BY <1>2, <1>3, <1>4, <1>5, <1>6, <1>7
        DEF SyncNext, ProcessStep, WorkerStep, Fault

(* Every row stays the row of a final event.                                *)
LEMMA RowsInvSteps ==
    ASSUME ChainInv, RunInv, WindowInv, AnswersInv, RowsInv, [SyncNext]_syncVars
    PROVE  RowsInv'
<1>1. TablesMove
  BY TablesMoveSteps
<1>2. /\ finalized \in Nat /\ finalized' \in Nat /\ finalized <= finalized'
      /\ \A b \in 1..finalized : chain'[b] = chain[b]
  BY ChainGoesOn
<1>3. ASSUME NEW r, FileRowFinal(r, chain, finalized)
      PROVE  FileRowFinal(r, chain', finalized')
  <2>1. r.block \in 1..finalized /\ r.block \in Nat
    BY <1>2, <1>3 DEF FileRowFinal, FileRow, Blocks
  <2>2. chain'[r.block] = chain[r.block]
    BY <1>2, <2>1
  <2> QED BY <1>2, <1>3, <2>1, <2>2 DEF FileRowFinal, Creates
<1>4. ASSUME NEW r, ChunkRowFinal(r, chain, finalized)
      PROVE  ChunkRowFinal(r, chain', finalized')
  <2>1. r.block \in 1..finalized /\ r.block \in Nat
    BY <1>2, <1>4 DEF ChunkRowFinal, ChunkRow, Blocks
  <2>2. chain'[r.block] = chain[r.block]
    BY <1>2, <2>1
  <2> QED BY <1>2, <1>4, <2>1, <2>2 DEF ChunkRowFinal, Uploads
<1>5. skipped' \cup dropped' \subseteq 1..finalized'
  BY <1>1, <1>2 DEF TablesMove
<1> QED BY <1>1, <1>3, <1>4, <1>5 DEF TablesMove, RowsInv

-----------------------------------------------------------------------------
(* Progress.  A block that a run has passed is settled: its event is        *)
(* indexed, or its batch or its log was reported; a block the run has dealt *)
(* out and not settled yet is in the batch of a worker.                     *)

Settled(b) == Indexed(b) \/ b \in skipped \cup dropped

InBatch(ws, b) ==
    \E w \in Workers : ws[w] # FreeWorker /\ b \in ws[w].start..ws[w].end

RunSettled(s, ws) ==
    s.pc = "run" => \A b \in 1..s.safe : b < s.next => Settled(b) \/ InBatch(ws, b)

ProgressInv ==
    /\ \A b \in 1..lastSynced : Settled(b)
    /\ \A p \in Procs : RunSettled(proc[p], worker[p])

(* INSERT OR IGNORE leaves a row under the key of every row it is given:    *)
(* the one that was there, or the one of the lowest block.                  *)
LEMMA InsertAllKeys ==
    ASSUME NEW table, NEW new, \A r \in new : r.block \in Nat, NEW r \in new
    PROVE  \E s \in InsertAll(table, new) : PrimaryKey(s) = PrimaryKey(r)
<1>1. CASE \E old \in table : PrimaryKey(old) = PrimaryKey(r)
  BY <1>1 DEF InsertAll
<1>2. CASE \A old \in table : PrimaryKey(old) # PrimaryKey(r)
  <2> DEFINE S == {s.block : s \in {q \in new : PrimaryKey(q) = PrimaryKey(r)}}
  <2>0. S \in SUBSET Nat /\ S # {}
    OBVIOUS
  <2> HIDE DEF S
  <2>1. PICK m \in S : \A n \in S : ~(n < m)
    BY <2>0, LeastNumber
  <2> USE DEF S
  <2>2. PICK s \in new : PrimaryKey(s) = PrimaryKey(r) /\ s.block = m
    BY <2>1
  <2>3. \A q \in new : q.block < s.block => PrimaryKey(q) # PrimaryKey(s)
    BY <2>1, <2>2
  <2>4. \A old \in table : PrimaryKey(old) # PrimaryKey(s)
    BY <1>2, <2>2
  <2>5. s \in InsertAll(table, new)
    BY <2>3, <2>4 DEF InsertAll
  <2> QED BY <2>2, <2>5
<1> QED BY <1>1, <1>2

(* The key of a chunk row.                                                  *)
LEMMA PrimaryKeyOfChunk ==
    ASSUME NEW r \in ChunkRow
    PROVE  PrimaryKey(r) = <<r.fileId, r.chunkIndex>>
  BY DEF PrimaryKey

(* The key of a file row.                                                   *)
LEMMA PrimaryKeyOfFile ==
    ASSUME NEW r \in FileRow
    PROVE  PrimaryKey(r) = <<r.fileId>>
<1>1. "hash" \notin DOMAIN r
  BY DEF FileRow
<1>2. \A s \in ChunkRow : "hash" \in DOMAIN s
  BY DEF ChunkRow
<1> QED BY <1>1, <1>2 DEF PrimaryKey

(* A block that is indexed or reported stays so.                            *)
LEMMA SettledStays ==
    ASSUME ChainInv, RunInv, WindowInv, AnswersInv, RowsInv, [SyncNext]_syncVars,
           NEW b \in 1..finalized, Settled(b)
    PROVE  Settled(b)'
<1>1. TablesMove
  BY TablesMoveSteps
<1>2. chain'[b] = chain[b]
  BY ChainGoesOn
<1> QED BY <1>1, <1>2 DEF TablesMove, Settled, Indexed

(* A batch that is applied settles every one of its blocks.                 *)
LEMMA BatchSettles ==
    ASSUME ChainInv, RunInv, WindowInv, AnswersInv, RowsInv, [SyncNext]_syncVars,
           NEW p \in Procs, NEW w \in Workers, ApplyBatch(p, w),
           NEW b \in worker[p][w].start..worker[p][w].end
    PROVE  Settled(b)'
<1>1. finalized \in Nat /\ finalized <= Len(chain) /\ Len(chain) \in Nat
  BY ChainGoesOn
<1>2. Fetched(p, w) /\ UNCHANGED chain /\ UNCHANGED skipped
  BY DEF ApplyBatch, chainVars
<1>3. b \in 1..Len(chain) /\ b \in 1..finalized
  BY <1>1, <1>2, BatchIsFinal DEF Fetched
<1>4. PICK lost \in SUBSET (worker[p][w].fileLogs \cup worker[p][w].chunkLogs) :
          /\ InsertLogs(worker[p][w].fileLogs \ lost, worker[p][w].chunkLogs \ lost)
          /\ dropped' = dropped \cup {l.block : l \in lost}
  BY DEF ApplyBatch
<1>5. TablesMove
  BY TablesMoveSteps
<1> DEFINE e == chain[b].event
           log == [block |-> b, event |-> e]
<1>6. CASE log \in lost
  <2>1. b \in dropped'
    BY <1>4, <1>6
  <2> QED BY <2>1 DEF Settled
<1>7. CASE log \notin lost
  <2>1. ASSUME e.type = "FileCreated"
        PROVE  \E r \in fileRows' : r.fileId = e.fileId
    <3> DEFINE new == {FileRowOf(l) : l \in worker[p][w].fileLogs \ lost}
    <3>1. log \in worker[p][w].fileLogs
      BY <1>1, <1>2, <1>3, <2>1, FetchedIsFinal DEF LogsIn
    <3>2. \A r \in new : r \in FileRow
      BY <1>1, <1>2, FetchedIsFinal DEF FileRowFinal
    <3>3. \A r \in new : r.block \in Nat
      BY <3>2 DEF FileRow, Blocks
    <3>4. FileRowOf(log) \in new /\ FileRowOf(log).fileId = e.fileId
      BY <1>7, <3>1 DEF FileRowOf
    <3>5. fileRows' = InsertAll(fileRows, new)
      BY <1>4 DEF InsertLogs
    <3> HIDE DEF new, log
    <3>6. PICK s \in fileRows' : PrimaryKey(s) = PrimaryKey(FileRowOf(log))
      BY <3>3, <3>4, <3>5, InsertAllKeys
    <3>7. s \in FileRow /\ FileRowOf(log) \in FileRow
      BY <1>5, <3>2, <3>4 DEF TablesMove, FileRowFinal
    <3> QED BY <3>4, <3>6, <3>7, PrimaryKeyOfFile
  <2>2. ASSUME e.type = "ChunkUploaded"
        PROVE  \E r \in chunkRows' : r.fileId = e.fileId /\ r.chunkIndex = e.chunkIndex
    <3> DEFINE new == {ChunkRowOf(l) : l \in worker[p][w].chunkLogs \ lost}
    <3>1. log \in worker[p][w].chunkLogs
      BY <1>1, <1>2, <1>3, <2>2, FetchedIsFinal DEF LogsIn
    <3>2. \A r \in new : r \in ChunkRow
      BY <1>1, <1>2, FetchedIsFinal DEF ChunkRowFinal
    <3>3. \A r \in new : r.block \in Nat
      BY <3>2 DEF ChunkRow, Blocks
    <3>4. ChunkRowOf(log) \in new /\ ChunkRowOf(log).fileId = e.fileId
          /\ ChunkRowOf(log).chunkIndex = e.chunkIndex
      BY <1>7, <3>1 DEF ChunkRowOf
    <3>5. chunkRows' = InsertAll(chunkRows, new)
      BY <1>4 DEF InsertLogs
    <3> HIDE DEF new, log
    <3>6. PICK s \in chunkRows' : PrimaryKey(s) = PrimaryKey(ChunkRowOf(log))
      BY <3>3, <3>4, <3>5, InsertAllKeys
    <3>7. s \in ChunkRow /\ ChunkRowOf(log) \in ChunkRow
      BY <1>5, <3>2, <3>4 DEF TablesMove, ChunkRowFinal
    <3> QED BY <3>4, <3>6, <3>7, PrimaryKeyOfChunk
  <2> QED BY <1>2, <2>1, <2>2 DEF Settled, Indexed
<1> QED BY <1>6, <1>7

(* A process that is not running, or begins a run, has nothing unsettled.   *)
LEMMA ProgressTurns ==
    ASSUME RunInv, ProgressInv, NEW p \in Procs, NEW s, ProcBecomes(p, s),
           \A b \in 1..finalized : Settled(b) => Settled(b)',
           \A q \in Procs : proc[q].safe \in Nat /\ proc[q].safe <= finalized,
           finalized \in Nat, RunSettled(s, [w \in Workers |-> FreeWorker])'
    PROVE  \A q \in Procs : RunSettled(proc[q], worker[q])'
<1>1. proc'[p] = s /\ \A w \in Workers : worker'[p][w] = FreeWorker
  BY ProcessTurns
<1>2. \A q \in Procs \ {p} : proc'[q] = proc[q] /\ worker'[q] = worker[q]
  BY ProcessTurns
<1>3. RunSettled(proc[p], worker[p])'
  BY <1>1 DEF RunSettled, InBatch
<1>4. ASSUME NEW q \in Procs \ {p}
      PROVE  RunSettled(proc[q], worker[q])'
  BY <1>2 DEF RunSettled, InBatch, ProgressInv
<1> QED BY <1>3, <1>4

(* Every block the cursor or a run has passed stays indexed or reported.    *)
LEMMA ProgressInvSteps ==
    ASSUME ChainInv, RunInv, WindowInv, AnswersInv, RowsInv, ProgressInv,
           [SyncNext]_syncVars
    PROVE  ProgressInv'
<1>1. finalized \in Nat
  BY ChainGoesOn
<1>2. \A p \in Procs : proc[p] \in ProcState /\ proc[p].safe \in Nat
                       /\ proc[p].next \in Nat \ {0} /\ proc[p].safe <= finalized
  BY DEF RunInv, ProcState, WindowInv, WindowOf
<1>3. \A b \in 1..finalized : Settled(b) => Settled(b)'
  BY SettledStays
<1>4. lastSynced \in Nat /\ lastSynced <= finalized
      /\ \A b \in 1..lastSynced : Settled(b)' /\ b \in 1..finalized
  BY <1>1, <1>3 DEF WindowInv, ProgressInv
<1>5. CASE UNCHANGED runVars /\ UNCHANGED lastSynced
  BY <1>1, <1>2, <1>3, <1>4, <1>5 DEF ProgressInv, RunSettled, InBatch, runVars
<1>6. RunSettled(IdleProc, [w \in Workers |-> FreeWorker])'
  BY IdleProcType DEF RunSettled
<1>7. ASSUME NEW p \in Procs, RequestTip(p)
      PROVE  ProgressInv'
  <2>1. PICK s : ProcBecomes(p, s) /\ s.pc = "tip"
    BY <1>7, RequestTipEffect
  <2>2. RunSettled(s, [w \in Workers |-> FreeWorker])'
    BY <2>1 DEF RunSettled
  <2>3. UNCHANGED lastSynced
    BY <1>7 DEF RequestTip, indexVars
  <2> QED BY <1>1, <1>2, <1>3, <1>4, <2>1, <2>2, <2>3, ProgressTurns DEF ProgressInv
<1>8. ASSUME NEW p \in Procs, Begin(p)
      PROVE  ProgressInv'
  <2>1. PICK s : /\ ProcBecomes(p, s)
                 /\ s = IdleProc \/ s.next = lastSynced + 1
    BY <1>4, <1>8, BeginEffect
  <2>2. ASSUME s.next = lastSynced + 1
        PROVE  RunSettled(s, [w \in Workers |-> FreeWorker])'
    <3>1. \A b \in 1..s.safe : b < s.next => b \in 1..lastSynced
      BY <1>4, <2>1, <2>2 DEF ProcBecomes, ProcState
    <3>2. \A b \in 1..s.safe : b < s.next => Settled(b)'
      BY <1>4, <3>1
    <3> QED BY <3>2 DEF RunSettled
  <2>3. RunSettled(s, [w \in Workers |-> FreeWorker])'
    BY <1>6, <2>1, <2>2
  <2>4. UNCHANGED lastSynced
    BY <1>8 DEF Begin, indexVars
  <2> QED BY <1>1, <1>2, <1>3, <1>4, <2>1, <2>3, <2>4, ProgressTurns DEF ProgressInv
<1>9. ASSUME NEW p \in Procs, Crash(p) \/ \E w \in Workers : CrashInBatch(p, w)
      PROVE  ProgressInv'
  <2>1. ProcBecomes(p, IdleProc) /\ UNCHANGED lastSynced
    BY <1>9, CrashEffect, CrashInBatchEffect DEF Crash, CrashInBatch, indexVars
  <2> QED BY <1>1, <1>2, <1>3, <1>4, <1>6, <2>1, ProgressTurns DEF ProgressInv
<1>10. ASSUME NEW p \in Procs, Commit(p)
       PROVE  ProgressInv'
  <2>1. /\ proc[p].pc = "run" /\ proc[p].next > proc[p].safe
        /\ lastSynced' = proc[p].safe
        /\ \A w \in Workers : worker[p][w] = FreeWorker
    BY <1>10 DEF Commit, Free
  <2>2. \A b \in 1..proc[p].safe : Settled(b) /\ b \in 1..finalized
    BY <1>1, <1>2, <2>1 DEF ProgressInv, RunSettled, InBatch
  <2>3. \A b \in 1..lastSynced' : Settled(b)'
    BY <1>3, <2>1, <2>2
  <2> QED BY <1>1, <1>2, <1>3, <1>6, <1>10, <2>3, CommitEffect, ProgressTurns
          DEF ProgressInv
<1>11. ASSUME NEW p \in Procs, NEW w \in Workers, TakeBatch(p, w)
       PROVE  ProgressInv'
  <2>1. /\ worker'[p][w].start = proc[p].next /\ worker'[p][w].end = LastOfBatch(p)
        /\ proc'[p].next = proc[p].next + BatchSize
        /\ proc'[p].safe = proc[p].safe
        /\ \A q \in Procs \ {p} : proc'[q] = proc[q]
        /\ \A q \in Procs, v \in Workers :
                q # p \/ v # w => worker'[q][v] = worker[q][v]
    BY <1>11, TakeBatchEffect
  <2>2. proc[p].pc = "run" /\ worker[p][w] = FreeWorker /\ UNCHANGED lastSynced
        /\ proc[p].next <= proc[p].safe
    BY <1>11 DEF TakeBatch, Free, indexVars
  <2>3. worker'[p][w] # FreeWorker
    BY <1>2, <2>1, <2>2, FreeWorkerType
  <2>4. ASSUME NEW b \in 1..proc[p].safe, b < proc'[p].next
        PROVE  Settled(b)' \/ InBatch(worker[p], b)'
    <3>1. CASE b < proc[p].next
      <4>1. Settled(b) \/ InBatch(worker[p], b)
        BY <2>2, <3>1 DEF ProgressInv, RunSettled
      <4>2. Settled(b) => Settled(b)'
        BY <1>1, <1>2, <1>3
      <4>3. InBatch(worker[p], b) => InBatch(worker[p], b)'
        BY <2>1, <2>2 DEF InBatch
      <4> QED BY <4>1, <4>2, <4>3
    <3>2. CASE ~(b < proc[p].next)
      <4>1. b \in worker'[p][w].start..worker'[p][w].end
        BY <1>2, <2>1, <2>4, <3>2 DEF LastOfBatch
      <4> QED BY <2>3, <4>1 DEF InBatch
    <3> QED BY <3>1, <3>2
  <2>5. RunSettled(proc[p], worker[p])'
    BY <2>1, <2>4 DEF RunSettled
  <2>6. ASSUME NEW q \in Procs \ {p}
        PROVE  RunSettled(proc[q], worker[q])'
    BY <1>1, <1>2, <1>3, <2>1, <2>6 DEF ProgressInv, RunSettled, InBatch
  <2> QED BY <1>4, <2>2, <2>5, <2>6 DEF ProgressInv
<1>12. ASSUME NEW p \in Procs, NEW w \in Workers, NEW b, BatchBecomes(p, w, b),
              UNCHANGED lastSynced,
              b = FreeWorker => \A n \in worker[p][w].start..worker[p][w].end : Settled(n)'
       PROVE  ProgressInv'
  <2>1. /\ worker'[p][w] = b /\ UNCHANGED proc /\ worker[p][w] # FreeWorker
        /\ b # FreeWorker => b.start = worker[p][w].start /\ b.end = worker[p][w].end
    BY <1>12, BatchMoves DEF BatchBecomes, Free
  <2>2. \A q \in Procs, v \in Workers : q # p \/ v # w => worker'[q][v] = worker[q][v]
    BY <1>12, BatchMoves
  <2>3. ASSUME NEW q \in Procs, proc[q].pc = "run",
               NEW n \in 1..proc[q].safe, n < proc[q].next
        PROVE  Settled(n)' \/ InBatch(worker[q], n)'
    <3>1. Settled(n) \/ InBatch(worker[q], n)
      BY <2>3 DEF ProgressInv, RunSettled
    <3>2. Settled(n) => Settled(n)'
      BY <1>1, <1>2, <1>3
    <3>3. ASSUME NEW v \in Workers, worker[q][v] # FreeWorker,
                 n \in worker[q][v].start..worker[q][v].end
          PROVE  Settled(n)' \/ InBatch(worker[q], n)'
      <4>1. CASE q = p /\ v = w
        BY <1>12, <2>1, <3>3, <4>1 DEF InBatch
      <4>2. CASE q # p \/ v # w
        BY <2>2, <3>3, <4>2 DEF InBatch
      <4> QED BY <4>1, <4>2
    <3> QED BY <3>1, <3>2, <3>3 DEF InBatch
  <2> QED BY <1>4, <1>12, <2>1, <2>3 DEF ProgressInv, RunSettled
<1>13. ASSUME NEW p \in Procs, NEW w \in Workers, AnswerFiles(p, w) \/ AnswerChunks(p, w)
       PROVE  ProgressInv'
  <2>1. PICK b : BatchBecomes(p, w, b) /\ b # FreeWorker
    BY <1>13, AnswerFilesEffect, AnswerChunksEffect
  <2> QED BY <1>12, <1>13, <2>1 DEF AnswerFiles, AnswerChunks, indexVars
<1>14. ASSUME NEW p \in Procs, NEW w \in Workers, ApplyBatch(p, w)
       PROVE  ProgressInv'
  <2>1. BatchBecomes(p, w, FreeWorker) /\ UNCHANGED lastSynced
    BY <1>14, ApplyBatchEffect DEF ApplyBatch
  <2>2. \A n \in worker[p][w].start..worker[p][w].end : Settled(n)'
    BY <1>14, BatchSettles
  <2> QED BY <1>12, <2>1, <2>2
<1>15. ASSUME NEW p \in Procs, NEW w \in Workers, FetchFails(p, w)
       PROVE  ProgressInv'
  <2>1. UNCHANGED lastSynced
    BY <1>15 DEF FetchFails, indexVars
  <2>2. CASE \E b : BatchBecomes(p, w, b) /\ b # FreeWorker
    BY <1>12, <2>1, <2>2
  <2>3. CASE /\ BatchBecomes(p, w, FreeWorker)
             /\ skipped' = skipped \cup (worker[p][w].start..worker[p][w].end)
    <3>1. \A n \in worker[p][w].start..worker[p][w].end : Settled(n)'
      BY <2>3 DEF Settled
    <3> QED BY <1>12, <2>1, <2>3, <3>1
  <2> QED BY <1>15, <2>2, <2>3, FetchFailsEffect
<1>16. ChainStep \/ UNCHANGED syncVars => UNCHANGED runVars /\ UNCHANGED lastSynced
  BY DEF ChainStep, syncVars, indexVars
<1> QED BY <1>5, <1>7, <1>8, <1>9, <1>10, <1>11, <1>13, <1>14, <1>15, <1>16
        DEF SyncNext, ProcessStep, WorkerStep, Fault

-----------------------------------------------------------------------------
(* The workers share one index into the list of batches, so their batches   *)
(* do not overlap.                                                          *)

Apart(b, c) == b.end < c.start \/ c.end < b.start

DisjointInv ==
    \A p \in Procs, v, w \in Workers :
        v # w /\ worker[p][v] # FreeWorker /\ worker[p][w] # FreeWorker
            => Apart(worker[p][v], worker[p][w])

(* The batches of a run stay apart when another is dealt, moved on or       *)
(* ended.                                                                   *)
LEMMA DisjointInvSteps ==
    ASSUME ChainInv, RunInv, lastSynced \in Nat, DisjointInv, [SyncNext]_syncVars
    PROVE  DisjointInv'
<1>1. CASE UNCHANGED runVars
  BY <1>1 DEF DisjointInv, runVars
<1>2. ASSUME NEW p \in Procs, \E s : ProcBecomes(p, s)
      PROVE  DisjointInv'
  <2>1. \A w \in Workers : worker'[p][w] = FreeWorker
    BY <1>2, ProcessTurns
  <2>2. \A q \in Procs \ {p} : worker'[q] = worker[q]
    BY <1>2, ProcessTurns
  <2> QED BY <2>1, <2>2 DEF DisjointInv
<1>3. ASSUME NEW p \in Procs, NEW w \in Workers, \E b : BatchBecomes(p, w, b)
      PROVE  DisjointInv'
  <2>1. PICK b : BatchBecomes(p, w, b)
    BY <1>3
  <2>2. /\ worker'[p][w] = b /\ worker[p][w] # FreeWorker
        /\ b # FreeWorker => b.start = worker[p][w].start /\ b.end = worker[p][w].end
    BY <2>1, BatchMoves DEF BatchBecomes, Free
  <2>3. \A q \in Procs, v \in Workers : q # p \/ v # w => worker'[q][v] = worker[q][v]
    BY <2>1, BatchMoves
  <2> QED BY <2>2, <2>3 DEF DisjointInv, Apart
<1>4. ASSUME NEW p \in Procs, NEW w \in Workers, TakeBatch(p, w)
      PROVE  DisjointInv'
  <2>1. worker'[p][w].start = proc[p].next /\
        \A q \in Procs, v \in Workers : q # p \/ v # w => worker'[q][v] = worker[q][v]
    BY <1>4, TakeBatchEffect
  <2>2. \A v \in Workers : worker[p][v] # FreeWorker => worker[p][v].end < proc[p].next
    BY DEF RunInv, Free, BatchOfRun
  <2> QED BY <2>1, <2>2 DEF DisjointInv, Apart
<1>5. ASSUME NEW p \in Procs, RequestTip(p) \/ Begin(p) \/ Commit(p) \/ Crash(p)
      PROVE  DisjointInv'
  BY <1>2, <1>5, RequestTipEffect, BeginEffect, CommitEffect, CrashEffect
<1>6. ASSUME NEW p \in Procs, NEW w \in Workers,
             \/ AnswerFiles(p, w) \/ AnswerChunks(p, w) \/ ApplyBatch(p, w)
             \/ FetchFails(p, w) \/ CrashInBatch(p, w)
      PROVE  DisjointInv'
  BY <1>2, <1>3, <1>6, AnswerFilesEffect, AnswerChunksEffect,
     ApplyBatchEffect, FetchFailsEffect, CrashInBatchEffect
<1>7. CASE ChainStep \/ UNCHANGED syncVars
  BY <1>1, <1>7 DEF ChainStep, syncVars
<1> QED BY <1>4, <1>5, <1>6, <1>7 DEF SyncNext, ProcessStep, WorkerStep, Fault

-----------------------------------------------------------------------------
(* The inductive invariant and what follows from it.                        *)

SyncInv ==
    ChainInv /\ RunInv /\ WindowInv /\ AnswersInv /\ RowsInv /\ ProgressInv /\ DisjointInv

(* The inductive invariant of the indexer: the runs have their shape, stay  *)
(* below the finalized block, hold answers that are still true, and account *)
(* for every block they passed, in every interleaving of processes,         *)
(* workers, faults and reorganisations.                                     *)
THEOREM SyncInvariant == SyncSpec => []SyncInv
<1>1. SyncInit => SyncInv
  <2> SUFFICES ASSUME SyncInit PROVE SyncInv
    OBVIOUS
  <2>1. ChainInv /\ finalized = 0
    BY ChainInvStarts DEF SyncInit, Init
  <2>2. RunInv
    BY FreeWorkerType, IdleProcType DEF SyncInit, RunInv, Free
  <2>3. \A p \in Procs : proc[p] = IdleProc /\ \A w \in Workers : worker[p][w] = FreeWorker
    BY DEF SyncInit
  <2>4. WindowInv
    BY <2>1, <2>3, IdleWindow DEF SyncInit, WindowInv
  <2>5. AnswersInv /\ DisjointInv
    BY <2>3 DEF AnswersInv, AnswersOK, DisjointInv
  <2>6. RowsInv
    BY DEF SyncInit, RowsInv
  <2>7. ProgressInv
    BY <2>3, IdleProcType DEF SyncInit, ProgressInv, RunSettled
  <2> QED BY <2>1, <2>2, <2>4, <2>5, <2>6, <2>7 DEF SyncInv
<1>2. SyncInv /\ [SyncNext]_syncVars => SyncInv'
  <2> SUFFICES ASSUME SyncInv, [SyncNext]_syncVars PROVE SyncInv'
    OBVIOUS
  <2>1. ChainInv /\ RunInv /\ WindowInv /\ AnswersInv /\ RowsInv /\ ProgressInv /\ DisjointInv
    BY DEF SyncInv
  <2>2. lastSynced \in Nat
    BY <2>1 DEF WindowInv
  <2> QED BY <2>1, <2>2, ChainGoesOn, RunInvSteps, WindowInvSteps, AnswersInvSteps, RowsInvSteps,
             ProgressInvSteps, DisjointInvSteps DEF SyncInv
<1> QED BY <1>1, <1>2, PTL DEF SyncSpec

(* The finalized blocks are on the chain, which is no longer than its       *)
(* bound.                                                                   *)
LEMMA ChainBounds ==
    ASSUME ChainInv
    PROVE  /\ finalized \in Nat /\ finalized <= Len(chain)
           /\ Len(chain) \in Nat /\ Len(chain) <= MaxBlocks
  BY DEF ChainInv, IInv, TypeOK

(* Every variable of the indexer keeps its type: the cursor, the tables and *)
(* the reports name blocks of the chain, and no batch is attempted more     *)
(* than MAX_RETRIES times (_withRetry).                                     *)
THEOREM SyncTypeCorrect == SyncSpec => []SyncTypeOK
<1>1. SyncInv => SyncTypeOK
  <2> SUFFICES ASSUME SyncInv PROVE SyncTypeOK
    OBVIOUS
  <2>1. TypeOK /\ MaxBlocks \in Nat
    BY DEF SyncInv, ChainInv, IInv
  <2>2. /\ finalized \in Nat /\ finalized <= Len(chain)
        /\ Len(chain) \in Nat /\ Len(chain) <= MaxBlocks
    BY ChainBounds DEF SyncInv
  <2>3. lastSynced \in 0..MaxBlocks
    BY <2>1, <2>2 DEF SyncInv, WindowInv
  <2>4. fileRows \subseteq FileRow /\ chunkRows \subseteq ChunkRow
    BY DEF SyncInv, RowsInv, FileRowFinal, ChunkRowFinal
  <2>5. skipped \subseteq Blocks /\ dropped \subseteq Blocks
    BY <2>1, <2>2 DEF SyncInv, RowsInv, Blocks
  <2>6. \A p \in Procs : proc[p] \in ProcState /\ \A w \in Workers : worker[p][w] \in Batch
    BY DEF SyncInv, RunInv
  <2>7. \A p \in Procs :
        /\ proc[p].pc \in {"idle", "tip", "run"}
        /\ proc[p].tip \in 0..MaxBlocks
        /\ proc[p].safe \in 0..MaxBlocks
        /\ proc[p].next \in Nat \ {0}
    BY <2>6 DEF ProcState
  <2>8. \A p \in Procs, w \in Workers :
            /\ worker[p][w].start \in 0..MaxBlocks
            /\ worker[p][w].end \in 0..MaxBlocks
            /\ worker[p][w].attempt \in 0..MaxRetries
            /\ worker[p][w].fileLogs = NoLogs \/ worker[p][w].fileLogs \subseteq Log
            /\ worker[p][w].chunkLogs = NoLogs \/ worker[p][w].chunkLogs \subseteq Log
    BY <2>6 DEF Batch
  <2> QED BY <2>1, <2>3, <2>4, <2>5, <2>7, <2>8 DEF SyncTypeOK
<1> QED BY <1>1, SyncInvariant, PTL

(* An index that stays SAFE_WINDOW behind the tip never holds an event that *)
(* was undone: every row is an event of the canonical chain, at the block   *)
(* it names, although its logs were fetched before the chain reorganised    *)
(* and whichever processes insert at the same time.                         *)
THEOREM RowsAreOnTheChain == SyncSpec => []IndexSound
<1>1. SyncInv => IndexSound
  <2> SUFFICES ASSUME SyncInv PROVE IndexSound
    OBVIOUS
  <2>1. /\ finalized \in Nat /\ finalized <= Len(chain) /\ Len(chain) \in Nat
    BY ChainBounds DEF SyncInv
  <2>2. ASSUME NEW r \in fileRows
        PROVE  /\ r.block <= Len(chain)
               /\ Creates(chain, r.block, r.fileId)
               /\ r.meta = MetadataOf(chain[r.block].event)
    <3>1. FileRowFinal(r, chain, finalized)
      BY DEF SyncInv, RowsInv
    <3>2. r.block \in Nat
      BY <3>1 DEF FileRowFinal, FileRow, Blocks
    <3> QED BY <2>1, <3>1, <3>2 DEF FileRowFinal
  <2>3. ASSUME NEW r \in chunkRows
        PROVE  /\ r.block <= Len(chain)
               /\ Uploads(chain, r.block)
               /\ ChunkRowOf([block |-> r.block, event |-> chain[r.block].event]) = r
    <3>1. ChunkRowFinal(r, chain, finalized)
      BY DEF SyncInv, RowsInv
    <3>2. r \in ChunkRow /\ r.block \in Nat
      BY <3>1 DEF ChunkRowFinal, ChunkRow, Blocks
    <3>3. ChunkRowOf([block |-> r.block, event |-> chain[r.block].event]) = r
      BY <3>1, <3>2 DEF ChunkRowFinal, ChunkRowOf, ChunkRow
    <3> QED BY <2>1, <3>1, <3>2, <3>3 DEF ChunkRowFinal
  <2> QED BY <2>2, <2>3 DEF IndexSound
<1> QED BY <1>1, SyncInvariant, PTL

(* No event below the cursor is lost without a trace: it is indexed, or its *)
(* batch was reported as failed or its log as malformed, whatever queries   *)
(* and inserts fail and whichever processes die.                            *)
THEOREM EveryLossIsReported == SyncSpec => []NothingLostSilently
<1>1. SyncInv => NothingLostSilently
  <2> SUFFICES ASSUME SyncInv PROVE NothingLostSilently
    OBVIOUS
  <2>1. /\ finalized \in Nat /\ finalized <= Len(chain) /\ Len(chain) \in Nat
    BY ChainBounds DEF SyncInv
  <2>2. lastSynced \in Nat /\ lastSynced <= finalized
    BY DEF SyncInv, WindowInv
  <2>3. \A b \in 1..lastSynced : Settled(b)
    BY DEF SyncInv, ProgressInv
  <2> QED BY <2>1, <2>2, <2>3 DEF NothingLostSilently, Settled
<1> QED BY <1>1, SyncInvariant, PTL

(* Two workers never fetch the same block in one run: batches[nextIdx++]    *)
(* deals disjoint ranges, below the next one, for any number of workers.    *)
THEOREM WorkersDoNotOverlap == SyncSpec => []BatchesDisjoint
<1>1. SyncInv => BatchesDisjoint
  <2> SUFFICES ASSUME SyncInv, NEW p \in Procs, NEW v \in Workers, NEW w \in Workers
               PROVE  /\ worker[p][w].end < proc[p].next
                      /\ v # w /\ ~Free(p, v) /\ ~Free(p, w) =>
                            worker[p][v].end < worker[p][w].start
                                \/ worker[p][w].end < worker[p][v].start
    BY DEF BatchesDisjoint
  <2>1. Free(p, w) \/ BatchOfRun(proc[p], worker[p][w])
    BY DEF SyncInv, RunInv
  <2>2. proc[p].next \in Nat \ {0}
    BY DEF SyncInv, RunInv, ProcState
  <2>3. worker[p][w].end < proc[p].next
    BY <2>1, <2>2, FreeWorkerType DEF Free, BatchOfRun
  <2> QED BY <2>3 DEF SyncInv, DisjointInv, Apart, Free
<1> QED BY <1>1, SyncInvariant, PTL

-----------------------------------------------------------------------------
(* The cursor of a process that has the database to itself.                 *)

CursorInv == \A p \in Procs : proc[p].pc = "run" => lastSynced <= proc[p].safe

(* A single process commits what is at or above the cursor it started from. *)
LEMMA CursorInvSteps ==
    ASSUME \A p, q \in Procs : p = q, SyncInv, CursorInv, [SyncNext]_syncVars
    PROVE  CursorInv' /\ lastSynced' >= lastSynced
<1>1. RunInv /\ ChainInv /\ lastSynced \in Nat
  BY DEF SyncInv, WindowInv
<1>2. CASE UNCHANGED <<lastSynced, proc>>
  BY <1>1, <1>2 DEF CursorInv
<1>3. ASSUME NEW p \in Procs, RequestTip(p) \/ Crash(p) \/ \E w \in Workers : CrashInBatch(p, w)
      PROVE  CursorInv' /\ lastSynced' >= lastSynced
  <2>1. PICK s : ProcBecomes(p, s) /\ s.pc # "run"
    BY <1>1, <1>3, RequestTipEffect, CrashEffect, CrashInBatchEffect, IdleProcType
  <2>2. proc'[p] = s /\ UNCHANGED lastSynced
    BY <1>1, <1>3, <2>1, ProcessTurns DEF RequestTip, Crash, CrashInBatch, indexVars
  <2> QED BY <1>1, <2>1, <2>2 DEF CursorInv
<1>4. ASSUME NEW p \in Procs, Begin(p)
      PROVE  CursorInv' /\ lastSynced' >= lastSynced
  <2>1. PICK s : ProcBecomes(p, s) /\ (s.pc = "run" => lastSynced < s.safe)
    BY <1>1, <1>4, BeginEffect, IdleProcType
  <2>2. proc'[p] = s /\ UNCHANGED lastSynced /\ s \in ProcState
    BY <1>1, <1>4, <2>1, ProcessTurns DEF Begin, indexVars, ProcBecomes
  <2> QED BY <1>1, <2>1, <2>2 DEF CursorInv, ProcState
<1>5. ASSUME NEW p \in Procs, Commit(p)
      PROVE  CursorInv' /\ lastSynced' >= lastSynced
  <2>1. proc'[p] = IdleProc
    BY <1>1, <1>5, CommitEffect, ProcessTurns
  <2>2. lastSynced <= proc[p].safe /\ lastSynced' = proc[p].safe /\ proc[p].safe \in Nat
    BY <1>1, <1>5 DEF Commit, CursorInv, RunInv, ProcState
  <2> QED BY <1>1, <2>1, <2>2, IdleProcType DEF CursorInv
<1>6. ASSUME NEW p \in Procs, NEW w \in Workers, TakeBatch(p, w)
      PROVE  CursorInv' /\ lastSynced' >= lastSynced
  <2>1. proc'[p].safe = proc[p].safe /\ proc[p].pc = "run" /\ UNCHANGED lastSynced
    BY <1>1, <1>6, TakeBatchEffect DEF TakeBatch, indexVars
  <2> QED BY <1>1, <2>1 DEF CursorInv
<1>7. ASSUME NEW p \in Procs, NEW w \in Workers,
             \/ AnswerFiles(p, w) \/ AnswerChunks(p, w)
             \/ ApplyBatch(p, w) \/ FetchFails(p, w)
      PROVE  UNCHANGED <<lastSynced, proc>>
  BY <1>7 DEF AnswerFiles, AnswerChunks, ApplyBatch, FetchFails, indexVars
<1>8. ChainStep \/ UNCHANGED syncVars => UNCHANGED <<lastSynced, proc>>
  BY DEF ChainStep, syncVars, indexVars, runVars
<1> QED BY <1>2, <1>3, <1>4, <1>5, <1>6, <1>7, <1>8
        DEF SyncNext, ProcessStep, WorkerStep, Fault

(* A process that has the database to itself never moves last_synced_block  *)
(* back: sync() returns when the safe block is behind it, whatever tip it   *)
(* read.  With two processes this is false, and Commit is why.              *)
THEOREM OneProcessNeverRegresses ==
    ASSUME \A p, q \in Procs : p = q
    PROVE  SyncSpec => CursorNeverRegresses
<1>1. SyncInit => CursorInv
  BY IdleProcType DEF SyncInit, CursorInv
<1>2. SyncInv /\ CursorInv /\ [SyncNext]_syncVars => CursorInv' /\ lastSynced' >= lastSynced
  BY CursorInvSteps
<1>3. SyncInv /\ CursorInv /\ [SyncNext]_syncVars => [lastSynced' >= lastSynced]_syncVars
  BY <1>2
<1>4. SyncSpec => []CursorInv
  BY <1>1, <1>2, SyncInvariant, PTL DEF SyncSpec
<1> QED BY <1>3, <1>4, SyncInvariant, PTL DEF SyncSpec, CursorNeverRegresses

-----------------------------------------------------------------------------
(* The refinement: the indexer implements the abstract index of the ledger  *)
(* of final events.                                                         *)

FileEntry(r) ==
    [key |-> PrimaryKey(r), at |-> r.block,
     content |-> <<r.meta.name, r.meta.size, r.meta.chunkCount, r.meta.owner>>]

ChunkEntry(r) == [key |-> PrimaryKey(r), at |-> r.block, content |-> <<r.hash>>]

(* The rows of the abstract index are the entries of both tables.           *)
LEMMA IndexRowsAre ==
    IndexRows = {FileEntry(r) : r \in fileRows} \cup {ChunkEntry(r) : r \in chunkRows}
  BY DEF IndexRows, FileEntry, ChunkEntry

(* The ledger is the finalized prefix of the chain.                         *)
LEMMA FinalEventsAre ==
    ASSUME ChainInv
    PROVE  /\ Len(FinalEvents) = finalized
           /\ \A b \in 1..finalized : FinalEvents[b] = chain[b].event
<1>1. finalized \in Nat /\ finalized <= Len(chain) /\ Len(chain) \in Nat /\ chain \in Seq(Block)
  BY ChainBounds DEF ChainInv, IInv, TypeOK
<1>2. \A b \in 1..finalized : chain[b] \in Block
  BY <1>1
<1>3. FinalEvents \in Seq(Events)
  BY <1>1, <1>2 DEF FinalEvents, Block
<1> QED BY <1>1, <1>3 DEF FinalEvents

(* The rows of one event are the row the abstract index has for it.         *)
LEMMA FileEntryIsRow ==
    ASSUME ChainInv, NEW r, FileRowFinal(r, chain, finalized)
    PROVE  /\ FileEntry(r).at \in 1..Len(FinalEvents)
           /\ LedgerIndex!HasRow(FileEntry(r).at)
           /\ FileEntry(r) = LedgerIndex!Row(FileEntry(r).at)
<1>1. finalized \in Nat
  BY ChainBounds
<1>2. r \in FileRow /\ r.block \in 1..finalized
  BY <1>1 DEF FileRowFinal, FileRow, Blocks
<1> DEFINE e == chain[r.block].event
<1>3. FinalEvents[r.block] = e /\ Len(FinalEvents) = finalized
  BY <1>2, FinalEventsAre
<1>4. e.type = "FileCreated" /\ r.fileId = e.fileId /\ r.meta = MetadataOf(e)
  BY DEF FileRowFinal, Creates
<1>5. PrimaryKey(r) = <<e.fileId>>
  BY <1>2, <1>4, PrimaryKeyOfFile
<1>6. FileEntry(r) = [key |-> <<e.fileId>>, at |-> r.block,
                      content |-> <<e.name, e.size, e.chunkCount, e.owner>>]
  BY <1>4, <1>5 DEF FileEntry, MetadataOf
<1>7. FileEntry(r).at = r.block
  BY <1>6
<1> HIDE DEF e
<1>8. LedgerIndex!Row(r.block) = [key |-> <<e.fileId>>, at |-> r.block,
                      content |-> <<e.name, e.size, e.chunkCount, e.owner>>]
  BY <1>3, <1>4 DEF LedgerIndex!Row
<1> QED BY <1>2, <1>3, <1>4, <1>6, <1>7, <1>8 DEF LedgerIndex!HasRow

(* The entry of a chunk row is what the abstract index has for its event.   *)
LEMMA ChunkEntryIsRow ==
    ASSUME ChainInv, NEW r, ChunkRowFinal(r, chain, finalized)
    PROVE  /\ ChunkEntry(r).at \in 1..Len(FinalEvents)
           /\ LedgerIndex!HasRow(ChunkEntry(r).at)
           /\ ChunkEntry(r) = LedgerIndex!Row(ChunkEntry(r).at)
<1>1. finalized \in Nat
  BY ChainBounds
<1>2. r \in ChunkRow /\ r.block \in 1..finalized
  BY <1>1 DEF ChunkRowFinal, ChunkRow, Blocks
<1> DEFINE e == chain[r.block].event
<1>3. FinalEvents[r.block] = e /\ Len(FinalEvents) = finalized
  BY <1>2, FinalEventsAre
<1>4. e.type = "ChunkUploaded" /\ r.fileId = e.fileId /\ r.chunkIndex = e.chunkIndex
      /\ r.hash = e.data
  BY DEF ChunkRowFinal, Uploads
<1>5. PrimaryKey(r) = <<e.fileId, e.chunkIndex>>
  BY <1>2, <1>4, PrimaryKeyOfChunk
<1>6. ChunkEntry(r) = [key |-> <<e.fileId, e.chunkIndex>>, at |-> r.block, content |-> <<e.data>>]
  BY <1>4, <1>5 DEF ChunkEntry
<1>7. ChunkEntry(r).at = r.block
  BY <1>6
<1> HIDE DEF e
<1>8. LedgerIndex!Row(r.block) = [key |-> <<e.fileId, e.chunkIndex>>, at |-> r.block,
                                  content |-> <<e.data>>]
  BY <1>3, <1>4 DEF LedgerIndex!Row
<1> QED BY <1>2, <1>3, <1>4, <1>6, <1>7, <1>8 DEF LedgerIndex!HasRow

(* What is settled is covered.                                              *)
LEMMA SettledIsCovered ==
    ASSUME ChainInv, RowsInv, NEW b \in 1..finalized, Settled(b)
    PROVE  LedgerIndex!Covered(b)
<1> SUFFICES ASSUME LedgerIndex!HasRow(b), b \notin skipped \cup dropped
             PROVE  \E x \in IndexRows : x.key = LedgerIndex!Row(b).key
  BY DEF LedgerIndex!Covered
<1> DEFINE e == chain[b].event
<1>1. FinalEvents[b] = e /\ b \in 1..Len(chain)
  BY FinalEventsAre, ChainBounds
<1>2. e.type \in {"FileCreated", "ChunkUploaded"}
  BY <1>1, EventOfBlock DEF LedgerIndex!HasRow
<1>3. Indexed(b)
  BY DEF Settled
<1>4. CASE e.type = "FileCreated"
  <2>1. PICK r \in fileRows : r.fileId = e.fileId
    BY <1>3, <1>4 DEF Indexed
  <2>2. r \in FileRow
    BY DEF RowsInv, FileRowFinal
  <2>3. FileEntry(r).key = <<e.fileId>>
    BY <2>1, <2>2, PrimaryKeyOfFile DEF FileEntry
  <2>4. LedgerIndex!Row(b).key = <<e.fileId>>
    BY <1>1, <1>4 DEF LedgerIndex!Row
  <2> QED BY <2>1, <2>3, <2>4, IndexRowsAre
<1>5. CASE e.type = "ChunkUploaded"
  <2>1. PICK r \in chunkRows : r.fileId = e.fileId /\ r.chunkIndex = e.chunkIndex
    BY <1>3, <1>5 DEF Indexed
  <2>2. r \in ChunkRow
    BY DEF RowsInv, ChunkRowFinal
  <2>3. ChunkEntry(r).key = <<e.fileId, e.chunkIndex>>
    BY <2>1, <2>2, PrimaryKeyOfChunk DEF ChunkEntry
  <2>4. LedgerIndex!Row(b).key = <<e.fileId, e.chunkIndex>>
    BY <1>1, <1>5 DEF LedgerIndex!Row
  <2> QED BY <2>1, <2>3, <2>4, IndexRowsAre
<1> QED BY <1>2, <1>4, <1>5

(* Entries of the two tables never share a key.                             *)
LEMMA KeysApart ==
    ASSUME NEW r \in FileRow, NEW q \in ChunkRow
    PROVE  FileEntry(r).key # ChunkEntry(q).key
<1>1. FileEntry(r).key = <<r.fileId>> /\ ChunkEntry(q).key = <<q.fileId, q.chunkIndex>>
  BY PrimaryKeyOfFile, PrimaryKeyOfChunk DEF FileEntry, ChunkEntry
<1>2. Len(<<r.fileId>>) = 1 /\ Len(<<q.fileId, q.chunkIndex>>) = 2
  OBVIOUS
<1> QED BY <1>1, <1>2

(* A batch that is inserted, cut short or skipped is a step of the abstract *)
(* index: it adds rows of final events under keys that are free.            *)
LEMMA TablesMoveIsIndex ==
    ASSUME ChainInv, RowsInv, TablesMove, UNCHANGED chainVars, UNCHANGED lastSynced
    PROVE  LedgerIndex!Index
<1>1. UNCHANGED FinalEvents
  BY DEF FinalEvents, chainVars
<1>2. IndexRows = {FileEntry(r) : r \in fileRows} \cup {ChunkEntry(r) : r \in chunkRows}
  BY IndexRowsAre
<1>3. IndexRows' = {FileEntry(r) : r \in fileRows'} \cup {ChunkEntry(r) : r \in chunkRows'}
  BY DEF IndexRows, FileEntry, ChunkEntry
<1>4. IndexRows \subseteq IndexRows'
  BY <1>2, <1>3 DEF TablesMove
<1>5. Len(FinalEvents) = finalized
  BY FinalEventsAre
<1>6. \A r \in fileRows' : FileRowFinal(r, chain, finalized) /\ r \in FileRow
  BY DEF TablesMove, FileRowFinal
<1>7. \A r \in chunkRows' : ChunkRowFinal(r, chain, finalized) /\ r \in ChunkRow
  BY DEF TablesMove, ChunkRowFinal
<1>8. \A x \in IndexRows' : x.at \in 1..Len(FinalEvents) /\ LedgerIndex!HasRow(x.at)
                            /\ x = LedgerIndex!Row(x.at)
  BY <1>3, <1>6, <1>7, FileEntryIsRow, ChunkEntryIsRow
<1>9. ASSUME NEW x \in IndexRows' \ IndexRows, NEW y \in IndexRows', y.key = x.key
      PROVE  y = x
  <2>1. SUFFICES y.at = x.at
    BY <1>8
  <2>2. CASE \E r \in fileRows' : x = FileEntry(r)
    <3>1. PICK r \in fileRows' : x = FileEntry(r)
      BY <2>2
    <3>2. r \notin fileRows
      BY <1>2, <3>1
    <3>3. PICK q \in fileRows' : y = FileEntry(q)
      BY <1>3, <1>6, <1>7, <1>9, <3>1, KeysApart
    <3>4. PrimaryKey(q) = PrimaryKey(r)
      BY <1>9, <3>1, <3>3 DEF FileEntry
    <3> QED BY <3>1, <3>2, <3>3, <3>4 DEF FileEntry, TablesMove, OneBlockPerNewKey
  <2>3. CASE \E r \in chunkRows' : x = ChunkEntry(r)
    <3>1. PICK r \in chunkRows' : x = ChunkEntry(r)
      BY <2>3
    <3>2. r \notin chunkRows
      BY <1>2, <3>1
    <3>3. PICK q \in chunkRows' : y = ChunkEntry(q)
      BY <1>3, <1>6, <1>7, <1>9, <3>1, KeysApart
    <3>4. PrimaryKey(q) = PrimaryKey(r)
      BY <1>9, <3>1, <3>3 DEF ChunkEntry
    <3> QED BY <3>1, <3>2, <3>3, <3>4 DEF ChunkEntry, TablesMove, OneBlockPerNewKey
  <2> QED BY <1>3, <2>2, <2>3
<1>10. /\ skipped \cup dropped \subseteq (skipped \cup dropped)'
       /\ (skipped \cup dropped)' \subseteq 1..Len(FinalEvents)
  BY <1>5 DEF TablesMove
<1> QED BY <1>1, <1>4, <1>8, <1>9, <1>10 DEF LedgerIndex!Index

(* A commit moves the abstract cursor to where everything below is settled. *)
LEMMA CommitIsAdvance ==
    ASSUME SyncInv, NEW p \in Procs, Commit(p)
    PROVE  LedgerIndex!Advance
<1>1. ChainInv /\ RowsInv /\ RunInv /\ finalized \in Nat /\ finalized = Len(FinalEvents)
  BY ChainBounds, FinalEventsAre DEF SyncInv
<1>2. proc[p].safe \in Nat /\ proc[p].next \in Nat /\ proc[p].safe <= finalized
  BY DEF SyncInv, RunInv, ProcState, WindowInv, WindowOf
<1>3. lastSynced' = proc[p].safe /\ proc[p].pc = "run" /\ proc[p].next > proc[p].safe
      /\ \A w \in Workers : worker[p][w] = FreeWorker
  BY DEF Commit, Free
<1>4. \A b \in 1..proc[p].safe : Settled(b) /\ b \in 1..finalized
  BY <1>1, <1>2, <1>3 DEF SyncInv, ProgressInv, RunSettled, InBatch
<1>5. \A b \in 1..lastSynced' : LedgerIndex!Covered(b)
  BY <1>1, <1>3, <1>4, SettledIsCovered
<1>6. UNCHANGED <<FinalEvents, IndexRows, skipped \cup dropped>>
  BY DEF Commit, chainVars, FinalEvents, IndexRows, observed
<1>7. lastSynced' \in 0..Len(FinalEvents)
  BY <1>1, <1>2, <1>3
<1> QED BY <1>5, <1>6, <1>7 DEF LedgerIndex!Advance

(* A block makes one more event final at most, and the contract saw to it   *)
(* that it is legal.                                                        *)
LEMMA ChainStepIsGrow ==
    ASSUME SyncInv, [SyncNext]_syncVars, ChainStep
    PROVE  LedgerIndex!Grow \/ UNCHANGED <<FinalEvents, IndexRows, skipped \cup dropped, lastSynced>>
<1>1. ChainInv /\ TypeOK /\ [AnyNext]_chainVars
  BY SyncStepIsChainStep DEF SyncInv, ChainInv, IInv
<1>2. IInv'
  BY <1>1, ChainInvSteps DEF ChainInv
<1>3. finalized' \in {finalized, finalized + 1} /\ \A b \in 1..finalized : chain'[b] = chain[b]
  BY <1>1, ChainInvSteps
<1>4. Ledger!Publish \/ UNCHANGED FinalEvents
  BY <1>1, <1>2, <1>3, PublishesOrStays
<1>5. Ledger!Publish => LedgerIndex!Publish
  BY DEF Ledger!Publish, LedgerIndex!Publish, Ledger!Legal, LedgerIndex!Legal,
         Ledger!CreatedAt, LedgerIndex!CreatedAt
<1>6. UNCHANGED <<IndexRows, skipped \cup dropped, lastSynced>>
  BY DEF ChainStep, indexVars, observed, IndexRows
<1> QED BY <1>4, <1>5, <1>6 DEF LedgerIndex!Grow

(* sync() implements the abstract index of the final events, for any number *)
(* of processes and workers: with a tip that is out of date, answers from   *)
(* before a reorganisation, retries, lost inserts and deaths in mid-batch,  *)
(* each step adds rows of final events under free keys, or moves the cursor *)
(* to where everything below is in the rows or in the reports.              *)
THEOREM SyncIsAnIndex == SyncSpec => ImplementsIndex
<1>1. SyncInit => LedgerIndex!IndexInit
  BY DEF SyncInit, Init, FinalEvents, IndexRows, LedgerIndex!IndexInit, LedgerIndex!LedgerInit
<1>2. SyncInv /\ [SyncNext]_syncVars =>
        [LedgerIndex!Grow \/ LedgerIndex!Index \/ LedgerIndex!Advance]_<<FinalEvents,
            IndexRows, skipped \cup dropped, lastSynced>>
  <2> SUFFICES ASSUME SyncInv, [SyncNext]_syncVars
               PROVE  \/ LedgerIndex!Grow \/ LedgerIndex!Index \/ LedgerIndex!Advance
                      \/ UNCHANGED <<FinalEvents, IndexRows, skipped \cup dropped, lastSynced>>
    OBVIOUS
  <2>1. ChainInv /\ RowsInv /\ TablesMove
    BY TablesMoveSteps DEF SyncInv
  <2>2. CASE ChainStep
    BY <2>2, ChainStepIsGrow
  <2>3. CASE \E p \in Procs : Commit(p)
    BY <2>3, CommitIsAdvance
  <2>4. CASE UNCHANGED chainVars /\ UNCHANGED lastSynced
    BY <2>1, <2>4, TablesMoveIsIndex
  <2>5. ASSUME NEW p \in Procs,
               \/ RequestTip(p) \/ Begin(p) \/ Crash(p)
               \/ \E w \in Workers : WorkerStep(p, w) \/ FetchFails(p, w) \/ CrashInBatch(p, w)
        PROVE  UNCHANGED chainVars /\ UNCHANGED lastSynced
    BY <2>5 DEF RequestTip, Begin, Crash, WorkerStep, TakeBatch, AnswerFiles, AnswerChunks,
                ApplyBatch, FetchFails, CrashInBatch, indexVars
  <2>6. UNCHANGED syncVars => UNCHANGED chainVars /\ UNCHANGED lastSynced
    BY DEF syncVars, indexVars
  <2> QED BY <2>2, <2>3, <2>4, <2>5, <2>6 DEF SyncNext, ProcessStep, Fault
<1> QED BY <1>1, <1>2, SyncInvariant, PTL
        DEF SyncSpec, ImplementsIndex, LedgerIndex!IndexSpec
=============================================================================
