--------------------------- MODULE ChainFSProofs ----------------------------
(* Proofs about ChainFS for every value of its constants.                   *)
EXTENDS ChainFS, WellFoundedInduction, TLAPS

USE ConstantsAssumption

-----------------------------------------------------------------------------
(* The inductive invariant.  The storage alone does not say what a          *)
(* reorganisation brings back, so the storage after every block of the      *)
(* chain, not only after the last one, is tied to the events before it.     *)

PostsMatchLog ==
    \A n \in 0..Len(chain) : Announced(PostState(chain, n), chain, n)

CreatedOnce ==
    \A f \in FileIds, a, b \in 1..Len(chain) :
        Creates(chain, a, f) /\ Creates(chain, b, f) => a = b

LastPost == files = PostState(chain, Len(chain))

IInv == TypeOK /\ LastPost /\ PostsMatchLog /\ CreatedOnce /\ ChunksAuthorised

(* What mining a block does to the chain: the blocks before it stay.        *)
LEMMA MineKeepsPrefix ==
    ASSUME TypeOK, NEW event, NEW storage, Mine(event, storage),
           event \in Events,
           storage \in [FileIds -> FileMetadata]
    PROVE  /\ TypeOK'
           /\ Len(chain') = Len(chain) + 1
           /\ \A b \in 1..Len(chain) : chain'[b] = chain[b]
           /\ chain'[Len(chain) + 1].event = event
           /\ chain'[Len(chain) + 1].post = storage
           /\ files' = storage
<1> DEFINE blk == [event |-> event, post |-> storage]
<1>1. blk \in Block
  BY DEF Block
<1>2. chain \in Seq(Block) /\ Len(chain) \in Nat
  BY DEF TypeOK
<1>3. chain' = Append(chain, blk) /\ files' = storage
  BY DEF Mine
<1>4. chain' \in Seq(Block) /\ Len(chain') = Len(chain) + 1
  BY <1>1, <1>2, <1>3
<1>5. /\ \A b \in 1..Len(chain) : chain'[b] = chain[b]
      /\ chain'[Len(chain) + 1] = blk
  BY <1>2, <1>3
<1>6. finalized' \in 0..Len(chain')
  BY <1>2, <1>4 DEF Mine, TypeOK
<1> QED BY <1>3, <1>4, <1>5, <1>6 DEF TypeOK

(* A step that appends a block keeps the type and grows the chain by one,   *)
(* whatever the call: the arguments are of the declared types.              *)
LEMMA CreateIsMine ==
    ASSUME TypeOK, NEW f \in FileIds, NEW name \in Names, NEW size \in Nat,
           NEW count \in Nat, NEW sender \in Accounts,
           CreateFile(f, name, size, count, sender)
    PROVE  LET e == [type |-> "FileCreated", fileId |-> f, name |-> name,
                     size |-> size, chunkCount |-> count, owner |-> sender]
               s == [files EXCEPT ![f] = MetadataOf(e)]
           IN  /\ e \in Events
               /\ s \in [FileIds -> FileMetadata]
               /\ Mine(e, s)
               /\ ~files[f].exists
<1> DEFINE e == [type |-> "FileCreated", fileId |-> f, name |-> name,
                 size |-> size, chunkCount |-> count, owner |-> sender]
<1>0. ~files[f].exists /\ name # EmptyName /\ size \in Nat \ {0} /\ count \in Nat \ {0}
  BY DEF CreateFile, CanCreate
<1>1. e \in Events
  BY <1>0 DEF FileCreated, Events
<1>2. MetadataOf(e) \in FileMetadata
  BY <1>0 DEF MetadataOf, FileMetadata
<1>3. [files EXCEPT ![f] = MetadataOf(e)] \in [FileIds -> FileMetadata]
  BY <1>2 DEF TypeOK
<1>4. Mine(e, [files EXCEPT ![f] = MetadataOf(e)]) /\ ~files[f].exists
  BY <1>0 DEF CreateFile, MetadataOf
<1> QED BY <1>1, <1>3, <1>4

(* An accepted chunk is a block with a ChunkUploaded event that leaves the  *)
(* mapping.                                                                 *)
LEMMA UploadIsMine ==
    ASSUME TypeOK, NEW f \in FileIds, NEW idx \in Nat,
           NEW data \in Payloads, NEW sender \in Accounts,
           UploadChunk(f, idx, data, sender)
    PROVE  LET e == [type |-> "ChunkUploaded", fileId |-> f, chunkIndex |-> idx,
                     data |-> data, sender |-> sender]
           IN  /\ e \in Events
               /\ Mine(e, files)
               /\ CanUpload(f, idx, data, sender)
  BY DEF UploadChunk, ChunkUploaded, Events

-----------------------------------------------------------------------------
(* The mapping nobody has written to is a mapping.                          *)
LEMMA EmptyStorageType == EmptyStorage \in [FileIds -> FileMetadata]
  BY DEF EmptyStorage, NoFile, FileMetadata

(* The storage after a block is a mapping.                                  *)
LEMMA PostStateType ==
    ASSUME TypeOK, NEW n \in 0..Len(chain)
    PROVE  PostState(chain, n) \in [FileIds -> FileMetadata]
<1>1. CASE n = 0
  BY <1>1, EmptyStorageType DEF PostState
<1>2. CASE n # 0
  <2>1. n \in 1..Len(chain)
    BY <1>2
  <2>2. chain[n] \in Block
    BY <2>1 DEF TypeOK
  <2> QED BY <1>2, <2>2 DEF Block, PostState
<1> QED BY <1>1, <1>2

(* A rollback leaves a prefix of the chain and the storage after it.        *)
LEMMA RollbackKeepsPrefix ==
    ASSUME TypeOK, NEW n \in finalized..(Len(chain) - 1), Rollback(n)
    PROVE  /\ TypeOK'
           /\ n \in 0..Len(chain)
           /\ Len(chain') = n
           /\ \A b \in 1..n : chain'[b] = chain[b]
           /\ files' = PostState(chain, n)
<1>1. chain \in Seq(Block) /\ Len(chain) \in Nat /\ n \in 0..Len(chain)
  BY DEF TypeOK
<1>2. chain' = SubSeq(chain, 1, n) /\ files' = PostState(chain, n) /\ finalized' = finalized
  BY DEF Rollback
<1>3. chain' \in Seq(Block) /\ Len(chain') = n /\ \A b \in 1..n : chain'[b] = chain[b]
  BY <1>1, <1>2
<1>4. finalized' \in 0..Len(chain')
  BY <1>2, <1>3 DEF TypeOK
<1> QED BY <1>1, <1>2, <1>3, <1>4, PostStateType DEF TypeOK
-----------------------------------------------------------------------------
(* Facts about chains that agree on their first blocks.                     *)

LEMMA AnnouncedByPrefix ==
    ASSUME NEW m, NEW c, NEW d, NEW n \in Nat,
           \A b \in 1..n : d[b] = c[b],
           Announced(m, c, n)
    PROVE  Announced(m, d, n)
<1>1. \A b \in 1..n, f \in FileIds : Creates(d, b, f) <=> Creates(c, b, f)
  BY DEF Creates
<1>2. \A b \in 1..n : MetadataOf(d[b].event) = MetadataOf(c[b].event)
  OBVIOUS
<1>3. SUFFICES ASSUME NEW f \in FileIds
               PROVE  /\ m[f].exists <=> \E b \in 1..n : Creates(d, b, f)
                      /\ \A b \in 1..n :
                            Creates(d, b, f) => m[f] = MetadataOf(d[b].event)
  BY DEF Announced
<1>4. /\ m[f].exists <=> \E b \in 1..n : Creates(c, b, f)
      /\ \A b \in 1..n : Creates(c, b, f) => m[f] = MetadataOf(c[b].event)
  BY DEF Announced
<1> QED BY <1>1, <1>2, <1>4

(* Whether a chunk is authorised depends on the blocks before it only.      *)
LEMMA AuthorisedByPrefix ==
    ASSUME NEW c, NEW d, NEW n \in Nat, NEW b \in 1..n,
           \A a \in 1..n : d[a] = c[a],
           ChunkAuthorised(c, b)
    PROVE  ChunkAuthorised(d, b)
<1>1. PICK a \in 1..(b - 1) :
        /\ Creates(c, a, c[b].event.fileId)
        /\ c[a].event.owner = c[b].event.sender
        /\ c[b].event.chunkIndex < c[a].event.chunkCount
        /\ DataLength[c[b].event.data] \in 1..MaxChunkSize
  BY DEF ChunkAuthorised
<1>2. a \in 1..n /\ d[a] = c[a] /\ d[b] = c[b]
  OBVIOUS
<1> QED BY <1>1, <1>2 DEF ChunkAuthorised, Creates

(* An event that creates nothing leaves the announced storage as it is.     *)
LEMMA AnnouncedByOther ==
    ASSUME NEW m, NEW c, NEW n \in Nat,
           Announced(m, c, n), c[n + 1].event.type # "FileCreated"
    PROVE  Announced(m, c, n + 1)
<1>1. \A b \in 1..(n + 1) : b \in 1..n \/ b = n + 1
  OBVIOUS
<1>2. \A f \in FileIds : ~Creates(c, n + 1, f)
  BY DEF Creates
<1>3. SUFFICES ASSUME NEW f \in FileIds
               PROVE  /\ m[f].exists <=> \E b \in 1..(n + 1) : Creates(c, b, f)
                      /\ \A b \in 1..(n + 1) :
                            Creates(c, b, f) => m[f] = MetadataOf(c[b].event)
  BY DEF Announced
<1>4. /\ m[f].exists <=> \E b \in 1..n : Creates(c, b, f)
      /\ \A b \in 1..n : Creates(c, b, f) => m[f] = MetadataOf(c[b].event)
  BY DEF Announced
<1>5. 1..n \subseteq 1..(n + 1)
  OBVIOUS
<1> QED BY <1>1, <1>2, <1>4, <1>5

(* The event of a new file adds its entry to the announced storage.         *)
LEMMA AnnouncedByCreate ==
    ASSUME NEW c, NEW n \in Nat, NEW f \in FileIds,
           NEW m \in [FileIds -> FileMetadata],
           Announced(m, c, n), ~m[f].exists,
           c[n + 1].event.type = "FileCreated", c[n + 1].event.fileId = f
    PROVE  Announced([m EXCEPT ![f] = MetadataOf(c[n + 1].event)], c, n + 1)
<1> DEFINE M == [m EXCEPT ![f] = MetadataOf(c[n + 1].event)]
<1>1. \A b \in 1..(n + 1) : b \in 1..n \/ b = n + 1
  OBVIOUS
<1>2. n + 1 \in 1..(n + 1) /\ \A b \in 1..n : b \in 1..(n + 1)
  OBVIOUS
<1>3. M[f] = MetadataOf(c[n + 1].event) /\ M[f].exists
  BY DEF MetadataOf
<1>4. \A g \in FileIds \ {f} : M[g] = m[g] /\ ~Creates(c, n + 1, g)
  BY DEF Creates
<1>5. Creates(c, n + 1, f) /\ \A b \in 1..n : ~Creates(c, b, f)
  BY DEF Creates, Announced
<1> HIDE DEF M
<1>6. SUFFICES ASSUME NEW g \in FileIds
               PROVE  /\ M[g].exists <=> \E b \in 1..(n + 1) : Creates(c, b, g)
                      /\ \A b \in 1..(n + 1) :
                            Creates(c, b, g) => M[g] = MetadataOf(c[b].event)
  BY DEF Announced, M
<1>7. CASE g = f
  BY <1>1, <1>2, <1>3, <1>5, <1>7
<1>8. CASE g # f
  BY <1>1, <1>2, <1>4, <1>8 DEF Announced
<1> QED BY <1>7, <1>8

-----------------------------------------------------------------------------
(* A mined block keeps the invariant when the storage it leaves is the      *)
(* announced one, and its event creates no file twice and is authorised.    *)
LEMMA MineKeepsInv ==
    ASSUME IInv, NEW event, NEW storage, Mine(event, storage),
           event \in Events,
           storage \in [FileIds -> FileMetadata],
           Announced(storage, chain', Len(chain) + 1),
           event.type = "FileCreated" => ~files[event.fileId].exists,
           event.type = "ChunkUploaded" => ChunkAuthorised(chain', Len(chain) + 1)
    PROVE  IInv'
<1> DEFINE L == Len(chain)
<1>1. /\ TypeOK'
      /\ Len(chain') = L + 1
      /\ \A b \in 1..L : chain'[b] = chain[b]
      /\ chain'[L + 1].event = event
      /\ chain'[L + 1].post = storage
      /\ files' = storage
  BY MineKeepsPrefix DEF IInv
<1>2. L \in Nat
  BY DEF IInv, TypeOK
<1>3. LastPost'
  BY <1>1, <1>2 DEF LastPost, PostState
<1>4. PostsMatchLog'
  <2>1. SUFFICES ASSUME NEW n \in 0..(L + 1)
                 PROVE  Announced(PostState(chain', n), chain', n)
    BY <1>1 DEF PostsMatchLog
  <2>2. CASE n = L + 1
    <3>1. PostState(chain', n) = storage
      BY <1>1, <1>2, <2>2 DEF PostState
    <3> QED BY <2>2, <3>1
  <2>3. CASE n # L + 1
    <3>1. n \in 0..L /\ n \in Nat
      BY <1>2, <2>3
    <3>2. Announced(PostState(chain, n), chain, n)
      BY <3>1 DEF IInv, PostsMatchLog
    <3>3. PostState(chain', n) = PostState(chain, n)
      BY <1>1, <3>1 DEF PostState
    <3>4. \A b \in 1..n : chain'[b] = chain[b]
      BY <1>1, <1>2, <3>1
    <3> QED BY <3>1, <3>2, <3>3, <3>4, AnnouncedByPrefix
  <2> QED BY <2>2, <2>3
<1>5. CreatedOnce'
  <2>1. SUFFICES ASSUME NEW f \in FileIds,
                        NEW a \in 1..(L + 1), NEW b \in 1..(L + 1),
                        Creates(chain', a, f), Creates(chain', b, f)
                 PROVE  a = b
    BY <1>1 DEF CreatedOnce
  <2>2. Announced(files, chain, L)
    BY <1>2 DEF IInv, LastPost, PostsMatchLog
  <2>3. ASSUME NEW k \in 1..L, Creates(chain', k, f)
        PROVE  Creates(chain, k, f) /\ ~Creates(chain', L + 1, f)
    <3>1. Creates(chain, k, f)
      BY <1>1, <2>3 DEF Creates
    <3>2. files[f].exists
      BY <2>2, <3>1 DEF Announced
    <3> QED BY <1>1, <3>1, <3>2 DEF Creates
  <2>4. CASE a \in 1..L /\ b \in 1..L
    BY <2>1, <2>3, <2>4 DEF IInv, CreatedOnce
  <2>5. CASE a = L + 1 \/ b = L + 1
    BY <1>2, <2>1, <2>3, <2>5
  <2> QED BY <1>2, <2>4, <2>5
<1>6. ChunksAuthorised'
  <2>1. SUFFICES ASSUME NEW b \in 1..(L + 1), Uploads(chain', b)
                 PROVE  ChunkAuthorised(chain', b)
    BY <1>1 DEF ChunksAuthorised
  <2>2. CASE b = L + 1
    BY <1>1, <2>1, <2>2 DEF Uploads
  <2>3. CASE b # L + 1
    <3>1. b \in 1..L
      BY <1>2, <2>3
    <3>2. ChunkAuthorised(chain, b)
      BY <1>1, <2>1, <3>1 DEF IInv, ChunksAuthorised, Uploads
    <3> QED BY <1>1, <1>2, <3>1, <3>2, AuthorisedByPrefix
  <2> QED BY <2>2, <2>3
<1> QED BY <1>1, <1>3, <1>4, <1>5, <1>6 DEF IInv

(* A reorganisation keeps the invariant: it brings back the storage of the  *)
(* block it stops at, which the events up to that block announce.           *)
LEMMA RollbackKeepsInv ==
    ASSUME IInv, NEW n \in finalized..(Len(chain) - 1), Rollback(n)
    PROVE  IInv'
<1>1. /\ TypeOK'
      /\ n \in 0..Len(chain)
      /\ Len(chain') = n
      /\ \A b \in 1..n : chain'[b] = chain[b]
      /\ files' = PostState(chain, n)
  BY RollbackKeepsPrefix DEF IInv
<1>2. Len(chain) \in Nat /\ n \in Nat
  BY <1>1 DEF IInv, TypeOK
<1>3. \A k \in 0..n : PostState(chain', k) = PostState(chain, k)
  BY <1>1, <1>2 DEF PostState
<1>4. LastPost'
  BY <1>1, <1>2, <1>3 DEF LastPost
<1>5. PostsMatchLog'
  <2>1. SUFFICES ASSUME NEW k \in 0..n
                 PROVE  Announced(PostState(chain', k), chain', k)
    BY <1>1 DEF PostsMatchLog
  <2>2. Announced(PostState(chain, k), chain, k) /\ k \in Nat
    BY <1>1, <1>2 DEF IInv, PostsMatchLog
  <2>3. \A b \in 1..k : chain'[b] = chain[b]
    BY <1>1, <1>2, <2>2
  <2> QED BY <1>3, <2>2, <2>3, AnnouncedByPrefix
<1>6. CreatedOnce'
  BY <1>1, <1>2 DEF IInv, CreatedOnce, Creates
<1>7. ChunksAuthorised'
  <2>1. SUFFICES ASSUME NEW b \in 1..n, Uploads(chain', b)
                 PROVE  ChunkAuthorised(chain', b)
    BY <1>1 DEF ChunksAuthorised
  <2>2. ChunkAuthorised(chain, b)
    BY <1>1, <1>2, <2>1 DEF IInv, ChunksAuthorised, Uploads
  <2> QED BY <1>1, <1>2, <2>2, AuthorisedByPrefix
<1> QED BY <1>1, <1>4, <1>5, <1>6, <1>7 DEF IInv

-----------------------------------------------------------------------------
(* The invariant holds of the empty chain.                                  *)
LEMMA InitIInv == Init => IInv
<1> SUFFICES ASSUME Init PROVE IInv
  OBVIOUS
<1>1. chain = <<>> /\ Len(chain) = 0 /\ files = EmptyStorage /\ finalized = 0
  BY DEF Init
<1>2. TypeOK
  BY <1>1, EmptyStorageType DEF TypeOK
<1>3. LastPost
  BY <1>1 DEF LastPost, PostState
<1>4. PostsMatchLog
  <2>1. \A f \in FileIds : EmptyStorage[f].exists = FALSE
    BY DEF EmptyStorage, NoFile
  <2>2. 1..0 = {}
    OBVIOUS
  <2>3. Announced(EmptyStorage, chain, 0)
    BY <2>1, <2>2 DEF Announced
  <2>4. \A n \in 0..Len(chain) : n = 0
    BY <1>1
  <2> QED BY <2>3, <2>4 DEF PostsMatchLog, PostState
<1>5. CreatedOnce /\ ChunksAuthorised
  BY <1>1 DEF CreatedOnce, ChunksAuthorised
<1> QED BY <1>2, <1>3, <1>4, <1>5 DEF IInv

(* createFile keeps the invariant: it refuses an id the log already holds.  *)
LEMMA CreateKeepsInv ==
    ASSUME IInv, NEW f \in FileIds, NEW name \in Names, NEW size \in Nat,
           NEW count \in Nat, NEW sender \in Accounts,
           CreateFile(f, name, size, count, sender)
    PROVE  IInv'
<1> DEFINE e == [type |-> "FileCreated", fileId |-> f, name |-> name,
                 size |-> size, chunkCount |-> count, owner |-> sender]
           s == [files EXCEPT ![f] = MetadataOf(e)]
<1>1. TypeOK /\ Announced(files, chain, Len(chain)) /\ Len(chain) \in Nat
  BY DEF IInv, TypeOK, LastPost, PostsMatchLog
<1>2. e \in Events /\ s \in [FileIds -> FileMetadata] /\ Mine(e, s) /\ ~files[f].exists
  BY <1>1, CreateIsMine
<1>3. e.type = "FileCreated" /\ e.fileId = f
  OBVIOUS
<1> HIDE DEF e
<1>4. /\ \A b \in 1..Len(chain) : chain'[b] = chain[b]
      /\ chain'[Len(chain) + 1].event = e
  <2> HIDE DEF s
  <2> QED BY <1>1, <1>2, MineKeepsPrefix
<1>5. Announced(files, chain', Len(chain))
  BY <1>1, <1>4, AnnouncedByPrefix
<1>6. Announced(s, chain', Len(chain) + 1)
  <2>1. files \in [FileIds -> FileMetadata]
    BY <1>1 DEF TypeOK
  <2>2. Announced([files EXCEPT ![f] = MetadataOf(chain'[Len(chain) + 1].event)],
                  chain', Len(chain) + 1)
    BY <1>1, <1>2, <1>3, <1>4, <1>5, <2>1, AnnouncedByCreate
  <2> QED BY <1>4, <2>2
<1> HIDE DEF s
<1> QED BY <1>2, <1>3, <1>6, MineKeepsInv

(* uploadChunk keeps the invariant: what it checks in the mapping is what   *)
(* the log says of the file.                                                *)
LEMMA UploadKeepsInv ==
    ASSUME IInv, NEW f \in FileIds, NEW idx \in Nat,
           NEW data \in Payloads, NEW sender \in Accounts,
           UploadChunk(f, idx, data, sender)
    PROVE  IInv'
<1> DEFINE e == [type |-> "ChunkUploaded", fileId |-> f, chunkIndex |-> idx,
                 data |-> data, sender |-> sender]
           L == Len(chain)
<1>1. TypeOK /\ Announced(files, chain, L) /\ L \in Nat
  BY DEF IInv, TypeOK, LastPost, PostsMatchLog
<1>2. e \in Events /\ Mine(e, files) /\ CanUpload(f, idx, data, sender)
  BY <1>1, UploadIsMine
<1>3. /\ e.type = "ChunkUploaded" /\ e.fileId = f /\ e.chunkIndex = idx
      /\ e.data = data /\ e.sender = sender
  OBVIOUS
<1> HIDE DEF e
<1>4. /\ \A b \in 1..L : chain'[b] = chain[b]
      /\ chain'[L + 1].event = e
  <2>1. files \in [FileIds -> FileMetadata]
    BY <1>1 DEF TypeOK
  <2> QED BY <1>1, <1>2, <2>1, MineKeepsPrefix
<1>5. Announced(files, chain', L)
  BY <1>1, <1>4, AnnouncedByPrefix
<1>6. Announced(files, chain', L + 1)
  BY <1>1, <1>3, <1>4, <1>5, AnnouncedByOther
<1>7. ChunkAuthorised(chain', L + 1)
  <2>1. PICK a \in 1..L : Creates(chain', a, f)
    BY <1>2, <1>5 DEF CanUpload, Announced
  <2>2. files[f] = MetadataOf(chain'[a].event)
    BY <1>5, <2>1 DEF Announced
  <2>3. /\ chain'[a].event.owner = sender
        /\ idx < chain'[a].event.chunkCount
        /\ DataLength[data] \in 1..MaxChunkSize
    BY <1>2, <2>2 DEF CanUpload, MetadataOf
  <2> QED BY <1>1, <1>3, <1>4, <2>1, <2>3 DEF ChunkAuthorised
<1>8. files \in [FileIds -> FileMetadata]
  BY <1>1 DEF TypeOK
<1> QED BY <1>2, <1>3, <1>6, <1>7, <1>8, MineKeepsInv

(* A block without an event keeps the invariant.                            *)
LEMMA OtherKeepsInv == ASSUME IInv, OtherBlock PROVE IInv'
<1>1. TypeOK /\ Announced(files, chain, Len(chain)) /\ Len(chain) \in Nat
  BY DEF IInv, TypeOK, LastPost, PostsMatchLog
<1>2. Mine(NoEvent, files) /\ NoEvent.type = "None" /\ NoEvent \in Events
  BY DEF OtherBlock, NoEvent, Events
<1>3. files \in [FileIds -> FileMetadata]
  BY <1>1 DEF TypeOK
<1>4. /\ \A b \in 1..Len(chain) : chain'[b] = chain[b]
      /\ chain'[Len(chain) + 1].event = NoEvent
  BY <1>1, <1>2, <1>3, MineKeepsPrefix
<1>5. Announced(files, chain', Len(chain))
  BY <1>1, <1>4, AnnouncedByPrefix
<1>6. Announced(files, chain', Len(chain) + 1)
  BY <1>1, <1>2, <1>4, <1>5, AnnouncedByOther
<1> QED BY <1>2, <1>3, <1>6, MineKeepsInv

(* The programs call the contract with arguments of their own: the facts    *)
(* about a step hold for every call, not only for those Next explores.      *)
AnyCreate == \E f \in FileIds, name \in Names, size \in Nat, count \in Nat,
                sender \in Accounts : CreateFile(f, name, size, count, sender)

AnyUpload == \E f \in FileIds, idx \in Nat, data \in Payloads, sender \in Accounts :
                UploadChunk(f, idx, data, sender)

AnyNext == AnyCreate \/ AnyUpload \/ OtherBlock \/ SomeRollback

(* The calls TLC explores are calls with natural numbers.                   *)
LEMMA NextIsAnyNext == [Next]_chainVars => [AnyNext]_chainVars
<1>1. Sizes \subseteq Nat /\ ChunkCounts \subseteq Nat
  OBVIOUS
<1>2. SomeCreate => AnyCreate
  BY <1>1 DEF SomeCreate, AnyCreate
<1>3. SomeUpload => AnyUpload
  BY <1>1 DEF SomeUpload, AnyUpload
<1> QED BY <1>2, <1>3 DEF Next, AnyNext

(* Every step keeps the invariant.                                          *)
LEMMA NextKeepsInv == IInv /\ [AnyNext]_chainVars => IInv'
<1> SUFFICES ASSUME IInv, [AnyNext]_chainVars PROVE IInv'
  OBVIOUS
<1>1. CASE AnyCreate
  BY <1>1, CreateKeepsInv DEF AnyCreate
<1>2. CASE AnyUpload
  BY <1>2, UploadKeepsInv DEF AnyUpload
<1>3. CASE OtherBlock
  BY <1>3, OtherKeepsInv
<1>4. CASE SomeRollback
  BY <1>4, RollbackKeepsInv DEF SomeRollback
<1>5. CASE UNCHANGED chainVars
  BY <1>5 DEF chainVars, IInv, TypeOK, LastPost, PostsMatchLog, CreatedOnce,
              ChunksAuthorised
<1> QED BY <1>1, <1>2, <1>3, <1>4, <1>5 DEF AnyNext

(* The inductive invariant holds in every reachable state.                  *)
THEOREM InductiveInvariant == Spec => []IInv
  BY InitIInv, NextIsAnyNext, NextKeepsInv, PTL DEF Spec

(* The variables keep their types, whatever createFile and uploadChunk are  *)
(* called with and however deep the chain reorganises.                      *)
THEOREM TypeCorrect == Spec => []TypeOK
<1>1. IInv => TypeOK
  BY DEF IInv
<1> QED BY <1>1, InductiveInvariant, PTL

(* The event log always announces exactly the contract's mapping, so a      *)
(* reader of the events knows what getFile() would return.                  *)
THEOREM StorageIsTheLog == Spec => []StorageMatchesLog
<1>1. IInv => StorageMatchesLog
  BY DEF IInv, TypeOK, LastPost, PostsMatchLog, CreatedOnce, StorageMatchesLog
<1> QED BY <1>1, InductiveInvariant, PTL

(* Every chunk in the log was accepted from the creator of its file, for an *)
(* index and a length the file and the contract allow.                      *)
THEOREM AllChunksAuthorised == Spec => []ChunksAuthorised
<1>1. IInv => ChunksAuthorised
  BY DEF IInv
<1> QED BY <1>1, InductiveInvariant, PTL

(* A finalized creation is for ever: no step changes or removes the entry.  *)
THEOREM FinalMetadataStays == Spec => FinalMetadataForever
<1>1. ASSUME IInv, IInv', [Next]_chainVars,
             NEW f \in FileIds, NEW b \in 1..finalized, Creates(chain, b, f)
      PROVE  files'[f] = MetadataOf(chain[b].event)
  <2>1. Len(chain) \in Nat /\ b \in 1..Len(chain) /\ TypeOK
    BY <1>1 DEF IInv, TypeOK
  <2>2. b \in 1..Len(chain') /\ chain'[b] = chain[b]
    <3>1. CASE \E event \in Events, storage \in [FileIds -> FileMetadata] : Mine(event, storage)
      BY <2>1, <3>1, MineKeepsPrefix
    <3>2. CASE SomeRollback
      <4>1. PICK n \in finalized..(Len(chain) - 1) : Rollback(n)
        BY <3>2 DEF SomeRollback
      <4>2. Len(chain') = n /\ \A k \in 1..n : chain'[k] = chain[k]
        BY <2>1, <4>1, RollbackKeepsPrefix
      <4> QED BY <2>1, <4>1, <4>2 DEF TypeOK
    <3>3. CASE UNCHANGED chainVars
      BY <2>1, <3>3 DEF chainVars
    <3>4. SomeCreate => \E event \in Events, storage \in [FileIds -> FileMetadata] : Mine(event, storage)
      BY <2>1, CreateIsMine, Sizes \subseteq Nat, ChunkCounts \subseteq Nat DEF SomeCreate
    <3>5. SomeUpload => \E event \in Events, storage \in [FileIds -> FileMetadata] : Mine(event, storage)
      BY <2>1, UploadIsMine, ChunkCounts \subseteq Nat DEF SomeUpload, TypeOK
    <3>6. OtherBlock => \E event \in Events, storage \in [FileIds -> FileMetadata] : Mine(event, storage)
      BY <2>1 DEF OtherBlock, TypeOK, Events
    <3> QED BY <1>1, <3>1, <3>2, <3>3, <3>4, <3>5, <3>6 DEF Next
  <2>3. Creates(chain', b, f)
    BY <1>1, <2>2 DEF Creates
  <2>4. Announced(files', chain', Len(chain'))
    BY <1>1 DEF IInv, TypeOK, LastPost, PostsMatchLog
  <2>5. files'[f] = MetadataOf(chain'[b].event)
    BY <2>2, <2>3, <2>4 DEF Announced
  <2> QED BY <2>2, <2>5
<1>2. IInv /\ IInv' /\ [Next]_chainVars =>
        [\A f \in FileIds, b \in 1..finalized :
            Creates(chain, b, f) => files'[f] = MetadataOf(chain[b].event)]_chainVars
  BY <1>1
<1> QED BY <1>2, InductiveInvariant, PTL DEF Spec, FinalMetadataForever

-----------------------------------------------------------------------------
(* ChainFS implements the append-only ledger.  Two more facts are needed:   *)
(* the finalized blocks keep up with the chain, so a block makes one more   *)
(* final at most, and no step touches a block that is final.                *)

FinalizedKeepsUp == Len(chain) <= finalized + MaxReorg

(* No more than MaxReorg blocks ever wait to become final.                  *)
LEMMA NextKeepsUp ==
    TypeOK /\ FinalizedKeepsUp /\ [AnyNext]_chainVars => FinalizedKeepsUp'
<1> SUFFICES ASSUME TypeOK, FinalizedKeepsUp, [AnyNext]_chainVars
             PROVE  FinalizedKeepsUp'
  OBVIOUS
<1>1. Len(chain) \in Nat /\ finalized \in Nat /\ chain \in Seq(Block)
  BY DEF TypeOK
<1>2. CASE \E event, storage : Mine(event, storage)
  <2>1. Len(chain') = Len(chain) + 1
    BY <1>1, <1>2 DEF Mine
  <2> QED BY <1>1, <1>2, <2>1 DEF Mine, FinalizedKeepsUp
<1>3. CASE SomeRollback
  <2>1. PICK n \in finalized..(Len(chain) - 1) : Rollback(n)
    BY <1>3 DEF SomeRollback
  <2>2. Len(chain') = n /\ finalized' = finalized
    BY <2>1, RollbackKeepsPrefix DEF Rollback
  <2> QED BY <1>1, <2>1, <2>2 DEF FinalizedKeepsUp
<1>4. CASE UNCHANGED chainVars
  BY <1>4 DEF chainVars, FinalizedKeepsUp
<1>5. AnyCreate \/ AnyUpload \/ OtherBlock => \E event, storage : Mine(event, storage)
  BY DEF AnyCreate, AnyUpload, CreateFile, UploadChunk, OtherBlock
<1> QED BY <1>2, <1>3, <1>4, <1>5 DEF AnyNext

(* A step keeps the final blocks and makes one more of them final at most.  *)
LEMMA FinalBlocksStay ==
    ASSUME TypeOK, FinalizedKeepsUp, [AnyNext]_chainVars
    PROVE  /\ finalized' \in {finalized, finalized + 1}
           /\ \A b \in 1..finalized : chain'[b] = chain[b]
<1>1. Len(chain) \in Nat /\ finalized \in 0..Len(chain)
  BY DEF TypeOK
<1>2. CASE \E event \in Events, storage \in [FileIds -> FileMetadata] : Mine(event, storage)
  <2>1. \A b \in 1..Len(chain) : chain'[b] = chain[b]
    BY <1>2, MineKeepsPrefix
  <2>2. finalized' \in {finalized, finalized + 1}
    BY <1>1, <1>2 DEF Mine, FinalizedKeepsUp
  <2> QED BY <1>1, <2>1, <2>2
<1>3. CASE SomeRollback
  <2>1. PICK n \in finalized..(Len(chain) - 1) : Rollback(n)
    BY <1>3 DEF SomeRollback
  <2>2. finalized' = finalized /\ \A b \in 1..n : chain'[b] = chain[b]
    BY <2>1, RollbackKeepsPrefix DEF Rollback
  <2> QED BY <1>1, <2>1, <2>2
<1>4. CASE UNCHANGED chainVars
  BY <1>4 DEF chainVars
<1>5. AnyCreate \/ AnyUpload \/ OtherBlock =>
        \E event \in Events, storage \in [FileIds -> FileMetadata] : Mine(event, storage)
  <2>1. AnyCreate => \E event \in Events, storage \in [FileIds -> FileMetadata] : Mine(event, storage)
    BY CreateIsMine DEF AnyCreate
  <2>2. AnyUpload => \E event \in Events, storage \in [FileIds -> FileMetadata] : Mine(event, storage)
    BY UploadIsMine DEF AnyUpload, TypeOK
  <2>3. OtherBlock => \E event \in Events, storage \in [FileIds -> FileMetadata] : Mine(event, storage)
    BY DEF OtherBlock, TypeOK, Events
  <2> QED BY <2>1, <2>2, <2>3
<1> QED BY <1>2, <1>3, <1>4, <1>5 DEF AnyNext

(* The event of a block that becomes final is legal in the ledger so far.   *)
LEMMA PublishesOrStays ==
    ASSUME TypeOK, IInv',
           finalized' \in {finalized, finalized + 1},
           \A b \in 1..finalized : chain'[b] = chain[b]
    PROVE  Ledger!Publish \/ UNCHANGED FinalEvents
<1> DEFINE F == finalized
           e == chain'[F + 1].event
<1>1. F \in Nat /\ F <= Len(chain) /\ Len(chain') \in Nat /\ finalized' \in 0..Len(chain')
  BY DEF TypeOK, IInv
<1>2. CASE finalized' = F
  BY <1>2 DEF FinalEvents
<1>3. CASE finalized' = F + 1
  <2>1. F + 1 \in 1..Len(chain') /\ chain'[F + 1] \in Block
    BY <1>1, <1>3 DEF IInv, TypeOK
  <2>2. e \in Events
    BY <2>1 DEF Block
  <2>3. \A b \in 1..F : chain[b] \in Block
    BY <1>1 DEF TypeOK
  <2>4. FinalEvents \in Seq(Events) /\ Len(FinalEvents) = F
    BY <1>1, <2>3 DEF FinalEvents, Block
  <2>5. \A b \in 1..F : FinalEvents[b] = chain'[b].event
    BY DEF FinalEvents
  <2>6. FinalEvents' = [b \in 1..(F + 1) |-> chain'[b].event]
    BY <1>3 DEF FinalEvents
  <2> DEFINE A == Append(FinalEvents, e)
  <2>7. A \in Seq(Events) /\ Len(A) = F + 1 /\ A[F + 1] = e
        /\ \A b \in 1..F : A[b] = FinalEvents[b]
    BY <1>1, <2>2, <2>4
  <2>8. FinalEvents' = Append(FinalEvents, e)
    <3>1. A = [b \in 1..(F + 1) |-> A[b]]
      BY <1>1, <2>7
    <3>2. \A b \in 1..(F + 1) : A[b] = chain'[b].event
      BY <1>1, <2>5, <2>7
    <3> QED BY <2>6, <3>1, <3>2
  <2>9. Len(FinalEvents') = F + 1 /\ FinalEvents'[F + 1] = e
    BY <2>7, <2>8
  <2>10. ASSUME e.type = "FileCreated", NEW b \in 1..F, Ledger!CreatedAt(b, e.fileId)
         PROVE  FALSE
    <3>1. Creates(chain', b, e.fileId) /\ Creates(chain', F + 1, e.fileId)
      BY <2>5, <2>10 DEF Ledger!CreatedAt, Creates
    <3>2. e.fileId \in FileIds
      BY <2>2, <2>10 DEF Events, FileCreated, ChunkUploaded, NoEvent
    <3>3. b \in 1..Len(chain')
      BY <1>1, <2>1
    <3> QED BY <1>1, <2>1, <3>1, <3>2, <3>3 DEF IInv, CreatedOnce
  <2>11. ASSUME e.type = "ChunkUploaded"
         PROVE  \E b \in 1..F :
                  /\ Ledger!CreatedAt(b, e.fileId)
                  /\ FinalEvents[b].owner = e.sender
                  /\ e.chunkIndex < FinalEvents[b].chunkCount
                  /\ DataLength[e.data] \in 1..MaxChunkSize
    <3>1. ChunkAuthorised(chain', F + 1)
      BY <2>1, <2>11 DEF IInv, ChunksAuthorised, Uploads
    <3>2. PICK a \in 1..F :
            /\ Creates(chain', a, e.fileId)
            /\ chain'[a].event.owner = e.sender
            /\ e.chunkIndex < chain'[a].event.chunkCount
            /\ DataLength[e.data] \in 1..MaxChunkSize
      BY <1>1, <3>1 DEF ChunkAuthorised
    <3> QED BY <2>5, <3>2 DEF Ledger!CreatedAt, Creates
  <2>12. Ledger!Legal(e)
    BY <2>4, <2>10, <2>11 DEF Ledger!Legal
  <2> QED BY <2>2, <2>4, <2>8, <2>9, <2>12 DEF Ledger!Publish
<1> QED BY <1>2, <1>3

(* What the programs' proofs need of the chain.                             *)
ChainInv == IInv /\ FinalizedKeepsUp /\ Len(chain) <= MaxBlocks

(* The chain stays within its bound.                                        *)
LEMMA NextKeepsLength ==
    TypeOK /\ Len(chain) <= MaxBlocks /\ [AnyNext]_chainVars => Len(chain') <= MaxBlocks
<1> SUFFICES ASSUME TypeOK, Len(chain) <= MaxBlocks, [AnyNext]_chainVars
             PROVE  Len(chain') <= MaxBlocks
  OBVIOUS
<1>1. Len(chain) \in Nat /\ chain \in Seq(Block)
  BY DEF TypeOK
<1>2. CASE \E event, storage : Mine(event, storage)
  BY <1>1, <1>2 DEF Mine
<1>3. CASE SomeRollback
  <2>1. PICK n \in finalized..(Len(chain) - 1) : Rollback(n)
    BY <1>3 DEF SomeRollback
  <2> QED BY <1>1, <2>1, RollbackKeepsPrefix
<1>4. CASE UNCHANGED chainVars
  BY <1>4 DEF chainVars
<1>5. AnyCreate \/ AnyUpload \/ OtherBlock => \E event, storage : Mine(event, storage)
  BY DEF AnyCreate, AnyUpload, CreateFile, UploadChunk, OtherBlock
<1> QED BY <1>2, <1>3, <1>4, <1>5 DEF AnyNext

(* Every step of a program leaves the chain or moves it by Next, and so     *)
(* keeps the facts above; the final blocks only become more.                *)
LEMMA ChainInvStarts == Init => ChainInv
  BY InitIInv DEF Init, ChainInv, FinalizedKeepsUp

(* What a step may do to the chain: one more final block at most, and none  *)
(* changed.                                                                 *)
LEMMA ChainInvSteps ==
    ASSUME ChainInv, [AnyNext]_chainVars
    PROVE  /\ ChainInv'
           /\ finalized \in 0..Len(chain) /\ finalized' \in 0..Len(chain')
           /\ Len(chain) \in 0..MaxBlocks /\ Len(chain') \in 0..MaxBlocks
           /\ Len(chain) - MaxReorg <= finalized
           /\ finalized' \in {finalized, finalized + 1}
           /\ \A b \in 1..finalized : chain'[b] = chain[b]
<1>1. TypeOK
  BY DEF ChainInv, IInv
<1>2. IInv' /\ FinalizedKeepsUp' /\ Len(chain') <= MaxBlocks
  BY <1>1, NextKeepsInv, NextKeepsUp, NextKeepsLength DEF ChainInv
<1>3. TypeOK'
  BY <1>2 DEF IInv
<1>4. Len(chain) \in Nat /\ Len(chain') \in Nat
  BY <1>1, <1>3 DEF TypeOK
<1> QED BY <1>1, <1>2, <1>3, <1>4, FinalBlocksStay DEF ChainInv, TypeOK, FinalizedKeepsUp

(* A chunk of the log is of a file the contract has, for an index its       *)
(* metadata expect, and was sent by its owner.                              *)
LEMMA LoggedChunksAreExpected ==
    ASSUME IInv, NEW b \in 1..Len(chain), Uploads(chain, b)
    PROVE  /\ chain[b].event \in ChunkUploaded
           /\ files[chain[b].event.fileId].exists
           /\ chain[b].event.chunkIndex < files[chain[b].event.fileId].chunkCount
           /\ chain[b].event.sender = files[chain[b].event.fileId].owner
<1> DEFINE e == chain[b].event
<1>1. TypeOK /\ Announced(files, chain, Len(chain)) /\ Len(chain) \in Nat
  BY DEF IInv, TypeOK, LastPost, PostsMatchLog
<1>2. chain[b] \in Block /\ e.type = "ChunkUploaded"
  BY <1>1 DEF TypeOK, Uploads
<1>3. e \in ChunkUploaded /\ e.fileId \in FileIds
  BY <1>2 DEF Block, Events, FileCreated, ChunkUploaded, NoEvent
<1>4. ChunkAuthorised(chain, b)
  BY DEF IInv, ChunksAuthorised
<1>5. PICK a \in 1..(b - 1) :
        /\ Creates(chain, a, e.fileId)
        /\ chain[a].event.owner = e.sender
        /\ e.chunkIndex < chain[a].event.chunkCount
  BY <1>4 DEF ChunkAuthorised
<1>6. a \in 1..Len(chain)
  BY <1>1, <1>5
<1>7. files[e.fileId].exists /\ files[e.fileId] = MetadataOf(chain[a].event)
  BY <1>1, <1>3, <1>5, <1>6 DEF Announced
<1> QED BY <1>3, <1>5, <1>7 DEF MetadataOf

(* A step that drops no block changes no metadata the contract has.         *)
LEMMA MetadataStays ==
    ASSUME IInv, IInv', NEW f \in FileIds, files[f].exists,
           Len(chain) <= Len(chain'), \A b \in 1..Len(chain) : chain'[b] = chain[b]
    PROVE  files'[f] = files[f]
<1>1. /\ Announced(files, chain, Len(chain)) /\ Len(chain) \in Nat
      /\ Announced(files', chain', Len(chain')) /\ Len(chain') \in Nat
  BY DEF IInv, TypeOK, LastPost, PostsMatchLog
<1>2. PICK b \in 1..Len(chain) : Creates(chain, b, f)
  BY <1>1 DEF Announced
<1>3. b \in 1..Len(chain') /\ Creates(chain', b, f)
  BY <1>1, <1>2 DEF Creates
<1>4. files[f] = MetadataOf(chain[b].event)
  BY <1>1, <1>2 DEF Announced
<1>5. files'[f] = MetadataOf(chain'[b].event)
  BY <1>1, <1>3 DEF Announced
<1> QED BY <1>4, <1>5

(* Without reorganisations the blocks stay and the metadata with them.      *)
LEMMA NothingIsDropped ==
    ASSUME ChainInv, [AnyNext]_chainVars, MaxReorg = 0
    PROVE  /\ Len(chain) \in Nat /\ Len(chain') \in Nat /\ Len(chain) <= Len(chain')
           /\ \A b \in 1..Len(chain) : chain'[b] = chain[b]
           /\ \A f \in FileIds : files[f].exists => files'[f] = files[f]
<1>1. ChainInv'
  BY ChainInvSteps
<1>2. /\ Len(chain) \in Nat /\ Len(chain') \in Nat
      /\ finalized \in 0..Len(chain) /\ finalized' \in 0..Len(chain')
      /\ finalized = Len(chain) /\ finalized' \in {finalized, finalized + 1}
      /\ \A b \in 1..finalized : chain'[b] = chain[b]
  BY ChainInvSteps
<1>3. Len(chain) <= Len(chain') /\ \A b \in 1..Len(chain) : chain'[b] = chain[b]
  BY <1>2
<1> QED BY <1>1, <1>2, <1>3, MetadataStays DEF ChainInv

(* A set of numbers that is not empty has a least one.                      *)
LEMMA LeastNumber ==
    ASSUME NEW S \in SUBSET Nat, S # {}
    PROVE  \E m \in S : \A n \in S : ~(n < m)
<1> DEFINE R == {ss \in Nat \X Nat : ss[1] < ss[2]}
<1>1. IsWellFoundedOn(R, Nat)
  BY NatLessThanWellFounded DEF OpToRel
<1> HIDE DEF R
<1>2. \E m \in S : \A n \in S : <<n, m>> \notin R
  BY <1>1, WFMin
<1> QED BY <1>2 DEF R

(* A bounded one that is not empty has a greatest one.                      *)
LEMMA GreatestNumber ==
    ASSUME NEW n \in Nat, NEW S \in SUBSET (0..n), S # {}
    PROVE  \E m \in S : \A k \in S : k <= m
<1> DEFINE T == {n - k : k \in S}
<1>0. \A k \in S : n - k \in Nat
  OBVIOUS
<1>1. T \in SUBSET Nat /\ T # {}
  BY <1>0
<1> HIDE DEF T
<1>2. PICK t \in T : \A q \in T : ~(q < t)
  BY <1>1, LeastNumber
<1> USE DEF T
<1>3. PICK m \in S : t = n - m
  BY <1>2
<1>4. \A k \in S : ~(n - k < n - m)
  BY <1>2, <1>3
<1> QED BY <1>4

(* Waiting for finality turns the reorganising chain into the append-only   *)
(* ledger: every step publishes one legal event or leaves it as it is.      *)
THEOREM FinalBlocksAreALedger == Spec => ImplementsLedger
<1>1. Init => Ledger!LedgerInit
  BY DEF Init, FinalEvents, Ledger!LedgerInit
<1>2. Init => FinalizedKeepsUp
  BY DEF Init, FinalizedKeepsUp
<1>3. IInv => TypeOK
  BY DEF IInv
<1>4. Spec => []FinalizedKeepsUp
  BY <1>2, <1>3, NextKeepsUp, NextIsAnyNext, InductiveInvariant, PTL DEF Spec
<1>5. IInv /\ IInv' /\ FinalizedKeepsUp /\ [Next]_chainVars
        => [Ledger!Publish]_FinalEvents
  BY <1>3, NextIsAnyNext, FinalBlocksStay, PublishesOrStays
<1> QED BY <1>1, <1>4, <1>5, InductiveInvariant, PTL
        DEF Spec, ImplementsLedger, Ledger!LedgerSpec

-----------------------------------------------------------------------------
(* Numbers that rise from each of n places to the next, below n, are the    *)
(* places themselves: what the clients that sort chunks by index rely on.   *)
LEMMA RisingIsCounting ==
    ASSUME NEW n \in Nat, NEW g \in [1..n -> 0..(n - 1)],
           \A i, j \in 1..n : i < j => g[i] < g[j]
    PROVE  \A i \in 1..n : g[i] = i - 1
<1>1. \A i \in 1..n : g[i] >= i - 1
  <2> DEFINE T == {i \in 1..n : g[i] < i - 1}
  <2>0. \A i \in 1..n : ~(g[i] < i - 1) => g[i] >= i - 1
    OBVIOUS
  <2> SUFFICES ASSUME T # {} PROVE FALSE
    BY <2>0
  <2>1. T \in SUBSET Nat
    OBVIOUS
  <2> HIDE DEF T
  <2>2. PICK m \in T : \A k \in T : ~(k < m)
    BY <2>1, LeastNumber
  <2>3. m \in 1..n /\ g[m] < m - 1
    BY <2>2 DEF T
  <2>4. m - 1 \in 1..n /\ m - 1 \notin T
    BY <2>2, <2>3
  <2>5. ~(g[m - 1] < (m - 1) - 1)
    BY <2>4 DEF T
  <2>6. g[m - 1] < g[m]
    BY <2>3, <2>4
  <2> QED BY <2>3, <2>4, <2>5, <2>6
<1>2. \A i \in 1..n : g[i] <= i - 1
  <2> DEFINE T == {i \in 1..n : g[i] > i - 1}
  <2> SUFFICES ASSUME T # {} PROVE FALSE
    OBVIOUS
  <2>1. T \in SUBSET (0..n)
    OBVIOUS
  <2> HIDE DEF T
  <2>2. PICK m \in T : \A k \in T : k <= m
    BY <2>1, GreatestNumber
  <2>3. m \in 1..n /\ g[m] > m - 1
    BY <2>2 DEF T
  <2>4. m + 1 \in 1..n /\ m + 1 \notin T
    BY <2>2, <2>3
  <2>5. ~(g[m + 1] > (m + 1) - 1)
    BY <2>4 DEF T
  <2>6. g[m] < g[m + 1]
    BY <2>3, <2>4
  <2> QED BY <2>3, <2>4, <2>5, <2>6
<1> QED BY <1>1, <1>2
=============================================================================
