--------------------------- MODULE StorageBotProofs ---------------------------
(* Proofs about StorageBot for every value of its constants: any runs,      *)
(* wallets, contents, chunk sizes and numbers of attempts.                  *)
EXTENDS StorageBot, ChainFSProofs, FiniteSetTheorems

USE ConstantsAssumption, UploadAssumption, NoTxAssumption

-----------------------------------------------------------------------------
(* What is true of a run, and of everything it has sent.  A step and an     *)
(* attempt are used once, and a transaction never comes from a later one.   *)

UpState ==
    [pc: {"prepare", "send", "wait"} \cup Ended, step: Nat, attempt: 1..MaxAttempts,
     nonce: 0..MaxBlocks, tx: Transactions \cup {NoTx}]

UpOK(u, s) ==
    /\ s.step <= LastStep(u)
    /\ s.step = 0 => s.attempt = 1
    /\ s.tx # NoTx <=> s.pc = "wait"
    /\ s.pc = "wait" => s.tx.by = u /\ s.tx.step = s.step
    /\ s.pc = "done" => s.step = LastStep(u)

UpsInv ==
    /\ up \in [Uploaders -> UpState]
    /\ \A u \in Uploaders : UpOK(u, up[u])

Before(t, s) ==
    \/ t.step < s.step
    \/ t.step = s.step /\ t.attempt < s.attempt
    \/ t.step = s.step /\ t.attempt = s.attempt /\ s.pc \notin {"prepare", "send"}

SameTry(t, w) == t.by = w.by /\ t.step = w.step /\ t.attempt = w.attempt

Known(m, r) == m \cup {r[b].tx : b \in 1..Len(r)}

KnownOK(known, ups) ==
    /\ \A t \in known : Before(t, ups[t.by]) /\ (t.step = 0 => t.attempt = 1)
    /\ \A t, w \in known : SameTry(t, w) => t = w

-----------------------------------------------------------------------------
(* What is true of the network: a block has the event of its transaction,   *)
(* or none if that reverted, and the transactions of an account are mined   *)
(* in the order of their nonces.                                            *)

Receipt == [tx: Transactions, ok: BOOLEAN]

EventOf(t) ==
    IF t.step = 0
    THEN [type |-> "FileCreated", fileId |-> Upload[t.by].fileId, name |-> Upload[t.by].name,
          size |-> Upload[t.by].size, chunkCount |-> LastStep(t.by), owner |-> t.from]
    ELSE [type |-> "ChunkUploaded", fileId |-> Upload[t.by].fileId,
          chunkIndex |-> t.step - 1, data |-> Chunks[t.by][t.step], sender |-> t.from]

EventMatches(event, r) == event = IF r.ok THEN EventOf(r.tx) ELSE NoEvent

CountFrom(r, n, account) == Cardinality({b \in 1..n : r[b].tx.from = account})

ReceiptsOK(c, r) ==
    /\ r \in Seq(Receipt)
    /\ Len(r) = Len(c)
    /\ \A b \in 1..Len(r) : /\ EventMatches(c[b].event, r[b])
                            /\ r[b].tx.nonce = CountFrom(r, b - 1, r[b].tx.from)

NetInv ==
    /\ mempool \subseteq Transactions
    /\ ReceiptsOK(chain, receipts)
    /\ KnownOK(Known(mempool, receipts), up)

-----------------------------------------------------------------------------
(* What is true besides on a chain that does not reorganise: a run has a    *)
(* receipt for every step it is past, and so has whoever is mined for the   *)
(* steps before.                                                            *)

PaidBelow(r, n, u, k) ==
    \E b \in 1..n : r[b].ok /\ r[b].tx.by = u /\ r[b].tx.step = k

Past(s) == IF s.pc = "done" THEN s.step ELSE s.step - 1

PaidInv ==
    /\ \A u \in Uploaders : \A k \in 0..Past(up[u]) : PaidBelow(receipts, Len(receipts), u, k)
    /\ \A b \in 1..Len(receipts) : \A k \in 0..(receipts[b].tx.step - 1) :
            PaidBelow(receipts, b - 1, receipts[b].tx.by, k)

UploadInv == ChainInv /\ UpsInv /\ NetInv /\ (MaxReorg = 0 => PaidInv)

-----------------------------------------------------------------------------
(* Constants and counting.                                                  *)

(* The slices of a content are payloads, as many as the contract is told.   *)
LEMMA ChunksAreChunks ==
    ASSUME NEW u \in Uploaders
    PROVE  /\ LastStep(u) \in Nat /\ DOMAIN Chunks[u] = 1..LastStep(u)
           /\ \A i \in 1..LastStep(u) : Chunks[u][i] \in Payloads
<1> DEFINE c == Chunks[u]
           n == (Len(Upload[u].data) + InitialChunkSize - 1) \div InitialChunkSize
<1>1. n \in Nat
  <2>1. Len(Upload[u].data) \in Nat \ {0} /\ InitialChunkSize \in Nat \ {0}
    OBVIOUS
  <2>2. \A a \in Nat, b \in Nat \ {0} : a \div b \in Nat
    OBVIOUS
  <2>3. Len(Upload[u].data) + InitialChunkSize - 1 \in Nat
    BY <2>1
  <2> QED BY <2>1, <2>2, <2>3
<1> HIDE DEF n
<1>2. DOMAIN c = 1..n /\ c = [i \in DOMAIN c |-> c[i]]
  BY DEF Chunks, SplitChunks, n
<1>3. \A i \in DOMAIN c : c[i] \in Payloads
  OBVIOUS
<1> HIDE DEF c
<1>4. c \in [1..n -> Payloads]
  BY <1>2, <1>3
<1>5. c \in Seq(Payloads)
  BY <1>1, <1>4
<1>6. Len(c) = n
  BY <1>1, <1>2, <1>5
<1> QED BY <1>1, <1>2, <1>3, <1>6 DEF LastStep, c

(* A transaction is known by its run, its nonce, its step and its attempt.  *)
LEMMA TransactionType ==
    ASSUME NEW t \in Transactions
    PROVE  /\ t.by \in Uploaders /\ t.from = Upload[t.by].account /\ t.from \in Accounts
           /\ t.nonce \in 0..MaxBlocks /\ t.attempt \in 1..MaxAttempts
           /\ t.step \in Nat
<1>1. \A v \in Uploaders : LastStep(v) \in Nat
  BY ChunksAreChunks
<1>2. UNION {0..LastStep(v) : v \in Uploaders} \subseteq Nat
  BY <1>1
<1> QED BY <1>2 DEF Transactions

(* A count of receipts is a number no larger than that of the blocks.       *)
LEMMA CountType ==
    ASSUME NEW r, NEW n \in Nat, NEW account
    PROVE  /\ CountFrom(r, n, account) \in 0..n
           /\ IsFiniteSet({b \in 1..n : r[b].tx.from = account})
<1> DEFINE S == {b \in 1..n : r[b].tx.from = account}
<1>1. IsFiniteSet(1..n) /\ Cardinality(1..n) = n
  BY FS_Interval
<1>2. S \in SUBSET (1..n)
  OBVIOUS
<1>3. IsFiniteSet(S) /\ Cardinality(S) <= n
  BY <1>1, <1>2, FS_Subset
<1>4. Cardinality(S) \in Nat
  BY <1>3, FS_CardinalityType
<1> QED BY <1>3, <1>4 DEF CountFrom

(* The receipts of an account have different nonces, in ascending order.    *)
LEMMA NoncesAscend ==
    ASSUME NEW c, NEW r, ReceiptsOK(c, r), NEW a \in 1..Len(r), NEW b \in 1..Len(r),
           a < b, r[a].tx.from = r[b].tx.from
    PROVE  r[a].tx.nonce < r[b].tx.nonce
<1> DEFINE x == r[a].tx.from
           S == {k \in 1..(a - 1) : r[k].tx.from = x}
           T == {k \in 1..(b - 1) : r[k].tx.from = x}
<1>1. a \in Nat /\ b \in Nat /\ a - 1 \in Nat /\ b - 1 \in Nat
  BY DEF ReceiptsOK
<1>2. S \in SUBSET T /\ a \in T /\ a \notin S
  BY <1>1
<1>3. IsFiniteSet(T)
  <2>1. b - 1 \in Int /\ 1 \in Int
    BY <1>1
  <2>2. IsFiniteSet(1..(b - 1))
    BY ONLY <2>1, FS_Interval
  <2>3. T \in SUBSET (1..(b - 1))
    OBVIOUS
  <2> QED BY <2>2, <2>3, FS_Subset
<1>4. Cardinality(S) <= Cardinality(T) /\ Cardinality(S) # Cardinality(T)
  BY <1>2, <1>3, FS_Subset
<1>5. IsFiniteSet(S)
  BY <1>2, <1>3, FS_Subset
<1>6. Cardinality(S) \in Nat /\ Cardinality(T) \in Nat
  BY <1>3, <1>5, FS_CardinalityType
<1>7. r[a].tx.nonce = Cardinality(S) /\ r[b].tx.nonce = Cardinality(T)
  BY DEF ReceiptsOK, CountFrom
<1> QED BY <1>4, <1>6, <1>7

(* No transaction is mined twice on one chain.                              *)
LEMMA MinedOnce ==
    ASSUME NEW c, NEW r, ReceiptsOK(c, r), NEW a \in 1..Len(r), NEW b \in 1..Len(r),
           r[a].tx = r[b].tx
    PROVE  a = b
<1>1. r \in Seq(Receipt) /\ r[a] \in Receipt /\ a \in Nat /\ b \in Nat
  BY DEF ReceiptsOK
<1>2. r[a].tx.nonce \in Nat
  BY <1>1, TransactionType DEF Receipt
<1>3. ~(a < b)
  BY <1>2, NoncesAscend
<1>4. ~(b < a)
  BY <1>2, NoncesAscend
<1> QED BY <1>1, <1>3, <1>4

-----------------------------------------------------------------------------
(* What each step of a run makes of its state.                              *)

UpSet(u, s) ==
    /\ up' = [up EXCEPT ![u] = s]
    /\ s \in UpState /\ UpOK(u, s)

(* What is known of a run.                                                  *)
LEMMA UpType ==
    ASSUME UpsInv, NEW u \in Uploaders
    PROVE  /\ up \in [Uploaders -> UpState] /\ up[u] \in UpState /\ UpOK(u, up[u])
           /\ up[u].step \in 0..LastStep(u) /\ LastStep(u) \in Nat
           /\ up[u].attempt \in 1..MaxAttempts /\ MaxAttempts \in Nat \ {0}
<1>1. up \in [Uploaders -> UpState] /\ up[u] \in UpState /\ UpOK(u, up[u])
  BY DEF UpsInv
<1>2. LastStep(u) \in Nat
  BY ChunksAreChunks
<1>3. up[u].step \in Nat /\ up[u].step <= LastStep(u) /\ up[u].attempt \in 1..MaxAttempts
  BY <1>1 DEF UpState, UpOK
<1>4. MaxAttempts \in Nat \ {0}
  OBVIOUS
<1> QED BY <1>1, <1>2, <1>3, <1>4

(* An exception ends the attempt: the next one of this step, or the end.    *)
LEMMA FailedAttempt ==
    ASSUME UpsInv, NEW u \in Uploaders, up[u].pc \in {"prepare", "send", "wait"},
           FailAttempt(u)
    PROVE  \E s : /\ UpSet(u, s) /\ s.step = up[u].step
                  /\ \/ s.pc = "prepare" /\ s.attempt = up[u].attempt + 1
                     \/ s.pc = "failed" /\ s.attempt = up[u].attempt
<1>1. /\ up \in [Uploaders -> UpState] /\ up[u] \in UpState /\ UpOK(u, up[u])
      /\ up[u].step \in 0..LastStep(u) /\ LastStep(u) \in Nat
      /\ up[u].attempt \in 1..MaxAttempts /\ MaxAttempts \in Nat \ {0}
  BY UpType
<1>2. CASE up[u].step > 0 /\ up[u].attempt < MaxAttempts
  <2> DEFINE s1 == [up[u] EXCEPT !.pc = "prepare"]
             s2 == [s1 EXCEPT !.tx = NoTx]
             s3 == [s2 EXCEPT !.attempt = up[u].attempt + 1]
  <2>1. up' = [up EXCEPT ![u] = s3]
    BY <1>1, <1>2 DEF FailAttempt, NextAttempt, UpState
  <2>2. s1 \in UpState /\ s1.pc = "prepare" /\ s1.step = up[u].step
        /\ s1.attempt = up[u].attempt
    BY <1>1 DEF UpState
  <2> HIDE DEF s1
  <2>3. s2 \in UpState /\ s2.pc = "prepare" /\ s2.step = up[u].step /\ s2.tx = NoTx
        /\ s2.attempt = up[u].attempt
    BY <2>2 DEF UpState
  <2> HIDE DEF s2
  <2>4. up[u].attempt + 1 \in 1..MaxAttempts
    BY <1>1, <1>2
  <2>5. s3 \in UpState /\ s3.pc = "prepare" /\ s3.step = up[u].step /\ s3.tx = NoTx
        /\ s3.attempt = up[u].attempt + 1
    BY <2>3, <2>4 DEF UpState
  <2> HIDE DEF s3
  <2>6. UpOK(u, s3)
    BY <1>1, <1>2, <2>5 DEF UpOK
  <2> QED BY <2>1, <2>5, <2>6 DEF UpSet
<1>3. CASE ~(up[u].step > 0 /\ up[u].attempt < MaxAttempts)
  <2> DEFINE s1 == [up[u] EXCEPT !.pc = "failed"]
             s2 == [s1 EXCEPT !.tx = NoTx]
  <2>1. up' = [up EXCEPT ![u] = s2]
    BY <1>1, <1>3 DEF FailAttempt, GiveUp, UpState
  <2>2. s1 \in UpState /\ s1.pc = "failed" /\ s1.step = up[u].step
        /\ s1.attempt = up[u].attempt
    BY <1>1 DEF UpState, Ended
  <2> HIDE DEF s1
  <2>3. s2 \in UpState /\ s2.pc = "failed" /\ s2.step = up[u].step /\ s2.tx = NoTx
        /\ s2.attempt = up[u].attempt
    BY <2>2 DEF UpState
  <2> HIDE DEF s2
  <2>4. UpOK(u, s2)
    BY <1>1, <2>3 DEF UpOK
  <2> QED BY <2>1, <2>3, <2>4 DEF UpSet
<1> QED BY <1>2, <1>3

(* A transaction that succeeded is followed by the next step, or by none.   *)
LEMMA AdvanceEffect ==
    ASSUME UpsInv, NEW u \in Uploaders, Advance(u)
    PROVE  \E s : /\ UpSet(u, s)
                  /\ \/ s.pc = "prepare" /\ s.step = up[u].step + 1 /\ s.attempt = 1
                     \/ s.pc = "done" /\ s.step = up[u].step /\ s.attempt = up[u].attempt
<1>1. /\ up \in [Uploaders -> UpState] /\ up[u] \in UpState /\ UpOK(u, up[u])
      /\ up[u].step \in 0..LastStep(u) /\ LastStep(u) \in Nat
      /\ up[u].attempt \in 1..MaxAttempts /\ MaxAttempts \in Nat \ {0}
  BY UpType
<1>2. CASE up[u].step = LastStep(u)
  <2> DEFINE s1 == [up[u] EXCEPT !.pc = "done"]
             s2 == [s1 EXCEPT !.tx = NoTx]
  <2>1. up' = [up EXCEPT ![u] = s2]
    BY <1>1, <1>2 DEF Advance, UpState
  <2>2. s1 \in UpState /\ s1.pc = "done" /\ s1.step = up[u].step
        /\ s1.attempt = up[u].attempt
    BY <1>1 DEF UpState, Ended
  <2> HIDE DEF s1
  <2>3. s2 \in UpState /\ s2.pc = "done" /\ s2.step = up[u].step /\ s2.tx = NoTx
        /\ s2.attempt = up[u].attempt
    BY <2>2 DEF UpState
  <2> HIDE DEF s2
  <2>4. UpOK(u, s2)
    BY <1>1, <1>2, <2>3 DEF UpOK
  <2> QED BY <2>1, <2>3, <2>4 DEF UpSet
<1>3. CASE up[u].step # LastStep(u)
  <2> DEFINE s1 == [up[u] EXCEPT !.pc = "prepare"]
             s2 == [s1 EXCEPT !.step = up[u].step + 1]
             s3 == [s2 EXCEPT !.attempt = 1]
             s4 == [s3 EXCEPT !.tx = NoTx]
  <2>1. up' = [up EXCEPT ![u] = s4]
    BY <1>1, <1>3 DEF Advance, UpState
  <2>2. s1 \in UpState /\ s1.pc = "prepare"
    BY <1>1 DEF UpState
  <2> HIDE DEF s1
  <2>8. up[u].step + 1 \in Nat /\ 1 \in 1..MaxAttempts
    BY <1>1
  <2>3. s2 \in UpState /\ s2.pc = "prepare" /\ s2.step = up[u].step + 1
    BY <2>8, <2>2 DEF UpState
  <2> HIDE DEF s2
  <2>4. s3 \in UpState /\ s3.pc = "prepare" /\ s3.step = up[u].step + 1 /\ s3.attempt = 1
    BY <2>8, <2>3 DEF UpState
  <2> HIDE DEF s3
  <2>5. s4 \in UpState /\ s4.pc = "prepare" /\ s4.step = up[u].step + 1 /\ s4.attempt = 1
        /\ s4.tx = NoTx
    BY <2>4 DEF UpState
  <2> HIDE DEF s4
  <2>6. up[u].step + 1 <= LastStep(u) /\ up[u].step + 1 # 0
    BY <1>1, <1>3
  <2>7. UpOK(u, s4)
    BY <2>5, <2>6 DEF UpOK
  <2> QED BY <2>1, <2>5, <2>7 DEF UpSet
<1> QED BY <1>2, <1>3

(* Every run, nonce, step and attempt within the bounds make a transaction. *)
LEMMA IsTransaction ==
    ASSUME NEW u \in Uploaders, NEW n \in 0..MaxBlocks, NEW a \in 1..MaxAttempts,
           NEW s \in UNION {0..LastStep(v) : v \in Uploaders}
    PROVE  [by |-> u, from |-> Upload[u].account, nonce |-> n, step |-> s, attempt |-> a]
                \in Transactions
  BY DEF Transactions

(* What a run signs is a transaction of this step and attempt.              *)
LEMMA SignedType ==
    ASSUME UpsInv, NEW u \in Uploaders
    PROVE  /\ Signed(u) \in Transactions /\ Signed(u).by = u
           /\ Signed(u).step = up[u].step /\ Signed(u).attempt = up[u].attempt
<1>1. /\ up[u] \in UpState /\ up[u].step \in 0..LastStep(u)
      /\ up[u].attempt \in 1..MaxAttempts
  BY UpType
<1>2. up[u].nonce \in 0..MaxBlocks
  BY <1>1 DEF UpState
<1>3. up[u].step \in UNION {0..LastStep(v) : v \in Uploaders}
  BY <1>1
<1>4. Signed(u) \in Transactions
  BY <1>1, <1>2, <1>3, IsTransaction DEF Signed
<1>5. Signed(u).by = u /\ Signed(u).step = up[u].step /\ Signed(u).attempt = up[u].attempt
  BY DEF Signed
<1> QED BY <1>4, <1>5

(* A nonce is no larger than the chain is long.                             *)
LEMMA NonceType ==
    ASSUME ChainInv, NetInv, NEW account
    PROVE  /\ NonceOf(account) = CountFrom(receipts, Len(receipts), account)
           /\ NonceOf(account) \in 0..MaxBlocks
<1>1. receipts \in Seq(Receipt) /\ Len(receipts) = Len(chain) /\ Len(receipts) \in Nat
      /\ Len(chain) <= MaxBlocks /\ MaxBlocks \in Nat
  BY DEF NetInv, ReceiptsOK, ChainInv
<1>2. DOMAIN receipts = 1..Len(receipts)
  BY <1>1
<1>3. NonceOf(account) = CountFrom(receipts, Len(receipts), account)
  BY <1>2 DEF NonceOf, CountFrom
<1>4. CountFrom(receipts, Len(receipts), account) \in 0..Len(receipts)
  BY <1>1, CountType
<1>5. 0..Len(receipts) \subseteq 0..MaxBlocks
  BY <1>1
<1> QED BY <1>3, <1>4, <1>5

RunMoves(u, s) ==
    /\ UpSet(u, s)
    /\ UNCHANGED <<chainVars, receipts>>
    /\ \A t \in Transactions : Before(t, up[u]) => Before(t, s)
    /\ \/ mempool' \subseteq mempool
       \/ mempool' \subseteq mempool \cup {Signed(u)} /\ up[u].pc = "send"
          /\ Before(Signed(u), s)
    /\ \A k \in 0..Past(s) :
            k \in 0..Past(up[u]) \/ PaidBelow(receipts, Len(receipts), u, k)

(* A run that goes on never makes a transaction of its a later one.         *)
LEMMA BeforeStays ==
    ASSUME NEW r \in UpState, NEW s \in UpState,
           \/ s.step > r.step
           \/ s.step = r.step /\ s.attempt > r.attempt
           \/ s.step = r.step /\ s.attempt = r.attempt
              /\ (r.pc \in {"prepare", "send"} \/ s.pc \notin {"prepare", "send"})
    PROVE  \A t \in Transactions : Before(t, r) => Before(t, s)
<1> SUFFICES ASSUME NEW t \in Transactions, Before(t, r) PROVE Before(t, s)
  OBVIOUS
<1>1. t.step \in Nat /\ t.attempt \in Nat
  BY TransactionType
<1>2. r.step \in Nat /\ s.step \in Nat /\ r.attempt \in Nat /\ s.attempt \in Nat
  BY DEF UpState
<1> QED BY <1>1, <1>2 DEF Before

(* Reading the nonce.                                                       *)
LEMMA PrepareMoves ==
    ASSUME ChainInv, UpsInv, NetInv, NEW u \in Uploaders, Prepare(u)
    PROVE  \E s : RunMoves(u, s)
<1> DEFINE s1 == [up[u] EXCEPT !.pc = "send"]
           s2 == [s1 EXCEPT !.nonce = NonceOf(Upload[u].account)]
<1>1. /\ up \in [Uploaders -> UpState] /\ up[u] \in UpState /\ UpOK(u, up[u])
      /\ up[u].pc = "prepare"
  BY UpType DEF Prepare
<1>2. up' = [up EXCEPT ![u] = s2]
  BY <1>1 DEF Prepare, UpState
<1>3. s1 \in UpState /\ s1.pc = "send" /\ s1.step = up[u].step
      /\ s1.attempt = up[u].attempt /\ s1.tx = up[u].tx
  BY <1>1 DEF UpState
<1> HIDE DEF s1
<1>4. NonceOf(Upload[u].account) \in 0..MaxBlocks
  BY NonceType
<1>5. s2 \in UpState /\ s2.pc = "send" /\ s2.step = up[u].step
      /\ s2.attempt = up[u].attempt /\ s2.tx = up[u].tx
  BY <1>3, <1>4 DEF UpState
<1> HIDE DEF s2
<1>6. UpOK(u, s2)
  BY <1>1, <1>5 DEF UpOK
<1>7. \A t \in Transactions : Before(t, up[u]) => Before(t, s2)
  BY <1>1, <1>5, BeforeStays
<1>8. Past(s2) = Past(up[u])
  BY <1>1, <1>5 DEF Past
<1> QED BY <1>2, <1>5, <1>6, <1>7, <1>8 DEF RunMoves, UpSet, Prepare

(* A run that sends waits for its transaction.                              *)
LEMMA SendMoves ==
    ASSUME UpsInv, NEW u \in Uploaders, Send(u)
    PROVE  \E s : RunMoves(u, s)
<1> DEFINE s1 == [up[u] EXCEPT !.pc = "wait"]
           s2 == [s1 EXCEPT !.tx = Signed(u)]
<1>1. /\ up \in [Uploaders -> UpState] /\ up[u] \in UpState /\ UpOK(u, up[u])
      /\ up[u].pc = "send"
  BY UpType DEF Send
<1>2. up' = [up EXCEPT ![u] = s2]
  BY <1>1 DEF Send, UpState
<1>3. s1 \in UpState /\ s1.pc = "wait" /\ s1.step = up[u].step
      /\ s1.attempt = up[u].attempt
  BY <1>1 DEF UpState
<1> HIDE DEF s1
<1>4. Signed(u) \in Transactions /\ Signed(u).by = u
      /\ Signed(u).step = up[u].step /\ Signed(u).attempt = up[u].attempt
  BY SignedType
<1>5. s2 \in UpState /\ s2.pc = "wait" /\ s2.step = up[u].step
      /\ s2.attempt = up[u].attempt /\ s2.tx = Signed(u)
  BY <1>3, <1>4 DEF UpState
<1> HIDE DEF s2
<1>6. UpOK(u, s2)
  BY <1>1, <1>4, <1>5 DEF UpOK
<1>7. \A t \in Transactions : Before(t, up[u]) => Before(t, s2)
  BY <1>1, <1>5, BeforeStays
<1>8. Past(s2) = Past(up[u])
  BY <1>1, <1>5 DEF Past
<1>9. Before(Signed(u), s2)
  BY <1>4, <1>5 DEF Before
<1>10. mempool' \subseteq mempool \cup {Signed(u)}
  BY DEF Send, Takes
<1> QED BY <1>1, <1>2, <1>5, <1>6, <1>7, <1>8, <1>9, <1>10 DEF RunMoves, UpSet, Send

(* An attempt that fails leaves behind at most the transaction it sent.     *)
LEMMA FailMoves ==
    ASSUME UpsInv, NEW u \in Uploaders,
           up[u].pc \in {"prepare", "send", "wait"}, FailAttempt(u),
           UNCHANGED <<chainVars, receipts>>,
           \/ mempool' = mempool
           \/ up[u].pc = "send" /\ Takes(Signed(u))
    PROVE  \E s : RunMoves(u, s)
<1>1. up[u] \in UpState /\ up[u].step \in Nat /\ up[u].attempt \in Nat
  BY UpType DEF UpState
<1>2. PICK s : /\ UpSet(u, s) /\ s.step = up[u].step
               /\ \/ s.pc = "prepare" /\ s.attempt = up[u].attempt + 1
                  \/ s.pc = "failed" /\ s.attempt = up[u].attempt
  BY FailedAttempt
<1>3. s \in UpState
  BY <1>2 DEF UpSet
<1>4. \A t \in Transactions : Before(t, up[u]) => Before(t, s)
  BY <1>1, <1>2, <1>3, BeforeStays
<1>5. Past(s) = Past(up[u])
  BY <1>2 DEF Past
<1>6. Signed(u).step = up[u].step /\ Signed(u).attempt = up[u].attempt
  BY SignedType
<1>7. Before(Signed(u), s)
  BY <1>1, <1>2, <1>6 DEF Before
<1>8. \/ mempool' \subseteq mempool
      \/ mempool' \subseteq mempool \cup {Signed(u)} /\ up[u].pc = "send"
  BY DEF Takes
<1> QED BY <1>2, <1>4, <1>5, <1>7, <1>8 DEF RunMoves

(* A run goes on to the next step with a receipt for the last.              *)
LEMMA ReceiptMoves ==
    ASSUME UpsInv, NetInv, NEW u \in Uploaders, ReceiptArrives(u)
    PROVE  \E s : RunMoves(u, s)
<1>1. PICK b \in DOMAIN receipts :
        /\ receipts[b].tx = up[u].tx
        /\ IF Succeeded(receipts[b]) THEN Advance(u) ELSE FailAttempt(u)
  BY DEF ReceiptArrives
<1>2. UNCHANGED <<chainVars, receipts, mempool>> /\ up[u].pc = "wait"
  BY DEF ReceiptArrives
<1>3. CASE ~receipts[b].ok
  BY <1>1, <1>2, <1>3, FailMoves DEF Succeeded
<1>4. CASE receipts[b].ok
  <2>1. PICK s : /\ UpSet(u, s)
                 /\ \/ s.pc = "prepare" /\ s.step = up[u].step + 1 /\ s.attempt = 1
                    \/ s.pc = "done" /\ s.step = up[u].step /\ s.attempt = up[u].attempt
    BY <1>1, <1>4, AdvanceEffect DEF Succeeded
  <2>2. s \in UpState /\ up[u] \in UpState /\ up[u].step \in Nat
        /\ up[u].tx.by = u /\ up[u].tx.step = up[u].step
    BY <1>2, <2>1, UpType DEF UpSet, UpState, UpOK
  <2>3. \A t \in Transactions : Before(t, up[u]) => Before(t, s)
    BY <1>2, <2>1, <2>2, BeforeStays
  <2>4. PaidBelow(receipts, Len(receipts), u, up[u].step)
    BY <1>1, <1>4, <2>2 DEF PaidBelow, NetInv, ReceiptsOK
  <2>5. Past(s) = up[u].step /\ Past(up[u]) = up[u].step - 1
    BY <1>2, <2>1, <2>2 DEF Past
  <2>6. \A k \in 0..Past(s) :
            k \in 0..Past(up[u]) \/ PaidBelow(receipts, Len(receipts), u, k)
    BY <2>2, <2>4, <2>5
  <2> QED BY <1>2, <2>1, <2>3, <2>6 DEF RunMoves
<1> QED BY <1>3, <1>4

(* A run that is killed sends nothing more.                                 *)
LEMMA KillMoves ==
    ASSUME UpsInv, NEW u \in Uploaders, Kill(u)
    PROVE  \E s : RunMoves(u, s)
<1> DEFINE s1 == [up[u] EXCEPT !.pc = "killed"]
           s2 == [s1 EXCEPT !.tx = NoTx]
<1>1. /\ up \in [Uploaders -> UpState] /\ up[u] \in UpState /\ UpOK(u, up[u])
      /\ up[u].pc \notin Ended
  BY UpType DEF Kill
<1>2. up' = [up EXCEPT ![u] = s2]
  BY <1>1 DEF Kill, UpState
<1>3. s1 \in UpState /\ s1.pc = "killed" /\ s1.step = up[u].step
      /\ s1.attempt = up[u].attempt
  BY <1>1 DEF UpState, Ended
<1> HIDE DEF s1
<1>4. s2 \in UpState /\ s2.pc = "killed" /\ s2.step = up[u].step
      /\ s2.attempt = up[u].attempt /\ s2.tx = NoTx
  BY <1>3 DEF UpState
<1> HIDE DEF s2
<1>5. UpOK(u, s2)
  BY <1>1, <1>4 DEF UpOK
<1>6. \A t \in Transactions : Before(t, up[u]) => Before(t, s2)
  BY <1>1, <1>4, BeforeStays
<1>7. Past(s2) = Past(up[u])
  BY <1>1, <1>4 DEF Past, Ended
<1> QED BY <1>2, <1>4, <1>5, <1>6, <1>7 DEF RunMoves, UpSet, Kill

(* Every step of a run is a move.                                           *)
LEMMA UploaderMoves ==
    ASSUME ChainInv, UpsInv, NetInv, NEW u \in Uploaders, Uploader(u) \/ Kill(u)
    PROVE  \E s : RunMoves(u, s)
<1>1. CASE SendAnswerLost(u)
  BY <1>1, FailMoves DEF SendAnswerLost
<1>2. CASE CallFails(u) \/ WaitFails(u)
  BY <1>2, FailMoves DEF CallFails, WaitFails
<1> QED BY <1>1, <1>2, PrepareMoves, SendMoves, ReceiptMoves, KillMoves DEF Uploader

-----------------------------------------------------------------------------
(* The invariant is kept by every step of a run.                            *)

(* What has been sent are transactions.                                     *)
LEMMA KnownType ==
    ASSUME NetInv PROVE Known(mempool, receipts) \subseteq Transactions
<1>1. \A b \in 1..Len(receipts) : receipts[b] \in Receipt
  BY DEF NetInv, ReceiptsOK
<1>2. \A b \in 1..Len(receipts) : receipts[b].tx \in Transactions
  BY <1>1 DEF Receipt
<1> QED BY <1>2 DEF NetInv, Known

(* What a run sends is its first transaction of this step and attempt.      *)
LEMMA RunKeepsKnown ==
    ASSUME UpsInv, NetInv, NEW u \in Uploaders, NEW s, RunMoves(u, s)
    PROVE  mempool' \subseteq Transactions /\ KnownOK(Known(mempool', receipts'), up')
<1>1. /\ up \in [Uploaders -> UpState] /\ up[u] \in UpState /\ UpOK(u, up[u])
      /\ s \in UpState /\ up' = [up EXCEPT ![u] = s] /\ receipts' = receipts
      /\ \A t \in Transactions : Before(t, up[u]) => Before(t, s)
  BY UpType DEF RunMoves, UpSet
<1>2. /\ up'[u] = s
      /\ \A v \in Uploaders : v # u => up'[v] = up[v]
  BY <1>1
<1>3. /\ mempool \subseteq Transactions
      /\ KnownOK(Known(mempool, receipts), up)
      /\ Known(mempool, receipts) \subseteq Transactions
  BY KnownType DEF NetInv
<1>4. /\ Signed(u) \in Transactions /\ Signed(u).by = u
      /\ Signed(u).step = up[u].step /\ Signed(u).attempt = up[u].attempt
  BY SignedType
<1> DEFINE old == Known(mempool, receipts)
           new == Known(mempool', receipts')
<1>5. \/ new \subseteq old /\ mempool' \subseteq mempool
      \/ /\ new \subseteq old \cup {Signed(u)} /\ mempool' \subseteq mempool \cup {Signed(u)}
         /\ up[u].pc = "send" /\ Before(Signed(u), s)
  BY <1>1 DEF RunMoves, Known
<1> HIDE DEF new, old
<1>6. \A t \in old : /\ t \in Transactions /\ t.by \in Uploaders /\ t.step \in Nat
                     /\ t.attempt \in Nat /\ Before(t, up[t.by])
                     /\ t.step = 0 => t.attempt = 1
  BY <1>3, TransactionType DEF KnownOK, old
<1>7. \A t \in old : Before(t, up'[t.by])
  BY <1>1, <1>2, <1>6
<1>8. \A t, w \in old : SameTry(t, w) => t = w
  BY <1>3 DEF KnownOK, old
<1>9. CASE new \subseteq old /\ mempool' \subseteq mempool
  BY <1>3, <1>6, <1>7, <1>8, <1>9 DEF KnownOK, new
<1>10. CASE /\ new \subseteq old \cup {Signed(u)} /\ mempool' \subseteq mempool \cup {Signed(u)}
            /\ up[u].pc = "send" /\ Before(Signed(u), s)
  <2>1. \A w \in old : ~SameTry(Signed(u), w) /\ ~SameTry(w, Signed(u))
    <3> SUFFICES ASSUME NEW w \in old, w.by = u, w.step = up[u].step,
                        w.attempt = up[u].attempt
                 PROVE  FALSE
      BY <1>4 DEF SameTry
    <3>1. Before(w, up[u]) /\ w.step \in Nat /\ w.attempt \in Nat
      BY <1>6
    <3> QED BY <1>10, <3>1 DEF Before
  <2>2. Signed(u).step = 0 => Signed(u).attempt = 1
    BY <1>1, <1>4 DEF UpOK
  <2>3. Before(Signed(u), up'[Signed(u).by])
    BY <1>2, <1>4, <1>10
  <2>4. \A t \in new : Before(t, up'[t.by]) /\ (t.step = 0 => t.attempt = 1)
    BY <1>6, <1>7, <1>10, <2>2, <2>3
  <2>5. \A t, w \in new : SameTry(t, w) => t = w
    BY <1>8, <1>10, <2>1
  <2> QED BY <1>3, <1>4, <1>10, <2>4, <2>5 DEF KnownOK, new
<1> QED BY <1>5, <1>9, <1>10

(* A run that goes on has paid for the steps it is past.                    *)
LEMMA RunKeepsPaid ==
    ASSUME UpsInv, PaidInv, NEW u \in Uploaders, NEW s, RunMoves(u, s)
    PROVE  PaidInv'
<1>1. /\ up \in [Uploaders -> UpState]
      /\ up' = [up EXCEPT ![u] = s] /\ receipts' = receipts
      /\ \A k \in 0..Past(s) :
            k \in 0..Past(up[u]) \/ PaidBelow(receipts, Len(receipts), u, k)
  BY UpType DEF RunMoves, UpSet
<1>2. /\ up'[u] = s
      /\ \A v \in Uploaders : v # u => up'[v] = up[v]
  BY <1>1
<1>3. ASSUME NEW v \in Uploaders, NEW k \in 0..Past(up'[v])
      PROVE  PaidBelow(receipts, Len(receipts), v, k)
  <2>1. CASE v = u
    BY <1>1, <1>2, <1>3, <2>1 DEF PaidInv
  <2>2. CASE v # u
    BY <1>2, <1>3, <2>2 DEF PaidInv
  <2> QED BY <2>1, <2>2
<1> QED BY <1>1, <1>3 DEF PaidInv

(* Every step of a run keeps the invariant.                                 *)
LEMMA RunKeepsInv ==
    ASSUME UploadInv, NEW u \in Uploaders, Uploader(u) \/ Kill(u)
    PROVE  UploadInv'
<1>1. ChainInv /\ UpsInv /\ NetInv /\ (MaxReorg = 0 => PaidInv)
  BY DEF UploadInv
<1>2. PICK s : RunMoves(u, s)
  BY <1>1, UploaderMoves
<1>3. UNCHANGED <<chainVars, receipts>> /\ UpSet(u, s)
  BY <1>2 DEF RunMoves
<1>4. ChainInv'
  BY <1>1, <1>3, ChainInvSteps
<1>5. UpsInv'
  BY <1>1, <1>3 DEF UpsInv, UpSet
<1>6. ReceiptsOK(chain', receipts')
  BY <1>1, <1>3 DEF NetInv, chainVars
<1>7. NetInv'
  BY <1>1, <1>2, <1>6, RunKeepsKnown DEF NetInv
<1>8. MaxReorg = 0 => PaidInv'
  BY <1>1, <1>2, RunKeepsPaid
<1> QED BY <1>4, <1>5, <1>7, <1>8 DEF UploadInv

-----------------------------------------------------------------------------
(* The invariant is kept by the network.                                    *)

(* A transaction that runs leaves its event, or none when it reverts.       *)
LEMMA ExecuteEffect ==
    ASSUME TypeOK, NEW tx \in Transactions, tx.step <= LastStep(tx.by), Execute(tx)
    PROVE  /\ AnyNext
           /\ Len(chain') = Len(chain) + 1
           /\ \A b \in 1..Len(chain) : chain'[b] = chain[b]
           /\ chain'[Len(chain) + 1].event = IF Accepted(tx) THEN EventOf(tx) ELSE NoEvent
<1> DEFINE f == Upload[tx.by].fileId
           nm == Upload[tx.by].name
           sz == Upload[tx.by].size
           n == LastStep(tx.by)
           a == tx.from
<1>1. /\ tx.by \in Uploaders /\ a \in Accounts /\ tx.step \in Nat
      /\ n \in Nat /\ \A i \in 1..n : Chunks[tx.by][i] \in Payloads
  BY TransactionType, ChunksAreChunks
<1>2. f \in FileIds /\ nm \in Names /\ sz \in Nat
  BY <1>1
<1>3. files \in [FileIds -> FileMetadata]
  BY DEF TypeOK
<1>4. CASE tx.step = 0 /\ CreateFile(f, nm, sz, n, a)
  <2> DEFINE e == [type |-> "FileCreated", fileId |-> f, name |-> nm, size |-> sz,
                   chunkCount |-> n, owner |-> a]
             st == [files EXCEPT ![f] = MetadataOf(e)]
  <2>1. e \in Events /\ st \in [FileIds -> FileMetadata] /\ Mine(e, st)
    BY <1>1, <1>2, <1>4, CreateIsMine
  <2>2. Accepted(tx)
    BY <1>4 DEF Accepted, CreateFile
  <2>3. EventOf(tx) = e
    BY <1>4 DEF EventOf
  <2>4. AnyNext
    BY <1>1, <1>2, <1>4 DEF AnyNext, AnyCreate
  <2> HIDE DEF e, st
  <2> QED BY <2>1, <2>2, <2>3, <2>4, MineKeepsPrefix
<1>5. CASE tx.step > 0 /\ UploadChunk(f, tx.step - 1, Chunks[tx.by][tx.step], a)
  <2> DEFINE d == Chunks[tx.by][tx.step]
             i == tx.step - 1
             e == [type |-> "ChunkUploaded", fileId |-> f, chunkIndex |-> i,
                   data |-> d, sender |-> a]
  <2>1. i \in Nat /\ d \in Payloads
    <3>1. tx.step \in 1..n
      BY <1>1, <1>5
    <3> HIDE DEF n
    <3> QED BY <1>1, <1>5, <3>1
  <2>2. e \in Events /\ Mine(e, files)
    BY <1>1, <1>2, <1>5, <2>1, UploadIsMine
  <2>3. Accepted(tx)
    BY <1>5 DEF Accepted, UploadChunk
  <2>4. EventOf(tx) = e
    BY <1>5 DEF EventOf
  <2>5. AnyNext
    BY <1>1, <1>2, <1>5, <2>1 DEF AnyNext, AnyUpload
  <2> HIDE DEF e
  <2> QED BY <1>3, <2>2, <2>3, <2>4, <2>5, MineKeepsPrefix
<1>6. CASE ~Accepted(tx) /\ OtherBlock
  <2>1. Mine(NoEvent, files) /\ NoEvent \in Events
    BY <1>6 DEF OtherBlock, Events
  <2>2. AnyNext
    BY <1>6 DEF AnyNext
  <2> QED BY <1>3, <1>6, <2>1, <2>2, MineKeepsPrefix
<1> QED BY <1>4, <1>5, <1>6 DEF Execute

(* What is waiting or mined is of a step its run has reached, and its run   *)
(* has paid for the steps before.                                           *)
LEMMA KnownStep ==
    ASSUME UpsInv, NetInv, NEW t \in Known(mempool, receipts)
    PROVE  /\ t \in Transactions /\ t.by \in Uploaders /\ t.step \in Nat
           /\ t.step <= LastStep(t.by)
           /\ PaidInv => \A k \in 0..(t.step - 1) :
                            PaidBelow(receipts, Len(receipts), t.by, k)
<1>1. /\ t \in Transactions /\ t.by \in Uploaders /\ t.step \in Nat
      /\ Before(t, up[t.by])
  BY KnownType, TransactionType DEF NetInv, KnownOK
<1>2. /\ up[t.by].step \in 0..LastStep(t.by) /\ LastStep(t.by) \in Nat
  BY <1>1, UpType
<1>3. t.step <= up[t.by].step
  BY <1>1, <1>2 DEF Before
<1>4. \A k \in 0..(t.step - 1) : k \in 0..Past(up[t.by])
  BY <1>1, <1>2, <1>3 DEF Past
<1> QED BY <1>1, <1>2, <1>3, <1>4 DEF PaidInv

(* Forgetting transactions keeps what is true of them.                      *)
LEMMA FewerKnown ==
    ASSUME NEW old, NEW new, NEW ups, new \subseteq old, KnownOK(old, ups)
    PROVE  KnownOK(new, ups)
  BY DEF KnownOK

(* A prefix of two chains counts the same receipts.                         *)
LEMMA SameCount ==
    ASSUME NEW r, NEW q, NEW n \in Nat, NEW account, \A b \in 1..n : q[b] = r[b]
    PROVE  CountFrom(q, n, account) = CountFrom(r, n, account)
<1>1. {b \in 1..n : q[b].tx.from = account} = {b \in 1..n : r[b].tx.from = account}
  OBVIOUS
<1> QED BY <1>1 DEF CountFrom

(* A transaction is mined once its nonce is due: the receipts go on         *)
(* counting the transactions of each account.                               *)
LEMMA MineKeepsReceipts ==
    ASSUME ChainInv, UpsInv, NetInv, NEW tx \in mempool, MineTx(tx)
    PROVE  /\ [AnyNext]_chainVars
           /\ ReceiptsOK(chain', receipts')
           /\ Len(receipts) \in Nat /\ Len(receipts') = Len(receipts) + 1
           /\ \A b \in 1..Len(receipts) : receipts'[b] = receipts[b]
           /\ receipts'[Len(receipts) + 1].tx = tx
<1> DEFINE L == Len(receipts)
           new == [tx |-> tx, ok |-> Accepted(tx)]
<1>1. /\ TypeOK /\ receipts \in Seq(Receipt) /\ L = Len(chain) /\ L \in Nat
      /\ \A b \in 1..L : /\ EventMatches(chain[b].event, receipts[b])
                         /\ receipts[b].tx.nonce = CountFrom(receipts, b - 1, receipts[b].tx.from)
  BY DEF ChainInv, IInv, NetInv, ReceiptsOK
<1>2. tx \in Known(mempool, receipts)
  BY DEF Known
<1>3. tx \in Transactions /\ tx.step <= LastStep(tx.by)
  BY <1>2, KnownStep
<1>4. /\ AnyNext
      /\ Len(chain') = L + 1
      /\ \A b \in 1..L : chain'[b] = chain[b]
      /\ chain'[L + 1].event = IF Accepted(tx) THEN EventOf(tx) ELSE NoEvent
  BY <1>1, <1>3, ExecuteEffect DEF MineTx
<1>5. Accepted(tx) \in BOOLEAN
  BY DEF Accepted, CanCreate, CanUpload
<1>6. new \in Receipt /\ new.tx = tx /\ new.ok = Accepted(tx)
  BY <1>3, <1>5 DEF Receipt
<1>7. receipts' = Append(receipts, new)
  BY DEF MineTx
<1> HIDE DEF new
<1>8. /\ receipts' \in Seq(Receipt) /\ Len(receipts') = L + 1
      /\ \A b \in 1..L : receipts'[b] = receipts[b]
      /\ receipts'[L + 1] = new
  BY <1>1, <1>6, <1>7
<1>9. \A b \in 1..(L + 1) : EventMatches(chain'[b].event, receipts'[b])
  <2>1. EventMatches(chain'[L + 1].event, receipts'[L + 1])
    BY <1>4, <1>6, <1>8 DEF EventMatches
  <2>2. \A b \in 1..(L + 1) : b \in 1..L \/ b = L + 1
    BY <1>1
  <2> QED BY <1>1, <1>4, <1>8, <2>1, <2>2
<1>10. ASSUME NEW b \in 1..(L + 1)
       PROVE  receipts'[b].tx.nonce = CountFrom(receipts', b - 1, receipts'[b].tx.from)
  <2>1. b - 1 \in Nat /\ \A k \in 1..(b - 1) : receipts'[k] = receipts[k]
    BY <1>1, <1>8
  <2>2. \A a : CountFrom(receipts', b - 1, a) = CountFrom(receipts, b - 1, a)
    BY <2>1, SameCount
  <2>3. CASE b \in 1..L
    BY <1>1, <1>8, <2>2, <2>3
  <2>4. CASE b = L + 1
    <3>1. tx.nonce = CountFrom(receipts, L, tx.from)
      BY NonceType DEF MineTx
    <3>2. b - 1 = L
      BY <1>1, <2>4
    <3> QED BY <1>6, <1>8, <2>2, <2>4, <3>1, <3>2
  <2> QED BY <1>1, <2>3, <2>4
<1> QED BY <1>1, <1>4, <1>6, <1>8, <1>9, <1>10 DEF ReceiptsOK

(* Mining keeps the invariant: whoever is mined was paid for up to there.   *)
LEMMA MineKeepsUploadInv ==
    ASSUME UploadInv, NEW tx \in mempool, MineTx(tx)
    PROVE  UploadInv'
<1> DEFINE L == Len(receipts)
<1>1. ChainInv /\ UpsInv /\ NetInv /\ (MaxReorg = 0 => PaidInv)
  BY DEF UploadInv
<1>2. /\ [AnyNext]_chainVars
      /\ ReceiptsOK(chain', receipts')
      /\ L \in Nat /\ Len(receipts') = L + 1
      /\ \A b \in 1..L : receipts'[b] = receipts[b]
      /\ receipts'[L + 1].tx = tx
  BY <1>1, MineKeepsReceipts
<1>3. up' = up /\ mempool' \subseteq mempool
  BY DEF MineTx
<1>4. ChainInv' /\ UpsInv'
  BY <1>1, <1>2, <1>3, ChainInvSteps DEF UpsInv
<1>5. Known(mempool', receipts') \subseteq Known(mempool, receipts)
  <2> SUFFICES ASSUME NEW b \in 1..(L + 1)
               PROVE  receipts'[b].tx \in Known(mempool, receipts)
    BY <1>2, <1>3 DEF Known
  <2>1. b \in 1..L \/ b = L + 1
    BY <1>2
  <2> QED BY <1>2, <2>1 DEF Known
<1>6. NetInv'
  BY <1>1, <1>2, <1>3, <1>5, FewerKnown DEF NetInv
<1>7. ASSUME PaidInv PROVE PaidInv'
  <2>1. tx \in Known(mempool, receipts)
    BY DEF Known
  <2>2. \A k \in 0..(tx.step - 1) : PaidBelow(receipts, L, tx.by, k)
    BY <1>1, <1>7, <2>1, KnownStep
  <2>3. \A n \in 0..L : \A u, k : PaidBelow(receipts, n, u, k) => PaidBelow(receipts', n, u, k)
    BY <1>2 DEF PaidBelow
  <2>4. \A u, k : PaidBelow(receipts', L, u, k) => PaidBelow(receipts', L + 1, u, k)
    BY <1>2 DEF PaidBelow
  <2>5. \A u \in Uploaders : \A k \in 0..Past(up'[u]) :
            PaidBelow(receipts', Len(receipts'), u, k)
    BY <1>2, <1>3, <1>7, <2>3, <2>4 DEF PaidInv
  <2>6. ASSUME NEW b \in 1..(L + 1), NEW k \in 0..(receipts'[b].tx.step - 1)
        PROVE  PaidBelow(receipts', b - 1, receipts'[b].tx.by, k)
    <3>1. b - 1 \in 0..L
      BY <1>2
    <3>2. CASE b \in 1..L
      BY <1>2, <1>7, <2>3, <2>6, <3>1, <3>2 DEF PaidInv
    <3>3. CASE b = L + 1
      <4>1. b - 1 = L
        BY <1>2, <3>3
      <4> QED BY <1>2, <2>2, <2>3, <2>6, <3>1, <3>3, <4>1
    <3> QED BY <1>2, <3>2, <3>3
  <2> QED BY <1>2, <2>5, <2>6 DEF PaidInv
<1> QED BY <1>1, <1>4, <1>6, <1>7 DEF UploadInv

(* A reorganisation keeps a prefix, and knows no transaction it did not.    *)
LEMMA ReorgKeepsUploadInv ==
    ASSUME UploadInv, NEW n \in finalized..(Len(chain) - 1), Reorg(n)
    PROVE  UploadInv'
<1>1. ChainInv /\ UpsInv /\ NetInv /\ TypeOK
  BY DEF UploadInv, ChainInv, IInv
<1>2. /\ receipts \in Seq(Receipt) /\ Len(receipts) = Len(chain) /\ Len(receipts) \in Nat
      /\ \A b \in 1..Len(receipts) :
            /\ EventMatches(chain[b].event, receipts[b])
            /\ receipts[b].tx.nonce = CountFrom(receipts, b - 1, receipts[b].tx.from)
  BY <1>1 DEF NetInv, ReceiptsOK
<1>3. [AnyNext]_chainVars
  BY DEF Reorg, AnyNext, SomeRollback
<1>4. /\ n \in 0..Len(chain) /\ Len(chain') = n
      /\ \A b \in 1..n : chain'[b] = chain[b]
  BY <1>1, RollbackKeepsPrefix DEF Reorg
<1>5. /\ receipts' = SubSeq(receipts, 1, n) /\ up' = up
      /\ mempool' = mempool \cup {receipts[b].tx : b \in (n + 1)..Len(receipts)}
  BY DEF Reorg
<1>6. /\ receipts' \in Seq(Receipt) /\ Len(receipts') = n
      /\ \A b \in 1..n : receipts'[b] = receipts[b]
  BY <1>2, <1>4, <1>5
<1>7. ReceiptsOK(chain', receipts')
  <2> SUFFICES ASSUME NEW b \in 1..n
               PROVE  /\ EventMatches(chain'[b].event, receipts'[b])
                      /\ receipts'[b].tx.nonce
                            = CountFrom(receipts', b - 1, receipts'[b].tx.from)
    BY <1>4, <1>6 DEF ReceiptsOK
  <2>1. /\ b \in 1..Len(receipts) /\ b - 1 \in Nat
        /\ \A k \in 1..(b - 1) : receipts'[k] = receipts[k]
    BY <1>2, <1>4, <1>6
  <2>2. \A a : CountFrom(receipts', b - 1, a) = CountFrom(receipts, b - 1, a)
    BY <2>1, SameCount
  <2> QED BY <1>2, <1>4, <1>6, <2>1, <2>2
<1>8. mempool' \subseteq Known(mempool, receipts)
      /\ Known(mempool', receipts') \subseteq Known(mempool, receipts)
  <2>1. \A b \in (n + 1)..Len(receipts) : b \in 1..Len(receipts)
    BY <1>2, <1>4
  <2>2. mempool' \subseteq Known(mempool, receipts)
    BY <1>5, <2>1 DEF Known
  <2>3. \A b \in 1..n : b \in 1..Len(receipts)
    BY <1>2, <1>4
  <2> QED BY <1>6, <2>2, <2>3 DEF Known
<1>9. NetInv'
  BY <1>1, <1>5, <1>7, <1>8, KnownType, FewerKnown DEF NetInv
<1>10. MaxReorg # 0
  BY <1>1, <1>4 DEF ChainInv, FinalizedKeepsUp, TypeOK
<1> QED BY <1>1, <1>3, <1>5, <1>9, <1>10, ChainInvSteps DEF UploadInv, UpsInv

(* Every step keeps the invariant.                                          *)
LEMMA NextKeepsUploadInv == UploadInv /\ [UploadNext]_uploadVars => UploadInv'
<1> SUFFICES ASSUME UploadInv, [UploadNext]_uploadVars PROVE UploadInv'
  OBVIOUS
<1>1. ASSUME NEW tx \in mempool, Evict(tx) PROVE UploadInv'
  <2>1. ChainInv /\ UpsInv /\ NetInv /\ (MaxReorg = 0 => PaidInv)
    BY DEF UploadInv
  <2>2. UNCHANGED <<chainVars, receipts, up>> /\ mempool' \subseteq mempool
    BY <1>1 DEF Evict
  <2>3. Known(mempool', receipts') \subseteq Known(mempool, receipts)
    BY <2>2 DEF Known
  <2>4. ChainInv' /\ UpsInv' /\ (MaxReorg = 0 => PaidInv')
    BY <2>1, <2>2, ChainInvSteps DEF UpsInv, PaidInv
  <2>5. NetInv'
    BY <2>1, <2>2, <2>3, FewerKnown DEF NetInv, chainVars
  <2> QED BY <2>4, <2>5 DEF UploadInv
<1>2. CASE UNCHANGED uploadVars
  <2>1. ChainInv'
    BY <1>2, ChainInvSteps DEF UploadInv, uploadVars
  <2> QED BY <1>2, <2>1 DEF UploadInv, UpsInv, NetInv, PaidInv, uploadVars, botVars, chainVars
<1> QED BY <1>1, <1>2, RunKeepsInv, MineKeepsUploadInv, ReorgKeepsUploadInv DEF UploadNext, Network

(* The invariant holds when nothing has been sent.                          *)
LEMMA InitUploadInv == UploadInit => UploadInv
<1> SUFFICES ASSUME UploadInit PROVE UploadInv
  OBVIOUS
<1>1. ChainInv /\ chain = <<>>
  BY ChainInvStarts DEF UploadInit, Init
<1>2. /\ mempool = {} /\ receipts = <<>> /\ Len(receipts) = 0
      /\ up = [u \in Uploaders |-> Start]
  BY DEF UploadInit
<1>3. /\ Start \in UpState /\ Start.pc = "prepare" /\ Start.step = 0
      /\ Start.attempt = 1 /\ Start.tx = NoTx
  <2>1. 1 \in 1..MaxAttempts /\ 0 \in 0..MaxBlocks
    OBVIOUS
  <2> QED BY <2>1 DEF Start, UpState
<1>4. UpsInv
  BY <1>2, <1>3, ChunksAreChunks DEF UpsInv, UpOK
<1>5. Known(mempool, receipts) = {}
  BY <1>2 DEF Known
<1>6. NetInv
  BY <1>1, <1>2, <1>5 DEF NetInv, ReceiptsOK, KnownOK
<1>7. PaidInv
  BY <1>2, <1>3 DEF PaidInv, Past
<1> QED BY <1>1, <1>4, <1>6, <1>7 DEF UploadInv

-----------------------------------------------------------------------------
(* What follows from the invariant.                                         *)

(* A chunk on the chain is the chunk of the run that paid for it.           *)
LEMMA LoggedChunk ==
    ASSUME UploadInv, NEW b \in 1..Len(chain), Uploads(chain, b)
    PROVE  LET t == receipts[b].tx
           IN  /\ b \in 1..Len(receipts) /\ t \in Transactions /\ t \in Known(mempool, receipts)
               /\ receipts[b].ok /\ t.step \in 1..LastStep(t.by)
               /\ chain[b].event.fileId = Upload[t.by].fileId
               /\ chain[b].event.chunkIndex = t.step - 1
               /\ chain[b].event.data = Chunks[t.by][t.step]
               /\ chain[b].event.sender = t.from
<1> DEFINE t == receipts[b].tx
<1>1. UpsInv /\ NetInv
  BY DEF UploadInv
<1>2. b \in 1..Len(receipts) /\ EventMatches(chain[b].event, receipts[b])
  BY <1>1 DEF NetInv, ReceiptsOK
<1>3. t \in Known(mempool, receipts)
  BY <1>2 DEF Known
<1>4. t \in Transactions /\ t.step \in Nat /\ t.step <= LastStep(t.by) /\ LastStep(t.by) \in Nat
  BY <1>1, <1>3, KnownStep, ChunksAreChunks
<1>5. chain[b].event.type = "ChunkUploaded"
  BY DEF Uploads
<1>6. receipts[b].ok /\ chain[b].event = EventOf(t)
  BY <1>2, <1>5 DEF EventMatches, NoEvent
<1> HIDE DEF t
<1>7. t.step # 0
  BY <1>5, <1>6 DEF EventOf
<1>8. /\ chain[b].event.fileId = Upload[t.by].fileId
      /\ chain[b].event.chunkIndex = t.step - 1
      /\ chain[b].event.data = Chunks[t.by][t.step]
      /\ chain[b].event.sender = t.from
  BY <1>6, <1>7 DEF EventOf
<1>9. t.step \in 1..LastStep(t.by)
  BY <1>4, <1>7
<1> QED BY <1>2, <1>3, <1>4, <1>6, <1>8, <1>9 DEF t

(* A receipt for createFile() is the creation of the run's file.            *)
LEMMA PaidCreation ==
    ASSUME UploadInv, NEW b \in 1..Len(receipts), receipts[b].ok, receipts[b].tx.step = 0
    PROVE  /\ b \in 1..Len(chain)
           /\ Creates(chain, b, Upload[receipts[b].tx.by].fileId)
           /\ chain[b].event.chunkCount = LastStep(receipts[b].tx.by)
<1>1. b \in 1..Len(chain) /\ EventMatches(chain[b].event, receipts[b])
  BY DEF UploadInv, NetInv, ReceiptsOK
<1>2. chain[b].event = EventOf(receipts[b].tx)
  BY <1>1 DEF EventMatches
<1>3. /\ chain[b].event.type = "FileCreated"
      /\ chain[b].event.fileId = Upload[receipts[b].tx.by].fileId
      /\ chain[b].event.chunkCount = LastStep(receipts[b].tx.by)
  BY <1>2 DEF EventOf
<1> QED BY <1>1, <1>3 DEF Creates

(* Runs cannot touch each other's files on the chain: they have their own   *)
(* wallets, or no creation is ever undone.                                  *)
Apart == MaxReorg = 0 \/ \A u, v \in Uploaders : Upload[u].account = Upload[v].account => u = v

(* All the chunks of a file are of one run.                                 *)
LEMMA OneRunPerFile ==
    ASSUME UploadInv, Apart, NEW a \in 1..Len(chain), NEW b \in 1..Len(chain),
           Uploads(chain, a), Uploads(chain, b),
           chain[a].event.fileId = chain[b].event.fileId
    PROVE  receipts[a].tx.by = receipts[b].tx.by
<1> DEFINE s == receipts[a].tx
           t == receipts[b].tx
<1>1. /\ s \in Transactions /\ s.step \in 1..LastStep(s.by) /\ a \in 1..Len(receipts)
      /\ chain[a].event.fileId = Upload[s.by].fileId /\ chain[a].event.sender = s.from
  BY LoggedChunk
<1>2. /\ t \in Transactions /\ t.step \in 1..LastStep(t.by) /\ b \in 1..Len(receipts)
      /\ chain[b].event.fileId = Upload[t.by].fileId /\ chain[b].event.sender = t.from
  BY LoggedChunk
<1>3. /\ s.by \in Uploaders /\ s.from = Upload[s.by].account
      /\ t.by \in Uploaders /\ t.from = Upload[t.by].account
  BY <1>1, <1>2, TransactionType
<1>4. IInv
  BY DEF UploadInv, ChainInv
<1>5. CASE \A u, v \in Uploaders : Upload[u].account = Upload[v].account => u = v
  <2>1. /\ chain[a].event.sender = files[chain[a].event.fileId].owner
        /\ chain[b].event.sender = files[chain[b].event.fileId].owner
    BY <1>4, LoggedChunksAreExpected
  <2>2. Upload[s.by].account = Upload[t.by].account
    BY <1>1, <1>2, <1>3, <2>1
  <2> QED BY <1>3, <1>5, <2>2
<1>6. CASE MaxReorg = 0
  <2>1. PaidInv /\ Len(receipts) \in Nat
    BY <1>6 DEF UploadInv, NetInv, ReceiptsOK
  <2>2. PICK x \in 1..(a - 1) : receipts[x].ok /\ receipts[x].tx.by = s.by /\ receipts[x].tx.step = 0
    BY <1>1, <2>1 DEF PaidInv, PaidBelow
  <2>3. PICK y \in 1..(b - 1) : receipts[y].ok /\ receipts[y].tx.by = t.by /\ receipts[y].tx.step = 0
    BY <1>2, <2>1 DEF PaidInv, PaidBelow
  <2>4. x \in 1..Len(receipts) /\ y \in 1..Len(receipts)
    BY <1>1, <1>2, <2>1
  <2>5. /\ x \in 1..Len(chain) /\ Creates(chain, x, Upload[s.by].fileId)
        /\ y \in 1..Len(chain) /\ Creates(chain, y, Upload[t.by].fileId)
    BY <2>2, <2>3, <2>4, PaidCreation
  <2>6. x = y
    BY <1>1, <1>2, <1>3, <1>4, <2>5 DEF IInv, CreatedOnce
  <2> QED BY <2>2, <2>3, <2>6
<1> QED BY <1>5, <1>6 DEF Apart

-----------------------------------------------------------------------------
(* The inductive invariant holds in every reachable state, whatever the     *)
(* mempool forgets, replaces and mines late, and however deep the chain     *)
(* reorganises.                                                             *)
THEOREM UploadInvariant == UploadSpec => []UploadInv
  BY InitUploadInv, NextKeepsUploadInv, PTL DEF UploadSpec

(* The variables have their types: steps and attempts stay in their loops,  *)
(* a run holds a transaction exactly while it waits for one, and every      *)
(* block has a receipt.                                                     *)
THEOREM UploadTypeCorrect == UploadSpec => []UploadTypeOK
<1>1. UploadInv => UploadTypeOK
  <2> SUFFICES ASSUME UploadInv PROVE UploadTypeOK
    OBVIOUS
  <2>1. TypeOK /\ UpsInv /\ NetInv
    BY DEF UploadInv, ChainInv, IInv
  <2>2. mempool \subseteq Transactions /\ Len(receipts) = Len(chain)
        /\ receipts \in Seq(Receipt)
    BY <2>1 DEF NetInv, ReceiptsOK
  <2>3. \A b \in DOMAIN receipts :
            receipts[b].tx \in Transactions /\ receipts[b].ok \in BOOLEAN
    <3>1. \A b \in DOMAIN receipts : receipts[b] \in Receipt
      BY <2>2
    <3> QED BY <3>1 DEF Receipt
  <2>4. ASSUME NEW u \in Uploaders
        PROVE  /\ up[u].pc \in {"prepare", "send", "wait"} \cup Ended
               /\ up[u].step \in 0..LastStep(u) /\ up[u].attempt \in 1..MaxAttempts
               /\ up[u].tx \in Transactions \cup {NoTx}
               /\ (up[u].tx # NoTx) <=> (up[u].pc = "wait")
    <3>1. up[u] \in UpState /\ UpOK(u, up[u]) /\ up[u].step \in 0..LastStep(u)
      BY <2>1, UpType
    <3>2. (up[u].tx # NoTx) <=> (up[u].pc = "wait")
      BY <3>1 DEF UpOK
    <3> QED BY <3>1, <3>2 DEF UpState
  <2> QED BY <2>1, <2>2, <2>3, <2>4 DEF UploadTypeOK
<1> QED BY <1>1, UploadInvariant, PTL

(* All the copies of a chunk on the chain are equal, for any number of runs *)
(* of one content with different bytes: with a wallet for each run however  *)
(* the chain reorganises, with shared wallets if it does not.               *)
THEOREM CopiesAreEqual == ASSUME Apart PROVE UploadSpec => []DuplicatesAgree
<1>1. UploadInv => DuplicatesAgree
  <2> SUFFICES ASSUME UploadInv, NEW a \in DOMAIN chain, NEW b \in DOMAIN chain,
                      Uploads(chain, a),
                      ChunkAt(b, chain[a].event.fileId, chain[a].event.chunkIndex)
               PROVE  chain[a].event.data = chain[b].event.data
    BY DEF DuplicatesAgree
  <2>1. a \in 1..Len(chain) /\ b \in 1..Len(chain)
    BY DEF UploadInv, ChainInv, IInv, TypeOK
  <2>2. Uploads(chain, b) /\ chain[b].event.fileId = chain[a].event.fileId
        /\ chain[b].event.chunkIndex = chain[a].event.chunkIndex
    BY DEF ChunkAt
  <2>3. receipts[a].tx.by = receipts[b].tx.by
    BY <2>1, <2>2, OneRunPerFile
  <2>4. /\ receipts[a].tx.step \in Nat /\ receipts[b].tx.step \in Nat
        /\ chain[a].event.chunkIndex = receipts[a].tx.step - 1
        /\ chain[b].event.chunkIndex = receipts[b].tx.step - 1
        /\ chain[a].event.data = Chunks[receipts[a].tx.by][receipts[a].tx.step]
        /\ chain[b].event.data = Chunks[receipts[b].tx.by][receipts[b].tx.step]
    BY <2>1, <2>2, LoggedChunk, TransactionType
  <2>5. receipts[a].tx.step = receipts[b].tx.step
    BY <2>2, <2>4
  <2> QED BY <2>3, <2>4, <2>5
<1> QED BY <1>1, UploadInvariant, PTL

(* On a chain that does not reorganise, the first copy of a chunk comes     *)
(* after a copy of the chunk before it, wherever a run stops.               *)
THEOREM ChunksFollowInOrder == ASSUME MaxReorg = 0 PROVE UploadSpec => []ChunksInOrder
<1>1. UploadInv => ChunksInOrder
  <2> SUFFICES ASSUME UploadInv, NEW b \in DOMAIN chain, Uploads(chain, b),
                      chain[b].event.chunkIndex > 0
               PROVE  \E a \in 1..(b - 1) :
                        ChunkAt(a, chain[b].event.fileId, chain[b].event.chunkIndex - 1)
    BY DEF ChunksInOrder
  <2> DEFINE t == receipts[b].tx
  <2>1. b \in 1..Len(chain) /\ Len(chain) = Len(receipts) /\ Len(chain) \in Nat
    BY DEF UploadInv, ChainInv, IInv, TypeOK, NetInv, ReceiptsOK
  <2>2. /\ t \in Transactions /\ t.step \in Nat
        /\ chain[b].event.fileId = Upload[t.by].fileId
        /\ chain[b].event.chunkIndex = t.step - 1
    BY <2>1, LoggedChunk, TransactionType
  <2>3. t.step - 1 \in 0..(t.step - 1) /\ t.step - 1 > 0 /\ t.step - 1 \in Nat
    BY <2>2
  <2>8. \A k \in 0..(t.step - 1) : PaidBelow(receipts, b - 1, t.by, k)
    BY <2>1 DEF UploadInv, PaidInv
  <2>4. PICK a \in 1..(b - 1) :
            receipts[a].ok /\ receipts[a].tx.by = t.by /\ receipts[a].tx.step = t.step - 1
    BY <2>3, <2>8 DEF PaidBelow
  <2>5. a \in 1..Len(receipts) /\ EventMatches(chain[a].event, receipts[a])
    BY <2>1 DEF UploadInv, NetInv, ReceiptsOK
  <2>6. chain[a].event = EventOf(receipts[a].tx) /\ receipts[a].tx.step # 0
    BY <2>3, <2>4, <2>5 DEF EventMatches
  <2>7. /\ chain[a].event.type = "ChunkUploaded"
        /\ chain[a].event.fileId = Upload[t.by].fileId
        /\ chain[a].event.chunkIndex = t.step - 2
    BY <2>2, <2>4, <2>6 DEF EventOf
  <2> QED BY <2>2, <2>7 DEF ChunkAt, Uploads
<1> QED BY <1>1, UploadInvariant, PTL

(* On a chain that does not reorganise, a run that reports success has left *)
(* its whole file: the metadata announce its chunks, and each is there.     *)
THEOREM SuccessIsComplete == ASSUME MaxReorg = 0 PROVE UploadSpec => []DoneMeansComplete
<1>1. UploadInv => DoneMeansComplete
  <2> SUFFICES ASSUME UploadInv, NEW u \in Uploaders, up[u].pc = "done"
               PROVE  /\ files[Upload[u].fileId].exists
                      /\ files[Upload[u].fileId].chunkCount = LastStep(u)
                      /\ \A i \in DOMAIN Chunks[u] : \E b \in DOMAIN chain :
                            /\ ChunkAt(b, Upload[u].fileId, i - 1)
                            /\ chain[b].event.data = Chunks[u][i]
    BY DEF DoneMeansComplete
  <2>1. /\ IInv /\ UpsInv /\ NetInv /\ PaidInv /\ LastStep(u) \in Nat
    BY ChunksAreChunks DEF UploadInv, ChainInv
  <2>2. Past(up[u]) = LastStep(u)
    BY <2>1 DEF UpsInv, UpOK, Past
  <2>3. \A k \in 0..LastStep(u) : \E b \in 1..Len(receipts) :
            receipts[b].ok /\ receipts[b].tx.by = u /\ receipts[b].tx.step = k
    BY <2>1, <2>2 DEF PaidInv, PaidBelow
  <2>4. DOMAIN chain = 1..Len(chain) /\ Len(receipts) = Len(chain) /\ Len(chain) \in Nat
    BY <2>1 DEF IInv, TypeOK, NetInv, ReceiptsOK
  <2>5. /\ files[Upload[u].fileId].exists
        /\ files[Upload[u].fileId].chunkCount = LastStep(u)
    <3>1. PICK b \in 1..Len(receipts) :
            receipts[b].ok /\ receipts[b].tx.by = u /\ receipts[b].tx.step = 0
      BY <2>1, <2>3
    <3>2. /\ b \in 1..Len(chain) /\ Creates(chain, b, Upload[u].fileId)
          /\ chain[b].event.chunkCount = LastStep(u)
      BY <3>1, PaidCreation
    <3>3. Announced(files, chain, Len(chain)) /\ Upload[u].fileId \in FileIds
      BY <2>1, <2>4 DEF IInv, LastPost, PostsMatchLog
    <3>4. files[Upload[u].fileId] = MetadataOf(chain[b].event)
          /\ files[Upload[u].fileId].exists
      BY <3>2, <3>3 DEF Announced
    <3> QED BY <3>2, <3>4 DEF MetadataOf
  <2>6. ASSUME NEW i \in DOMAIN Chunks[u]
        PROVE  \E b \in DOMAIN chain : /\ ChunkAt(b, Upload[u].fileId, i - 1)
                                       /\ chain[b].event.data = Chunks[u][i]
    <3>1. i \in 1..LastStep(u)
      BY ChunksAreChunks
    <3>2. PICK b \in 1..Len(receipts) :
            receipts[b].ok /\ receipts[b].tx.by = u /\ receipts[b].tx.step = i
      BY <2>1, <2>3, <3>1
    <3>3. chain[b].event = EventOf(receipts[b].tx)
      BY <2>1, <3>2 DEF NetInv, ReceiptsOK, EventMatches
    <3>4. /\ chain[b].event.type = "ChunkUploaded"
          /\ chain[b].event.fileId = Upload[u].fileId
          /\ chain[b].event.chunkIndex = i - 1
          /\ chain[b].event.data = Chunks[u][i]
      BY <3>1, <3>2, <3>3 DEF EventOf
    <3> QED BY <2>4, <3>4 DEF ChunkAt, Uploads
  <2> QED BY <2>5, <2>6
<1> QED BY <1>1, UploadInvariant, PTL

-----------------------------------------------------------------------------
(* Copies are bounded: those a run paid for in a step have different        *)
(* attempts.                                                                *)

MinedCopies(u, s) == {b \in DOMAIN receipts : receipts[b].tx.by = u /\ receipts[b].tx.step = s}

(* The attempts of a step that were mined are no more than it may have.     *)
LEMMA CopiesAreAttempts ==
    ASSUME UploadInv, NEW u \in Uploaders, NEW s \in Nat
    PROVE  /\ IsFiniteSet(MinedCopies(u, s))
           /\ Cardinality(MinedCopies(u, s)) <= IF s = 0 THEN 1 ELSE MaxAttempts
<1> DEFINE S == MinedCopies(u, s)
           most == IF s = 0 THEN 1 ELSE MaxAttempts
           f == [b \in S |-> receipts[b].tx.attempt]
<1>1. /\ NetInv /\ ReceiptsOK(chain, receipts) /\ receipts \in Seq(Receipt)
      /\ DOMAIN receipts = 1..Len(receipts)
  BY DEF UploadInv, NetInv, ReceiptsOK
<1>2. ASSUME NEW b \in S
      PROVE  /\ b \in 1..Len(receipts) /\ receipts[b].tx \in Known(mempool, receipts)
             /\ receipts[b].tx.by = u /\ receipts[b].tx.step = s
  BY <1>1 DEF MinedCopies, Known
<1>3. most \in Nat /\ MaxAttempts \in Nat \ {0}
  OBVIOUS
<1>4. ASSUME NEW b \in S PROVE receipts[b].tx.attempt \in 1..most
  <2>1. receipts[b].tx.attempt \in 1..MaxAttempts /\ (s = 0 => receipts[b].tx.attempt = 1)
    BY <1>1, <1>2, KnownType, TransactionType DEF NetInv, KnownOK
  <2> QED BY <1>3, <2>1
<1>5. ASSUME NEW a \in S, NEW b \in S, receipts[a].tx.attempt = receipts[b].tx.attempt
      PROVE  a = b
  <2>1. SameTry(receipts[a].tx, receipts[b].tx)
    BY <1>2, <1>5 DEF SameTry
  <2>2. receipts[a].tx = receipts[b].tx
    BY <1>1, <1>2, <2>1 DEF NetInv, KnownOK
  <2> QED BY <1>1, <1>2, <2>2, MinedOnce
<1> HIDE DEF S, most
<1>6. f \in Injection(S, 1..most)
  <2>1. f \in [S -> 1..most]
    BY <1>4
  <2>2. \A a, b \in S : f[a] = f[b] => a = b
    BY <1>5
  <2> HIDE DEF f
  <2> QED BY <2>1, <2>2 DEF Injection, IsInjective
<1> HIDE DEF f
<1>7. IsFiniteSet(1..most) /\ Cardinality(1..most) = most
  BY <1>3, FS_Interval
<1>8. IsFiniteSet(S) /\ Cardinality(S) <= Cardinality(1..most)
  BY <1>6, <1>7, FS_Injection
<1> QED BY <1>7, <1>8 DEF S, most

(* A run pays for its createFile() once at most and for a chunk no more     *)
(* often than it may try, and all the runs of a content leave no more       *)
(* copies of a chunk than one may: with a wallet for each run however the   *)
(* chain reorganises, with shared wallets if it does not.                   *)
THEOREM CopiesAreBounded == ASSUME Apart PROVE UploadSpec => []DuplicatesBounded
<1>1. UploadInv => DuplicatesBounded
  <2> SUFFICES ASSUME UploadInv PROVE DuplicatesBounded
    OBVIOUS
  <2>1. ASSUME NEW u \in Uploaders, NEW s \in 0..LastStep(u)
        PROVE  Cardinality({b \in DOMAIN receipts :
                                receipts[b].tx.by = u /\ receipts[b].tx.step = s})
                    <= IF s = 0 THEN 1 ELSE MaxAttempts
    <3>1. s \in Nat
      BY ChunksAreChunks
    <3> QED BY <3>1, CopiesAreAttempts DEF MinedCopies
  <2>2. ASSUME NEW a \in DOMAIN chain, Uploads(chain, a)
        PROVE  Cardinality({b \in DOMAIN chain :
                    ChunkAt(b, chain[a].event.fileId, chain[a].event.chunkIndex)}) <= MaxAttempts
    <3> DEFINE t == receipts[a].tx
               S == {b \in DOMAIN chain :
                        ChunkAt(b, chain[a].event.fileId, chain[a].event.chunkIndex)}
               T == MinedCopies(t.by, t.step)
    <3>1. /\ DOMAIN chain = 1..Len(chain) /\ DOMAIN receipts = 1..Len(receipts)
          /\ Len(chain) = Len(receipts)
      BY DEF UploadInv, ChainInv, IInv, TypeOK, NetInv, ReceiptsOK
    <3>2. t \in Transactions /\ t.by \in Uploaders /\ t.step \in Nat /\ t.step # 0
          /\ chain[a].event.chunkIndex = t.step - 1
      BY <2>2, <3>1, LoggedChunk, TransactionType
    <3>3. ASSUME NEW b \in S PROVE b \in T
      <4>1. /\ b \in 1..Len(chain) /\ Uploads(chain, b)
            /\ chain[b].event.fileId = chain[a].event.fileId
            /\ chain[b].event.chunkIndex = chain[a].event.chunkIndex
        BY <3>1 DEF ChunkAt
      <4>2. receipts[b].tx.by = t.by
        BY <2>2, <3>1, <4>1, OneRunPerFile
      <4>3. receipts[b].tx.step \in Nat /\ chain[b].event.chunkIndex = receipts[b].tx.step - 1
        BY <4>1, LoggedChunk, TransactionType
      <4>4. receipts[b].tx.step = t.step
        BY <3>2, <4>1, <4>3
      <4> QED BY <3>1, <4>1, <4>2, <4>4 DEF MinedCopies
    <3>4. IsFiniteSet(T) /\ Cardinality(T) <= MaxAttempts
      BY <3>2, CopiesAreAttempts
    <3> HIDE DEF S, T
    <3>5. S \in SUBSET T
      BY <3>3
    <3>6. IsFiniteSet(S) /\ Cardinality(S) <= Cardinality(T)
      BY <3>4, <3>5, FS_Subset
    <3>7. Cardinality(S) \in Nat /\ Cardinality(T) \in Nat /\ MaxAttempts \in Nat
      BY <3>4, <3>6, FS_CardinalityType
    <3>8. Cardinality(S) <= MaxAttempts
      BY <3>4, <3>6, <3>7
    <3> QED BY <3>8 DEF S
  <2> QED BY <2>1, <2>2 DEF DuplicatesBounded
<1> QED BY <1>1, UploadInvariant, PTL
=============================================================================
