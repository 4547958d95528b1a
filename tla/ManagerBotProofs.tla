-------------------------- MODULE ManagerBotProofs --------------------------
(* Proofs about ManagerBot for every value of its constants: any number of  *)
(* runs and of programs that read the files, any keys, prices and consents. *)
EXTENDS ManagerBot, FiniteSetTheorems, TLAPS

USE ManagerAssumption, FilesAssumption

-----------------------------------------------------------------------------
(* What is true of a run.  It holds a transaction from its nonce to its     *)
(* receipt; what it is about to write, or shows as ready, is deployed; and  *)
(* one that is on its way to a deployment read no contract that works from  *)
(* the config, unless the query that would have told it so raised.          *)

NoContract == {Absent, Empty, HandWritten}

RunState ==
    [pc: {"over", "ready", "ask", "menu", "persist", "fund", "balance", "verify",
          "offer", "send", "wait", "save"},
     key: Keys, new: BOOLEAN, found: Addresses \cup {Absent, Empty}, blind: BOOLEAN,
     tx: Deployments \cup {Absent}, address: Addresses \cup {Absent}]

CodeAt(m, address) == \E r \in m : r.ok /\ AddressOf(r.tx) = address

RunOK(s, ks, mn) ==
    /\ s.key \in ks
    /\ s.pc \in {"send", "wait"} => s.tx \in Deployments
    /\ s.pc \in {"save", "ready"} => CodeAt(mn, s.address)
    /\ s.found \in NoContract \/ CodeAt(mn, s.found)
    /\ s.pc \in {"offer", "send", "wait", "save"} => s.blind \/ s.found \in NoContract

RunsInv ==
    /\ run \in [Managers -> RunState]
    /\ \A m \in Managers : RunOK(run[m], keys, mined)

(* What is in the files, and what the other programs took from them.        *)
FilesInv ==
    /\ keys \subseteq Keys /\ OwnKey \in keys
    /\ walletFile \in keys \cup {Absent, Empty}
    /\ configFile \in Addresses \cup {Absent, Empty}
    /\ configFile \in NoContract \/ CodeAt(mined, configFile)
    /\ client \in [Clients -> Addresses \cup {Absent}]
    /\ \A c \in Clients : client[c] \in {Absent, HandWritten} \/ CodeAt(mined, client[c])

(* The network: what is mined of a key has the nonces from 0 on, and each   *)
(* deployment that is mined, under way or about to be sent was agreed to.   *)
Sending == {m \in Managers : run[m].pc = "send"}

CountInv ==
    /\ IsFiniteSet(mined) /\ IsFiniteSet(pool) /\ IsFiniteSet(Sending)
    /\ Cardinality(mined) + Cardinality(pool) + Cardinality(Sending) <= consents
    /\ consents \in 0..MaxConsents

NetworkInv ==
    /\ balance \in [Keys -> {0, 1}]
    /\ pool \subseteq Deployments
    /\ mined \subseteq [tx: Deployments, ok: BOOLEAN]
    /\ \A r \in mined : r.tx.nonce < NonceOf(r.tx.key)
    /\ \A r, s \in mined : AddressOf(r.tx) = AddressOf(s.tx) => r = s

MInv == RunsInv /\ FilesInv /\ CountInv /\ NetworkInv

-----------------------------------------------------------------------------
(* The steps of a run, each as its new state.                               *)

RunBecomes(m, s) ==
    /\ run' \in [Managers -> RunState]
    /\ s \in RunState
    /\ run'[m] = s
    /\ \A n \in Managers \ {m} : run'[n] = run[n]

(* An assignment to one run is a step of that run alone.                    *)
LEMMA RunSet ==
    ASSUME RunsInv, NEW m \in Managers, NEW s \in RunState,
           run' = [run EXCEPT ![m] = s]
    PROVE  RunBecomes(m, s)
  BY DEF RunBecomes, RunsInv

(* A run that is over holds no transaction, address or answer.              *)
LEMMA IdleType ==
    /\ Idle \in RunState /\ Idle.pc = "over" /\ Idle.key = OwnKey /\ Idle.found = Absent
    /\ Idle.tx = Absent /\ Idle.address = Absent /\ Idle.blind = FALSE /\ Idle.new = FALSE
  BY DEF Idle, RunState

(* An address with code is an address, not the mark of a missing or empty   *)
(* file.                                                                    *)
LEMMA CodeIsAddress ==
    ASSUME mined \subseteq [tx: Deployments, ok: BOOLEAN], NEW a, CodeAt(mined, a)
    PROVE  a \in Addresses /\ a \notin NoContract
  BY DEF CodeAt, AddressOf, Deployments, Addresses, NoContract

(* A run that ends reports an address only when there is code at it.        *)
LEMMA EndsEffect ==
    ASSUME RunsInv, FilesInv, NEW m \in Managers, NEW outcome \in Over,
           NEW address \in Addresses \cup {Absent}, Ends(m, outcome, address),
           outcome = "ready" => CodeAt(mined, address)
    PROVE  \E s : RunBecomes(m, s) /\ s.pc = outcome /\ RunOK(s, keys, mined)
<1> DEFINE s1 == [Idle EXCEPT !.pc = outcome]
           s2 == [s1 EXCEPT !.address = address]
<1>1. s1 \in RunState /\ s1.pc = outcome /\ s1.key = OwnKey /\ s1.found = Absent
  BY IdleType DEF RunState, Over
<1>2. run' = [run EXCEPT ![m] = s2]
  BY DEF Ends
<1> HIDE DEF s1
<1>3. s2 \in RunState /\ s2.pc = outcome /\ s2.key = OwnKey /\ s2.found = Absent
      /\ s2.address = address
  BY <1>1 DEF RunState
<1> HIDE DEF s2
<1>4. RunOK(s2, keys, mined)
  BY <1>3 DEF RunOK, FilesInv, NoContract, Over
<1> QED BY <1>2, <1>3, <1>4, RunSet

(* A run is a run state and names only what is deployed.                    *)
LEMMA StepType ==
    ASSUME RunsInv, NEW m \in Managers
    PROVE  run[m] \in RunState /\ RunOK(run[m], keys, mined)
  BY DEF RunsInv

(* A run that makes or types in a key goes on with a key that exists.       *)
LEMMA ChooseKeyEffect ==
    ASSUME RunsInv, FilesInv, NEW m \in Managers, NEW k \in Keys, ChooseKey(m, k)
    PROVE  \E s : RunBecomes(m, s) /\ s.pc # "send" /\ RunOK(s, keys', mined)
<1> DEFINE s1 == [run[m] EXCEPT !.pc = "persist"]
           s2 == [s1 EXCEPT !.key = k]
           s3 == [s2 EXCEPT !.new = k \notin keys]
<1>1. run \in [Managers -> RunState] /\ run[m] \in RunState /\ RunOK(run[m], keys, mined)
  BY StepType DEF RunsInv
<1>2. s1 \in RunState /\ s1.pc = "persist" /\ s1.found = run[m].found
  BY <1>1 DEF RunState
<1>3. run' = [run EXCEPT ![m] = s3]
  BY <1>1 DEF ChooseKey
<1> HIDE DEF s1
<1>4. s2 \in RunState /\ s2.pc = "persist" /\ s2.key = k /\ s2.found = run[m].found
  BY <1>2 DEF RunState
<1> HIDE DEF s2
<1>5. s3 \in RunState /\ s3.pc = "persist" /\ s3.key = k /\ s3.found = run[m].found
  BY <1>4 DEF RunState
<1> HIDE DEF s3
<1>6. RunOK(s3, keys', mined)
  BY <1>1, <1>5 DEF RunOK, ChooseKey
<1> QED BY <1>3, <1>5, <1>6, RunSet

(* A run starts with the key of the wallet file or in its menu.             *)
LEMMA StartEffect ==
    ASSUME RunsInv, FilesInv, NEW m \in Managers, Start(m)
    PROVE  \E s : RunBecomes(m, s) /\ s.pc # "send" /\ RunOK(s, keys, mined)
<1> DEFINE x == IF walletFile = Absent THEN "menu" ELSE "ask"
           s == [Idle EXCEPT !.pc = x]
<1>1. s \in RunState /\ s.pc = x /\ s.key = OwnKey /\ s.found = Absent
  BY IdleType DEF RunState
<1>2. run' = [run EXCEPT ![m] = s]
  BY DEF Start
<1>3. x \in {"menu", "ask"}
  OBVIOUS
<1> HIDE DEF s, x
<1>4. RunOK(s, keys, mined)
  BY <1>1, <1>3 DEF RunOK, FilesInv, NoContract
<1> QED BY <1>1, <1>2, <1>3, <1>4, RunSet

(* A run that keeps the wallet file goes on with its key.                   *)
LEMMA UseFileEffect ==
    ASSUME RunsInv, FilesInv, NEW m \in Managers, UseFile(m)
    PROVE  \E s : RunBecomes(m, s) /\ s.pc # "send" /\ RunOK(s, keys, mined)
<1> DEFINE s1 == [run[m] EXCEPT !.pc = "balance"]
           s2 == [s1 EXCEPT !.key = walletFile]
<1>1. run \in [Managers -> RunState] /\ run[m] \in RunState /\ RunOK(run[m], keys, mined)
  BY StepType DEF RunsInv
<1>2. walletFile \in Keys /\ walletFile \in keys
  BY DEF UseFile, FilesInv
<1>3. s1 \in RunState /\ s1.pc = "balance" /\ s1.found = run[m].found
  BY <1>1 DEF RunState
<1>4. run' = [run EXCEPT ![m] = s2]
  BY <1>1 DEF UseFile
<1> HIDE DEF s1
<1>5. s2 \in RunState /\ s2.pc = "balance" /\ s2.key = walletFile /\ s2.found = run[m].found
  BY <1>2, <1>3 DEF RunState
<1> HIDE DEF s2
<1>6. RunOK(s2, keys, mined)
  BY <1>1, <1>2, <1>5 DEF RunOK
<1> QED BY <1>4, <1>5, <1>6, RunSet

(* The steps that change pc alone.                                          *)
LEMMA PcMoves ==
    ASSUME RunsInv, NEW m \in Managers, NEW x \in {"fund", "balance", "wait"},
           run' = [run EXCEPT ![m].pc = x], x = "wait" => run[m].pc = "send"
    PROVE  \E s : RunBecomes(m, s) /\ s.pc # "send" /\ RunOK(s, keys, mined)
<1> DEFINE s == [run[m] EXCEPT !.pc = x]
<1>1. run \in [Managers -> RunState] /\ run[m] \in RunState /\ RunOK(run[m], keys, mined)
  BY StepType DEF RunsInv
<1>2. s \in RunState /\ s.pc = x /\ s.key = run[m].key /\ s.found = run[m].found
      /\ s.blind = run[m].blind /\ s.tx = run[m].tx
  BY <1>1 DEF RunState
<1>3. run' = [run EXCEPT ![m] = s]
  BY <1>1
<1> HIDE DEF s
<1>4. RunOK(s, keys, mined)
  BY <1>1, <1>2 DEF RunOK
<1> QED BY <1>2, <1>3, <1>4, RunSet

(* A run holds the config it read, or none.                                 *)
LEMMA LookUpEffect ==
    ASSUME RunsInv, FilesInv, NEW m \in Managers, LookUpConfig(m)
    PROVE  \E s : RunBecomes(m, s) /\ s.pc # "send" /\ RunOK(s, keys, mined)
<1> DEFINE x == IF configFile \in Addresses THEN "verify" ELSE "offer"
           s1 == [run[m] EXCEPT !.found = configFile]
           s2 == [s1 EXCEPT !.pc = x]
<1>1. run \in [Managers -> RunState] /\ run[m] \in RunState /\ RunOK(run[m], keys, mined)
  BY StepType DEF RunsInv
<1>2. s1 \in RunState /\ s1.found = configFile /\ s1.key = run[m].key
  BY <1>1 DEF RunState, FilesInv
<1>3. run' = [run EXCEPT ![m] = s2]
  BY <1>1 DEF LookUpConfig
<1>4. x \in {"verify", "offer"} /\ (x = "offer" => configFile \in NoContract)
  BY DEF FilesInv, NoContract
<1> HIDE DEF s1, x
<1>5. s2 \in RunState /\ s2.pc = x /\ s2.key = run[m].key /\ s2.found = configFile
  BY <1>2, <1>4 DEF RunState
<1> HIDE DEF s2
<1>6. RunOK(s2, keys, mined)
  BY <1>1, <1>4, <1>5 DEF RunOK, FilesInv
<1> QED BY <1>3, <1>4, <1>5, <1>6, RunSet

(* A run whose wallet is funded goes on with what it holds.                 *)
LEMMA FundedEffect ==
    ASSUME RunsInv, FilesInv, NEW m \in Managers, Funded(m)
    PROVE  \E s : RunBecomes(m, s) /\ s.pc # "send" /\ RunOK(s, keys, mined)
<1>1. CASE ~run[m].new
  BY <1>1, LookUpEffect DEF Funded
<1>2. CASE run[m].new
  <2> DEFINE s1 == [run[m] EXCEPT !.pc = "balance"]
             s2 == [s1 EXCEPT !.new = FALSE]
  <2>1. run \in [Managers -> RunState] /\ run[m] \in RunState /\ RunOK(run[m], keys, mined)
    BY StepType DEF RunsInv
  <2>2. s1 \in RunState /\ s1.pc = "balance" /\ s1.key = run[m].key /\ s1.found = run[m].found
    BY <2>1 DEF RunState
  <2>3. run' = [run EXCEPT ![m] = s2]
    BY <1>2, <2>1 DEF Funded
  <2> HIDE DEF s1
  <2>4. s2 \in RunState /\ s2.pc = "balance" /\ s2.key = run[m].key /\ s2.found = run[m].found
    BY <2>2 DEF RunState
  <2> HIDE DEF s2
  <2>5. RunOK(s2, keys, mined)
    BY <2>1, <2>4 DEF RunOK
  <2> QED BY <2>3, <2>4, <2>5, RunSet
<1> QED BY <1>1, <1>2

(* A run ends with an address at which it found code, or asks.              *)
LEMMA VerifyEffect ==
    ASSUME RunsInv, FilesInv, NetworkInv, NEW m \in Managers, Verify(m) \/ VerifyFails(m)
    PROVE  \E s : RunBecomes(m, s) /\ s.pc # "send" /\ RunOK(s, keys, mined)
<1>1. run \in [Managers -> RunState] /\ run[m] \in RunState /\ RunOK(run[m], keys, mined)
  BY StepType DEF RunsInv
<1>2. CASE VerifyFails(m)
  <2> DEFINE s1 == [run[m] EXCEPT !.pc = "offer"]
             s2 == [s1 EXCEPT !.blind = TRUE]
  <2>1. s1 \in RunState /\ s1.pc = "offer" /\ s1.key = run[m].key /\ s1.found = run[m].found
    BY <1>1 DEF RunState
  <2>2. run' = [run EXCEPT ![m] = s2]
    BY <1>1, <1>2 DEF VerifyFails
  <2> HIDE DEF s1
  <2>3. s2 \in RunState /\ s2.pc = "offer" /\ s2.key = run[m].key /\ s2.found = run[m].found
        /\ s2.blind = TRUE
    BY <2>1 DEF RunState
  <2> HIDE DEF s2
  <2>4. RunOK(s2, keys, mined)
    BY <1>1, <2>3 DEF RunOK
  <2> QED BY <2>2, <2>3, <2>4, RunSet
<1>3. CASE Verify(m) /\ HasCode(run[m].found)
  <2>1. CodeAt(mined, run[m].found)
    BY <1>3 DEF HasCode, CodeAt
  <2>2. run[m].found \in Addresses /\ Ends(m, "ready", run[m].found)
    BY <1>3, <2>1, CodeIsAddress DEF Verify, NetworkInv
  <2> QED BY <2>1, <2>2, EndsEffect DEF Over
<1>4. CASE Verify(m) /\ ~HasCode(run[m].found)
  <2> DEFINE s == [run[m] EXCEPT !.pc = "offer"]
  <2>1. s \in RunState /\ s.pc = "offer" /\ s.key = run[m].key /\ s.found = run[m].found
    BY <1>1 DEF RunState
  <2>2. run' = [run EXCEPT ![m] = s]
    BY <1>1, <1>4 DEF Verify
  <2>3. run[m].found \in NoContract
    BY <1>1, <1>4 DEF RunOK, HasCode, CodeAt
  <2> HIDE DEF s
  <2>4. RunOK(s, keys, mined)
    BY <1>1, <2>1, <2>3 DEF RunOK
  <2> QED BY <2>1, <2>2, <2>4, RunSet
<1> QED BY <1>2, <1>3, <1>4

(* The nonce is in range because what is mined was agreed to.               *)
LEMMA NonceInRange ==
    ASSUME CountInv, consents < MaxConsents, NEW k
    PROVE  NonceOf(k) \in Nonces
<1>1. {r \in mined : r.tx.key = k} \in SUBSET mined
  OBVIOUS
<1>2. NonceOf(k) \in Nat /\ NonceOf(k) <= Cardinality(mined)
  BY <1>1, FS_Subset, FS_CardinalityType DEF NonceOf, CountInv
<1>3. Cardinality(mined) \in Nat /\ Cardinality(pool) \in Nat /\ Cardinality(Sending) \in Nat
  BY FS_CardinalityType DEF CountInv
<1> QED BY <1>2, <1>3 DEF Nonces, CountInv

(* A consent signs a deployment with a key that exists.                     *)
LEMMA ConsentEffect ==
    ASSUME RunsInv, FilesInv, CountInv, NEW m \in Managers, Consent(m)
    PROVE  \E s : RunBecomes(m, s) /\ RunOK(s, keys, mined)
<1>1. run \in [Managers -> RunState] /\ run[m] \in RunState /\ RunOK(run[m], keys, mined)
      /\ run[m].key \in Keys /\ run[m].pc = "offer"
  BY StepType DEF RunsInv, RunState, Consent
<1>2. PICK price \in Prices : run' = [run EXCEPT ![m].pc = "send",
             ![m].tx = [key |-> run[m].key, nonce |-> NonceOf(run[m].key), price |-> price]]
  BY DEF Consent
<1> DEFINE tx == [key |-> run[m].key, nonce |-> NonceOf(run[m].key), price |-> price]
           s1 == [run[m] EXCEPT !.pc = "send"]
           s2 == [s1 EXCEPT !.tx = tx]
<1>3. tx \in Deployments
  BY <1>1, NonceInRange DEF Deployments, Consent
<1>4. s1 \in RunState /\ s1.pc = "send" /\ s1.key = run[m].key /\ s1.found = run[m].found
      /\ s1.blind = run[m].blind
  BY <1>1 DEF RunState
<1>5. run' = [run EXCEPT ![m] = s2]
  BY <1>1, <1>2
<1> HIDE DEF s1, tx
<1>6. s2 \in RunState /\ s2.pc = "send" /\ s2.key = run[m].key /\ s2.found = run[m].found
      /\ s2.blind = run[m].blind /\ s2.tx = tx
  BY <1>3, <1>4 DEF RunState
<1> HIDE DEF s2
<1>7. RunOK(s2, keys, mined)
  BY <1>1, <1>3, <1>6 DEF RunOK
<1> QED BY <1>5, <1>6, <1>7, RunSet

(* A receipt gives the run the address of a deployment that succeeded.      *)
LEMMA ReceiptEffect ==
    ASSUME RunsInv, FilesInv, NetworkInv, NEW m \in Managers, Receipt(m)
    PROVE  \E s : RunBecomes(m, s) /\ s.pc # "send" /\ RunOK(s, keys, mined)
<1>1. run \in [Managers -> RunState] /\ run[m] \in RunState /\ RunOK(run[m], keys, mined)
      /\ run[m].pc = "wait"
  BY StepType DEF RunsInv, Receipt
<1>2. PICK r \in mined :
        IF Succeeded(r)
           THEN run' = [run EXCEPT ![m].pc = "save", ![m].tx = Absent, ![m].address = Deployed(r)]
           ELSE Ends(m, "over", Absent)
  BY DEF Receipt
<1>3. CASE ~Succeeded(r)
  <2>1. Ends(m, "over", Absent)
    BY <1>2, <1>3
  <2> QED BY <2>1, EndsEffect DEF Over
<1>4. CASE Succeeded(r)
  <2> DEFINE s1 == [run[m] EXCEPT !.pc = "save"]
             s2 == [s1 EXCEPT !.tx = Absent]
             s3 == [s2 EXCEPT !.address = Deployed(r)]
  <2>1. CodeAt(mined, Deployed(r))
    BY <1>4 DEF CodeAt, Deployed, Succeeded
  <2>2. Deployed(r) \in Addresses
    BY <2>1, CodeIsAddress DEF NetworkInv
  <2>3. s1 \in RunState /\ s1.pc = "save" /\ s1.key = run[m].key /\ s1.found = run[m].found
        /\ s1.blind = run[m].blind
    BY <1>1 DEF RunState
  <2>4. run' = [run EXCEPT ![m] = s3]
    BY <1>1, <1>2, <1>4
  <2> HIDE DEF s1
  <2>5. s2 \in RunState /\ s2.pc = "save" /\ s2.key = run[m].key /\ s2.found = run[m].found
        /\ s2.blind = run[m].blind
    BY <2>3 DEF RunState
  <2> HIDE DEF s2
  <2>6. s3 \in RunState /\ s3.pc = "save" /\ s3.key = run[m].key /\ s3.found = run[m].found
        /\ s3.blind = run[m].blind /\ s3.address = Deployed(r)
    BY <2>2, <2>5 DEF RunState
  <2> HIDE DEF s3
  <2>7. RunOK(s3, keys, mined)
    BY <1>1, <2>1, <2>6 DEF RunOK
  <2> QED BY <2>4, <2>6, <2>7, RunSet
<1> QED BY <1>3, <1>4

(* What a run saves has code.                                               *)
LEMMA SaveConfigEffect ==
    ASSUME RunsInv, FilesInv, NetworkInv, NEW m \in Managers, SaveConfig(m)
    PROVE  /\ \E s : RunBecomes(m, s) /\ s.pc # "send" /\ RunOK(s, keys, mined)
           /\ CodeAt(mined, run[m].address)
<1>1. RunOK(run[m], keys, mined) /\ run[m].pc = "save"
  BY StepType DEF SaveConfig
<1>2. CodeAt(mined, run[m].address)
  BY <1>1 DEF RunOK
<1>3. run[m].address \in Addresses
  BY <1>2, CodeIsAddress DEF NetworkInv
<1>4. CASE Ends(m, "ready", run[m].address)
  BY <1>2, <1>3, <1>4, EndsEffect DEF Over
<1>5. CASE Ends(m, "over", Absent)
  BY <1>2, <1>5, EndsEffect DEF Over
<1> QED BY <1>4, <1>5 DEF SaveConfig

-----------------------------------------------------------------------------
(* The steps keep what is true of the runs and of the files.                *)

(* Keys and mined deployments are never taken back.                         *)
LEMMA NothingTakenBack ==
    ASSUME [ManagerNext]_managerVars
    PROVE  keys \subseteq keys' /\ mined \subseteq mined'
  BY DEF ManagerNext, managerVars, networkVars, Network, MineTx, Evict, Faucet, Start, Proceed,
         Stop, SetUp, UseFile, ChooseKey, PersistKey, CheckBalance, Funded, Verify, VerifyFails,
         Consent, Decline, Send, SendAnswerLost, Receipt, CallFails, SaveConfig

(* Keys and deployments only become more, so what a run may name stays.     *)
LEMMA RunOKStays ==
    ASSUME NEW s, NEW ks, NEW mn, NEW kt, NEW mt, ks \subseteq kt, mn \subseteq mt,
           RunOK(s, ks, mn)
    PROVE  RunOK(s, kt, mt)
  BY DEF RunOK, CodeAt

(* A step of a run keeps what the run names deployed; only a consent leaves *)
(* it sending.                                                              *)
LEMMA RunStep ==
    ASSUME MInv, NEW m \in Managers, Start(m) \/ Proceed(m) \/ Stop(m)
    PROVE  /\ UNCHANGED mined
           /\ \E s : /\ RunBecomes(m, s) /\ RunOK(s, keys', mined)
                     /\ s.pc = "send" => Consent(m)
<1> USE DEF MInv
<1>1. CASE \E k \in Keys : ChooseKey(m, k)
  <2>1. UNCHANGED mined
    BY <1>1 DEF ChooseKey, networkVars
  <2> QED BY <1>1, <2>1, ChooseKeyEffect
<1>2. CASE Start(m) \/ UseFile(m) \/ Verify(m) \/ VerifyFails(m)
  <2>1. \E s : RunBecomes(m, s) /\ s.pc # "send" /\ RunOK(s, keys, mined)
    BY <1>2, StartEffect, UseFileEffect, VerifyEffect
  <2>2. UNCHANGED <<keys, mined>>
    BY <1>2 DEF Start, UseFile, Verify, VerifyFails, networkVars
  <2> QED BY <2>1, <2>2
<1>3. CASE PersistKey(m)
  <2>1. \E s : RunBecomes(m, s) /\ s.pc # "send" /\ RunOK(s, keys, mined)
    <3>1. PICK x \in {"fund", "balance"} : run' = [run EXCEPT ![m].pc = x]
      BY <1>3 DEF PersistKey
    <3> QED BY <3>1, PcMoves
  <2>2. UNCHANGED <<keys, mined>>
    BY <1>3 DEF PersistKey, networkVars
  <2> QED BY <2>1, <2>2
<1>4. CASE CheckBalance(m)
  <2>1. \E s : RunBecomes(m, s) /\ s.pc # "send" /\ RunOK(s, keys, mined)
    <3>1. CASE run' = [run EXCEPT ![m].pc = "fund"]
      BY <3>1, PcMoves
    <3> QED BY <1>4, <3>1, LookUpEffect DEF CheckBalance
  <2>2. UNCHANGED <<keys, mined>>
    BY <1>4 DEF CheckBalance, networkVars
  <2> QED BY <2>1, <2>2
<1>5. CASE Funded(m) \/ Receipt(m) \/ SaveConfig(m)
  <2>1. \E s : RunBecomes(m, s) /\ s.pc # "send" /\ RunOK(s, keys, mined)
    BY <1>5, FundedEffect, ReceiptEffect, SaveConfigEffect
  <2>2. UNCHANGED <<keys, mined>>
    BY <1>5 DEF Funded, Receipt, SaveConfig, networkVars
  <2> QED BY <2>1, <2>2
<1>6. CASE Consent(m)
  <2>1. UNCHANGED <<keys, mined>>
    BY <1>6 DEF Consent, networkVars
  <2> QED BY <1>6, <2>1, ConsentEffect
<1>7. CASE Send(m)
  <2>1. \E s : RunBecomes(m, s) /\ s.pc # "send" /\ RunOK(s, keys, mined)
    BY <1>7, PcMoves DEF Send
  <2> QED BY <1>7, <2>1 DEF Send
<1>8. CASE SendAnswerLost(m) \/ Decline(m) \/ CallFails(m) \/ Stop(m)
  <2>1. Ends(m, "over", Absent) /\ UNCHANGED <<keys, mined>>
    BY <1>8 DEF SendAnswerLost, Decline, CallFails, Stop, networkVars
  <2> QED BY <2>1, EndsEffect DEF Over
<1> QED BY <1>1, <1>2, <1>3, <1>4, <1>5, <1>6, <1>7, <1>8 DEF Proceed

(* Every step keeps all runs in order.                                      *)
LEMMA RunsInvSteps ==
    ASSUME MInv, [ManagerNext]_managerVars
    PROVE  RunsInv'
<1>1. keys \subseteq keys' /\ mined \subseteq mined'
  BY NothingTakenBack
<1>2. CASE UNCHANGED run
  BY <1>1, <1>2, RunOKStays DEF MInv, RunsInv
<1>3. ASSUME NEW m \in Managers, Start(m) \/ Proceed(m) \/ Stop(m)
      PROVE  RunsInv'
  <2>1. PICK s : RunBecomes(m, s) /\ RunOK(s, keys', mined)
    BY <1>3, RunStep
  <2>2. UNCHANGED mined
    BY <1>3, RunStep
  <2>3. ASSUME NEW n \in Managers PROVE RunOK(run'[n], keys', mined')
    <3>1. CASE n = m
      BY <2>1, <2>2, <3>1 DEF RunBecomes
    <3>2. CASE n # m
      <4>1. RunOK(run[n], keys, mined) /\ run'[n] = run[n]
        BY <2>1, <3>2 DEF RunBecomes, MInv, RunsInv
      <4> QED BY <1>1, <4>1, RunOKStays
    <3> QED BY <3>1, <3>2
  <2> QED BY <2>1, <2>3 DEF RunBecomes, RunsInv
<1>4. Network \/ (\E c \in Clients : SetUp(c)) \/ UNCHANGED managerVars => UNCHANGED run
  BY DEF Network, MineTx, Evict, Faucet, SetUp, managerVars
<1> QED BY <1>2, <1>3, <1>4 DEF ManagerNext

(* Every step keeps the files to keys that exist and addresses that have    *)
(* code.                                                                    *)
LEMMA FilesInvSteps ==
    ASSUME MInv, [ManagerNext]_managerVars
    PROVE  FilesInv'
<1>1. keys \subseteq keys' /\ mined \subseteq mined'
  BY NothingTakenBack
<1>2. \A a : CodeAt(mined, a) => CodeAt(mined', a)
  BY <1>1 DEF CodeAt
<1> USE DEF MInv
<1>3. CASE UNCHANGED <<fileVars, keys, client>>
  BY <1>2, <1>3 DEF FilesInv, fileVars
<1>4. ASSUME NEW m \in Managers, NEW k \in Keys, ChooseKey(m, k)
      PROVE  FilesInv'
  BY <1>2, <1>4 DEF FilesInv, ChooseKey
<1>5. ASSUME NEW m \in Managers, PersistKey(m)
      PROVE  FilesInv'
  <2>1. run[m].key \in keys
    BY StepType DEF RunOK
  <2> QED BY <1>2, <1>5, <2>1 DEF FilesInv, PersistKey
<1>6. ASSUME NEW m \in Managers, Receipt(m)
      PROVE  FilesInv'
  BY <1>2, <1>6 DEF FilesInv, Receipt, NoContract, fileVars
<1>7. ASSUME NEW m \in Managers, SaveConfig(m)
      PROVE  FilesInv'
  <2>1. CodeAt(mined, run[m].address)
    BY <1>7, SaveConfigEffect
  <2>2. run[m].address \in Addresses
    BY <2>1, CodeIsAddress DEF NetworkInv
  <2> QED BY <1>2, <1>7, <2>1, <2>2 DEF FilesInv, SaveConfig
<1>8. ASSUME NEW c \in Clients, SetUp(c)
      PROVE  FilesInv'
  <2>1. configFile \in Addresses => configFile \notin {Absent, Empty}
    BY DEF Addresses
  <2>2. UNCHANGED <<fileVars, keys>>
    BY <1>8 DEF SetUp
  <2>3. PICK a \in Addresses \cup {Absent} :
            client' = [client EXCEPT ![c] = a] /\ (a = Absent \/ a = HandWritten \/ CodeAt(mined, a))
    BY <1>8, <2>1 DEF SetUp, LoadContract, FilesInv, NoContract
  <2>4. client' \in [Clients -> Addresses \cup {Absent}]
    BY <2>3 DEF FilesInv
  <2>5. \A d \in Clients : client'[d] \in {Absent, HandWritten} \/ CodeAt(mined', client'[d])
    BY <1>2, <2>3 DEF FilesInv
  <2> QED BY <1>2, <2>2, <2>4, <2>5 DEF FilesInv, fileVars
<1>9. ASSUME NEW m \in Managers,
             \/ Start(m) \/ UseFile(m) \/ CheckBalance(m) \/ Funded(m) \/ Verify(m) \/ VerifyFails(m)
             \/ Consent(m) \/ Decline(m) \/ Send(m) \/ SendAnswerLost(m) \/ CallFails(m) \/ Stop(m)
      PROVE  UNCHANGED <<fileVars, keys, client>>
  BY <1>9 DEF Start, UseFile, CheckBalance, Funded, Verify, VerifyFails, Consent, Decline, Send,
              SendAnswerLost, CallFails, Stop
<1>10. Network \/ UNCHANGED managerVars => UNCHANGED <<fileVars, keys, client>>
  BY DEF Network, MineTx, Evict, Faucet, managerVars
<1> QED BY <1>3, <1>4, <1>5, <1>6, <1>7, <1>8, <1>9, <1>10 DEF ManagerNext, Proceed

-----------------------------------------------------------------------------
(* The steps keep what is true of the network and of the counts.            *)

LEMMA OneMore ==
    ASSUME NEW S, IsFiniteSet(S), NEW x
    PROVE  /\ IsFiniteSet(S \cup {x}) /\ Cardinality(S \cup {x}) \in Nat
           /\ Cardinality(S \cup {x}) <= Cardinality(S) + 1
<1>1. IsFiniteSet(S \cup {x}) /\ Cardinality(S \cup {x}) \in Nat /\ Cardinality(S) \in Nat
  BY FS_AddElement, FS_CardinalityType
<1>2. Cardinality(S \cup {x}) = IF x \in S THEN Cardinality(S) ELSE Cardinality(S) + 1
  BY FS_AddElement
<1> QED BY <1>1, <1>2

(* A nonce is a number.                                                     *)
LEMMA NonceOfType ==
    ASSUME IsFiniteSet(mined), NEW k
    PROVE  NonceOf(k) \in Nat
<1>1. {r \in mined : r.tx.key = k} \in SUBSET mined
  OBVIOUS
<1> QED BY <1>1, FS_Subset, FS_CardinalityType DEF NonceOf

(* A deployment is mined at the next nonce of its key, and that one moves.  *)
LEMMA MiningCounts ==
    ASSUME NetworkInv, IsFiniteSet(mined), NEW tx \in Deployments, NEW ok \in BOOLEAN,
           tx.nonce = NonceOf(tx.key), mined' = mined \cup {[tx |-> tx, ok |-> ok]}
    PROVE  /\ [tx |-> tx, ok |-> ok] \notin mined
           /\ NonceOf(tx.key)' = NonceOf(tx.key) + 1
           /\ \A k : k # tx.key => NonceOf(k)' = NonceOf(k)
<1> DEFINE new == [tx |-> tx, ok |-> ok]
<1>1. new.tx = tx /\ NonceOf(tx.key) \in Nat
  BY NonceOfType
<1>2. new \notin mined
  BY <1>1 DEF NetworkInv
<1>3. \A k : k # tx.key => {r \in mined' : r.tx.key = k} = {r \in mined : r.tx.key = k}
  BY <1>1
<1>4. {r \in mined' : r.tx.key = tx.key} = {r \in mined : r.tx.key = tx.key} \cup {new}
  BY <1>1
<1> DEFINE S == {r \in mined : r.tx.key = tx.key}
<1>5. S \in SUBSET mined /\ new \notin S
  BY <1>2
<1>6. IsFiniteSet(S)
  BY <1>5, FS_Subset
<1> HIDE DEF new
<1>7. Cardinality(S \cup {new}) = Cardinality(S) + 1
  BY <1>5, <1>6, FS_AddElement
<1> QED BY <1>2, <1>3, <1>4, <1>7 DEF NonceOf, new

(* A deployment that is mined takes the next nonce, so its address is new.  *)
LEMMA MineKeepsNetwork ==
    ASSUME NetworkInv, IsFiniteSet(mined), NEW tx \in pool, MineTx(tx)
    PROVE  NetworkInv'
<1>1. tx \in Deployments /\ tx.nonce = NonceOf(tx.key)
  BY DEF NetworkInv, MineTx
<1>2. PICK ok \in BOOLEAN : mined' = mined \cup {[tx |-> tx, ok |-> ok]}
  BY DEF MineTx
<1> DEFINE new == [tx |-> tx, ok |-> ok]
<1>3. new.tx = tx /\ new \in [tx: Deployments, ok: BOOLEAN]
  BY <1>1
<1>4. /\ NonceOf(tx.key) \in Nat /\ NonceOf(tx.key)' = NonceOf(tx.key) + 1
      /\ \A k : k # tx.key => NonceOf(k)' = NonceOf(k)
  BY <1>1, <1>2, MiningCounts, NonceOfType
<1>5. \A r \in mined : r.tx \in Deployments /\ r.tx.nonce \in Nat /\ r.tx.nonce < NonceOf(r.tx.key)
  BY DEF NetworkInv, Deployments, Nonces
<1> HIDE DEF new
<1>6. mined' = mined \cup {new}
  BY <1>2 DEF new
<1>7. ASSUME NEW r \in mined' PROVE r.tx.nonce < NonceOf(r.tx.key)'
  <2>1. CASE r = new
    BY <1>1, <1>3, <1>4, <2>1
  <2>2. CASE r \in mined /\ r.tx.key = tx.key
    BY <1>4, <1>5, <2>2
  <2>3. CASE r \in mined /\ r.tx.key # tx.key
    BY <1>4, <1>5, <2>3
  <2> QED BY <1>6, <2>1, <2>2, <2>3
<1>8. ASSUME NEW r \in mined', NEW s \in mined', AddressOf(r.tx) = AddressOf(s.tx)
      PROVE  r = s
  <2>1. r.tx.key = s.tx.key /\ r.tx.nonce = s.tx.nonce
    BY <1>8 DEF AddressOf
  <2>2. CASE r \in mined /\ s \in mined
    BY <1>8, <2>2 DEF NetworkInv
  <2>3. CASE r \in mined /\ s = new
    BY <1>1, <1>3, <1>4, <1>5, <2>1, <2>3
  <2>4. CASE r = new /\ s \in mined
    BY <1>1, <1>3, <1>4, <1>5, <2>1, <2>4
  <2> QED BY <1>6, <2>2, <2>3, <2>4
<1>9. /\ balance' \in [Keys -> {0, 1}] /\ pool' \subseteq Deployments
      /\ mined' \subseteq [tx: Deployments, ok: BOOLEAN]
  BY <1>3, <1>6 DEF NetworkInv, MineTx
<1> QED BY <1>7, <1>8, <1>9 DEF NetworkInv

(* Every step keeps the addresses of deployments apart.                     *)
LEMMA NetworkInvSteps ==
    ASSUME MInv, [ManagerNext]_managerVars
    PROVE  NetworkInv'
<1> USE DEF MInv
<1>1. CASE UNCHANGED mined /\ pool' \subseteq Deployments /\ balance' \in [Keys -> {0, 1}]
  BY <1>1 DEF NetworkInv, NonceOf
<1>2. CASE \E tx \in pool : MineTx(tx)
  BY <1>2, MineKeepsNetwork DEF CountInv
<1>3. CASE (\E tx \in pool : Evict(tx)) \/ \E k \in keys : Faucet(k)
  BY <1>1, <1>3 DEF NetworkInv, Evict, Faucet
<1>4. ASSUME NEW m \in Managers, Send(m) \/ SendAnswerLost(m)
      PROVE  NetworkInv'
  <2>1. run[m].tx \in Deployments
    BY <1>4, StepType DEF RunOK, Send, SendAnswerLost
  <2>2. Takes(run[m].tx) /\ UNCHANGED <<balance, mined>>
    BY <1>4 DEF Send, SendAnswerLost
  <2>3. pool' \subseteq Deployments
    BY <2>1, <2>2 DEF Takes, NetworkInv
  <2> QED BY <1>1, <2>2, <2>3 DEF NetworkInv
<1>5. UNCHANGED networkVars => NetworkInv'
  BY <1>1 DEF NetworkInv, networkVars
<1>6. ASSUME NEW m \in Managers,
             \/ Start(m) \/ UseFile(m) \/ (\E k \in Keys : ChooseKey(m, k)) \/ PersistKey(m)
             \/ CheckBalance(m) \/ Funded(m) \/ Verify(m) \/ VerifyFails(m) \/ Consent(m)
             \/ Decline(m) \/ Receipt(m) \/ CallFails(m) \/ SaveConfig(m) \/ Stop(m)
      PROVE  UNCHANGED networkVars
  BY <1>6 DEF Start, UseFile, ChooseKey, PersistKey, CheckBalance, Funded, Verify, VerifyFails,
              Consent, Decline, Receipt, CallFails, SaveConfig, Stop
<1>7. (\E c \in Clients : SetUp(c)) \/ UNCHANGED managerVars => UNCHANGED networkVars
  BY DEF SetUp, managerVars
<1> QED BY <1>2, <1>3, <1>4, <1>5, <1>6, <1>7 DEF ManagerNext, Network, Proceed

(* The runs that are about to send, after a step of one run.                *)
LEMMA SendingMoves ==
    ASSUME NEW m \in Managers, NEW s, RunBecomes(m, s)
    PROVE  Sending' = IF s.pc = "send" THEN Sending \cup {m} ELSE Sending \ {m}
  BY DEF Sending, RunBecomes

(* A transaction that is taken takes the place of cheaper ones.             *)
LEMMA TakesOne ==
    ASSUME IsFiniteSet(pool), NEW tx, Takes(tx)
    PROVE  IsFiniteSet(pool') /\ Cardinality(pool') <= Cardinality(pool) + 1
           /\ Cardinality(pool') \in Nat
<1> DEFINE same == {t \in pool : t.key = tx.key /\ t.nonce = tx.nonce}
           kept == pool \ same
<1>1. pool' = kept \cup {tx}
  BY DEF Takes
<1>2. kept \in SUBSET pool
  OBVIOUS
<1> HIDE DEF kept
<1>3. IsFiniteSet(kept) /\ Cardinality(kept) <= Cardinality(pool)
      /\ Cardinality(kept) \in Nat /\ Cardinality(pool) \in Nat
  BY <1>2, FS_Subset, FS_CardinalityType
<1>4. IsFiniteSet(kept \cup {tx}) /\ Cardinality(kept \cup {tx}) <= Cardinality(kept) + 1
      /\ Cardinality(kept \cup {tx}) \in Nat
  BY <1>3, OneMore
<1> QED BY <1>1, <1>3, <1>4

(* The deployments mined, pending and about to be sent stay within the      *)
(* consents.                                                                *)
LEMMA CountInvSteps ==
    ASSUME MInv, [ManagerNext]_managerVars
    PROVE  CountInv'
<1> USE DEF MInv
<1>1. /\ IsFiniteSet(mined) /\ IsFiniteSet(pool) /\ IsFiniteSet(Sending)
      /\ Cardinality(mined) + Cardinality(pool) + Cardinality(Sending) <= consents
      /\ consents \in 0..MaxConsents
      /\ Cardinality(mined) \in Nat /\ Cardinality(pool) \in Nat /\ Cardinality(Sending) \in Nat
  BY FS_CardinalityType DEF CountInv
<1>2. CASE UNCHANGED <<mined, pool, run, consents>>
  BY <1>1, <1>2 DEF CountInv, Sending
<1>3. ASSUME NEW tx \in pool, MineTx(tx)
      PROVE  CountInv'
  <2>1. PICK ok \in BOOLEAN : mined' = mined \cup {[tx |-> tx, ok |-> ok]}
    BY <1>3 DEF MineTx
  <2>2. pool' = pool \ {tx} /\ UNCHANGED <<run, consents>>
    BY <1>3 DEF MineTx
  <2>3. IsFiniteSet(mined') /\ Cardinality(mined') <= Cardinality(mined) + 1
    BY <1>1, <2>1, OneMore
  <2>4. IsFiniteSet(pool') /\ Cardinality(pool') = Cardinality(pool) - 1
    BY <1>1, <2>2, FS_RemoveElement
  <2>5. Cardinality(mined') \in Nat /\ Cardinality(pool') \in Nat
    BY <2>3, <2>4, FS_CardinalityType
  <2>6. Sending' = Sending
    BY <2>2 DEF Sending
  <2> QED BY <1>1, <2>2, <2>3, <2>4, <2>5, <2>6 DEF CountInv
<1>4. ASSUME NEW tx \in pool, Evict(tx)
      PROVE  CountInv'
  <2>1. pool' = pool \ {tx} /\ UNCHANGED <<run, consents, mined>>
    BY <1>4 DEF Evict
  <2>2. IsFiniteSet(pool') /\ Cardinality(pool') = Cardinality(pool) - 1
    BY <1>1, <2>1, FS_RemoveElement
  <2>3. Sending' = Sending
    BY <2>1 DEF Sending
  <2> QED BY <1>1, <2>1, <2>2, <2>3 DEF CountInv
<1>5. ASSUME NEW m \in Managers, Consent(m)
      PROVE  CountInv'
  <2>1. PICK s : RunBecomes(m, s)
    BY <1>5, RunStep DEF Proceed
  <2>2. Sending' \subseteq Sending \cup {m}
    BY <2>1, SendingMoves
  <2>3. IsFiniteSet(Sending \cup {m}) /\ Cardinality(Sending \cup {m}) <= Cardinality(Sending) + 1
        /\ Cardinality(Sending \cup {m}) \in Nat
    BY <1>1, OneMore
  <2>4. IsFiniteSet(Sending') /\ Cardinality(Sending') <= Cardinality(Sending \cup {m})
        /\ Cardinality(Sending') \in Nat
    BY <2>2, <2>3, FS_Subset, FS_CardinalityType
  <2>5. consents' = consents + 1 /\ consents < MaxConsents /\ UNCHANGED <<mined, pool>>
    BY <1>5 DEF Consent, networkVars
  <2> QED BY <1>1, <2>3, <2>4, <2>5 DEF CountInv
<1>6. ASSUME NEW m \in Managers, Send(m) \/ SendAnswerLost(m)
      PROVE  CountInv'
  <2>1. run[m].pc = "send" /\ Takes(run[m].tx) /\ UNCHANGED <<mined, consents>>
    BY <1>6 DEF Send, SendAnswerLost
  <2>2. PICK s : RunBecomes(m, s) /\ (s.pc = "send" => Consent(m))
    BY <1>6, RunStep DEF Proceed
  <2>3. Sending' = Sending \ {m} /\ m \in Sending
    BY <2>1, <2>2, SendingMoves DEF Sending, Consent
  <2>4. IsFiniteSet(Sending') /\ Cardinality(Sending') = Cardinality(Sending) - 1
    BY <1>1, <2>3, FS_RemoveElement
  <2>5. IsFiniteSet(pool') /\ Cardinality(pool') <= Cardinality(pool) + 1
        /\ Cardinality(pool') \in Nat
    BY <1>1, <2>1, TakesOne
  <2> QED BY <1>1, <2>1, <2>4, <2>5 DEF CountInv
<1>7. ASSUME NEW m \in Managers,
             \/ Start(m) \/ UseFile(m) \/ (\E k \in Keys : ChooseKey(m, k)) \/ PersistKey(m)
             \/ CheckBalance(m) \/ Funded(m) \/ Verify(m) \/ VerifyFails(m)
             \/ Decline(m) \/ Receipt(m) \/ CallFails(m) \/ SaveConfig(m) \/ Stop(m)
      PROVE  CountInv'
  <2>1. UNCHANGED <<mined, pool, consents>>
    BY <1>7 DEF Start, UseFile, ChooseKey, PersistKey, CheckBalance, Funded, Verify, VerifyFails,
                Consent, Decline, Receipt, CallFails, SaveConfig, Stop, networkVars
  <2>2. ~Consent(m)
    BY <1>1, <2>1 DEF Consent
  <2>3. PICK s : RunBecomes(m, s) /\ (s.pc = "send" => Consent(m))
    BY <1>7, RunStep DEF Proceed
  <2>4. Sending' \in SUBSET Sending
    BY <2>2, <2>3, SendingMoves
  <2>5. IsFiniteSet(Sending') /\ Cardinality(Sending') <= Cardinality(Sending)
        /\ Cardinality(Sending') \in Nat
    BY <1>1, <2>4, FS_Subset, FS_CardinalityType
  <2> QED BY <1>1, <2>1, <2>5 DEF CountInv
<1>8. (\E k \in keys : Faucet(k)) \/ (\E c \in Clients : SetUp(c)) \/ UNCHANGED managerVars
        => UNCHANGED <<mined, pool, run, consents>>
  BY DEF Faucet, SetUp, managerVars, networkVars
<1> QED BY <1>2, <1>3, <1>4, <1>5, <1>6, <1>7, <1>8 DEF ManagerNext, Network, Proceed

-----------------------------------------------------------------------------
(* The inductive invariant and what follows from it.                        *)

(* The inductive invariant of the manager: a run names only what is         *)
(* deployed, the files hold only what runs wrote, and every deployment,     *)
(* mined or under way, has a consent of its own.                            *)
THEOREM ManagerInvariant == ManagerSpec => []MInv
<1>1. ManagerInit => MInv
  <2> SUFFICES ASSUME ManagerInit PROVE MInv
    OBVIOUS
  <2>1. RunsInv
    BY IdleType DEF ManagerInit, RunsInv, RunOK, NoContract
  <2>2. FilesInv
    BY DEF ManagerInit, FilesInv, NoContract, Addresses
  <2>3. CountInv
    <3>1. Sending = {} /\ mined = {} /\ pool = {} /\ consents = 0
      BY IdleType DEF ManagerInit, Sending
    <3> QED BY <3>1, FS_EmptySet DEF CountInv
  <2>4. NetworkInv
    BY DEF ManagerInit, NetworkInv
  <2> QED BY <2>1, <2>2, <2>3, <2>4 DEF MInv
<1>2. MInv /\ [ManagerNext]_managerVars => MInv'
  BY RunsInvSteps, FilesInvSteps, CountInvSteps, NetworkInvSteps DEF MInv
<1> QED BY <1>1, <1>2, PTL DEF ManagerSpec

(* Every variable keeps its type, no two deployments share an address, and  *)
(* a run holds a transaction from its nonce to its receipt.                 *)
THEOREM ManagerTypeCorrect == ManagerSpec => []ManagerTypeOK
<1>1. MInv => ManagerTypeOK
  <2> SUFFICES ASSUME MInv PROVE ManagerTypeOK
    OBVIOUS
  <2>1. \A m \in Managers : run[m].key \in keys
                            /\ (run[m].pc \in {"send", "wait"} => run[m].tx \in Deployments)
    BY DEF MInv, RunsInv, RunOK
  <2> QED BY <2>1 DEF MInv, FilesInv, NetworkInv, CountInv, ManagerTypeOK
<1> QED BY <1>1, ManagerInvariant, PTL

(* The config names an address, a run reports one as ready and a program    *)
(* sets itself up with one only if a deployment succeeded there or the user *)
(* wrote it: one that timed out, reverted, lost its answer or lost its      *)
(* place to another never reaches them.                                     *)
THEOREM OnlyRealContracts == ManagerSpec => []NamedContractsExist
<1>1. MInv => NamedContractsExist
  <2> SUFFICES ASSUME MInv PROVE NamedContractsExist
    OBVIOUS
  <2>1. \A m \in Managers : run[m].pc = "ready" => CodeAt(mined, run[m].address)
    BY DEF MInv, RunsInv, RunOK
  <2>2. \A a : CodeAt(mined, a) <=> HasCode(a)
    BY DEF CodeAt, HasCode
  <2> QED BY <2>1, <2>2 DEF MInv, FilesInv, NamedContractsExist, NoContract
<1> QED BY <1>1, ManagerInvariant, PTL

(* A user who agrees to a deployment pays for one at most, whatever is      *)
(* resent, replaced, timed out or mined late.                               *)
THEOREM OneDeploymentPerConsent == ManagerSpec => []OneContractPerConsent
<1>1. MInv => OneContractPerConsent
  <2> SUFFICES ASSUME MInv PROVE OneContractPerConsent
    OBVIOUS
  <2>1. /\ IsFiniteSet(mined) /\ IsFiniteSet(pool) /\ IsFiniteSet(Sending)
        /\ Cardinality(mined) + Cardinality(pool) + Cardinality(Sending) <= consents
        /\ consents \in Nat
    BY DEF MInv, CountInv
  <2>2. Cardinality(mined) \in Nat /\ Cardinality(pool) \in Nat /\ Cardinality(Sending) \in Nat
    BY <2>1, FS_CardinalityType
  <2> DEFINE good == {r \in mined : r.ok}
  <2>3. good \in SUBSET mined
    OBVIOUS
  <2> HIDE DEF good
  <2>4. Cardinality(good) <= Cardinality(mined) /\ Cardinality(good) \in Nat
    BY <2>1, <2>3, FS_Subset, FS_CardinalityType
  <2>5. Cardinality(good) <= consents
    BY <2>1, <2>2, <2>4
  <2> QED BY <2>5 DEF OneContractPerConsent, good
<1> QED BY <1>1, ManagerInvariant, PTL

(* A contract that works is given up only by a run that could not know of   *)
(* it: the config did not name it when the run read the file, or the run's  *)
(* query for its code raised.                                               *)
THEOREM WorkingContractsGivenUpUnseen == ManagerSpec => ReplacedOnlyUnseen
<1>1. ASSUME MInv, [ManagerNext]_managerVars, HasCode(configFile), configFile' # configFile
      PROVE  \E m \in Managers : run[m].pc \in {"wait", "save"}
                                 /\ (run[m].blind \/ run[m].found # configFile)
  <2>1. configFile \notin NoContract
    <3>1. CodeAt(mined, configFile)
      BY <1>1 DEF HasCode, CodeAt
    <3> QED BY <1>1, <3>1, CodeIsAddress DEF MInv, NetworkInv
  <2>2. PICK m \in Managers : Receipt(m) \/ SaveConfig(m)
    BY <1>1 DEF ManagerNext, managerVars, fileVars, Network, MineTx, Evict, Faucet, Start, Proceed,
         Stop, SetUp, UseFile, ChooseKey, PersistKey, CheckBalance, Funded, Verify, VerifyFails,
         Consent, Decline, Send, SendAnswerLost, CallFails
  <2>3. run[m].pc \in {"wait", "save"}
    BY <2>2 DEF Receipt, SaveConfig
  <2>4. run[m].blind \/ run[m].found \in NoContract
    BY <1>1, <2>3 DEF MInv, RunsInv, RunOK
  <2> QED BY <2>1, <2>3, <2>4
<1>2. MInv /\ [ManagerNext]_managerVars =>
        [HasCode(configFile) /\ configFile' # configFile =>
            \E m \in Managers : run[m].pc \in {"wait", "save"}
                /\ (run[m].blind \/ run[m].found # configFile)]_managerVars
  BY <1>1
<1> QED BY <1>2, ManagerInvariant, PTL DEF ManagerSpec, ReplacedOnlyUnseen
=============================================================================
