----------------------------- MODULE ManagerBot -----------------------------
(***************************************************************************)
(* The wallet and deployment manager src/manager_bot.py, and the set-up by *)
(* which the other programs read what it wrote.  A run of interactive()    *)
(* picks a wallet, waits for its funds, looks for the configured contract  *)
(* and offers to deploy one.  Runs, one after the other or side by side,   *)
(* share config/wallet_private_key.txt and config/contract.json; both are  *)
(* written by write_text(), which empties the file before it fills it.     *)
(* The network is the deployment's: it does not reorganise here.           *)
(***************************************************************************)
EXTENDS Naturals, FiniteSets

CONSTANTS
    Managers,           \* processes that run interactive(), again and again
    Clients,            \* programs that read the two files to set themselves up
    Keys,               \* private keys
    OwnKey,             \* the key the user has from the start
    Prices,             \* gas prices, which tell resent transactions apart
    Absent, Empty,      \* a file that is missing, or emptied and not yet filled
    HandWritten,        \* an address in a config the user wrote, without code here
    MaxConsents         \* bound: how often the users agree to a deployment

ASSUME ManagerAssumption ==
    /\ OwnKey \in Keys
    /\ Prices \subseteq Nat \ {0} /\ Prices # {}
    /\ MaxConsents \in Nat

VARIABLES
    walletFile,         \* a key, Absent or Empty
    configFile,         \* an address, Absent or Empty
    keys,               \* the keys that exist
    balance,            \* of the account of each key, 0 or 1
    pool,               \* deployments sent and not mined
    mined,              \* deployments mined: [tx, ok]
    run,                \* what each manager is doing
    client,             \* the contract each client is set up with, or Absent
    consents            \* observed: deployments agreed to

fileVars == <<walletFile, configFile>>
networkVars == <<balance, pool, mined>>
managerVars == <<fileVars, networkVars, keys, run, client, consents>>

Nonces == 0..MaxConsents

\* A deployment; two that agree in everything are one transaction.
Deployments == [key: Keys, nonce: Nonces, price: Prices]

\* The address of a contract follows from its deployer's account and nonce.
AddressOf(tx) == [key |-> tx.key, nonce |-> tx.nonce]

Addresses == [key: Keys, nonce: Nonces] \cup {HandWritten}

\* A missing file and an empty one hold neither a key nor an address, and no
\* deployment lands at the address the user wrote.
ASSUME FilesAssumption ==
    /\ {Absent, Empty} \cap Keys = {}
    /\ HandWritten \notin {Absent, Empty}
    /\ \A x \in {Absent, Empty, HandWritten} : x \notin [key: Keys, nonce: Nonces]

HasCode(address) == \E r \in mined : r.ok /\ AddressOf(r.tx) = address

Idle == [pc |-> "over", key |-> OwnKey, new |-> FALSE, found |-> Absent,
         blind |-> FALSE, tx |-> Absent, address |-> Absent]

Over == {"over", "ready"}

ManagerInit ==
    /\ walletFile = Absent
    /\ configFile \in {Absent, HandWritten}
    /\ keys = {OwnKey}
    /\ balance = [k \in Keys |-> 0]
    /\ pool = {}
    /\ mined = {}
    /\ run = [m \in Managers |-> Idle]
    /\ client = [c \in Clients |-> Absent]
    /\ consents = 0

\* interactive() ends, with an address to show or none.
Ends(m, outcome, address) ==
    run' = [run EXCEPT ![m] = [Idle EXCEPT !.pc = outcome, !.address = address]]

-----------------------------------------------------------------------------
(* _select_wallet() and the funds.                                          *)

\* The constructor reached the endpoint; a wallet file is asked about.
Start(m) ==
    /\ run[m].pc \in Over
    /\ run' = [run EXCEPT ![m] = [Idle EXCEPT
                    !.pc = IF walletFile = Absent THEN "menu" ELSE "ask"]]
    /\ UNCHANGED <<fileVars, networkVars, keys, client, consents>>

\* An empty file fails to load and the same question is asked again.
UseFile(m) ==
    /\ run[m].pc = "ask"
    /\ walletFile \in Keys
    /\ run' = [run EXCEPT ![m].pc = "balance", ![m].key = walletFile]
    /\ UNCHANGED <<fileVars, networkVars, keys, client, consents>>

\* A key is generated, or one that exists is entered; _persist_private_key()
\* opens the file, which empties it.
ChooseKey(m, k) ==
    /\ run[m].pc \in {"ask", "menu"}
    /\ keys' = keys \cup {k}
    /\ walletFile' = Empty
    /\ run' = [run EXCEPT ![m].pc = "persist", ![m].key = k, ![m].new = k \notin keys]
    /\ UNCHANGED <<configFile, networkVars, client, consents>>

\* The key is in the file; a new one is shown with the faucet's address.
PersistKey(m) ==
    /\ run[m].pc = "persist"
    /\ walletFile' = run[m].key
    /\ run' = [run EXCEPT ![m].pc = IF run[m].new THEN "fund" ELSE "balance"]
    /\ UNCHANGED <<configFile, networkVars, keys, client, consents>>

\* load_contract_config(): a file that does not parse is no contract.
LookUpConfig(m) ==
    run' = [run EXCEPT ![m].found = configFile,
                       ![m].pc = IF configFile \in Addresses THEN "verify" ELSE "offer"]

CheckBalance(m) ==
    /\ run[m].pc = "balance"
    /\ IF balance[run[m].key] > 0
       THEN LookUpConfig(m)
       ELSE run' = [run EXCEPT ![m].pc = "fund"]
    /\ UNCHANGED <<fileVars, networkVars, keys, client, consents>>

EnoughAboveOne(b) == b > 1                    \* faulty: what the faucet pays is too little

Enough(b) == b > 0

\* wait_for_funding() returns; for a new wallet interactive() checks once more.
Funded(m) ==
    /\ run[m].pc = "fund"
    /\ Enough(balance[run[m].key])
    /\ IF run[m].new
       THEN run' = [run EXCEPT ![m].pc = "balance", ![m].new = FALSE]
       ELSE LookUpConfig(m)
    /\ UNCHANGED <<fileVars, networkVars, keys, client, consents>>

-----------------------------------------------------------------------------
(* verify_contract_exists(), deploy_contract(), save_contract_config().     *)

\* faulty: no return after the contract was shown.
VerifyFallsThrough(m) ==
    /\ run[m].pc = "verify"
    /\ run' = [run EXCEPT ![m].pc = "offer"]
    /\ UNCHANGED <<fileVars, networkVars, keys, client, consents>>

Verify(m) ==
    /\ run[m].pc = "verify"
    /\ IF HasCode(run[m].found)
       THEN Ends(m, "ready", run[m].found)
       ELSE run' = [run EXCEPT ![m].pc = "offer"]
    /\ UNCHANGED <<fileVars, networkVars, keys, client, consents>>

\* get_code() raises: the contract is taken for missing.
VerifyFails(m) ==
    /\ run[m].pc = "verify"
    /\ run' = [run EXCEPT ![m].pc = "offer", ![m].blind = TRUE]
    /\ UNCHANGED <<fileVars, networkVars, keys, client, consents>>

Decline(m) ==
    /\ run[m].pc = "offer"
    /\ Ends(m, "over", Absent)
    /\ UNCHANGED <<fileVars, networkVars, keys, client, consents>>

NonceOf(k) == Cardinality({r \in mined : r.tx.key = k})

\* The user agrees.  The nonce counts the mined transactions; a gas price or an
\* estimate that is not answered is done without.
Consent(m) ==
    /\ run[m].pc = "offer"
    /\ consents < MaxConsents
    /\ consents' = consents + 1
    /\ \E price \in Prices :
        run' = [run EXCEPT ![m].pc = "send",
                    ![m].tx = [key |-> run[m].key, nonce |-> NonceOf(run[m].key),
                               price |-> price]]
    /\ UNCHANGED <<fileVars, networkVars, keys, client>>

\* The endpoint takes a transaction that is due or later, in place of cheaper
\* ones with its nonce.
Takes(tx) ==
    LET same == {t \in pool : t.key = tx.key /\ t.nonce = tx.nonce}
    IN  /\ tx.nonce >= NonceOf(tx.key)
        /\ \A t \in same : t.price < tx.price
        /\ pool' = (pool \ same) \cup {tx}

Send(m) ==
    /\ run[m].pc = "send"
    /\ Takes(run[m].tx)
    /\ run' = [run EXCEPT ![m].pc = "wait"]
    /\ UNCHANGED <<fileVars, balance, mined, keys, client, consents>>

\* It is taken, but the answer is lost.
SendAnswerLost(m) ==
    /\ run[m].pc = "send"
    /\ Takes(run[m].tx)
    /\ Ends(m, "over", Absent)
    /\ UNCHANGED <<fileVars, balance, mined, keys, client, consents>>

SucceededAnyway(r) == TRUE                    \* faulty: the status is not read

Succeeded(r) == r.ok

DeployedSwapped(r) == r.tx                    \* faulty: the hash for the address

\* What deploy_contract() returns first of its pair.
Deployed(r) == AddressOf(r.tx)

\* The receipt arrives.  After a success save_contract_config() opens the file.
Receipt(m) ==
    /\ run[m].pc = "wait"
    /\ \E r \in mined :
        /\ r.tx = run[m].tx
        /\ IF Succeeded(r)
           THEN /\ run' = [run EXCEPT ![m].pc = "save", ![m].tx = Absent,
                                      ![m].address = Deployed(r)]
                /\ configFile' = Empty
           ELSE /\ Ends(m, "over", Absent)
                /\ UNCHANGED configFile
    /\ UNCHANGED <<walletFile, networkVars, keys, client, consents>>

\* faulty: a call that failed is followed by another deployment.
CallRetries(m) ==
    /\ run[m].pc \in {"send", "wait"}
    /\ run' = [run EXCEPT ![m].pc = "send", ![m].tx.nonce = NonceOf(run[m].key)]
    /\ UNCHANGED <<fileVars, networkVars, keys, client, consents>>

\* The transaction is refused (nonce too low, already known, underpriced), or no
\* receipt came in TX_TIMEOUT_SECONDS, or a poll was answered by an error.
CallFails(m) ==
    /\ run[m].pc \in {"send", "wait"}
    /\ Ends(m, "over", Absent)
    /\ UNCHANGED <<fileVars, networkVars, keys, client, consents>>

\* The address is in the file; the run is ready unless the last balance query raises.
SaveConfig(m) ==
    /\ run[m].pc = "save"
    /\ configFile' = run[m].address
    /\ Ends(m, "ready", run[m].address) \/ Ends(m, "over", Absent)
    /\ UNCHANGED <<walletFile, networkVars, keys, client, consents>>

\* An exception leaves interactive(): a failed balance query, an invalid key, a
\* missing artifact; or the process is killed.
Stop(m) ==
    /\ run[m].pc \notin Over
    /\ Ends(m, "over", Absent)
    /\ UNCHANGED <<fileVars, networkVars, keys, client, consents>>

-----------------------------------------------------------------------------
(* The other programs, run again and again: an uploader reads the wallet,   *)
(* then the contract; the downloader and the sync command only the contract.*)

LoadWallet == walletFile \in Keys

\* connect_web3() takes the address as it is, without asking for its code.
LoadContract(c) ==
    /\ configFile \in Addresses
    /\ client' = [client EXCEPT ![c] = configFile]

\* A file that is missing, empty or malformed ends the program, as does an
\* endpoint that cannot be reached.
SetUp(c) ==
    /\ \/ \E uploads \in BOOLEAN : (uploads => LoadWallet) /\ LoadContract(c)
       \/ client' = [client EXCEPT ![c] = Absent]
    /\ UNCHANGED <<fileVars, networkVars, keys, run, consents>>

-----------------------------------------------------------------------------
\* A deployment whose nonce is due is mined; it may run out of gas.
MineTx(tx) ==
    /\ tx.nonce = NonceOf(tx.key)
    /\ \E ok \in BOOLEAN : mined' = mined \cup {[tx |-> tx, ok |-> ok]}
    /\ pool' = pool \ {tx}
    /\ UNCHANGED <<fileVars, balance, keys, run, client, consents>>

Evict(tx) ==
    /\ pool' = pool \ {tx}
    /\ UNCHANGED <<fileVars, balance, mined, keys, run, client, consents>>

\* The faucet pays.
Faucet(k) ==
    /\ balance[k] = 0
    /\ balance' = [balance EXCEPT ![k] = 1]
    /\ UNCHANGED <<fileVars, pool, mined, keys, run, client, consents>>

Network ==
    \/ \E tx \in pool : MineTx(tx) \/ Evict(tx)
    \/ \E k \in keys : Faucet(k)

Proceed(m) ==
    \/ UseFile(m)
    \/ \E k \in Keys : ChooseKey(m, k)
    \/ PersistKey(m) \/ CheckBalance(m) \/ Funded(m)
    \/ Verify(m) \/ VerifyFails(m) \/ Consent(m) \/ Decline(m)
    \/ Send(m) \/ SendAnswerLost(m) \/ Receipt(m) \/ CallFails(m) \/ SaveConfig(m)

ManagerNext ==
    \/ Network
    \/ \E m \in Managers : Start(m) \/ Proceed(m) \/ Stop(m)
    \/ \E c \in Clients : SetUp(c)

ManagerSpec == ManagerInit /\ [][ManagerNext]_managerVars

\* The user answers the questions of a run, and its calls return or raise.
FairManagerSpec ==
    ManagerSpec /\ \A m \in Managers : WF_managerVars(Proceed(m))

-----------------------------------------------------------------------------
\* The variables have their types, and a run holds a transaction from its nonce
\* to its receipt.
ManagerTypeOK ==
    /\ walletFile \in keys \cup {Absent, Empty}
    /\ configFile \in Addresses \cup {Absent, Empty}
    /\ keys \subseteq Keys
    /\ balance \in [Keys -> {0, 1}]
    /\ pool \subseteq Deployments
    /\ mined \subseteq [tx: Deployments, ok: BOOLEAN]
    /\ \A r, s \in mined : AddressOf(r.tx) = AddressOf(s.tx) => r = s
    /\ \A m \in Managers :
        /\ run[m].key \in keys
        /\ run[m].pc \in {"send", "wait"} => run[m].tx \in Deployments
    /\ client \in [Clients -> Addresses \cup {Absent}]
    /\ consents \in 0..MaxConsents

\* The config never names an address at which nothing was deployed, unless the
\* user wrote it; nor does a run report one as ready, nor an uploader or a reader
\* set itself up with one: a deployment that timed out, reverted, lost its answer
\* or lost its place to another run's never reaches them.
NamedContractsExist ==
    /\ configFile \in {Absent, Empty, HandWritten} \/ HasCode(configFile)
    /\ \A m \in Managers : run[m].pc = "ready" => HasCode(run[m].address)
    /\ \A c \in Clients : client[c] \in {Absent, HandWritten} \/ HasCode(client[c])

\* A user who agrees to a deployment pays for one at most: timeouts, lost answers
\* and late mining never deploy a second contract that nobody agreed to.
OneContractPerConsent == Cardinality({r \in mined : r.ok}) <= consents

\* A contract that works is given up only by a run that could not know of it: the
\* config did not name it when the run read the file, or the run was answered by
\* an error when it asked for its code.
ReplacedOnlyUnseen ==
    [][HasCode(configFile) /\ configFile' # configFile =>
        \E m \in Managers : run[m].pc \in {"wait", "save"}
            /\ (run[m].blind \/ run[m].found # configFile)]_managerVars

\* The run waits for somebody to fund its wallet.
Unfunded(m) == run[m].pc = "fund" /\ balance[run[m].key] = 0

\* A run ends, whatever the network does to its deployment, except that it waits
\* for ever for a wallet that nobody funds; with the funds it goes on and ends.
RunEnds ==
    \A m \in Managers :
        (run[m].pc \notin Over /\ ~Unfunded(m)) ~> (run[m].pc \in Over \/ Unfunded(m))

\* What README.md says of a run that finds the configured contract valid: "shows
\* address, exits (nothing to do)", so a working contract stays configured.
WorkingContractStays ==
    [][HasCode(configFile) => configFile' = configFile]_managerVars
=============================================================================
