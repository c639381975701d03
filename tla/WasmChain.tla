------------------------------ MODULE WasmChain ------------------------------
(***************************************************************************)
(* The playground's chain (psy-wasm/src/lib.rs).                           *)
(*                                                                         *)
(* The page compiles a project, creates accounts, deploys what was         *)
(* compiled last and calls methods of deployed contracts. Two statics hold *)
(* what lasts between its calls: LAST_COMPILE, and CHAIN with the          *)
(* accounts, the contracts, the storage and the log of transactions. Every *)
(* exported function is one action: it holds the locks while it runs.      *)
(*                                                                         *)
(* A call is executed on a copy of the storage, by the executor of psy_vm, *)
(* which is outside this repository. It succeeds with some writes, or its  *)
(* transaction fails, or the executor returns an error, or it panics; a    *)
(* panic leaves the lock of CHAIN poisoned.                                *)
(***************************************************************************)
EXTENDS Naturals, Sequences

CONSTANTS Name,         \* of accounts
          Code,         \* what compiles: ABI, circuits and height of a contract
          Method,
          HasMethod(_, _),  \* whether the code has a circuit for the method
          Slot, Value,  \* of storage
          Zero,         \* the value of a slot that was never written
          NoWrite,      \* in an overlay: the slot is not written
          User,         \* the user ids callers pass
          MaxAccounts, MaxContracts, MaxLog   \* bounds

ASSUME ChainAssumption ==
    /\ Zero \in Value /\ NoWrite \notin Value
    /\ User \subseteq Nat
    /\ MaxAccounts \in Nat /\ MaxContracts \in Nat /\ MaxLog \in Nat

VARIABLES lastCompile,  \* LAST_COMPILE: {} or {code}
          built,        \* history: all that was compiled
          chain,        \* whether CHAIN is Some
          poisoned,     \* whether a panic happened while CHAIN was locked
          accounts, contracts, nextUser, nextContract, storage, log,  \* of InMemoryChain
          reply         \* the result of the latest call of the page

chainState == <<accounts, contracts, nextUser, nextContract, storage, log>>
chainVars == <<lastCompile, built, chain, poisoned, chainState, reply>>

ContractId == 1..MaxContracts + 1

\* A slot belongs to a user and a contract.
Cell == User \X ContractId \X Slot

Account == [userId : Nat, name : Name]
Contract == [contractId : Nat, deployerId : User, code : Code]
Writes == [Slot -> Value \cup {NoWrite}]
\* A TransactionRecord; code and writes are history.
Transaction ==
    [txId : Nat, callerId : User, contractId : Nat, code : Code, method : Method,
     success : BOOLEAN, writes : Writes]

Error == [ok |-> FALSE, id |-> 0]
Done(id) == [ok |-> TRUE, id |-> id]

----------------------------------------------------------------------------
ChainInit ==
    /\ lastCompile = {} /\ built = {}
    /\ chain = FALSE /\ poisoned = FALSE
    /\ accounts = <<>> /\ contracts = <<>>
    /\ nextUser = 1 /\ nextContract = 1
    /\ storage = [c \in Cell |-> Zero]
    /\ log = <<>>
    /\ reply = Done(0)

\* Mistake: a project that does not compile replaces the last one that did.
CompileProjectAlways(code, outcome) ==
    /\ lastCompile' = {code}
    /\ built' = IF outcome = "ok" THEN built \cup {code} ELSE built
    /\ reply' = IF outcome = "error" THEN Error ELSE Done(0)
    /\ UNCHANGED <<chain, poisoned, chainState>>

\* compile_source, compile_project and compile_dargo_project. The result is cached if
\* the ABI could be extracted too.
CompileProject(code, outcome) ==
    /\ IF outcome = "ok"
       THEN lastCompile' = {code} /\ built' = built \cup {code}
       ELSE UNCHANGED <<lastCompile, built>>
    /\ reply' = IF outcome = "error" THEN Error ELSE Done(0)
    /\ UNCHANGED <<chain, poisoned, chainState>>

\* Mistake: the contract ids of the new chain go on where the old ones ended, and the
\* storage is kept.
InitChainKeepingStorage ==
    /\ ~poisoned
    /\ chain' = TRUE
    /\ accounts' = <<>> /\ contracts' = <<>> /\ log' = <<>>
    /\ nextUser' = 1 /\ nextContract' = 1
    /\ reply' = Done(0)
    /\ UNCHANGED <<lastCompile, built, poisoned, storage>>

\* init_chain and reset_chain: a new chain, unless the lock is poisoned.
InitChain ==
    /\ ~poisoned
    /\ chain' = TRUE
    /\ accounts' = <<>> /\ contracts' = <<>> /\ log' = <<>>
    /\ nextUser' = 1 /\ nextContract' = 1
    /\ storage' = [c \in Cell |-> Zero]
    /\ reply' = Done(0)
    /\ UNCHANGED <<lastCompile, built, poisoned>>

\* with_chain succeeds.
Usable == chain /\ ~poisoned

HasAccount(u) == \E i \in DOMAIN accounts : accounts[i].userId = u

\* find_contract: the first contract with the id.
IsFound(i, id) ==
    /\ i \in DOMAIN contracts /\ contracts[i].contractId = id
    /\ \A j \in 1..(i - 1) : contracts[j].contractId # id

CreateAccount(name) ==
    /\ Usable /\ Len(accounts) < MaxAccounts
    /\ accounts' = Append(accounts, [userId |-> nextUser, name |-> name])
    /\ nextUser' = nextUser + 1
    /\ reply' = Done(nextUser)
    /\ UNCHANGED <<lastCompile, built, chain, poisoned, contracts, nextContract, storage, log>>

\* Mistake: the id of the new contract is that of its deployer.
DeployAsDeployer(u) ==
    /\ lastCompile # {} /\ Usable /\ HasAccount(u) /\ Len(contracts) < MaxContracts
    /\ \E code \in lastCompile :
         contracts' = Append(contracts, [contractId |-> u, deployerId |-> u, code |-> code])
    /\ reply' = Done(u)
    /\ UNCHANGED <<lastCompile, built, chain, poisoned, accounts, nextUser, nextContract, storage, log>>

\* deploy_contract.
Deploy(u) ==
    /\ lastCompile # {} /\ Usable /\ HasAccount(u) /\ Len(contracts) < MaxContracts
    /\ \E code \in lastCompile :
         contracts' = Append(contracts, [contractId |-> nextContract, deployerId |-> u, code |-> code])
    /\ nextContract' = nextContract + 1
    /\ reply' = Done(nextContract)
    /\ UNCHANGED <<lastCompile, built, chain, poisoned, accounts, nextUser, storage, log>>

\* A function returns an error: no chain or a poisoned lock, nothing compiled, an unknown
\* deployer, contract or method, or an error of the executor.
Refuse ==
    /\ reply' = Error
    /\ UNCHANGED <<lastCompile, built, chain, poisoned, chainState>>

CanCall(id, m) ==
    Usable /\ \E i \in DOMAIN contracts : IsFound(i, id) /\ HasMethod(contracts[i].code, m)

Record(u, id, code, m, success, writes) ==
    [txId |-> Len(log) + 1, callerId |-> u, contractId |-> id, code |-> code, method |-> m,
     success |-> success, writes |-> writes]

\* Storage with the overlay of a transaction of user u on contract id.
Overlaid(u, id, writes) ==
    [c \in Cell |-> IF c[1] = u /\ c[2] = id /\ writes[c[3]] # NoWrite THEN writes[c[3]]
                                                                     ELSE storage[c]]

\* Mistake: the overlay is applied whether the transaction succeeds or not.
CallApplyingAlways(u, id, m, success, writes) ==
    /\ CanCall(id, m) /\ Len(log) < MaxLog
    /\ \E i \in DOMAIN contracts :
         /\ IsFound(i, id)
         /\ log' = Append(log, Record(u, id, contracts[i].code, m, success, writes))
    /\ storage' = Overlaid(u, id, writes)
    /\ reply' = [ok |-> success, id |-> 0]
    /\ UNCHANGED <<lastCompile, built, chain, poisoned, accounts, contracts, nextUser, nextContract>>

\* call_contract, when the executor gives a result. The transaction is logged whether it
\* succeeds or not; only if it does is the overlay applied.
Call(u, id, m, success, writes) ==
    /\ CanCall(id, m) /\ Len(log) < MaxLog
    /\ \E i \in DOMAIN contracts :
         /\ IsFound(i, id)
         /\ log' = Append(log, Record(u, id, contracts[i].code, m, success, writes))
    /\ storage' = IF success THEN Overlaid(u, id, writes) ELSE storage
    /\ reply' = [ok |-> success, id |-> 0]
    /\ UNCHANGED <<lastCompile, built, chain, poisoned, accounts, contracts, nextUser, nextContract>>

\* call_contract, when the executor panics.
Panic(id, m) ==
    /\ CanCall(id, m)
    /\ poisoned' = TRUE
    /\ reply' = Error
    /\ UNCHANGED <<lastCompile, built, chain, chainState>>

ChainNext ==
    \/ \E code \in Code, outcome \in {"ok", "noAbi", "error"} : CompileProject(code, outcome)
    \/ InitChain
    \/ \E name \in Name : CreateAccount(name)
    \/ \E u \in User : Deploy(u)
    \/ \E u \in User, id \in ContractId, m \in Method, success \in BOOLEAN, writes \in Writes :
         Call(u, id, m, success, writes)
    \/ \E id \in ContractId, m \in Method : Panic(id, m)
    \/ Refuse

ChainSpec == ChainInit /\ [][ChainNext]_chainVars

----------------------------------------------------------------------------
(* Properties.                                                             *)

\* Every variable has its type; accounts and contracts are numbered from 1 on without
\* gaps, and there is nothing before there is a chain.
ChainTypeOK ==
    /\ lastCompile \subseteq Code /\ built \subseteq Code
    /\ chain \in BOOLEAN /\ poisoned \in BOOLEAN
    /\ accounts \in Seq(Account) /\ nextUser = Len(accounts) + 1
    /\ contracts \in Seq(Contract) /\ nextContract = Len(contracts) + 1
    /\ \A i \in DOMAIN accounts : accounts[i].userId = i
    /\ \A i \in DOMAIN contracts : contracts[i].contractId = i
    /\ storage \in [Cell -> Value]
    /\ log \in Seq(Transaction)
    /\ ~chain => accounts = <<>> /\ contracts = <<>> /\ log = <<>>
    /\ reply \in [ok : BOOLEAN, id : Nat]

WritesCell(tx, c) ==
    /\ tx.success /\ tx.callerId = c[1] /\ tx.contractId = c[2] /\ tx.writes[c[3]] # NoWrite

\* What is stored is what the log accounts for: a cell holds what the latest successful
\* transaction that wrote it wrote there, and zero if there is none, also after failed
\* calls, resets and panics.
LogExplainsStorage ==
    \A c \in Cell :
        \/ /\ storage[c] = Zero
           /\ \A i \in DOMAIN log : ~WritesCell(log[i], c)
        \/ \E i \in DOMAIN log :
             /\ WritesCell(log[i], c) /\ storage[c] = log[i].writes[c[3]]
             /\ \A j \in DOMAIN log : j > i => ~WritesCell(log[j], c)

\* The log names every transaction by its place, and each is a call of the contract that
\* has the id now, and of no other: no id is given twice on one chain.
LogIsOfTheseContracts ==
    \A i \in DOMAIN log :
        /\ log[i].txId = i
        /\ \E j \in DOMAIN contracts :
             /\ IsFound(j, log[i].contractId) /\ contracts[j].code = log[i].code
             /\ \A k \in DOMAIN contracts : contracts[k].contractId = log[i].contractId => k = j

\* Every contract is the result of a compilation that succeeded, and was deployed by an
\* account of this chain, however compilations, deployments and resets interleave.
ContractsAreAccountedFor ==
    \A i \in DOMAIN contracts :
        contracts[i].code \in built /\ HasAccount(contracts[i].deployerId)
=============================================================================
