--------------------------- MODULE WasmChainProofs ---------------------------
(***************************************************************************)
(* The safety properties of the playground's chain, for any accounts,      *)
(* codes, methods, storage and number of transactions.                     *)
(***************************************************************************)
EXTENDS WasmChain, TLAPS

\* What an appended sequence has at its old places and at the new one.
LEMMA AppendAt ==
    ASSUME NEW S, NEW s \in Seq(S), NEW e \in S
    PROVE  /\ Append(s, e) \in Seq(S)
           /\ Len(Append(s, e)) = Len(s) + 1
           /\ Len(s) \in Nat
           /\ DOMAIN s = 1..Len(s) /\ DOMAIN Append(s, e) = 1..Len(s) + 1
           /\ \A i \in 1..Len(s) : Append(s, e)[i] = s[i]
           /\ Append(s, e)[Len(s) + 1] = e
OBVIOUS

\* With the contracts numbered by their places, a contract is found where its id says.
LEMMA FoundAtItsPlace ==
    ASSUME ChainTypeOK, NEW i, NEW id, IsFound(i, id)
    PROVE  i \in DOMAIN contracts /\ i = id
BY DEF ChainTypeOK, IsFound

----------------------------------------------------------------------------
(* Types and numbers.                                                      *)

\* The type of an empty storage.
LEMMA EmptyStorage == [c \in Cell |-> Zero] \in [Cell -> Value]
BY ChainAssumption

LEMMA TypeInit == ChainInit => ChainTypeOK
<1> SUFFICES ASSUME ChainInit PROVE ChainTypeOK
  OBVIOUS
<1>1. /\ accounts \in Seq(Account) /\ nextUser = Len(accounts) + 1
      /\ \A i \in DOMAIN accounts : accounts[i].userId = i
  BY DEF ChainInit
<1>2. /\ contracts \in Seq(Contract) /\ nextContract = Len(contracts) + 1
      /\ \A i \in DOMAIN contracts : contracts[i].contractId = i
  BY DEF ChainInit
<1>3. storage \in [Cell -> Value] /\ log \in Seq(Transaction)
  BY EmptyStorage DEF ChainInit
<1>4. reply \in [ok : BOOLEAN, id : Nat]
  BY DEF ChainInit, Done
<1> QED BY <1>1, <1>2, <1>3, <1>4 DEF ChainInit, ChainTypeOK

LEMMA TypeCompile ==
    ASSUME ChainTypeOK, NEW code \in Code, NEW outcome, CompileProject(code, outcome)
    PROVE  ChainTypeOK'
<1> USE DEF ChainTypeOK, CompileProject, chainState, Done, Error
<1>1. lastCompile' \subseteq Code /\ built' \subseteq Code
  OBVIOUS
<1>2. reply' \in [ok : BOOLEAN, id : Nat]
  OBVIOUS
<1> QED BY <1>1, <1>2

LEMMA TypeCreateAccount ==
    ASSUME ChainTypeOK, NEW name \in Name, CreateAccount(name)
    PROVE  ChainTypeOK'
<1> DEFINE a == [userId |-> nextUser, name |-> name]
<1>1. nextUser \in Nat /\ a \in Account
  BY DEF ChainTypeOK, Account
<1>2. accounts' \in Seq(Account) /\ nextUser' = Len(accounts') + 1
  BY <1>1, AppendAt DEF ChainTypeOK, CreateAccount
<1>3. \A i \in DOMAIN accounts' : accounts'[i].userId = i
  BY <1>1, AppendAt DEF ChainTypeOK, CreateAccount
<1>4. reply' \in [ok : BOOLEAN, id : Nat] /\ chain'
  BY <1>1 DEF CreateAccount, Done, Usable
<1> QED BY <1>2, <1>3, <1>4 DEF ChainTypeOK, CreateAccount

LEMMA TypeDeploy ==
    ASSUME ChainTypeOK, NEW u \in User, Deploy(u)
    PROVE  ChainTypeOK'
<1>1. PICK code \in lastCompile :
        contracts' = Append(contracts, [contractId |-> nextContract, deployerId |-> u, code |-> code])
  BY DEF Deploy
<1> DEFINE c == [contractId |-> nextContract, deployerId |-> u, code |-> code]
<1>2. nextContract \in Nat /\ c \in Contract
  BY DEF ChainTypeOK, Contract
<1>3. contracts' \in Seq(Contract) /\ nextContract' = Len(contracts') + 1
  BY <1>1, <1>2, AppendAt DEF ChainTypeOK, Deploy
<1>4. \A i \in DOMAIN contracts' : contracts'[i].contractId = i
  BY <1>1, <1>2, AppendAt DEF ChainTypeOK
<1>5. reply' \in [ok : BOOLEAN, id : Nat] /\ chain'
  BY <1>2 DEF Deploy, Done, Usable
<1> QED BY <1>3, <1>4, <1>5 DEF ChainTypeOK, Deploy

\* The record of a call is a transaction.
LEMMA RecordType ==
    ASSUME ChainTypeOK, NEW u \in User, NEW id \in ContractId, NEW m \in Method,
           NEW success \in BOOLEAN, NEW writes \in Writes, NEW i, IsFound(i, id)
    PROVE  Record(u, id, contracts[i].code, m, success, writes) \in Transaction
<1>1. contracts[i] \in Contract
  BY DEF ChainTypeOK, IsFound
<1>2. Len(log) + 1 \in Nat /\ id \in Nat
  BY ChainAssumption DEF ChainTypeOK, ContractId
<1> QED BY <1>1, <1>2 DEF Record, Transaction, Contract

LEMMA TypeCall ==
    ASSUME ChainTypeOK, NEW u \in User, NEW id \in ContractId, NEW m \in Method,
           NEW success \in BOOLEAN, NEW writes \in Writes, Call(u, id, m, success, writes)
    PROVE  ChainTypeOK'
<1>1. PICK i \in DOMAIN contracts :
        /\ IsFound(i, id)
        /\ log' = Append(log, Record(u, id, contracts[i].code, m, success, writes))
  BY DEF Call
<1>2. log' \in Seq(Transaction)
  BY <1>1, RecordType, AppendAt DEF ChainTypeOK
<1>3. storage' \in [Cell -> Value]
  <2>1. Overlaid(u, id, writes) \in [Cell -> Value]
    BY DEF Overlaid, Writes, Cell, ChainTypeOK
  <2> QED BY <2>1 DEF Call, ChainTypeOK
<1>4. reply' \in [ok : BOOLEAN, id : Nat] /\ chain'
  BY DEF Call, CanCall, Usable
<1> QED BY <1>2, <1>3, <1>4 DEF ChainTypeOK, Call

LEMMA TypeStep == ChainTypeOK /\ [ChainNext]_chainVars => ChainTypeOK'
<1> SUFFICES ASSUME ChainTypeOK, [ChainNext]_chainVars
             PROVE  ChainTypeOK'
  OBVIOUS
<1>1. CASE InitChain
  BY <1>1, EmptyStorage DEF InitChain, ChainTypeOK, Done
<1>2. CASE Refuse
  BY <1>2 DEF Refuse, ChainTypeOK, Error, chainState
<1>3. CASE \E id \in ContractId, m \in Method : Panic(id, m)
  BY <1>3 DEF Panic, ChainTypeOK, Error, chainState
<1>4. CASE UNCHANGED chainVars
  BY <1>4 DEF chainVars, chainState, ChainTypeOK
<1> QED
  BY <1>1, <1>2, <1>3, <1>4, TypeCompile, TypeCreateAccount, TypeDeploy, TypeCall DEF ChainNext

\* Variables have their types, and accounts and contracts are numbered without gaps,
\* through every reset and every panic.
THEOREM TypeCorrect == ChainSpec => []ChainTypeOK
BY TypeInit, TypeStep, PTL DEF ChainSpec

----------------------------------------------------------------------------
(* The log and the contracts.                                              *)

\* The contract a transaction called is where its id says, with the code it had then.
LogOK ==
    \A i \in DOMAIN log :
        /\ log[i].txId = i
        /\ log[i].contractId \in DOMAIN contracts
        /\ contracts[log[i].contractId].code = log[i].code

\* With numbered contracts this is all LogIsOfTheseContracts says.
LEMMA LogOKSuffices == ChainTypeOK /\ LogOK => LogIsOfTheseContracts
<1> SUFFICES ASSUME ChainTypeOK, LogOK, NEW i \in DOMAIN log
             PROVE  /\ log[i].txId = i
                    /\ \E j \in DOMAIN contracts :
                         /\ IsFound(j, log[i].contractId) /\ contracts[j].code = log[i].code
                         /\ \A k \in DOMAIN contracts :
                              contracts[k].contractId = log[i].contractId => k = j
  BY DEF LogIsOfTheseContracts
<1> DEFINE j == log[i].contractId
<1>1. j \in DOMAIN contracts /\ contracts[j].code = log[i].code
  BY DEF LogOK
<1>2. DOMAIN contracts = 1..Len(contracts) /\ Len(contracts) \in Nat
  BY DEF ChainTypeOK
<1>3. \A k \in DOMAIN contracts : contracts[k].contractId = k
  BY DEF ChainTypeOK
<1>4. \A k \in 1..(j - 1) : k \in DOMAIN contracts /\ k # j
  BY <1>1, <1>2
<1>5. IsFound(j, j)
  BY <1>1, <1>3, <1>4 DEF IsFound
<1>6. log[i].txId = i
  BY DEF LogOK
<1> QED BY <1>1, <1>3, <1>5, <1>6

LEMMA LogStep ==
    ASSUME ChainTypeOK, LogOK, [ChainNext]_chainVars
    PROVE  LogOK'
<1>1. ASSUME NEW u \in User, Deploy(u) PROVE LogOK'
  <2>1. PICK code \in lastCompile :
          contracts' = Append(contracts, [contractId |-> nextContract, deployerId |-> u, code |-> code])
    BY <1>1 DEF Deploy
  <2>2. [contractId |-> nextContract, deployerId |-> u, code |-> code] \in Contract
    BY DEF ChainTypeOK, Contract
  <2>3. \A k \in DOMAIN contracts : k \in DOMAIN contracts' /\ contracts'[k] = contracts[k]
    BY <2>1, <2>2, AppendAt DEF ChainTypeOK
  <2>4. log' = log
    BY <1>1 DEF Deploy
  <2> QED BY <2>3, <2>4 DEF LogOK
<1>2. ASSUME NEW u \in User, NEW id \in ContractId, NEW m \in Method, NEW success \in BOOLEAN,
             NEW writes \in Writes, Call(u, id, m, success, writes)
      PROVE  LogOK'
  <2>1. PICK i \in DOMAIN contracts :
          /\ IsFound(i, id)
          /\ log' = Append(log, Record(u, id, contracts[i].code, m, success, writes))
    BY <1>2 DEF Call
  <2> DEFINE tx == Record(u, id, contracts[i].code, m, success, writes)
  <2>2. tx \in Transaction
    BY <1>2, <2>1, RecordType
  <2>3. i = id
    BY <2>1, FoundAtItsPlace
  <2>4. tx.txId = Len(log) + 1 /\ tx.contractId = id /\ tx.code = contracts[id].code
    BY <2>3 DEF Record
  <2>5. contracts' = contracts
    BY <1>2 DEF Call
  <2>6. log \in Seq(Transaction)
    BY DEF ChainTypeOK
  <2>7. /\ DOMAIN log' = 1..Len(log) + 1 /\ DOMAIN log = 1..Len(log) /\ Len(log) \in Nat
        /\ \A k \in 1..Len(log) : log'[k] = log[k]
        /\ log'[Len(log) + 1] = tx
    BY <2>1, <2>2, <2>6, AppendAt
  <2>8. ASSUME NEW k \in DOMAIN log'
        PROVE  /\ log'[k].txId = k /\ log'[k].contractId \in DOMAIN contracts'
               /\ contracts'[log'[k].contractId].code = log'[k].code
    <3>1. CASE k = Len(log) + 1
      BY <3>1, <2>1, <2>3, <2>4, <2>5, <2>7
    <3>2. CASE k # Len(log) + 1
      <4>1. k \in DOMAIN log /\ log'[k] = log[k]
        BY <3>2, <2>7
      <4> QED BY <4>1, <2>5 DEF LogOK
    <3> QED BY <3>1, <3>2
  <2> QED BY <2>8 DEF LogOK
<1>3. CASE InitChain
  BY <1>3 DEF InitChain, LogOK
<1>4. ASSUME UNCHANGED <<log, contracts>> PROVE LogOK'
  BY <1>4 DEF LogOK
<1>5. ASSUME NEW code, NEW outcome, CompileProject(code, outcome) PROVE LogOK'
  BY <1>4, <1>5 DEF CompileProject, chainState
<1>6. ASSUME NEW name, CreateAccount(name) PROVE LogOK'
  BY <1>4, <1>6 DEF CreateAccount
<1>7. ASSUME NEW id, NEW m, Panic(id, m) PROVE LogOK'
  BY <1>4, <1>7 DEF Panic, chainState
<1>8. CASE Refuse
  BY <1>4, <1>8 DEF Refuse, chainState
<1>9. CASE UNCHANGED chainVars
  BY <1>4, <1>9 DEF chainVars, chainState
<1> QED BY <1>1, <1>2, <1>3, <1>5, <1>6, <1>7, <1>8, <1>9 DEF ChainNext

\* No contract id is given twice on one chain: a transaction in the log belongs to the
\* contract that has the id now.
THEOREM LogCorrect == ChainSpec => []LogIsOfTheseContracts
<1>1. ChainInit => LogOK
  BY DEF ChainInit, LogOK
<1>2. ChainTypeOK /\ LogOK /\ [ChainNext]_chainVars => LogOK'
  BY LogStep
<1> QED BY <1>1, <1>2, TypeInit, TypeStep, LogOKSuffices, PTL DEF ChainSpec

----------------------------------------------------------------------------
(* Where contracts come from.                                              *)

\* What is cached was built too.
Accounted == lastCompile \subseteq built /\ ContractsAreAccountedFor

LEMMA AccountedStep ==
    ASSUME ChainTypeOK, Accounted, [ChainNext]_chainVars
    PROVE  Accounted'
<1> USE DEF Accounted
<1>1. ASSUME NEW u \in User, Deploy(u) PROVE Accounted'
  <2>1. PICK code \in lastCompile :
          contracts' = Append(contracts, [contractId |-> nextContract, deployerId |-> u, code |-> code])
    BY <1>1 DEF Deploy
  <2> DEFINE c == [contractId |-> nextContract, deployerId |-> u, code |-> code]
  <2>2. c \in Contract
    BY DEF ChainTypeOK, Contract
  <2>3. /\ DOMAIN contracts' = 1..Len(contracts) + 1 /\ DOMAIN contracts = 1..Len(contracts)
        /\ Len(contracts) \in Nat
        /\ \A k \in 1..Len(contracts) : contracts'[k] = contracts[k]
        /\ contracts'[Len(contracts) + 1] = c
    BY <2>1, <2>2, AppendAt DEF ChainTypeOK
  <2>4. code \in built /\ HasAccount(u)
    BY <1>1 DEF Deploy
  <2>5. accounts' = accounts /\ built' = built /\ lastCompile' = lastCompile
    BY <1>1 DEF Deploy
  <2>6. ASSUME NEW k \in DOMAIN contracts'
        PROVE  contracts'[k].code \in built /\ HasAccount(contracts'[k].deployerId)
    <3>1. CASE k = Len(contracts) + 1
      BY <3>1, <2>3, <2>4
    <3>2. CASE k # Len(contracts) + 1
      <4>1. k \in DOMAIN contracts /\ contracts'[k] = contracts[k]
        BY <3>2, <2>3
      <4> QED BY <4>1 DEF ContractsAreAccountedFor
    <3> QED BY <3>1, <3>2
  <2> QED BY <2>5, <2>6 DEF ContractsAreAccountedFor, HasAccount
<1>2. ASSUME NEW name \in Name, CreateAccount(name) PROVE Accounted'
  <2>1. [userId |-> nextUser, name |-> name] \in Account
    BY DEF ChainTypeOK, Account
  <2>2. \A k \in DOMAIN accounts : k \in DOMAIN accounts' /\ accounts'[k] = accounts[k]
    BY <1>2, <2>1, AppendAt DEF ChainTypeOK, CreateAccount
  <2>3. contracts' = contracts /\ built' = built /\ lastCompile' = lastCompile
    BY <1>2 DEF CreateAccount
  <2> QED BY <2>2, <2>3 DEF ContractsAreAccountedFor, HasAccount
<1>3. CASE InitChain
  BY <1>3 DEF InitChain, ContractsAreAccountedFor
<1>4. ASSUME NEW code \in Code, NEW outcome, CompileProject(code, outcome) PROVE Accounted'
  <2>1. built \subseteq built' /\ lastCompile' \subseteq built'
    BY <1>4 DEF CompileProject
  <2>2. contracts' = contracts /\ accounts' = accounts
    BY <1>4 DEF CompileProject, chainState
  <2> QED BY <2>1, <2>2 DEF ContractsAreAccountedFor, HasAccount
<1>5. ASSUME UNCHANGED <<lastCompile, built, accounts, contracts>> PROVE Accounted'
  BY <1>5 DEF ContractsAreAccountedFor, HasAccount
<1>6. ASSUME NEW u, NEW id, NEW m, NEW success, NEW writes, Call(u, id, m, success, writes)
      PROVE  Accounted'
  BY <1>5, <1>6 DEF Call
<1>7. ASSUME NEW id, NEW m, Panic(id, m) PROVE Accounted'
  BY <1>5, <1>7 DEF Panic, chainState
<1>8. CASE Refuse
  BY <1>5, <1>8 DEF Refuse, chainState
<1>9. CASE UNCHANGED chainVars
  BY <1>5, <1>9 DEF chainVars, chainState
<1> QED BY <1>1, <1>2, <1>3, <1>4, <1>6, <1>7, <1>8, <1>9 DEF ChainNext

\* Every contract was compiled without an error and deployed by an account of its chain.
THEOREM AccountedCorrect == ChainSpec => []ContractsAreAccountedFor
<1>1. ChainInit => Accounted
  BY DEF ChainInit, Accounted, ContractsAreAccountedFor
<1>2. ChainTypeOK /\ Accounted /\ [ChainNext]_chainVars => Accounted'
  BY AccountedStep
<1>3. Accounted => ContractsAreAccountedFor
  BY DEF Accounted
<1> QED BY <1>1, <1>2, <1>3, TypeInit, TypeStep, PTL DEF ChainSpec

----------------------------------------------------------------------------
(* The log and the storage.                                                *)

LEMMA ExplainsCall ==
    ASSUME ChainTypeOK, LogExplainsStorage,
           NEW u \in User, NEW id \in ContractId, NEW m \in Method, NEW success \in BOOLEAN,
           NEW writes \in Writes, Call(u, id, m, success, writes)
    PROVE  LogExplainsStorage'
<1>1. PICK n \in DOMAIN contracts :
        /\ IsFound(n, id)
        /\ log' = Append(log, Record(u, id, contracts[n].code, m, success, writes))
  BY DEF Call
<1> DEFINE tx == Record(u, id, contracts[n].code, m, success, writes)
           new == Len(log) + 1
<1>2. tx \in Transaction
  BY <1>1, RecordType
<1>3. log \in Seq(Transaction)
  BY DEF ChainTypeOK
<1>4. /\ DOMAIN log' = 1..new /\ DOMAIN log = 1..Len(log) /\ Len(log) \in Nat
      /\ \A k \in 1..Len(log) : log'[k] = log[k]
      /\ log'[new] = tx
  BY <1>1, <1>2, <1>3, AppendAt
<1>5. storage' = IF success THEN Overlaid(u, id, writes) ELSE storage
  BY DEF Call
<1>6. ASSUME NEW c \in Cell
      PROVE  \/ /\ storage'[c] = Zero
                /\ \A i \in DOMAIN log' : ~WritesCell(log'[i], c)
             \/ \E i \in DOMAIN log' :
                  /\ WritesCell(log'[i], c) /\ storage'[c] = log'[i].writes[c[3]]
                  /\ \A j \in DOMAIN log' : j > i => ~WritesCell(log'[j], c)
  <2>1. tx.success = success /\ tx.callerId = u /\ tx.contractId = id /\ tx.writes = writes
    BY DEF Record
  <2>2. CASE WritesCell(tx, c)
    <3>1. success /\ c[1] = u /\ c[2] = id /\ writes[c[3]] # NoWrite
      BY <2>1, <2>2 DEF WritesCell
    <3>2. storage'[c] = writes[c[3]]
      BY <1>5, <3>1 DEF Overlaid
    <3>3. \A j \in DOMAIN log' : ~(j > new)
      BY <1>4
    <3> QED BY <1>4, <2>1, <2>2, <3>2, <3>3
  <2>3. CASE ~WritesCell(tx, c)
    <3>1. storage'[c] = storage[c]
      <4>1. CASE success
        <5>1. ~(c[1] = u /\ c[2] = id /\ writes[c[3]] # NoWrite)
          BY <2>1, <2>3, <4>1 DEF WritesCell
        <5> QED BY <1>5, <4>1, <5>1 DEF Overlaid
      <4>2. CASE ~success
        BY <1>5, <4>2
      <4> QED BY <4>1, <4>2
    <3>2. CASE storage[c] = Zero /\ \A i \in DOMAIN log : ~WritesCell(log[i], c)
      <4>1. ASSUME NEW i \in DOMAIN log' PROVE ~WritesCell(log'[i], c)
        <5>1. CASE i = new
          BY <5>1, <1>4, <2>3
        <5>2. CASE i # new
          <6>1. i \in DOMAIN log /\ log'[i] = log[i]
            BY <5>2, <1>4
          <6> QED BY <6>1, <3>2
        <5> QED BY <5>1, <5>2
      <4> QED BY <3>1, <3>2, <4>1
    <3>3. CASE \E i \in DOMAIN log :
                 /\ WritesCell(log[i], c) /\ storage[c] = log[i].writes[c[3]]
                 /\ \A j \in DOMAIN log : j > i => ~WritesCell(log[j], c)
      <4>1. PICK i \in DOMAIN log :
              /\ WritesCell(log[i], c) /\ storage[c] = log[i].writes[c[3]]
              /\ \A j \in DOMAIN log : j > i => ~WritesCell(log[j], c)
        BY <3>3
      <4>2. i \in DOMAIN log' /\ log'[i] = log[i]
        BY <1>4
      <4>3. ASSUME NEW j \in DOMAIN log', j > i PROVE ~WritesCell(log'[j], c)
        <5>1. CASE j = new
          BY <5>1, <1>4, <2>3
        <5>2. CASE j # new
          <6>1. j \in DOMAIN log /\ log'[j] = log[j]
            BY <5>2, <1>4
          <6> QED BY <6>1, <4>1, <4>3
        <5> QED BY <5>1, <5>2
      <4> QED BY <3>1, <4>1, <4>2, <4>3
    <3> QED BY <3>2, <3>3 DEF LogExplainsStorage
  <2> QED BY <2>2, <2>3
<1> QED BY <1>6 DEF LogExplainsStorage

LEMMA ExplainsStep ==
    ASSUME ChainTypeOK, LogExplainsStorage, [ChainNext]_chainVars
    PROVE  LogExplainsStorage'
<1>1. CASE InitChain
  BY <1>1 DEF InitChain, LogExplainsStorage
<1>2. ASSUME UNCHANGED <<storage, log>> PROVE LogExplainsStorage'
  BY <1>2 DEF LogExplainsStorage
<1>3. ASSUME NEW code, NEW outcome, CompileProject(code, outcome) PROVE LogExplainsStorage'
  BY <1>2, <1>3 DEF CompileProject, chainState
<1>4. ASSUME NEW name, CreateAccount(name) PROVE LogExplainsStorage'
  BY <1>2, <1>4 DEF CreateAccount
<1>5. ASSUME NEW u, Deploy(u) PROVE LogExplainsStorage'
  BY <1>2, <1>5 DEF Deploy
<1>6. ASSUME NEW id, NEW m, Panic(id, m) PROVE LogExplainsStorage'
  BY <1>2, <1>6 DEF Panic, chainState
<1>7. CASE Refuse
  BY <1>2, <1>7 DEF Refuse, chainState
<1>8. CASE UNCHANGED chainVars
  BY <1>2, <1>8 DEF chainVars, chainState
<1> QED BY <1>1, <1>3, <1>4, <1>5, <1>6, <1>7, <1>8, ExplainsCall DEF ChainNext

\* A cell of the storage holds what the latest successful transaction that wrote it
\* wrote there; failed calls, errors, panics and resets leave nothing else behind.
THEOREM StorageCorrect == ChainSpec => []LogExplainsStorage
<1>1. ChainInit => LogExplainsStorage
  BY DEF ChainInit, LogExplainsStorage
<1>2. ChainTypeOK /\ LogExplainsStorage /\ [ChainNext]_chainVars => LogExplainsStorage'
  BY ExplainsStep
<1> QED BY <1>1, <1>2, TypeInit, TypeStep, PTL DEF ChainSpec
=============================================================================
