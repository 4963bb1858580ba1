---------------------------- MODULE ServiceProofs ----------------------------
(***************************************************************************)
(* Proofs about Service, for any requests, any number of worker permits    *)
(* and any number of stores.                                               *)
(***************************************************************************)
EXTENDS Service, FiniteSetTheorems, TLAPS

\* The requests that wait for a worker process.
Running == {r \in Requests : pc[r] = "running"}

\* A permit is free or held by a running request.
PermitInv == capacity + Cardinality(Running) = ConcurrentWorkers

\* Until close() takes the store out of the slot there is at most one, and it is
\* the one in the slot; none is closed before close() ends.
StoreInv ==
    /\ closePc \in {"open", "workers", "detach"} => slot = made /\ made <= 1
    /\ closePc # "closed" => closedStores = {}

\* A live operation is an execution that has left its "with" block with an answer.
LiveInv ==
    \A r \in Executions : \A n \in Stores :
        r \in live[n] => pc[r] \in {"cleanup", "done"} /\ outcome[r] = "ok"

\* A request on its way to its worker has its staging directory, until the store
\* is closed; and process trees exist only before close() returned from the workers.
StageInv ==
    /\ \A r \in Requests :
        pc[r] \in {"source", "acquire", "running"} /\ closePc # "closed" => staged[r] # 0
    /\ \A r \in tree : pc[r] = "running"
    /\ tree # {} => closePc \in {"open", "workers"}
    /\ closePc # "open" => workersClosed

\* The inductive invariant.
IInv == TypeOK /\ PermitInv /\ StoreInv /\ LiveInv /\ LiveIffAnswered /\ StageInv

\* The parts of the type, by the object that keeps them.
StoresType ==
    /\ slot \in 0..MaxStores
    /\ made \in 0..MaxStores
    /\ detached \in 0..MaxStores
    /\ closedStores \subseteq Stores
    /\ live \in [Stores -> SUBSET Requests]

StagesType ==
    /\ staged \in [Requests -> 0..MaxStores]
    /\ bundle \subseteq Requests

ThreadsType ==
    /\ pc \in [Requests -> Step]
    /\ got \in [Requests -> 0..MaxStores]
    /\ missed \subseteq Requests
    /\ outcome \in [Requests -> Code]
    /\ cancelled \subseteq Requests

WorkersType ==
    /\ capacity \in 0..ConcurrentWorkers
    /\ workersClosed \in BOOLEAN
    /\ tree \subseteq Requests
    /\ closePc \in {"open", "workers", "detach", "session", "closed"}

\* Together they are the type invariant.
LEMMA TypeParts ==
    /\ TypeOK <=> StoresType /\ StagesType /\ ThreadsType /\ WorkersType
    /\ TypeOK' <=> StoresType' /\ StagesType' /\ ThreadsType' /\ WorkersType'
  BY Zenon DEF TypeOK, StoresType, StagesType, ThreadsType, WorkersType

\* The bounds are positive numbers.
LEMMA Bounds ==
    /\ MaxStores \in Nat /\ MaxStores > 0
    /\ ConcurrentWorkers \in Nat /\ ConcurrentWorkers > 0
    /\ Executions \subseteq Requests
  BY ServiceAssumption DEF Requests

\* The invariant holds initially.
LEMMA InitIInv == Init => IInv
<1> SUFFICES ASSUME Init PROVE IInv
  OBVIOUS
<1> USE Bounds DEF Init, Stores, UsesStore, Step, Code
<1>1. TypeOK
  <2>1. StoresType BY DEF StoresType
  <2>2. StagesType BY DEF StagesType
  <2>3. ThreadsType BY DEF ThreadsType
  <2>4. WorkersType
    <3>1. workersClosed \in BOOLEAN BY Zenon
    <3>2. QED BY <3>1 DEF WorkersType
  <2>5. QED BY <2>1, <2>2, <2>3, <2>4, TypeParts
<1>2. PermitInv
  <2>1. Running = {} BY DEF Running
  <2>2. QED BY <2>1, FS_EmptySet DEF PermitInv
<1>3. StoreInv /\ LiveInv /\ LiveIffAnswered /\ StageInv
  BY DEF StoreInv, LiveInv, LiveIffAnswered, StageInv
<1>4. QED BY <1>1, <1>2, <1>3 DEF IInv

\* A request that begins to wait takes the permit it counts for, and one that
\* ends its wait gives it back.
LEMMA PermitCounting ==
    ASSUME TypeOK, PermitInv, NEW r \in Requests
    PROVE  /\ IsFiniteSet(Running) /\ Cardinality(Running) \in Nat /\ capacity \in Nat
           /\ r \notin Running => Cardinality(Running \cup {r}) = Cardinality(Running) + 1
           /\ r \in Running => /\ Cardinality(Running \ {r}) = Cardinality(Running) - 1
                               /\ capacity < ConcurrentWorkers
<1>1. IsFiniteSet(Running)
  BY FS_Subset, ServiceAssumption DEF Running
<1>2. Cardinality(Running) \in Nat
  BY <1>1, FS_CardinalityType
<1>3. r \in Running => Cardinality(Running) # 0
  BY <1>1, FS_EmptySet
<1>4. r \notin Running => Cardinality(Running \cup {r}) = Cardinality(Running) + 1
  BY <1>1, FS_AddElement
<1>5. r \in Running => Cardinality(Running \ {r}) = Cardinality(Running) - 1
  BY <1>1, FS_RemoveElement
<1>6. capacity \in Nat
  BY Bounds DEF TypeOK
<1>7. r \in Running => capacity < ConcurrentWorkers
  BY <1>2, <1>3, <1>6, Bounds DEF PermitInv
<1>8. QED BY <1>1, <1>2, <1>4, <1>5, <1>6, <1>7

\* A step that moves no request in or out of the wait leaves the permits balanced.
LEMMA PermitsKept ==
    ASSUME PermitInv, UNCHANGED capacity, Running' = Running
    PROVE  PermitInv'
  BY DEF PermitInv

\* A step of a request keeps the invariant.
LEMMA RequestStep ==
    ASSUME IInv, NEW r \in Requests, RequestNext(r) \/ Cancel(r)
    PROVE  IInv'
<1> USE DEF storeVars, stageVars, threadVars, workerVars, Stores, UsesStore, Step
<1>a. StoresType /\ StagesType /\ ThreadsType /\ WorkersType
  BY TypeParts DEF IInv
<1>1. CASE ReadSlot(r)
  <2>1. TypeOK'
    <3>1. StoresType' BY <1>1, <1>a, Bounds DEF ReadSlot, StoresType, ThreadsType
    <3>2. StagesType' BY <1>1, <1>a, Bounds DEF ReadSlot, StagesType, ThreadsType
    <3>3. ThreadsType'
      <4>1. (pc \in [Requests -> Step])' BY <1>1, <1>a DEF ReadSlot, ThreadsType
      <4>2. (got \in [Requests -> 0..MaxStores])' BY <1>1, <1>a, Bounds DEF ReadSlot, ThreadsType, StoresType
      <4>3. (outcome \in [Requests -> Code])' BY <1>1, <1>a DEF ReadSlot, ThreadsType, Code
      <4>4. (missed \subseteq Requests /\ cancelled \subseteq Requests)' BY <1>1, <1>a DEF ReadSlot, ThreadsType
      <4>5. QED BY <4>1, <4>2, <4>3, <4>4 DEF ThreadsType
    <3>4. WorkersType' BY <1>1, <1>a, Bounds DEF ReadSlot, WorkersType
    <3>5. QED BY <3>1, <3>2, <3>3, <3>4, TypeParts
  <2>2. PermitInv'
    <3>1. Running' = Running BY <1>1, <1>a DEF ReadSlot, IInv, ThreadsType, Running
    <3>2. QED BY <1>1, <3>1, PermitsKept DEF ReadSlot, IInv
  <2>3. StoreInv' BY <1>1, <1>a, Bounds DEF ReadSlot, IInv, StoreInv, StoresType, WorkersType
  <2>4. LiveInv' BY <1>1, <1>a, Bounds DEF ReadSlot, IInv, LiveInv, StoresType, ThreadsType
  <2>5. LiveIffAnswered' BY <1>1, <1>a, Bounds, <2>4 DEF ReadSlot, IInv, LiveInv, LiveIffAnswered, StoresType, ThreadsType
  <2>6. StageInv' BY <1>1, <1>a, Bounds DEF ReadSlot, IInv, StageInv, StagesType, ThreadsType, WorkersType
  <2>7. QED BY <2>1, <2>2, <2>3, <2>4, <2>5, <2>6 DEF IInv
<1>2. CASE CreateStore(r)
  <2>1. TypeOK'
    <3>1. StoresType' BY <1>2, <1>a, Bounds DEF CreateStore, StoresType, ThreadsType
    <3>2. StagesType' BY <1>2, <1>a, Bounds DEF CreateStore, StagesType, ThreadsType
    <3>3. ThreadsType'
      <4>1. (pc \in [Requests -> Step])' BY <1>2, <1>a DEF CreateStore, ThreadsType
      <4>2. (got \in [Requests -> 0..MaxStores])' BY <1>2, <1>a, Bounds DEF CreateStore, ThreadsType, StoresType
      <4>3. (outcome \in [Requests -> Code])' BY <1>2, <1>a DEF CreateStore, ThreadsType, Code
      <4>4. (missed \subseteq Requests /\ cancelled \subseteq Requests)' BY <1>2, <1>a DEF CreateStore, ThreadsType
      <4>5. QED BY <4>1, <4>2, <4>3, <4>4 DEF ThreadsType
    <3>4. WorkersType' BY <1>2, <1>a, Bounds DEF CreateStore, WorkersType
    <3>5. QED BY <3>1, <3>2, <3>3, <3>4, TypeParts
  <2>2. PermitInv'
    <3>1. Running' = Running BY <1>2, <1>a DEF CreateStore, IInv, ThreadsType, Running
    <3>2. QED BY <1>2, <3>1, PermitsKept DEF CreateStore, IInv
  <2>3. StoreInv' BY <1>2, <1>a, Bounds DEF CreateStore, IInv, StoreInv, StoresType, WorkersType
  <2>4. LiveInv' BY <1>2, <1>a, Bounds DEF CreateStore, IInv, LiveInv, StoresType, ThreadsType
  <2>5. LiveIffAnswered' BY <1>2, <1>a, Bounds, <2>4 DEF CreateStore, IInv, LiveInv, LiveIffAnswered, StoresType, ThreadsType
  <2>6. StageInv' BY <1>2, <1>a, Bounds DEF CreateStore, IInv, StageInv, StagesType, ThreadsType, WorkersType
  <2>7. QED BY <2>1, <2>2, <2>3, <2>4, <2>5, <2>6 DEF IInv
<1>3. CASE Start(r)
  <2>1. TypeOK'
    <3>1. StoresType' BY <1>3, <1>a, Bounds DEF Start, Finish, Proceed, StoresType, ThreadsType
    <3>2. StagesType' BY <1>3, <1>a, Bounds DEF Start, Finish, Proceed, StagesType, ThreadsType
    <3>3. ThreadsType'
      <4>1. (pc \in [Requests -> Step])' BY <1>3, <1>a DEF Start, Finish, Proceed, ThreadsType
      <4>2. (got \in [Requests -> 0..MaxStores])' BY <1>3, <1>a, Bounds DEF Start, Finish, Proceed, ThreadsType, StoresType
      <4>3. (outcome \in [Requests -> Code])' BY <1>3, <1>a DEF Start, Finish, Proceed, ThreadsType, Code
      <4>4. (missed \subseteq Requests /\ cancelled \subseteq Requests)' BY <1>3, <1>a DEF Start, Finish, Proceed, ThreadsType
      <4>5. QED BY <4>1, <4>2, <4>3, <4>4 DEF ThreadsType
    <3>4. WorkersType' BY <1>3, <1>a, Bounds DEF Start, Finish, Proceed, WorkersType
    <3>5. QED BY <3>1, <3>2, <3>3, <3>4, TypeParts
  <2>2. PermitInv'
    <3>1. Running' = Running BY <1>3, <1>a DEF Start, Finish, Proceed, IInv, ThreadsType, Running
    <3>2. QED BY <1>3, <3>1, PermitsKept DEF Start, IInv
  <2>3. StoreInv' BY <1>3, <1>a, Bounds DEF Start, Finish, Proceed, IInv, StoreInv, StoresType, WorkersType
  <2>4. LiveInv' BY <1>3, <1>a, Bounds DEF Start, Finish, Proceed, IInv, LiveInv, StoresType, ThreadsType
  <2>5. LiveIffAnswered' BY <1>3, <1>a, Bounds, <2>4 DEF Start, Finish, Proceed, IInv, LiveInv, LiveIffAnswered, StoresType, ThreadsType
  <2>6. StageInv' BY <1>3, <1>a, Bounds DEF Start, Finish, Proceed, IInv, StageInv, StagesType, ThreadsType, WorkersType
  <2>7. QED BY <2>1, <2>2, <2>3, <2>4, <2>5, <2>6 DEF IInv
<1>4. CASE OpenStage(r)
  <2>1. TypeOK'
    <3>1. StoresType' BY <1>4, <1>a, Bounds DEF OpenStage, Use, Finish, Proceed, Open, StoresType, ThreadsType
    <3>2. StagesType' BY <1>4, <1>a, Bounds DEF OpenStage, Use, Finish, Proceed, Open, StagesType, ThreadsType
    <3>3. ThreadsType'
      <4>1. (pc \in [Requests -> Step])' BY <1>4, <1>a DEF OpenStage, Use, Finish, Proceed, Open, ThreadsType
      <4>2. (got \in [Requests -> 0..MaxStores])' BY <1>4, <1>a, Bounds DEF OpenStage, Use, Finish, Proceed, Open, ThreadsType, StoresType
      <4>3. (outcome \in [Requests -> Code])' BY <1>4, <1>a DEF OpenStage, Use, Finish, Proceed, Open, ThreadsType, Code
      <4>4. (missed \subseteq Requests /\ cancelled \subseteq Requests)' BY <1>4, <1>a DEF OpenStage, Use, Finish, Proceed, Open, ThreadsType
      <4>5. QED BY <4>1, <4>2, <4>3, <4>4 DEF ThreadsType
    <3>4. WorkersType' BY <1>4, <1>a, Bounds DEF OpenStage, Use, Finish, Proceed, Open, WorkersType
    <3>5. QED BY <3>1, <3>2, <3>3, <3>4, TypeParts
  <2>2. PermitInv'
    <3>1. Running' = Running BY <1>4, <1>a DEF OpenStage, Use, Finish, Proceed, Open, IInv, ThreadsType, Running
    <3>2. QED BY <1>4, <3>1, PermitsKept DEF OpenStage, Use, IInv
  <2>3. StoreInv' BY <1>4, <1>a, Bounds DEF OpenStage, Use, Finish, Proceed, Open, IInv, StoreInv, StoresType, WorkersType
  <2>4. LiveInv' BY <1>4, <1>a, Bounds DEF OpenStage, Use, Finish, Proceed, Open, IInv, LiveInv, StoresType, ThreadsType
  <2>5. LiveIffAnswered' BY <1>4, <1>a, Bounds, <2>4 DEF OpenStage, Use, Finish, Proceed, Open, IInv, LiveInv, LiveIffAnswered, StoresType, ThreadsType
  <2>6. StageInv' BY <1>4, <1>a, Bounds DEF OpenStage, Use, Finish, Proceed, Open, IInv, StageInv, StagesType, ThreadsType, WorkersType
  <2>7. QED BY <2>1, <2>2, <2>3, <2>4, <2>5, <2>6 DEF IInv
<1>5. CASE LoadSource(r)
  <2>1. TypeOK'
    <3>1. StoresType' BY <1>5, <1>a, Bounds DEF LoadSource, Use, Finish, Proceed, Open, StoresType, ThreadsType
    <3>2. StagesType' BY <1>5, <1>a, Bounds DEF LoadSource, Use, Finish, Proceed, Open, StagesType, ThreadsType
    <3>3. ThreadsType'
      <4>1. (pc \in [Requests -> Step])' BY <1>5, <1>a DEF LoadSource, Use, Finish, Proceed, Open, ThreadsType
      <4>2. (got \in [Requests -> 0..MaxStores])' BY <1>5, <1>a, Bounds DEF LoadSource, Use, Finish, Proceed, Open, ThreadsType, StoresType
      <4>3. (outcome \in [Requests -> Code])' BY <1>5, <1>a DEF LoadSource, Use, Finish, Proceed, Open, ThreadsType, Code
      <4>4. (missed \subseteq Requests /\ cancelled \subseteq Requests)' BY <1>5, <1>a DEF LoadSource, Use, Finish, Proceed, Open, ThreadsType
      <4>5. QED BY <4>1, <4>2, <4>3, <4>4 DEF ThreadsType
    <3>4. WorkersType' BY <1>5, <1>a, Bounds DEF LoadSource, Use, Finish, Proceed, Open, WorkersType
    <3>5. QED BY <3>1, <3>2, <3>3, <3>4, TypeParts
  <2>2. PermitInv'
    <3>1. Running' = Running BY <1>5, <1>a DEF LoadSource, Use, Finish, Proceed, Open, IInv, ThreadsType, Running
    <3>2. QED BY <1>5, <3>1, PermitsKept DEF LoadSource, Use, IInv
  <2>3. StoreInv' BY <1>5, <1>a, Bounds DEF LoadSource, Use, Finish, Proceed, Open, IInv, StoreInv, StoresType, WorkersType
  <2>4. LiveInv' BY <1>5, <1>a, Bounds DEF LoadSource, Use, Finish, Proceed, Open, IInv, LiveInv, StoresType, ThreadsType
  <2>5. LiveIffAnswered' BY <1>5, <1>a, Bounds, <2>4 DEF LoadSource, Use, Finish, Proceed, Open, IInv, LiveInv, LiveIffAnswered, StoresType, ThreadsType
  <2>6. StageInv' BY <1>5, <1>a, Bounds DEF LoadSource, Use, Finish, Proceed, Open, IInv, StageInv, StagesType, ThreadsType, WorkersType
  <2>7. QED BY <2>1, <2>2, <2>3, <2>4, <2>5, <2>6 DEF IInv
<1>6. CASE AcquireWorker(r)
  <2>1. TypeOK'
    <3>1. StoresType' BY <1>6, <1>a, Bounds DEF AcquireWorker, Finish, Proceed, StoresType, ThreadsType
    <3>2. StagesType' BY <1>6, <1>a, Bounds DEF AcquireWorker, Finish, Proceed, StagesType, ThreadsType
    <3>3. ThreadsType'
      <4>1. (pc \in [Requests -> Step])' BY <1>6, <1>a DEF AcquireWorker, Finish, Proceed, ThreadsType
      <4>2. (got \in [Requests -> 0..MaxStores])' BY <1>6, <1>a, Bounds DEF AcquireWorker, Finish, Proceed, ThreadsType, StoresType
      <4>3. (outcome \in [Requests -> Code])' BY <1>6, <1>a DEF AcquireWorker, Finish, Proceed, ThreadsType, Code
      <4>4. (missed \subseteq Requests /\ cancelled \subseteq Requests)' BY <1>6, <1>a DEF AcquireWorker, Finish, Proceed, ThreadsType
      <4>5. QED BY <4>1, <4>2, <4>3, <4>4 DEF ThreadsType
    <3>4. WorkersType' BY <1>6, <1>a, Bounds DEF AcquireWorker, Finish, Proceed, WorkersType
    <3>5. QED BY <3>1, <3>2, <3>3, <3>4, TypeParts
  <2>2. PermitInv'
    <3>1. CASE capacity' = capacity - 1 /\ Running' = Running \cup {r}
      <4>1. r \notin Running BY <1>6 DEF Running, AcquireWorker
      <4>2. IInv => TypeOK /\ PermitInv BY DEF IInv
      <4>3. QED BY <3>1, <4>1, <4>2, PermitCounting, Bounds DEF PermitInv
    <3>2. CASE UNCHANGED capacity /\ Running' = Running
      BY <3>2, PermitsKept DEF IInv
    <3>3. QED BY <1>6, <1>a, <3>1, <3>2 DEF AcquireWorker, Finish, Proceed, IInv, ThreadsType, Running
  <2>3. StoreInv' BY <1>6, <1>a, Bounds DEF AcquireWorker, Finish, Proceed, IInv, StoreInv, StoresType, WorkersType
  <2>4. LiveInv' BY <1>6, <1>a, Bounds DEF AcquireWorker, Finish, Proceed, IInv, LiveInv, StoresType, ThreadsType
  <2>5. LiveIffAnswered' BY <1>6, <1>a, Bounds, <2>4 DEF AcquireWorker, Finish, Proceed, IInv, LiveInv, LiveIffAnswered, StoresType, ThreadsType
  <2>6. StageInv' BY <1>6, <1>a, Bounds DEF AcquireWorker, Finish, Proceed, IInv, StageInv, StagesType, ThreadsType, WorkersType
  <2>7. QED BY <2>1, <2>2, <2>3, <2>4, <2>5, <2>6 DEF IInv
<1>7. CASE WorkerReturns(r)
  <2>1. TypeOK'
    <3>1. StoresType' BY <1>7, <1>a, Bounds DEF WorkerReturns, Finish, Proceed, StoresType, ThreadsType
    <3>2. StagesType' BY <1>7, <1>a, Bounds DEF WorkerReturns, Finish, Proceed, StagesType, ThreadsType
    <3>3. ThreadsType'
      <4>1. (pc \in [Requests -> Step])' BY <1>7, <1>a DEF WorkerReturns, Finish, Proceed, ThreadsType
      <4>2. (got \in [Requests -> 0..MaxStores])' BY <1>7, <1>a, Bounds DEF WorkerReturns, Finish, Proceed, ThreadsType, StoresType
      <4>3. (outcome \in [Requests -> Code])' BY <1>7, <1>a DEF WorkerReturns, Finish, Proceed, ThreadsType, Code
      <4>4. (missed \subseteq Requests /\ cancelled \subseteq Requests)' BY <1>7, <1>a DEF WorkerReturns, Finish, Proceed, ThreadsType
      <4>5. QED BY <4>1, <4>2, <4>3, <4>4 DEF ThreadsType
    <3>4. WorkersType'
      <4>1. r \in Running BY <1>7 DEF Running, WorkerReturns
      <4>2. capacity < ConcurrentWorkers BY <4>1, PermitCounting DEF IInv
      <4>3. QED BY <1>7, <4>2, <1>a, Bounds DEF WorkerReturns, Finish, Proceed, WorkersType
    <3>5. QED BY <3>1, <3>2, <3>3, <3>4, TypeParts
  <2>2. PermitInv'
    <3>1. r \in Running BY <1>7 DEF Running, WorkerReturns
    <3>2. Running' = Running \ {r} BY <1>7, <1>a DEF WorkerReturns, Finish, Proceed, IInv, ThreadsType, Running
    <3>3. capacity' = capacity + 1 BY <1>7 DEF WorkerReturns
    <3>4. TypeOK /\ PermitInv BY DEF IInv
    <3>5. QED BY <3>1, <3>2, <3>3, <3>4, PermitCounting, Bounds DEF PermitInv
  <2>3. StoreInv' BY <1>7, <1>a, Bounds DEF WorkerReturns, Finish, Proceed, IInv, StoreInv, StoresType, WorkersType
  <2>4. LiveInv' BY <1>7, <1>a, Bounds DEF WorkerReturns, Finish, Proceed, IInv, LiveInv, StoresType, ThreadsType
  <2>5. LiveIffAnswered' BY <1>7, <1>a, Bounds, <2>4 DEF WorkerReturns, Finish, Proceed, IInv, LiveInv, LiveIffAnswered, StoresType, ThreadsType
  <2>6. StageInv' BY <1>7, <1>a, Bounds DEF WorkerReturns, Finish, Proceed, IInv, StageInv, StagesType, ThreadsType, WorkersType
  <2>7. QED BY <2>1, <2>2, <2>3, <2>4, <2>5, <2>6 DEF IInv
<1>8. CASE Summarize(r)
  <2>1. TypeOK'
    <3>1. StoresType' BY <1>8, <1>a, Bounds DEF Summarize, Use, Finish, Proceed, Open, StoresType, ThreadsType
    <3>2. StagesType' BY <1>8, <1>a, Bounds DEF Summarize, Use, Finish, Proceed, Open, StagesType, ThreadsType
    <3>3. ThreadsType'
      <4>1. (pc \in [Requests -> Step])' BY <1>8, <1>a DEF Summarize, Use, Finish, Proceed, Open, ThreadsType
      <4>2. (got \in [Requests -> 0..MaxStores])' BY <1>8, <1>a, Bounds DEF Summarize, Use, Finish, Proceed, Open, ThreadsType, StoresType
      <4>3. (outcome \in [Requests -> Code])' BY <1>8, <1>a DEF Summarize, Use, Finish, Proceed, Open, ThreadsType, Code
      <4>4. (missed \subseteq Requests /\ cancelled \subseteq Requests)' BY <1>8, <1>a DEF Summarize, Use, Finish, Proceed, Open, ThreadsType
      <4>5. QED BY <4>1, <4>2, <4>3, <4>4 DEF ThreadsType
    <3>4. WorkersType' BY <1>8, <1>a, Bounds DEF Summarize, Use, Finish, Proceed, Open, WorkersType
    <3>5. QED BY <3>1, <3>2, <3>3, <3>4, TypeParts
  <2>2. PermitInv'
    <3>1. Running' = Running BY <1>8, <1>a DEF Summarize, Use, Finish, Proceed, Open, IInv, ThreadsType, Running
    <3>2. QED BY <1>8, <3>1, PermitsKept DEF Summarize, Use, IInv
  <2>3. StoreInv' BY <1>8, <1>a, Bounds DEF Summarize, Use, Finish, Proceed, Open, IInv, StoreInv, StoresType, WorkersType
  <2>4. LiveInv' BY <1>8, <1>a, Bounds DEF Summarize, Use, Finish, Proceed, Open, IInv, LiveInv, StoresType, ThreadsType
  <2>5. LiveIffAnswered' BY <1>8, <1>a, Bounds, <2>4 DEF Summarize, Use, Finish, Proceed, Open, IInv, LiveInv, LiveIffAnswered, StoresType, ThreadsType
  <2>6. StageInv' BY <1>8, <1>a, Bounds DEF Summarize, Use, Finish, Proceed, Open, IInv, StageInv, StagesType, ThreadsType, WorkersType
  <2>7. QED BY <2>1, <2>2, <2>3, <2>4, <2>5, <2>6 DEF IInv
<1>9. CASE Publish(r)
  <2>a. got[r] \in Stores BY <1>9, <1>a, Bounds DEF Publish, Use, ThreadsType
  <2>b. \/ /\ live' = [live EXCEPT ![got[r]] = @ \cup {r}]
           /\ r \in Executions => /\ outcome' = [outcome EXCEPT ![r] = "ok"]
                                  /\ pc' = [pc EXCEPT ![r] = "cleanup"]
           /\ r \notin Executions => UNCHANGED outcome
           /\ r \notin Executions => pc' = [pc EXCEPT ![r] = "describe"]
        \/ UNCHANGED live /\ \E code \in {"failed", "not_found"} : Finish(r, code)
    <3>1. CASE r \in Executions BY <1>9, <3>1, ServiceAssumption DEF Publish, Finish
    <3>2. CASE r \notin Executions
      <4>1. r \in Registrations BY <3>2 DEF Requests
      <4>2. QED BY <1>9, <3>2, <4>1 DEF Publish, Proceed
    <3>3. QED BY <3>1, <3>2
  <2>c. r \notin Executions => \A q \in Executions : q # r OBVIOUS
  <2>d. UNCHANGED closedStores BY <1>9 DEF Publish, Use
  <2>1. TypeOK'
    <3>1. StoresType'
      <4>1. live' \in [Stores -> SUBSET Requests] BY <1>a, <2>a, <2>b DEF StoresType
      <4>2. QED BY <1>9, <1>a, <4>1 DEF Publish, Use, StoresType
    <3>2. StagesType' BY <1>9, <1>a, Bounds DEF Publish, Use, Finish, Proceed, Accepts, Open, StagesType, ThreadsType
    <3>3. ThreadsType'
      <4>1. (pc \in [Requests -> Step])' BY <1>9, <1>a DEF Publish, Use, Finish, Proceed, Accepts, Open, ThreadsType
      <4>2. (got \in [Requests -> 0..MaxStores])' BY <1>9, <1>a, Bounds DEF Publish, Use, Finish, Proceed, Accepts, Open, ThreadsType, StoresType
      <4>3. (outcome \in [Requests -> Code])' BY <1>9, <1>a DEF Publish, Use, Finish, Proceed, Accepts, Open, ThreadsType, Code
      <4>4. (missed \subseteq Requests /\ cancelled \subseteq Requests)' BY <1>9, <1>a DEF Publish, Use, Finish, Proceed, Accepts, Open, ThreadsType
      <4>5. QED BY <4>1, <4>2, <4>3, <4>4 DEF ThreadsType
    <3>4. WorkersType' BY <1>9, <1>a, Bounds DEF Publish, Use, Finish, Proceed, Accepts, Open, WorkersType
    <3>5. QED BY <3>1, <3>2, <3>3, <3>4, TypeParts
  <2>2. PermitInv'
    <3>1. Running' = Running BY <1>9, <1>a DEF Publish, Use, Finish, Proceed, Accepts, Open, IInv, ThreadsType, Running
    <3>2. QED BY <1>9, <3>1, PermitsKept DEF Publish, Use, IInv
  <2>3. StoreInv' BY <1>9, <1>a, Bounds DEF Publish, Use, Finish, Proceed, Accepts, Open, IInv, StoreInv, StoresType, WorkersType
  <2>4. LiveInv'
    <3>1. LiveInv BY DEF IInv
    <3>2. pc[r] = "publish" BY <1>9 DEF Publish, Use
    <3>3. QED
      BY <1>a, <2>a, <2>b, <2>c, <3>1, <3>2, Bounds DEF LiveInv, Finish, StoresType, ThreadsType
  <2>5. LiveIffAnswered'
    <3>1. LiveIffAnswered BY DEF IInv
    <3>2. SUFFICES ASSUME NEW q \in Executions, outcome'[q] = "ok"
                   PROVE  (\E n \in Stores : q \in live'[n]) \/ closedStores # {}
      BY <2>4, <2>d DEF LiveInv, LiveIffAnswered
    <3>3. \A n \in Stores : live[n] \subseteq live'[n]
      BY <1>a, <2>a, <2>b DEF StoresType
    <3>4. CASE q # r
      <4>1. outcome[q] = "ok" BY <1>a, <2>b, <3>2, <3>4, Bounds DEF Finish, ThreadsType
      <4>2. QED BY <3>1, <3>3, <4>1 DEF LiveIffAnswered
    <3>5. CASE q = r
      <4>1. live' = [live EXCEPT ![got[r]] = @ \cup {r}]
        BY <1>a, <2>b, <3>2, <3>5, Bounds DEF Finish, ThreadsType
      <4>2. QED BY <1>a, <2>a, <3>5, <4>1 DEF StoresType
    <3>6. QED BY <3>4, <3>5
  <2>6. StageInv' BY <1>9, <1>a, Bounds DEF Publish, Use, Finish, Proceed, Accepts, Open, IInv, StageInv, StagesType, ThreadsType, WorkersType
  <2>7. QED BY <2>1, <2>2, <2>3, <2>4, <2>5, <2>6 DEF IInv
<1>10. CASE Describe(r)
  <2>1. TypeOK'
    <3>1. StoresType' BY <1>10, <1>a, Bounds DEF Describe, Use, Finish, Proceed, Open, StoresType, ThreadsType
    <3>2. StagesType' BY <1>10, <1>a, Bounds DEF Describe, Use, Finish, Proceed, Open, StagesType, ThreadsType
    <3>3. ThreadsType'
      <4>1. (pc \in [Requests -> Step])' BY <1>10, <1>a DEF Describe, Use, Finish, Proceed, Open, ThreadsType
      <4>2. (got \in [Requests -> 0..MaxStores])' BY <1>10, <1>a, Bounds DEF Describe, Use, Finish, Proceed, Open, ThreadsType, StoresType
      <4>3. (outcome \in [Requests -> Code])' BY <1>10, <1>a DEF Describe, Use, Finish, Proceed, Open, ThreadsType, Code
      <4>4. (missed \subseteq Requests /\ cancelled \subseteq Requests)' BY <1>10, <1>a DEF Describe, Use, Finish, Proceed, Open, ThreadsType
      <4>5. QED BY <4>1, <4>2, <4>3, <4>4 DEF ThreadsType
    <3>4. WorkersType' BY <1>10, <1>a, Bounds DEF Describe, Use, Finish, Proceed, Open, WorkersType
    <3>5. QED BY <3>1, <3>2, <3>3, <3>4, TypeParts
  <2>2. PermitInv'
    <3>1. Running' = Running BY <1>10, <1>a DEF Describe, Use, Finish, Proceed, Open, IInv, ThreadsType, Running
    <3>2. QED BY <1>10, <3>1, PermitsKept DEF Describe, Use, IInv
  <2>3. StoreInv' BY <1>10, <1>a, Bounds DEF Describe, Use, Finish, Proceed, Open, IInv, StoreInv, StoresType, WorkersType
  <2>4. LiveInv' BY <1>10, <1>a, Bounds DEF Describe, Use, Finish, Proceed, Open, IInv, LiveInv, StoresType, ThreadsType
  <2>5. LiveIffAnswered' BY <1>10, <1>a, Bounds, <2>4 DEF Describe, Use, Finish, Proceed, Open, IInv, LiveInv, LiveIffAnswered, StoresType, ThreadsType
  <2>6. StageInv' BY <1>10, <1>a, Bounds DEF Describe, Use, Finish, Proceed, Open, IInv, StageInv, StagesType, ThreadsType, WorkersType
  <2>7. QED BY <2>1, <2>2, <2>3, <2>4, <2>5, <2>6 DEF IInv
<1>11. CASE RemoveStage(r)
  <2>1. TypeOK'
    <3>1. StoresType' BY <1>11, <1>a, Bounds DEF RemoveStage, StoresType, ThreadsType
    <3>2. StagesType' BY <1>11, <1>a, Bounds DEF RemoveStage, StagesType, ThreadsType
    <3>3. ThreadsType'
      <4>1. (pc \in [Requests -> Step])' BY <1>11, <1>a DEF RemoveStage, ThreadsType
      <4>2. (got \in [Requests -> 0..MaxStores])' BY <1>11, <1>a, Bounds DEF RemoveStage, ThreadsType, StoresType
      <4>3. (outcome \in [Requests -> Code])' BY <1>11, <1>a DEF RemoveStage, ThreadsType, Code
      <4>4. (missed \subseteq Requests /\ cancelled \subseteq Requests)' BY <1>11, <1>a DEF RemoveStage, ThreadsType
      <4>5. QED BY <4>1, <4>2, <4>3, <4>4 DEF ThreadsType
    <3>4. WorkersType' BY <1>11, <1>a, Bounds DEF RemoveStage, WorkersType
    <3>5. QED BY <3>1, <3>2, <3>3, <3>4, TypeParts
  <2>2. PermitInv'
    <3>1. Running' = Running BY <1>11, <1>a DEF RemoveStage, IInv, ThreadsType, Running
    <3>2. QED BY <1>11, <3>1, PermitsKept DEF RemoveStage, IInv
  <2>3. StoreInv' BY <1>11, <1>a, Bounds DEF RemoveStage, IInv, StoreInv, StoresType, WorkersType
  <2>4. LiveInv' BY <1>11, <1>a, Bounds DEF RemoveStage, IInv, LiveInv, StoresType, ThreadsType
  <2>5. LiveIffAnswered' BY <1>11, <1>a, Bounds, <2>4 DEF RemoveStage, IInv, LiveInv, LiveIffAnswered, StoresType, ThreadsType
  <2>6. StageInv' BY <1>11, <1>a, Bounds DEF RemoveStage, IInv, StageInv, StagesType, ThreadsType, WorkersType
  <2>7. QED BY <2>1, <2>2, <2>3, <2>4, <2>5, <2>6 DEF IInv
<1>12. CASE Cancel(r)
  <2>1. TypeOK'
    <3>1. StoresType' BY <1>12, <1>a, Bounds DEF Cancel, StoresType, ThreadsType
    <3>2. StagesType' BY <1>12, <1>a, Bounds DEF Cancel, StagesType, ThreadsType
    <3>3. ThreadsType'
      <4>1. (pc \in [Requests -> Step])' BY <1>12, <1>a DEF Cancel, ThreadsType
      <4>2. (got \in [Requests -> 0..MaxStores])' BY <1>12, <1>a, Bounds DEF Cancel, ThreadsType, StoresType
      <4>3. (outcome \in [Requests -> Code])' BY <1>12, <1>a DEF Cancel, ThreadsType, Code
      <4>4. (missed \subseteq Requests /\ cancelled \subseteq Requests)' BY <1>12, <1>a DEF Cancel, ThreadsType
      <4>5. QED BY <4>1, <4>2, <4>3, <4>4 DEF ThreadsType
    <3>4. WorkersType' BY <1>12, <1>a, Bounds DEF Cancel, WorkersType
    <3>5. QED BY <3>1, <3>2, <3>3, <3>4, TypeParts
  <2>2. PermitInv'
    <3>1. Running' = Running BY <1>12, <1>a DEF Cancel, IInv, ThreadsType, Running
    <3>2. QED BY <1>12, <3>1, PermitsKept DEF Cancel, IInv
  <2>3. StoreInv' BY <1>12, <1>a, Bounds DEF Cancel, IInv, StoreInv, StoresType, WorkersType
  <2>4. LiveInv' BY <1>12, <1>a, Bounds DEF Cancel, IInv, LiveInv, StoresType, ThreadsType
  <2>5. LiveIffAnswered' BY <1>12, <1>a, Bounds, <2>4 DEF Cancel, IInv, LiveInv, LiveIffAnswered, StoresType, ThreadsType
  <2>6. StageInv' BY <1>12, <1>a, Bounds DEF Cancel, IInv, StageInv, StagesType, ThreadsType, WorkersType
  <2>7. QED BY <2>1, <2>2, <2>3, <2>4, <2>5, <2>6 DEF IInv
<1>13. QED BY <1>1, <1>2, <1>3, <1>4, <1>5, <1>6, <1>7, <1>8, <1>9, <1>10, <1>11, <1>12 DEF RequestNext

\* A step of close() keeps the invariant.
LEMMA CloseStep ==
    ASSUME IInv, CloseNext
    PROVE  IInv'
<1> USE DEF ClosePhase, storeVars, stageVars, threadVars, workerVars, Stores
<1>a. StoresType /\ StagesType /\ ThreadsType /\ WorkersType
  BY TypeParts DEF IInv
<1>1. CASE CloseWorkers
  <2>1. TypeOK'
    <3>1. StoresType' BY <1>1, <1>a, Bounds DEF CloseWorkers, StoresType, ThreadsType
    <3>2. StagesType' BY <1>1, <1>a, Bounds DEF CloseWorkers, StagesType, ThreadsType
    <3>3. ThreadsType'
      <4>1. (pc \in [Requests -> Step])' BY <1>1, <1>a DEF CloseWorkers, ThreadsType
      <4>2. (got \in [Requests -> 0..MaxStores])' BY <1>1, <1>a, Bounds DEF CloseWorkers, ThreadsType, StoresType
      <4>3. (outcome \in [Requests -> Code])' BY <1>1, <1>a DEF CloseWorkers, ThreadsType, Code
      <4>4. (missed \subseteq Requests /\ cancelled \subseteq Requests)' BY <1>1, <1>a DEF CloseWorkers, ThreadsType
      <4>5. QED BY <4>1, <4>2, <4>3, <4>4 DEF ThreadsType
    <3>4. WorkersType' BY <1>1, <1>a, Bounds DEF CloseWorkers, WorkersType
    <3>5. QED BY <3>1, <3>2, <3>3, <3>4, TypeParts
  <2>2. PermitInv' BY <1>1, PermitsKept DEF CloseWorkers, IInv, Running
  <2>3. StoreInv' BY <1>1, <1>a, Bounds DEF CloseWorkers, IInv, StoreInv, StoresType, WorkersType
  <2>4. LiveInv' BY <1>1, <1>a, Bounds DEF CloseWorkers, IInv, LiveInv, StoresType, ThreadsType
  <2>5. LiveIffAnswered' BY <1>1, <1>a, Bounds, <2>4 DEF CloseWorkers, IInv, LiveInv, LiveIffAnswered, StoresType, ThreadsType
  <2>6. StageInv' BY <1>1, <1>a, Bounds DEF CloseWorkers, IInv, StageInv, StagesType, ThreadsType, WorkersType
  <2>7. QED BY <2>1, <2>2, <2>3, <2>4, <2>5, <2>6 DEF IInv
<1>2. CASE WorkersClosed
  <2>1. TypeOK'
    <3>1. StoresType' BY <1>2, <1>a, Bounds DEF WorkersClosed, StoresType, ThreadsType
    <3>2. StagesType' BY <1>2, <1>a, Bounds DEF WorkersClosed, StagesType, ThreadsType
    <3>3. ThreadsType'
      <4>1. (pc \in [Requests -> Step])' BY <1>2, <1>a DEF WorkersClosed, ThreadsType
      <4>2. (got \in [Requests -> 0..MaxStores])' BY <1>2, <1>a, Bounds DEF WorkersClosed, ThreadsType, StoresType
      <4>3. (outcome \in [Requests -> Code])' BY <1>2, <1>a DEF WorkersClosed, ThreadsType, Code
      <4>4. (missed \subseteq Requests /\ cancelled \subseteq Requests)' BY <1>2, <1>a DEF WorkersClosed, ThreadsType
      <4>5. QED BY <4>1, <4>2, <4>3, <4>4 DEF ThreadsType
    <3>4. WorkersType' BY <1>2, <1>a, Bounds DEF WorkersClosed, WorkersType
    <3>5. QED BY <3>1, <3>2, <3>3, <3>4, TypeParts
  <2>2. PermitInv' BY <1>2, PermitsKept DEF WorkersClosed, IInv, Running
  <2>3. StoreInv' BY <1>2, <1>a, Bounds DEF WorkersClosed, IInv, StoreInv, StoresType, WorkersType
  <2>4. LiveInv' BY <1>2, <1>a, Bounds DEF WorkersClosed, IInv, LiveInv, StoresType, ThreadsType
  <2>5. LiveIffAnswered' BY <1>2, <1>a, Bounds, <2>4 DEF WorkersClosed, IInv, LiveInv, LiveIffAnswered, StoresType, ThreadsType
  <2>6. StageInv' BY <1>2, <1>a, Bounds DEF WorkersClosed, IInv, StageInv, StagesType, ThreadsType, WorkersType
  <2>7. QED BY <2>1, <2>2, <2>3, <2>4, <2>5, <2>6 DEF IInv
<1>3. CASE DetachStore
  <2>1. TypeOK'
    <3>1. StoresType' BY <1>3, <1>a, Bounds DEF DetachStore, StoresType, ThreadsType
    <3>2. StagesType' BY <1>3, <1>a, Bounds DEF DetachStore, StagesType, ThreadsType
    <3>3. ThreadsType'
      <4>1. (pc \in [Requests -> Step])' BY <1>3, <1>a DEF DetachStore, ThreadsType
      <4>2. (got \in [Requests -> 0..MaxStores])' BY <1>3, <1>a, Bounds DEF DetachStore, ThreadsType, StoresType
      <4>3. (outcome \in [Requests -> Code])' BY <1>3, <1>a DEF DetachStore, ThreadsType, Code
      <4>4. (missed \subseteq Requests /\ cancelled \subseteq Requests)' BY <1>3, <1>a DEF DetachStore, ThreadsType
      <4>5. QED BY <4>1, <4>2, <4>3, <4>4 DEF ThreadsType
    <3>4. WorkersType' BY <1>3, <1>a, Bounds DEF DetachStore, WorkersType
    <3>5. QED BY <3>1, <3>2, <3>3, <3>4, TypeParts
  <2>2. PermitInv' BY <1>3, PermitsKept DEF DetachStore, IInv, Running
  <2>3. StoreInv' BY <1>3, <1>a, Bounds DEF DetachStore, IInv, StoreInv, StoresType, WorkersType
  <2>4. LiveInv' BY <1>3, <1>a, Bounds DEF DetachStore, IInv, LiveInv, StoresType, ThreadsType
  <2>5. LiveIffAnswered' BY <1>3, <1>a, Bounds, <2>4 DEF DetachStore, IInv, LiveInv, LiveIffAnswered, StoresType, ThreadsType
  <2>6. StageInv' BY <1>3, <1>a, Bounds DEF DetachStore, IInv, StageInv, StagesType, ThreadsType, WorkersType
  <2>7. QED BY <2>1, <2>2, <2>3, <2>4, <2>5, <2>6 DEF IInv
<1>4. CASE CloseStore
  <2>1. TypeOK'
    <3>1. StoresType'
      <4>1. live' \in [Stores -> SUBSET Requests] BY <1>4, <1>a, Bounds DEF CloseStore, StoresType
      <4>2. closedStores' \subseteq Stores BY <1>4, <1>a, Bounds DEF CloseStore, StoresType
      <4>3. QED BY <1>4, <1>a, <4>1, <4>2 DEF CloseStore, StoresType
    <3>2. StagesType' BY <1>4, <1>a, Bounds DEF CloseStore, StagesType, ThreadsType
    <3>3. ThreadsType'
      <4>1. (pc \in [Requests -> Step])' BY <1>4, <1>a DEF CloseStore, ThreadsType
      <4>2. (got \in [Requests -> 0..MaxStores])' BY <1>4, <1>a, Bounds DEF CloseStore, ThreadsType, StoresType
      <4>3. (outcome \in [Requests -> Code])' BY <1>4, <1>a DEF CloseStore, ThreadsType, Code
      <4>4. (missed \subseteq Requests /\ cancelled \subseteq Requests)' BY <1>4, <1>a DEF CloseStore, ThreadsType
      <4>5. QED BY <4>1, <4>2, <4>3, <4>4 DEF ThreadsType
    <3>4. WorkersType' BY <1>4, <1>a, Bounds DEF CloseStore, WorkersType
    <3>5. QED BY <3>1, <3>2, <3>3, <3>4, TypeParts
  <2>2. PermitInv' BY <1>4, PermitsKept DEF CloseStore, IInv, Running
  <2>3. StoreInv' BY <1>4, <1>a, Bounds DEF CloseStore, IInv, StoreInv, StoresType, WorkersType
  <2>4. LiveInv' BY <1>4, <1>a, Bounds DEF CloseStore, IInv, LiveInv, StoresType, ThreadsType
  <2>5. LiveIffAnswered' BY <1>4, <1>a, Bounds, <2>4 DEF CloseStore, IInv, LiveInv, LiveIffAnswered, StoresType, ThreadsType
  <2>6. StageInv' BY <1>4, <1>a, Bounds DEF CloseStore, IInv, StageInv, StagesType, ThreadsType, WorkersType
  <2>7. QED BY <2>1, <2>2, <2>3, <2>4, <2>5, <2>6 DEF IInv
<1>5. QED BY <1>1, <1>2, <1>3, <1>4 DEF CloseNext

\* Every step keeps the invariant.
LEMMA StepIInv == IInv /\ [Next]_vars => IInv'
<1> SUFFICES ASSUME IInv, [Next]_vars PROVE IInv'
  OBVIOUS
<1>1. CASE Next
  BY <1>1, RequestStep, CloseStep DEF Next
<1>2. CASE UNCHANGED vars
  <2>1. Running' = Running BY <1>2 DEF vars, threadVars, Running
  <2>2. QED
    BY <1>2, <2>1 DEF vars, storeVars, stageVars, threadVars, workerVars, IInv, TypeOK,
       PermitInv, StoreInv, LiveInv, LiveIffAnswered, StageInv
<1>3. QED BY <1>1, <1>2

\* The service keeps its inductive invariant.
THEOREM ServiceInvariant == Spec => []IInv
  BY InitIInv, StepIInv, PTL DEF Spec

\* The state has its type: in particular a permit of the worker controller is
\* given back exactly once, however a call ends (service.py, execute_component).
THEOREM ServiceType == Spec => []TypeOK
<1>1. IInv => TypeOK BY DEF IInv
<1>2. QED BY <1>1, ServiceInvariant, PTL

\* Requests that race for the lazy session_cas property share one store until
\* close() begins.
THEOREM RequestsShareOneStore == Spec => []OneStore
<1>1. IInv => OneStore BY DEF IInv, StoreInv, OneStore
<1>2. QED BY <1>1, ServiceInvariant, PTL

\* An operation is live exactly when the thread that executed it returned success, until
\* its store is closed (service.py, execute_component): a thread that failed leaves none
\* behind.  Whether a client still waited for the thread is another matter.
THEOREM LiveOperationsAnswered == Spec => []LiveIffAnswered
<1>1. IInv => LiveIffAnswered BY DEF IInv
<1>2. QED BY <1>1, ServiceInvariant, PTL

\* close() removes no staging directory a worker still writes to (service.py, close).
THEOREM WorkersKeepTheirStage == Spec => []WorkerKeepsStage
<1>1. IInv => WorkerKeepsStage BY DEF IInv, TypeOK, StageInv, WorkerKeepsStage
<1>2. QED BY <1>1, ServiceInvariant, PTL
=============================================================================
