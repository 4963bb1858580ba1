------------------------------- MODULE Service -------------------------------
(***************************************************************************)
(* shared/service.py: DefinedQuantService, the object that ties one        *)
(* session store and one worker controller together, under the threads     *)
(* mcp_server/src/defined_quant_mcp/server.py runs it in.                  *)
(*                                                                         *)
(* Each request runs in a thread of its own.  A cancelled request is       *)
(* abandoned: its thread goes on.  close() runs when the transport has     *)
(* ended, while abandoned threads may still be at work.                    *)
(*                                                                         *)
(* The stores are numbered in the order the lazy session_cas property      *)
(* creates them; each is the SessionCas of module SessionCas, reduced to   *)
(* open, live references and staging directories.  The worker controller   *)
(* is that of module WorkerController, reduced to permits, closed, and the *)
(* requests with a live process tree.                                      *)
(***************************************************************************)
EXTENDS Integers, FiniteSets

CONSTANTS
    Registrations,      \* register_dataset requests
    Executions,         \* execute_component requests
    SourceOf,           \* the registration whose dataset an execution uses, or NoSource
    ConcurrentWorkers,
    MaxStores,          \* bound on the stores a behaviour may create
    NoSource

Requests == Registrations \cup Executions
Stores == 1..MaxStores

ASSUME ServiceAssumption ==
    /\ Registrations \cap Executions = {}
    /\ NoSource \notin Requests
    /\ IsFiniteSet(Requests)
    /\ SourceOf \in [Executions -> Registrations \cup {NoSource}]
    /\ ConcurrentWorkers \in Nat \ {0}
    /\ MaxStores \in Nat \ {0}

VARIABLES
    slot,           \* _session_cas: the current store, 0 for None
    made,           \* how many stores were created
    detached,       \* the store close() took out of the slot, 0 for none
    closedStores,   \* stores that were closed
    live,           \* live[n]: requests whose reference is live in store n
    staged,         \* staged[r]: the store that holds r's staging directory, 0 for none
    pc, got, missed, outcome,
    capacity, workersClosed, tree,
    bundle,         \* executions whose verified bundle is in their staging directory
    cancelled,
    closePc

storeVars  == <<slot, made, detached, closedStores, live>>
stageVars  == <<staged, bundle>>
threadVars == <<pc, got, missed, outcome>>
workerVars == <<capacity, workersClosed, tree>>
vars == <<storeVars, stageVars, threadVars, workerVars, cancelled, closePc>>

\* Steps that evaluate self.session_cas before they do something with the store.
UsesStore == {"stage", "source", "summary", "publish", "describe"}
Step == UsesStore \cup {"idle", "acquire", "running", "cleanup", "done"}
Code == {"none", "ok", "not_found", "failed", "worker_capacity", "worker_cancelled"}

\* The type of the service, its stores and its requests.
TypeOK ==
    /\ slot \in 0..MaxStores
    /\ made \in 0..MaxStores
    /\ detached \in 0..MaxStores
    /\ closedStores \subseteq Stores
    /\ live \in [Stores -> SUBSET Requests]
    /\ staged \in [Requests -> 0..MaxStores]
    /\ bundle \subseteq Requests
    /\ pc \in [Requests -> Step]
    /\ got \in [Requests -> 0..MaxStores]
    /\ missed \subseteq Requests
    /\ outcome \in [Requests -> Code]
    /\ capacity \in 0..ConcurrentWorkers
    /\ workersClosed \in BOOLEAN
    /\ tree \subseteq Requests
    /\ cancelled \subseteq Requests
    /\ closePc \in {"open", "workers", "detach", "session", "closed"}

Init ==
    /\ slot = 0 /\ made = 0 /\ detached = 0 /\ closedStores = {}
    /\ live = [n \in Stores |-> {}]
    /\ staged = [r \in Requests |-> 0] /\ bundle = {}
    /\ pc = [r \in Requests |-> "idle"]
    /\ got = [r \in Requests |-> 0]
    /\ missed = {}
    /\ outcome = [r \in Requests |-> "none"]
    /\ capacity = ConcurrentWorkers /\ workersClosed = FALSE /\ tree = {}
    /\ cancelled = {}
    /\ closePc = "open"

-----------------------------------------------------------------------------
(* The lazy session_cas property: double-checked locking *)

Open(n) == n # 0 /\ n \notin closedStores

ReadSlot(r) ==
    /\ pc[r] \in UsesStore /\ got[r] = 0 /\ r \notin missed
    /\ IF slot # 0 THEN got' = [got EXCEPT ![r] = slot] /\ UNCHANGED missed
       ELSE missed' = missed \cup {r} /\ UNCHANGED got
    /\ UNCHANGED <<storeVars, stageVars, pc, outcome, workerVars, cancelled, closePc>>

\* Mutant: the slot is not read again under _session_lock.
CreateStoreUnchecked(r) ==
    /\ r \in missed
    /\ missed' = missed \ {r}
    /\ made < MaxStores
    /\ made' = made + 1
    /\ slot' = made + 1
    /\ got' = [got EXCEPT ![r] = made + 1]
    /\ UNCHANGED <<detached, closedStores, live, stageVars, pc, outcome, workerVars, cancelled, closePc>>

CreateStore(r) ==
    /\ r \in missed
    /\ missed' = missed \ {r}
    /\ IF slot # 0 THEN got' = [got EXCEPT ![r] = slot] /\ UNCHANGED <<slot, made>>
       ELSE /\ made < MaxStores
            /\ made' = made + 1
            /\ slot' = made + 1
            /\ got' = [got EXCEPT ![r] = made + 1]
    /\ UNCHANGED <<detached, closedStores, live, stageVars, pc, outcome, workerVars, cancelled, closePc>>

-----------------------------------------------------------------------------
(* Requests *)

\* Where a request goes when it ends: an execution leaves the "with" block that
\* removes its staging directory.
Finish(r, code) ==
    /\ outcome' = [outcome EXCEPT ![r] = code]
    /\ pc' = [pc EXCEPT ![r] = IF r \in Executions THEN "cleanup" ELSE "done"]

Proceed(r, step) ==
    /\ pc' = [pc EXCEPT ![r] = step]
    /\ UNCHANGED outcome

\* The step uses the store it was given; the next use evaluates the property again.
Use(r, step) ==
    /\ pc[r] = step
    /\ got[r] # 0
    /\ got' = [got EXCEPT ![r] = 0]
    /\ UNCHANGED <<slot, made, detached, closedStores, missed, cancelled, closePc>>

\* register_dataset normalizes its input first, execute_component opens its stage.
Start(r) ==
    /\ pc[r] = "idle"
    /\ \/ Proceed(r, IF r \in Registrations THEN "publish" ELSE "stage")
       \/ r \in Registrations /\ Finish(r, "failed")
    /\ UNCHANGED <<storeVars, stageVars, got, missed, workerVars, cancelled, closePc>>

\* temporary_operation_output.
OpenStage(r) ==
    /\ Use(r, "stage")
    /\ \/ /\ Open(got[r])
          /\ staged' = [staged EXCEPT ![r] = got[r]]
          /\ Proceed(r, IF SourceOf[r] = NoSource THEN "acquire" ELSE "source")
       \/ /\ Finish(r, IF Open(got[r]) THEN "failed" ELSE "not_found")
          /\ UNCHANGED staged
    /\ UNCHANGED <<live, bundle, workerVars>>

\* load_dataset of the source, and the request built from it.
LoadSource(r) ==
    /\ Use(r, "source")
    /\ \/ Open(got[r]) /\ SourceOf[r] \in live[got[r]] /\ Proceed(r, "acquire")
       \/ ~(Open(got[r]) /\ SourceOf[r] \in live[got[r]]) /\ Finish(r, "not_found")
       \/ Finish(r, "failed")
    /\ UNCHANGED <<live, stageVars, workerVars>>

\* The request is validated; WorkerController.execute_operation: admission ...
AcquireWorker(r) ==
    /\ pc[r] = "acquire"
    /\ \/ Finish(r, "failed") /\ UNCHANGED <<capacity, tree>>
       \/ capacity = 0 /\ Finish(r, "worker_capacity") /\ UNCHANGED <<capacity, tree>>
       \/ workersClosed /\ Finish(r, "worker_cancelled") /\ UNCHANGED <<capacity, tree>>
       \/ /\ capacity > 0 /\ ~workersClosed
          /\ capacity' = capacity - 1
          /\ tree' = tree \cup {r}
          /\ Proceed(r, "running")
    /\ UNCHANGED <<storeVars, stageVars, got, missed, workersClosed, cancelled, closePc>>

\* Mutant: a call waits for its worker although close() has taken it away.
WorkerReturnsUnlessClosed(r) ==
    /\ pc[r] = "running"
    /\ ~workersClosed
    /\ Finish(r, "failed")
    /\ capacity' = capacity + 1
    /\ tree' = tree \ {r}
    /\ UNCHANGED <<storeVars, stageVars, got, missed, workersClosed, cancelled, closePc>>

\* ... and return, with a bundle in the staging directory or with a failure.
WorkerReturns(r) ==
    /\ pc[r] = "running"
    /\ \/ /\ ~workersClosed /\ r \notin cancelled /\ staged[r] # 0
          /\ bundle' = bundle \cup {r}
          /\ Proceed(r, "summary")
       \/ Finish(r, "failed") /\ UNCHANGED bundle
       \/ (workersClosed \/ r \in cancelled) /\ Finish(r, "worker_cancelled") /\ UNCHANGED bundle
    /\ capacity' = capacity + 1
    /\ tree' = tree \ {r}
    /\ UNCHANGED <<storeVars, staged, got, missed, workersClosed, cancelled, closePc>>

\* build_operation_record, reconciled_bundle_bytes and operation_summary: the
\* bundle is read back, and a summary that would be too large ends the request.
Summarize(r) ==
    /\ Use(r, "summary")
    /\ \/ r \in bundle /\ Proceed(r, "publish")
       \/ Finish(r, "failed")
       \/ ~Open(got[r]) /\ Finish(r, "not_found")
    /\ UNCHANGED <<live, stageVars, workerVars>>

\* publish_dataset, or publish_operation, which verifies the source again.
Accepts(n, r) ==
    Open(n) /\ (r \in Executions /\ SourceOf[r] # NoSource => SourceOf[r] \in live[n])

\* Mutant: the reference is published before the summary is known to fit.
PublishBeforeSummary(r) ==
    /\ Use(r, "publish")
    /\ \/ /\ Accepts(got[r], r)
          /\ live' = [live EXCEPT ![got[r]] = @ \cup {r}]
          /\ IF r \in Registrations THEN Proceed(r, "describe")
             ELSE \E code \in {"ok", "failed"} : Finish(r, code)
       \/ ~Accepts(got[r], r) /\ Finish(r, "not_found") /\ UNCHANGED live
    /\ UNCHANGED <<stageVars, workerVars>>

Publish(r) ==
    /\ Use(r, "publish")
    /\ \/ /\ Accepts(got[r], r)
          /\ live' = [live EXCEPT ![got[r]] = @ \cup {r}]
          /\ IF r \in Registrations THEN Proceed(r, "describe") ELSE Finish(r, "ok")
       \/ ~Accepts(got[r], r) /\ Finish(r, "not_found") /\ UNCHANGED live
       \/ Finish(r, "failed") /\ UNCHANGED live
    /\ UNCHANGED <<stageVars, workerVars>>

\* register_dataset describes what it published, in the store it finds then; its
\* metadata may be too large to return.
Describe(r) ==
    /\ Use(r, "describe")
    /\ \/ Finish(r, IF Open(got[r]) /\ r \in live[got[r]] THEN "ok" ELSE "not_found")
       \/ Open(got[r]) /\ Finish(r, "failed")
    /\ UNCHANGED <<live, stageVars, workerVars>>

RemoveStage(r) ==
    /\ pc[r] = "cleanup"
    /\ pc' = [pc EXCEPT ![r] = "done"]
    /\ staged' = [staged EXCEPT ![r] = 0]
    /\ bundle' = bundle \ {r}
    /\ UNCHANGED <<storeVars, got, missed, outcome, workerVars, cancelled, closePc>>

\* The client gives up: the event is set and the thread is abandoned.
Cancel(r) ==
    /\ pc[r] \notin {"idle", "cleanup", "done"}
    /\ cancelled' = cancelled \cup {r}
    /\ UNCHANGED <<storeVars, stageVars, threadVars, workerVars, closePc>>

-----------------------------------------------------------------------------
(* close(): workers first, then the store *)

ClosePhase(from, to) == closePc = from /\ closePc' = to

\* Mutant: the store is detached and closed before the workers are.
CloseWorkersLate ==
    /\ ClosePhase("open", "detach")
    /\ UNCHANGED <<storeVars, stageVars, threadVars, workerVars, cancelled>>

CloseWorkers ==
    /\ ClosePhase("open", "workers")
    /\ workersClosed' = TRUE
    /\ UNCHANGED <<storeVars, stageVars, threadVars, capacity, tree, cancelled>>

\* WorkerController.close returns: no process tree is left (CloseLeavesNoTree).
WorkersClosed ==
    /\ ClosePhase("workers", "detach")
    /\ tree' = {}
    /\ UNCHANGED <<storeVars, stageVars, threadVars, capacity, workersClosed, cancelled>>

\* Under _session_lock.
DetachStore ==
    /\ ClosePhase("detach", "session")
    /\ detached' = slot
    /\ slot' = 0
    /\ UNCHANGED <<made, closedStores, live, stageVars, threadVars, workerVars, cancelled>>

\* SessionCas.close of the detached store, if there is one: its references expire
\* and its directory goes, staging directories included.
CloseStore ==
    /\ ClosePhase("session", "closed")
    /\ IF detached = 0 THEN UNCHANGED <<closedStores, live, staged, bundle>>
       ELSE /\ closedStores' = closedStores \cup {detached}
            /\ live' = [live EXCEPT ![detached] = {}]
            /\ staged' = [r \in Requests |-> IF staged[r] = detached THEN 0 ELSE staged[r]]
            /\ bundle' = {r \in bundle : staged[r] # detached}
    /\ UNCHANGED <<slot, made, detached, threadVars, workerVars, cancelled>>

RequestNext(r) ==
    \/ ReadSlot(r) \/ CreateStore(r) \/ Start(r) \/ OpenStage(r) \/ LoadSource(r)
    \/ AcquireWorker(r) \/ WorkerReturns(r) \/ Summarize(r) \/ Publish(r)
    \/ Describe(r) \/ RemoveStage(r)

CloseNext == CloseWorkers \/ WorkersClosed \/ DetachStore \/ CloseStore

Next == (\E r \in Requests : RequestNext(r) \/ Cancel(r)) \/ CloseNext

Spec == Init /\ [][Next]_vars

\* Threads run; so does close() once it has begun.
FairSpec ==
    /\ Spec
    /\ \A r \in Requests : WF_vars(pc[r] # "idle" /\ RequestNext(r))
    /\ WF_vars(closePc # "open" /\ CloseNext)

-----------------------------------------------------------------------------
(* Properties *)

\* However many requests race for the lazy property, they share one store until
\* close() begins.
OneStore == closePc = "open" => made <= 1

\* "An operation whose required summary cannot be returned must not become a live
\* session reference" (service.py): an operation is live exactly when its thread
\* returned success, until its store is closed.  The thread's result is what is
\* meant: when its request was cancelled nobody awaits it, and the operation it
\* publishes is live although no client is told its name.
LiveIffAnswered ==
    \A r \in Executions :
        /\ \A n \in Stores : r \in live[n] => outcome[r] = "ok"
        /\ outcome[r] = "ok" => (\E n \in Stores : r \in live[n]) \/ closedStores # {}

\* A running worker never loses the staging directory its bundle goes to: close()
\* stops the workers before it removes the store.
WorkerKeepsStage == \A r \in tree : staged[r] # 0

\* Every request ends, cancelled, abandoned or overtaken by close() as it may be.
EveryRequestEnds == \A r \in Requests : pc[r] # "idle" ~> pc[r] = "done"

\* "On session end every reference expires and the private store is removed"
\* (docs/LOCAL_MCP_ALPHA_DESIGN.md): once close() returned and every thread ended,
\* no store is open.
EveryStoreClosed ==
    closePc = "closed" /\ (\A r \in Requests : pc[r] \in {"idle", "done"})
        => \A n \in 1..made : n \in closedStores
=============================================================================
