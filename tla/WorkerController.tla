-------------------------- MODULE WorkerController --------------------------
(***************************************************************************)
(* shared/worker_runtime.py: the controller that runs every selected       *)
(* component in a bounded native process tree.                             *)
(*                                                                         *)
(* Threads.  Each member of Calls is one invocation of execute_operation   *)
(* (Operations) or of _execute_inspection (the others); each member of     *)
(* Closers is one invocation of WorkerController.close().  The worker      *)
(* process tree, its capture threads and the wall clock are actors of      *)
(* their own.                                                              *)
(*                                                                         *)
(* Stdout and stderr are handled alike at every point, so they are one     *)
(* "noise" stream; the control pipe is the other stream.  _shutdown is set *)
(* in the same locked section as _closed and is the same variable here.    *)
(* Every loop that polls with a short wait is a cycle of steps.            *)
(***************************************************************************)
EXTENDS Integers, FiniteSets

CONSTANTS
    Calls,              \* invocations of the controller
    Operations,         \* those that execute an operation and publish a bundle
    Dirs,               \* output directories callers may name
    OutputDir,          \* the output directory of each operation
    BigRequests,        \* calls whose request is larger than the stdin pipe buffer
    Closers,            \* invocations of close()
    ConcurrentWorkers,  \* WorkerLimits.concurrent_workers
    Responses,          \* what a worker may write on its control pipe
    Noises,             \* what component code may write on stdout or stderr
    Faults,             \* which uses of the host may fail
    Nobody

ASSUME ControllerAssumption ==
    /\ Operations \subseteq Calls
    /\ OutputDir \in [Operations -> Dirs]
    /\ BigRequests \subseteq Calls
    /\ Calls \cap Closers = {}
    /\ Nobody \notin Calls \cup Closers
    /\ IsFiniteSet(Calls)
    /\ ConcurrentWorkers \in Nat \ {0}
    /\ Responses \subseteq {"success", "failure", "resource", "malformed", "oversize"}
    /\ Noises \subseteq {"some", "flood"}
    /\ Faults \subseteq {"prepare", "launch", "reader_start", "memory", "read",
                        "join_timeout", "verify", "rename", "discard"}

VARIABLES
    capacity,   \* free permits of the BoundedSemaphore
    lock,       \* owner of the controller's RLock, or Nobody
    closed,     \* _closed (and _shutdown)
    active,     \* _active: workers registered for shutdown
    allDone,    \* _all_done
    pc,         \* control point of each call
    reason,     \* what stopped the monitor: a failure code, or "none"
    outcome,    \* what the call returned or raised, "none" while it runs
    cpc,        \* control point of each close()
    snapshot,   \* the workers close() read under the lock
    closedBy,   \* the close() that found the controller open, or Nobody
    workRoot,   \* calls whose private workspace exists
    published,  \* who published each output directory
    cancelled,  \* calls whose cancel_event is set
    expired,    \* calls whose wall deadline has passed
    child,      \* the worker's primary process
    group,      \* calls whose process tree has a live process
    termSent,   \* trees that were sent SIGTERM
    response,   \* what was written on the control pipe
    noise,      \* what was written on stdout or stderr
    accepting,  \* calls whose capture threads keep what they read
    gotResponse, gotNoise,          \* what the capture threads hold
    responseFailed, noiseFailed     \* calls with a capture whose read failed

callVars  == <<pc, reason, outcome>>
closeVars == <<cpc, snapshot, closedBy>>
childVars == <<child, group, response, noise>>
readVars  == <<gotResponse, gotNoise, responseFailed, noiseFailed>>
ctrlVars  == <<capacity, lock, closed, active, allDone>>
vars == <<ctrlVars, callVars, closeVars, workRoot, published, cancelled,
          expired, childVars, termSent, accepting, readVars>>

-----------------------------------------------------------------------------
(* Types *)

CallStep == {"idle", "admitted", "preparing", "prepared", "launching", "registering",
             "starting", "sending", "mon_cancel", "mon_streams", "mon_child",
             "terminating", "killing", "joining", "judging", "verifying",
             "publishing", "renaming", "closing", "leaving", "discarding",
             "releasing", "done"}
CloseStep == {"idle", "signalling", "waiting", "killing", "waiting_killed", "returned"}
FailureCode == {"worker_capacity", "worker_cancelled", "worker_crashed", "worker_timeout",
                "worker_resource_limit", "result_limit_exceeded", "input_limit_exceeded",
                "component_contract_error", "operation_failure", "output_exists",
                "artifact_write_failed", "internal_failure"}
Outcome == FailureCode \cup {"none", "success"}
Primary == {"absent", "starting", "running", "exited", "crashed"}
Response == {"nothing", "success", "failure", "resource", "malformed", "oversize"}
Noise == {"quiet", "some", "flood"}

\* The type of every variable of the controller, its callers and its workers.
TypeOK ==
    /\ capacity \in 0..ConcurrentWorkers
    /\ lock \in Calls \cup Closers \cup {Nobody}
    /\ closed \in BOOLEAN
    /\ active \subseteq Calls
    /\ allDone \in BOOLEAN
    /\ pc \in [Calls -> CallStep]
    /\ reason \in [Calls -> FailureCode \cup {"none"}]
    /\ outcome \in [Calls -> Outcome]
    /\ cpc \in [Closers -> CloseStep]
    /\ snapshot \in [Closers -> SUBSET Calls]
    /\ closedBy \in Closers \cup {Nobody}
    /\ workRoot \subseteq Calls
    /\ published \in [Dirs -> Calls \cup {Nobody}]
    /\ cancelled \subseteq Calls
    /\ expired \subseteq Calls
    /\ child \in [Calls -> Primary]
    /\ group \subseteq Calls
    /\ termSent \subseteq Calls
    /\ response \in [Calls -> Response]
    /\ noise \in [Calls -> Noise]
    /\ accepting \subseteq Calls
    /\ gotResponse \in [Calls -> Response]
    /\ gotNoise \in [Calls -> Noise]
    /\ responseFailed \subseteq Calls
    /\ noiseFailed \subseteq Calls

Init ==
    /\ capacity = ConcurrentWorkers
    /\ lock = Nobody
    /\ closed = FALSE
    /\ active = {}
    /\ allDone = TRUE
    /\ pc = [c \in Calls |-> "idle"]
    /\ reason = [c \in Calls |-> "none"]
    /\ outcome = [c \in Calls |-> "none"]
    /\ cpc = [k \in Closers |-> "idle"]
    /\ snapshot = [k \in Closers |-> {}]
    /\ closedBy = Nobody
    /\ workRoot = {}
    /\ published = [d \in Dirs |-> Nobody]
    /\ cancelled = {}
    /\ expired = {}
    /\ child = [c \in Calls |-> "absent"]
    /\ group = {}
    /\ termSent = {}
    /\ response = [c \in Calls |-> "nothing"]
    /\ noise = [c \in Calls |-> "quiet"]
    /\ accepting = {}
    /\ gotResponse = [c \in Calls |-> "nothing"]
    /\ gotNoise = [c \in Calls |-> "quiet"]
    /\ responseFailed = {}
    /\ noiseFailed = {}

-----------------------------------------------------------------------------
(* Helpers *)

Goto(c, step) == pc' = [pc EXCEPT ![c] = step]

\* The call ends with this result or exception and runs its finally block from
\* the given step: "closing" once a worker is registered, "discarding" before.
Finish(c, result, step) ==
    /\ Goto(c, step)
    /\ outcome' = [outcome EXCEPT ![c] = result]
    /\ UNCHANGED reason

Dead(c) == child[c] \in {"exited", "crashed"}

\* SIGKILL for every process of these trees; a primary that was alive has no exit code 0.
KillTrees(S) ==
    /\ group' = group \ S
    /\ child' = [c \in Calls |->
                    IF c \in S /\ child[c] \in {"starting", "running"} THEN "crashed"
                    ELSE child[c]]

-----------------------------------------------------------------------------
(* Admission and preparation *)

\* self._capacity.acquire(blocking=False): there is no queue.
Acquire(c) ==
    /\ pc[c] = "idle"
    /\ IF capacity > 0
       THEN capacity' = capacity - 1 /\ Goto(c, "admitted") /\ UNCHANGED <<reason, outcome>>
       ELSE Finish(c, "worker_capacity", "done") /\ UNCHANGED capacity
    /\ UNCHANGED <<lock, closed, active, allDone, closeVars, workRoot, published,
                   cancelled, expired, childVars, termSent, accepting, readVars>>

\* Mutant: the early return of a closed controller skips the finally block.
CheckOpenLeaks(c) ==
    /\ pc[c] = "admitted"
    /\ lock = Nobody
    /\ IF closed THEN Finish(c, "worker_cancelled", "done")
       ELSE Goto(c, "preparing") /\ UNCHANGED <<reason, outcome>>
    /\ UNCHANGED <<ctrlVars, closeVars, workRoot, published, cancelled, expired,
                   childVars, termSent, accepting, readVars>>

CheckOpen(c) ==
    /\ pc[c] = "admitted"
    /\ lock = Nobody
    /\ IF closed THEN Finish(c, "worker_cancelled", "discarding")
       ELSE Goto(c, "preparing") /\ UNCHANGED <<reason, outcome>>
    /\ UNCHANGED <<ctrlVars, closeVars, workRoot, published, cancelled, expired,
                   childVars, termSent, accepting, readVars>>

\* Everything between admission and launch that can fail: request validation,
\* the output directory check, the workspace, the request byte limit.
PrepareFailure(c) ==
    IF c \in Operations
    THEN IF published[OutputDir[c]] # Nobody THEN {"output_exists"}
         ELSE {"operation_failure", "input_limit_exceeded"}
    ELSE {"worker_crashed", "input_limit_exceeded"}

Prepare(c) ==
    /\ pc[c] = "preparing"
    /\ \/ /\ "output_exists" \notin PrepareFailure(c)
          /\ workRoot' = workRoot \cup {c}
          /\ Goto(c, "prepared") /\ UNCHANGED <<reason, outcome>>
       \/ \E f \in PrepareFailure(c) :
            /\ "prepare" \in Faults \/ f = "output_exists"
            /\ \/ f # "output_exists" /\ workRoot' = workRoot \cup {c}
               \/ f # "input_limit_exceeded" /\ UNCHANGED workRoot
            /\ Finish(c, f, "discarding")
    /\ UNCHANGED <<ctrlVars, closeVars, published, cancelled, expired,
                   childVars, termSent, accepting, readVars>>

-----------------------------------------------------------------------------
(* Launch: one critical section of the controller's lock *)

\* Mutant: _closed is not looked at again before the launch.
LaunchBeginUnchecked(c) ==
    /\ pc[c] = "prepared"
    /\ lock = Nobody
    /\ lock' = c
    /\ Goto(c, "launching")
    /\ UNCHANGED <<capacity, closed, active, allDone, reason, outcome, closeVars, workRoot,
                   published, cancelled, expired, childVars, termSent, accepting, readVars>>

LaunchBegin(c) ==
    /\ pc[c] = "prepared"
    /\ lock = Nobody
    /\ IF closed THEN Finish(c, "worker_cancelled", "discarding") /\ UNCHANGED lock
       ELSE lock' = c /\ Goto(c, "launching") /\ UNCHANGED <<reason, outcome>>
    /\ UNCHANGED <<capacity, closed, active, allDone, closeVars, workRoot, published,
                   cancelled, expired, childVars, termSent, accepting, readVars>>

\* provider.launch: on failure nothing of the tree survives it.
Launch(c) ==
    /\ pc[c] = "launching"
    /\ \/ /\ child' = [child EXCEPT ![c] = "starting"]
          /\ group' = group \cup {c}
          /\ Goto(c, "registering") /\ UNCHANGED <<reason, outcome, lock>>
       \/ /\ "launch" \in Faults
          /\ Finish(c, "worker_crashed", "discarding")
          /\ lock' = Nobody
          /\ UNCHANGED <<child, group>>
    /\ UNCHANGED <<capacity, closed, active, allDone, closeVars, workRoot, published,
                   cancelled, expired, response, noise, termSent, accepting, readVars>>

RegisterActive(c) ==
    /\ pc[c] = "registering"
    /\ accepting' = accepting \cup {c}
    /\ active' = active \cup {c}
    /\ allDone' = FALSE
    /\ lock' = Nobody
    /\ Goto(c, "starting")
    /\ UNCHANGED <<capacity, closed, reason, outcome, closeVars, workRoot, published,
                   cancelled, expired, childVars, termSent, readVars>>

\* reader.start() for the capture threads; an exception here goes straight to
\* the finally block, past _cleanup_process.
StartReaders(c) ==
    /\ pc[c] = "starting"
    /\ \/ Goto(c, "sending") /\ UNCHANGED <<reason, outcome>>
       \/ "reader_start" \in Faults /\ Finish(c, "internal_failure", "closing")
    /\ UNCHANGED <<ctrlVars, closeVars, workRoot, published, cancelled, expired,
                   childVars, termSent, accepting, readVars>>

\* The blocking write of the request to the worker's stdin.  A request that
\* fits the pipe buffer is accepted before the worker reads it.
SendRequest(c) ==
    /\ pc[c] = "sending"
    /\ \/ /\ child[c] = "running" \/ (c \notin BigRequests /\ child[c] = "starting")
          /\ Goto(c, "mon_cancel") /\ UNCHANGED <<reason, outcome>>
       \/ /\ Dead(c)
          /\ Goto(c, "terminating")
          /\ reason' = [reason EXCEPT ![c] = "worker_crashed"]
          /\ UNCHANGED outcome
    /\ UNCHANGED <<ctrlVars, closeVars, workRoot, published, cancelled, expired,
                   childVars, termSent, accepting, readVars>>

-----------------------------------------------------------------------------
(* _monitor: the polling loop, one step per group of conditions it reads *)

MonitorStop(c, why) ==
    /\ Goto(c, "terminating")
    /\ reason' = [reason EXCEPT ![c] = why]
    /\ UNCHANGED outcome

MonitorCancel(c) ==
    /\ pc[c] = "mon_cancel"
    /\ IF closed \/ c \in cancelled THEN MonitorStop(c, "worker_cancelled")
       ELSE Goto(c, "mon_streams") /\ UNCHANGED <<reason, outcome>>
    /\ UNCHANGED <<ctrlVars, closeVars, workRoot, published, cancelled, expired,
                   childVars, termSent, accepting, readVars>>

MonitorStreams(c) ==
    /\ pc[c] = "mon_streams"
    /\ IF gotNoise[c] = "flood" THEN MonitorStop(c, "worker_resource_limit")
       ELSE IF gotResponse[c] = "oversize" \/ c \in responseFailed
       THEN MonitorStop(c, "worker_crashed")
       ELSE Goto(c, "mon_child") /\ UNCHANGED <<reason, outcome>>
    /\ UNCHANGED <<ctrlVars, closeVars, workRoot, published, cancelled, expired,
                   childVars, termSent, accepting, readVars>>

\* Mutant: the loop never compares the clock with the deadline.
MonitorChildNoDeadline(c) ==
    /\ pc[c] = "mon_child"
    /\ IF Dead(c) THEN MonitorStop(c, "none")
       ELSE Goto(c, "mon_cancel") /\ UNCHANGED <<reason, outcome>>
    /\ UNCHANGED <<ctrlVars, closeVars, workRoot, published, cancelled, expired,
                   childVars, termSent, accepting, readVars>>

\* Memory measurement, exit code, deadline, in this order.  The measurement may
\* fail at any time, and finds too much memory only in a tree that is alive.
MonitorChild(c) ==
    /\ pc[c] = "mon_child"
    /\ \/ "memory" \in Faults /\ c \in group /\ MonitorStop(c, "worker_resource_limit")
       \/ "memory" \in Faults /\ MonitorStop(c, "worker_crashed")
       \/ Dead(c) /\ MonitorStop(c, "none")
       \/ ~Dead(c) /\ c \in expired /\ MonitorStop(c, "worker_timeout")
       \/ ~Dead(c) /\ c \notin expired /\ Goto(c, "mon_cancel") /\ UNCHANGED <<reason, outcome>>
    /\ UNCHANGED <<ctrlVars, closeVars, workRoot, published, cancelled, expired,
                   childVars, termSent, accepting, readVars>>

-----------------------------------------------------------------------------
(* _cleanup_process: taken on every path that has monitored a worker *)

CleanTerminate(c) ==
    /\ pc[c] = "terminating"
    /\ accepting' = IF reason[c] # "none" THEN accepting \ {c} ELSE accepting
    /\ termSent' = termSent \cup {c}
    /\ Goto(c, "killing")
    /\ UNCHANGED <<ctrlVars, reason, outcome, closeVars, workRoot, published, cancelled,
                   expired, childVars, readVars>>

\* Mutant: a primary that has already exited is taken for a tree that has.
CleanKillPrimaryOnly(c) ==
    /\ pc[c] = "killing"
    /\ KillTrees(IF Dead(c) THEN {} ELSE {c})
    /\ Goto(c, "joining")
    /\ UNCHANGED <<ctrlVars, reason, outcome, closeVars, workRoot, published, cancelled,
                   expired, response, noise, termSent, accepting, readVars>>

\* After at most the grace period the whole containment object is forced down.
CleanKill(c) ==
    /\ pc[c] = "killing"
    /\ KillTrees({c})
    /\ Goto(c, "joining")
    /\ UNCHANGED <<ctrlVars, reason, outcome, closeVars, workRoot, published, cancelled,
                   expired, response, noise, termSent, accepting, readVars>>

\* The capture threads have nothing left to keep: they failed, read everything,
\* or discard what they read.
ReadersEnded(c) ==
    \/ c \notin accepting
    \/ /\ c \in noiseFailed \/ gotNoise[c] = noise[c]
       /\ c \in responseFailed \/ gotResponse[c] = response[c]

\* Mutant: the captures are used without joining their threads.
JoinReadersSkipped(c) ==
    /\ pc[c] = "joining"
    /\ Goto(c, "judging")
    /\ UNCHANGED <<ctrlVars, reason, outcome, closeVars, workRoot, published, cancelled,
                   expired, childVars, termSent, accepting, readVars>>

JoinReaders(c) ==
    /\ pc[c] = "joining"
    /\ "join_timeout" \in Faults \/ ReadersEnded(c)
    /\ Goto(c, "judging")
    /\ UNCHANGED <<ctrlVars, reason, outcome, closeVars, workRoot, published, cancelled,
                   expired, childVars, termSent, accepting, readVars>>

-----------------------------------------------------------------------------
(* The verdict, in the order the code tests its conditions *)

\* What a clean exit means once every limit and failure test has passed.  An
\* operation decodes the control response before it looks at the noise; an
\* inspection looks at the noise first.
Decoded(c) ==
    IF gotResponse[c] \in {"nothing", "malformed"} THEN "worker_crashed"
    ELSE IF gotResponse[c] = "resource" THEN "worker_resource_limit"
    ELSE IF gotNoise[c] # "quiet" THEN "component_contract_error"
    ELSE IF gotResponse[c] = "success" THEN "success"
    ELSE "operation_failure"

Verdict(c) ==
    IF gotResponse[c] = "oversize" THEN "result_limit_exceeded"
    ELSE IF reason[c] # "none" THEN reason[c]
    ELSE IF closed THEN "worker_cancelled"
    ELSE IF gotNoise[c] = "flood" THEN "worker_resource_limit"
    ELSE IF child[c] # "exited" \/ c \in responseFailed \cup noiseFailed THEN "worker_crashed"
    ELSE IF c \notin Operations /\ gotNoise[c] # "quiet" THEN "component_contract_error"
    ELSE Decoded(c)

Judge(c) ==
    /\ pc[c] = "judging"
    /\ IF Verdict(c) = "success" /\ c \in Operations
       THEN Goto(c, "verifying") /\ UNCHANGED <<reason, outcome>>
       ELSE Finish(c, Verdict(c), "closing")
    /\ UNCHANGED <<ctrlVars, closeVars, workRoot, published, cancelled, expired,
                   childVars, termSent, accepting, readVars>>

\* verify_operation_bundle against the manifest the worker returned.
VerifyBundle(c) ==
    /\ pc[c] = "verifying"
    /\ \/ Goto(c, "publishing") /\ UNCHANGED <<reason, outcome>>
       \/ "verify" \in Faults /\ Finish(c, "artifact_write_failed", "closing")
    /\ UNCHANGED <<ctrlVars, closeVars, workRoot, published, cancelled, expired,
                   childVars, termSent, accepting, readVars>>

\* Mutant: the lock is released between the check and the rename.
PublishCheckUnlocked(c) ==
    /\ pc[c] = "publishing"
    /\ lock = Nobody
    /\ IF closed \/ c \in cancelled THEN Finish(c, "worker_cancelled", "closing")
       ELSE Goto(c, "renaming") /\ UNCHANGED <<reason, outcome>>
    /\ UNCHANGED <<ctrlVars, closeVars, workRoot, published, cancelled, expired,
                   childVars, termSent, accepting, readVars>>

\* Mutant: the exception of the cancelled branch leaves the lock taken.
PublishCheckKeepsLock(c) ==
    /\ pc[c] = "publishing"
    /\ lock = Nobody
    /\ lock' = c
    /\ IF closed \/ c \in cancelled THEN Finish(c, "worker_cancelled", "closing")
       ELSE Goto(c, "renaming") /\ UNCHANGED <<reason, outcome>>
    /\ UNCHANGED <<capacity, closed, active, allDone, closeVars, workRoot, published,
                   cancelled, expired, childVars, termSent, accepting, readVars>>

\* The final cancellation test and the no-replace rename share one lock section.
PublishCheck(c) ==
    /\ pc[c] = "publishing"
    /\ lock = Nobody
    /\ IF closed \/ c \in cancelled
       THEN Finish(c, "worker_cancelled", "closing") /\ UNCHANGED lock
       ELSE lock' = c /\ Goto(c, "renaming") /\ UNCHANGED <<reason, outcome>>
    /\ UNCHANGED <<capacity, closed, active, allDone, closeVars, workRoot, published,
                   cancelled, expired, childVars, termSent, accepting, readVars>>

\* Mutant: a rename that replaces an existing output directory.
PublishRenameReplaces(c) ==
    /\ pc[c] = "renaming"
    /\ published' = [published EXCEPT ![OutputDir[c]] = c]
    /\ Finish(c, "success", "closing")
    /\ lock' = Nobody
    /\ UNCHANGED <<capacity, closed, active, allDone, closeVars, workRoot,
                   cancelled, expired, childVars, termSent, accepting, readVars>>

PublishRename(c) ==
    /\ pc[c] = "renaming"
    /\ \/ /\ published[OutputDir[c]] = Nobody
          /\ published' = [published EXCEPT ![OutputDir[c]] = c]
          /\ Finish(c, "success", "closing")
       \/ /\ "rename" \in Faults \/ published[OutputDir[c]] # Nobody
          /\ Finish(c, "artifact_write_failed", "closing")
          /\ UNCHANGED published
    /\ lock' = Nobody
    /\ UNCHANGED <<capacity, closed, active, allDone, closeVars, workRoot,
                   cancelled, expired, childVars, termSent, accepting, readVars>>

-----------------------------------------------------------------------------
(* The finally block *)

\* _close_active: provider.close closes the pipes, and a worker that has not
\* read its request sees the end of its stdin.  It signals nobody.
CloseHandle(c) ==
    /\ pc[c] = "closing"
    /\ Goto(c, "leaving")
    /\ accepting' = accepting \ {c}
    /\ UNCHANGED <<ctrlVars, reason, outcome, closeVars, workRoot, published, cancelled,
                   expired, childVars, termSent, readVars>>

LeaveActive(c) ==
    /\ pc[c] = "leaving"
    /\ lock = Nobody
    /\ active' = active \ {c}
    /\ allDone' = (allDone \/ active' = {})
    /\ Goto(c, "discarding")
    /\ UNCHANGED <<capacity, lock, closed, reason, outcome, closeVars, workRoot, published,
                   cancelled, expired, childVars, termSent, accepting, readVars>>

\* remove_private_tree(work_root), workspace.close(): errors are swallowed.
DiscardWorkRoot(c) ==
    /\ pc[c] = "discarding"
    /\ \/ workRoot' = workRoot \ {c}
       \/ "discard" \in Faults /\ UNCHANGED workRoot
    /\ Goto(c, "releasing")
    /\ UNCHANGED <<ctrlVars, reason, outcome, closeVars, published, cancelled,
                   expired, childVars, termSent, accepting, readVars>>

ReleaseCapacity(c) ==
    /\ pc[c] = "releasing"
    /\ capacity' = capacity + 1
    /\ Goto(c, "done")
    /\ UNCHANGED <<lock, closed, active, allDone, reason, outcome, closeVars, workRoot,
                   published, cancelled, expired, childVars, termSent, accepting, readVars>>

-----------------------------------------------------------------------------
(* WorkerController.close *)

CloseBegin(k) ==
    /\ cpc[k] = "idle"
    /\ lock = Nobody
    /\ closed' = TRUE
    /\ IF closed
       THEN cpc' = [cpc EXCEPT ![k] = "returned"] /\ UNCHANGED <<snapshot, closedBy>>
       ELSE /\ cpc' = [cpc EXCEPT ![k] = "signalling"]
            /\ snapshot' = [snapshot EXCEPT ![k] = active]
            /\ closedBy' = k
    /\ UNCHANGED <<capacity, lock, active, allDone, callVars, workRoot, published,
                   cancelled, expired, childVars, termSent, accepting, readVars>>

\* Workers whose handle is still open: "closed" is set in _close_active.
HandleOpen(c) == pc[c] \notin {"leaving", "discarding", "releasing", "done"}

CloseTerminate(k) ==
    /\ cpc[k] = "signalling"
    /\ termSent' = termSent \cup {c \in snapshot[k] : HandleOpen(c)}
    /\ cpc' = [cpc EXCEPT ![k] = "waiting"]
    /\ UNCHANGED <<ctrlVars, callVars, snapshot, closedBy, workRoot, published,
                   cancelled, expired, childVars, accepting, readVars>>

\* _all_done.wait(grace_seconds): either the event is set or the grace elapses.
CloseWait(k) ==
    /\ cpc[k] = "waiting"
    /\ cpc' = [cpc EXCEPT ![k] = IF allDone THEN "returned" ELSE "killing"]
    /\ UNCHANGED <<ctrlVars, callVars, snapshot, closedBy, workRoot, published,
                   cancelled, expired, childVars, termSent, accepting, readVars>>

CloseKill(k) ==
    /\ cpc[k] = "killing"
    /\ lock = Nobody
    /\ KillTrees({c \in active : HandleOpen(c)})
    /\ cpc' = [cpc EXCEPT ![k] = "waiting_killed"]
    /\ UNCHANGED <<ctrlVars, callVars, snapshot, closedBy, workRoot, published,
                   cancelled, expired, response, noise, termSent, accepting, readVars>>

\* The last wait is bounded by one second: close() returns in either case.
CloseReturn(k) ==
    /\ cpc[k] = "waiting_killed"
    /\ cpc' = [cpc EXCEPT ![k] = "returned"]
    /\ UNCHANGED <<ctrlVars, callVars, snapshot, closedBy, workRoot, published,
                   cancelled, expired, childVars, termSent, accepting, readVars>>

-----------------------------------------------------------------------------
(* The environment: callers, clock, worker processes, capture threads *)

\* A cancellation later than the publication check is read by nobody.
Cancel(c) ==
    /\ pc[c] \notin {"idle", "closing", "leaving", "discarding", "releasing", "done"}
    /\ cancelled' = cancelled \cup {c}
    /\ UNCHANGED <<ctrlVars, callVars, closeVars, workRoot, published, expired,
                   childVars, termSent, accepting, readVars>>

Expire(c) ==
    /\ pc[c] \in {"mon_cancel", "mon_streams", "mon_child"}
    /\ expired' = expired \cup {c}
    /\ UNCHANGED <<ctrlVars, callVars, closeVars, workRoot, published, cancelled,
                   childVars, termSent, accepting, readVars>>

\* worker_entry._request: the worker drains its stdin until end of file.
ChildReads(c) ==
    /\ child[c] = "starting"
    /\ pc[c] \notin {"registering", "starting", "closing", "leaving", "discarding", "releasing", "done"}
    /\ child' = [child EXCEPT ![c] = "running"]
    /\ UNCHANGED <<ctrlVars, callVars, closeVars, workRoot, published, cancelled, expired,
                   group, response, noise, termSent, accepting, readVars>>

\* Component code, or a descendant it left behind, writes to stdout or stderr
\* outside the typed protocol.
ChildNoise(c) ==
    /\ c \in group /\ child[c] # "starting"
    /\ \E n \in Noises : /\ noise[c] = "quiet" \/ (noise[c] = "some" /\ n = "flood")
                        /\ noise' = [noise EXCEPT ![c] = n]
    /\ UNCHANGED <<ctrlVars, callVars, closeVars, workRoot, published, cancelled, expired,
                   child, group, response, termSent, accepting, readVars>>

\* worker_main: one control response, written only once stdin reached its end.
ChildResponds(c) ==
    /\ child[c] = "running"
    /\ pc[c] # "sending"
    /\ response[c] = "nothing"
    /\ \E r \in Responses : response' = [response EXCEPT ![c] = r]
    /\ UNCHANGED <<ctrlVars, callVars, closeVars, workRoot, published, cancelled, expired,
                   child, group, noise, termSent, accepting, readVars>>

\* The primary exits: with code 0 only after a response; a descendant may stay.
ChildExits(c) ==
    /\ child[c] \in {"starting", "running"}
    /\ \/ child' = [child EXCEPT ![c] = "crashed"]
       \/ response[c] # "nothing" /\ child' = [child EXCEPT ![c] = "exited"]
    /\ \/ group' = group \ {c}
       \/ UNCHANGED group
    /\ UNCHANGED <<ctrlVars, callVars, closeVars, workRoot, published, cancelled, expired,
                   response, noise, termSent, accepting, readVars>>

\* The rest of a tree whose primary is gone ends, by itself or by SIGTERM.
DescendantExits(c) ==
    /\ c \in group /\ Dead(c)
    /\ group' = group \ {c}
    /\ UNCHANGED <<ctrlVars, callVars, closeVars, workRoot, published, cancelled, expired,
                   child, response, noise, termSent, accepting, readVars>>

\* _Capture.read keeps a chunk only while output is accepted.
ReadNoise(c) ==
    /\ c \in accepting \ noiseFailed
    /\ pc[c] \notin {"registering", "starting"}
    /\ gotNoise[c] # noise[c]
    /\ gotNoise' = [gotNoise EXCEPT ![c] = noise[c]]
    /\ UNCHANGED <<ctrlVars, callVars, closeVars, workRoot, published, cancelled, expired,
                   childVars, termSent, accepting, gotResponse, responseFailed, noiseFailed>>

ReadResponse(c) ==
    /\ c \in accepting \ responseFailed
    /\ pc[c] \notin {"registering", "starting"}
    /\ gotResponse[c] # response[c]
    /\ gotResponse' = [gotResponse EXCEPT ![c] = response[c]]
    /\ UNCHANGED <<ctrlVars, callVars, closeVars, workRoot, published, cancelled, expired,
                   childVars, termSent, accepting, gotNoise, responseFailed, noiseFailed>>

ReadFails(c) ==
    /\ "read" \in Faults
    /\ c \in accepting
    /\ pc[c] \notin {"registering", "starting"}
    /\ \/ responseFailed' = responseFailed \cup {c} /\ UNCHANGED noiseFailed
       \/ noiseFailed' = noiseFailed \cup {c} /\ UNCHANGED responseFailed
    /\ UNCHANGED <<ctrlVars, callVars, closeVars, workRoot, published, cancelled, expired,
                   childVars, termSent, accepting, gotResponse, gotNoise>>

-----------------------------------------------------------------------------
(* Specification *)

CallNext(c) ==
    \/ Acquire(c) \/ CheckOpen(c) \/ Prepare(c)
    \/ LaunchBegin(c) \/ Launch(c) \/ RegisterActive(c)
    \/ StartReaders(c) \/ SendRequest(c)
    \/ MonitorCancel(c) \/ MonitorStreams(c) \/ MonitorChild(c)
    \/ CleanTerminate(c) \/ CleanKill(c) \/ JoinReaders(c)
    \/ Judge(c) \/ VerifyBundle(c) \/ PublishCheck(c) \/ PublishRename(c)
    \/ CloseHandle(c) \/ LeaveActive(c) \/ DiscardWorkRoot(c) \/ ReleaseCapacity(c)

CloseNext(k) ==
    \/ CloseBegin(k) \/ CloseTerminate(k) \/ CloseWait(k) \/ CloseKill(k) \/ CloseReturn(k)

ReaderNext(c) == ReadNoise(c) \/ ReadResponse(c) \/ ReadFails(c)

ChildNext(c) ==
    \/ ChildReads(c) \/ ChildNoise(c) \/ ChildResponds(c)
    \/ ChildExits(c) \/ DescendantExits(c)

Next ==
    \/ \E c \in Calls : CallNext(c) \/ ReaderNext(c) \/ ChildNext(c) \/ Cancel(c) \/ Expire(c)
    \/ \E k \in Closers : CloseNext(k)

Spec == Init /\ [][Next]_vars

\* Every thread of the controller runs, the monotonic clock passes every
\* deadline, and capture threads drain their pipes.  What the worker does is
\* its own business: it may compute forever.
ControllerFairness ==
    /\ \A c \in Calls : /\ WF_vars(pc[c] # "idle" /\ CallNext(c))
                        /\ WF_vars(Expire(c))
                        /\ WF_vars(ReadNoise(c) \/ ReadResponse(c))
    /\ \A k \in Closers : WF_vars(cpc[k] # "idle" /\ CloseNext(k))

\* The controller alone, and with workers that eventually read their request.
ControllerSpec == Spec /\ ControllerFairness
FairSpec == ControllerSpec /\ \A c \in Calls : WF_vars(ChildReads(c))

-----------------------------------------------------------------------------
(* Safety *)

Holding(c) == pc[c] \notin {"idle", "done"}

\* Every permit is either free or held by a call that has not returned, whatever
\* way each call ended (BoundedSemaphore and the finally block of both methods):
\* no path loses a permit or returns one twice.
CapacityConserved ==
    capacity + Cardinality({c \in Calls : Holding(c)}) = ConcurrentWorkers

\* A live process tree always belongs to a registered worker, or to the call
\* that is launching it inside the lock: close() cannot miss one, and a call
\* that left the registry (or returned) left no process behind.  The private
\* workspace, its current directory and TMPDIR, exists as long as it does.
TreeOwned == \A c \in group : c \in workRoot /\ (c \in active \/ lock = c)

\* When the close() that found the controller open returns, by either of its
\* two waits, no worker process is left and none will be started.
CloseLeavesNoTree == \A k \in Closers : cpc[k] = "returned" /\ closedBy = k => group = {}

\* The caller is told "success" exactly when its own bundle is the one that was
\* published: no bundle of a failed or cancelled call appears, and no
\* publication replaces another one.
PublishedAgrees ==
    \A c \in Operations : outcome[c] = "success" <=> published[OutputDir[c]] = c

\* A successful call ran a worker that exited with code 0 after a success
\* response and whose whole tree wrote nothing on stdout or stderr, up to the
\* moment it was killed.
HonestSuccess ==
    \A c \in Calls : outcome[c] = "success" =>
        child[c] = "exited" /\ response[c] = "success" /\ noise[c] = "quiet"

-----------------------------------------------------------------------------
(* Action properties *)

\* "Publication is the linearization point": once close() has begun, no bundle
\* is published.
NoPublishAfterClose == [][closed => UNCHANGED published]_vars

-----------------------------------------------------------------------------
(* Liveness *)

\* Every call returns within its limits, whatever the worker computes, and every
\* close() returns whatever calls it meets.
EveryCallReturns ==
    /\ \A c \in Calls : pc[c] # "idle" ~> pc[c] = "done"
    /\ \A k \in Closers : cpc[k] # "idle" ~> cpc[k] = "returned"

\* A call whose cancel_event is set returns.
CancelledCallReturns == \A c \in Calls : c \in cancelled ~> pc[c] = "done"
=============================================================================
