# A verification model of Defined Quant

Defined Quant runs small quantitative components ("drawdown", "simple return", ...)
for a local MCP client. A request names a component and a dataset; the server checks
both, runs the component's code in a separate bounded process tree, verifies the
bundle the worker wrote, publishes it in a content-addressed store that belongs to the
session, and shows it to the client in bounded pages.

This directory holds TLA+ models of the parts of that program which run concurrently,
fail in the middle, or decide something that is hard to test; the TLC configurations
that check them on small instances; and TLAPS proofs of the results that should hold
for every instance. All references to code are to paths under `src/`.

    tlc -workers 2 -config MCWorkerController_one.cfg MCWorkerController
    tlapm WorkerControllerProofs.tla

The proofs of a part are in a module of their own (`...Proofs`), except that
`OperationDataProofs` holds those of records, plans, reads, guidance and ports, and
`SessionLifecycleProofs` those of both hosts.

`PROJECT.json` lists the runs, the source lines each definition models (`map`), the
mutants that show each property can fail, the hazards and the theorems.

## 1. Inventory

| Part | Source | State it keeps | Operations |
|---|---|---|---|
| Worker controller | `shared/worker_runtime.py` | a semaphore of permits, an RLock, `_active`, `_all_done`, `_closed`, a private workspace per call | `execute_operation`, `execute_inspection`, `close` |
| Worker process | `shared/worker_entry.py`, `worker_process.py`, `_posix_worker_entry.py` | its own process tree and its three pipes | read the request, compute, answer on the control pipe, exit |
| POSIX provider | `shared/_posix_worker.py` | the process group and the descendants of a worker | launch, poll, wait, terminate, kill, close |
| Session store | `shared/session_cas.py` | `_references`, `_corrupt_references`, `_used_bytes`, files; a registry shared by all sessions | publish and load datasets and operations, quarantine, cursors, `close` |
| Session directories | `session_cas.py`, `shared/_posix_local_host.py` | a directory per session with marker and lock file, an `flock` | create, lock, close, clean up orphans |
| Service | `shared/service.py` | the lazily created store, the controller | `register_dataset`, `execute_component`, read-only views, `close` |
| Record views | `shared/record_views.py` | none (cursors are self-contained tokens) | pages of previews, result fields and messages; summaries |
| MCP server | `mcp_server/src/defined_quant_mcp/server.py` | threads of requests, one serialized writer | dispatch, cancel, audit, write |
| Stdio framing | `shared/stdio_framing.py` | a buffer, an end-of-file flag | read one bounded line, write every byte of a frame |
| Operation runtime | `shared/operation_runtime.py`, `worker_inspection.py`, `worker_entry.py`, `catalog.py` | a staging directory, the output directory | validate, load, hash, call, check, write, publish; inspect; answer |
| Failures | `shared/host_failures.py` | none | map runtime failures to closed host failures |
| Operation records | `shared/operation_records.py`, `data_records.py` | none (reads a directory others can write to) | derive, reconcile, copy |
| Dataset registry | `shared/dataset_registry.py`, `data_records.py` | none | check, decode, normalize, record, bind columns |
| Configured roots | `shared/dataset_registry.py`, `_posix_local_host.py` | pinned descriptors | pin, read beneath, read a member, close |
| Guidance | `shared/validation.py` | none | evaluate constraints, settle defaults, ask questions |
| Ports | `protocol/ports.py` | none | extract a port from a schema, compare two |
| Plans and authorization | `shared/plan_validation.py`, `protocol/plan.py`, `policy.py`, `authorization.py` | none (a chain of hashes in the caller's hands) | validate, approve, bind, verify |
| Discovery | `shared/discovery.py` | an index | rank, page |
| Windows host | `shared/_windows_local_host.py`, `_windows_worker.py` | as the two POSIX parts | as the two POSIX parts |
| Components, value types, charts, authoring tools | `categories/**`, `shared/types/`, `shared/charts.py`, `authoring/` | none | numerical series, immutable values, SVG, maintainers' commands |

**How they interact.** The MCP server runs each tool call in a thread of its own and
abandons that thread when the client cancels. The thread calls the service; the
service evaluates its lazy `session_cas` property (creating the store under a lock at
the first use), opens a staging directory in it, calls the worker controller, which
blocks until the worker has answered or was killed, checks that the summary of the new
record can be returned, and only then publishes it. `close()` of the service runs when
the transport has ended: it closes the controller, takes the store out of its slot and
closes it. Sessions of other processes share only the state root on disk, where each
new session removes the directories of dead ones. Inside the worker the operation runtime
finds, imports and hashes the component, calls it and publishes a bundle in the staging
directory it was given; the host does not believe it, and derives the record from the bytes
it finds there. A dataset is normalized in the server's own process from inline rows or from
a file beneath a configured root. Planning and authorization are used by callers who keep
the receipts themselves and have them verified against the package as it is then.

**What is hard.** Several threads share the controller's permits and registry while
`close()` may begin at any point; the worker may compute for ever, die, leave children
behind or write anything; capture threads run beside the monitor; publication must not
cross a shutdown; abandoned threads outlive the transport; several processes create,
lock and delete session directories concurrently and may be lost between any two system
calls; files may change under the store; a page's size depends on the cursor it will carry;
a component may be reinstalled between its import and its hash; a bundle, a local file, a
policy or a plan may change between two reads of it; a descriptor number may be reused.

**What makes each part correct.**

* Controller: permits are conserved; no process tree escapes the registry; `close()`
  leaves no tree; a caller is told success exactly when its own bundle was published;
  nothing is published after `close()` began; every call and every `close()` returns.
* Store: an immutable store per session: once published, a reference answers the same
  record, or is corrupt for ever; byte accounts are exact; no operation without its source.
* Directories: a live session keeps its directory and its lock; only directories of
  ended sessions are reclaimed; no lock is leaked.
* Service: one store at a time; an operation is live exactly when its thread returned success;
  a store outlives the workers that write in it; every request ends; every store is closed.
* Views: pages put together give each item once and in order, within the limits; cursors
  work only where they were issued.
* Transport: lines are judged alike however they arrive; frames never mix on the wire; every
  call has one audit record, whose outcome goes with its answer, and an answer, a cancellation
  or the session's end; no call is abandoned without being told to stop; the
  process exits once its input or output has ended.
* Runtime: the output directory is whole or not the runner's; an answer tells which; a result
  names the identity that was made out, and comes from code of the version requested; the host
  is told nothing that was not verified.
* Records: what is stored is what the worker answered, whatever happened to the directory;
  an untouched bundle is never called corrupt.
* Datasets and roots: values are kept (CSV numbers as the nearest double) and found by name,
  every change is in the ledger; bytes come from a whole file beneath the pinned root; no
  descriptor is leaked or closed twice.
* Guidance, ports, plans: an assumed default is one the contract allows; compatible ports fit;
  what is authorized is what was approved, and still in force; a caller is asked once.

## 2. The modules

The models keep the control of the code: every step between two points where another
thread, process or fault can intervene is an action; a section under a lock whose
intermediate states nobody else can see is one action. Data are abstracted to what the
properties tell apart.

### WorkerController (`shared/worker_runtime.py`)

Each member of `Calls` is one invocation of the controller with control point `pc`;
`Closers` are invocations of `close()`. Actions follow `_run_worker` in order:

* `Acquire`, `CheckOpen`: `_acquire` of a permit without blocking, the test of `_closed`.
* `Prepare`: private workspace and request file; `LaunchBegin`, `Launch`, `RegisterActive`:
  the section under the RLock that tests `_closed`, launches and registers the worker.
* `StartReaders`, `SendRequest`: the capture threads, the blocking write to stdin.
* `MonitorCancel`, `MonitorStreams`, `MonitorChild`: one turn of the polling loop, with
  cancellation, shutdown, stream overflow, memory, deadline and exit in the code's order.
* `CleanTerminate`, `CleanKill`, `JoinReaders`: `_cleanup_process`.
* `Judge`, `VerifyBundle`, `PublishCheck`, `PublishRename`: from the captured streams to
  the exclusive rename of the bundle.
* `CloseHandle`, `LeaveActive`, `DiscardWorkRoot`, `ReleaseCapacity`: the `finally` blocks.
* `CloseBegin`, `CloseTerminate`, `CloseWait`, `CloseKill`, `CloseReturn`: `close()`.
* `Child*`, `DescendantExits`, `Read*`, `Cancel`, `Expire`: the worker's tree, the
  capture threads, the client and the clock.

The set `Faults` names the uses of the host that may fail in an instance. stdout and
stderr are treated alike in the code and are one "noise" stream. That `kill_tree` reaches
the whole tree is assumed of the provider; process identifiers are not modelled.

### SessionCas and ImmutableStore (`shared/session_cas.py`)

Every public method of `SessionCas` holds its mutex throughout and is one action:
`PublishFails/Denied/Existing/Fresh`, `LoadDataset`, `LoadOperation`, `Close`. A
reference is the digest of its record, so an entry on disk is `good`, `bad` or `absent`;
`Tamper` lets other programs change entries between any two calls. `ImmutableStore` is
the promise to the caller: a reference of a session goes from unpublished to published,
perhaps to corrupt, and to expired, and answers accordingly. `SessionCas` implements it
under the refinement mapping `StatusOf`.

### SessionLifecycle (`session_cas.py`, `_posix_local_host.py`)

Each member of `Sessions` is one session object in some process. Its cleanup of orphans
(`ListCandidates` .. `ReclaimEnds`), its creation (`CreateDirectory` .. `LockOwn`), the
undoing of a failed creation and its `close()` are sequences of system calls; `rmtree`
removes members one at a time in any order. `Crash` ends a process at any step and frees
its locks; `Age` makes a marker older than the orphan age. A lock is on an inode and
outlives the file's name.

### WindowsSessions (`_windows_local_host.py`, `session_cas.py`)

The same lives over the Windows provider, where the lock of a session is a file outside its
directory. `ListEntries`, `TakeEntry`, `AcquireExternal` and `VerifyCandidate` are the cleanup,
which also finds tombstones others left; `Rename` claims a directory, `DeleteMember` and
`DeleteEnds` delete a tombstone, in cleanup, `close()` (`CloseSession`) and undo alike;
`ReadOwnLock`, `LockExternal` and `Confirm` are `acquire_session_lock`, which looks at the
directory again once it has the lock. Every use of the host may fail, so the checks of
owner, descriptor and remembered identity are reasons to fail and nothing more.

### Service (`shared/service.py`, threads of `server.py`)

Each request is a thread. `ReadSlot` and `CreateStore` are the two halves of the lazy
property (test, lock, test again, create); every use of the property is again such a pair,
because a thread may find another store the next time. `OpenStage`, `LoadSource`,
`AcquireWorker`, `WorkerReturns`, `Summarize`, `Publish`, `Describe`, `RemoveStage` are the
steps of the two requests; `CloseWorkers`, `WorkersClosed`, `DetachStore`, `CloseStore`
those of `close()`. It composes abstractions of the three modules above: a store is open,
live references and staging directories; the controller is permits, `closed` and trees.

### RecordViews (`shared/record_views.py`, cursors of `session_cas.py`)

A request loads its record (`Serve`), decodes its cursor (`Decode`), grows the page item
by item (`Extend`, each with a cursor to be encoded) and answers (`Answer`); `Summarize`
and `Publish` are the part of `execute_component` that must know the summary fits before
the record is live. Corruption and close may come between any two calls of the store. An
item is its size in bytes; `Overhead` and `CursorBytes` are the bytes around it. A cursor
in the model also carries what its client has collected, which is what `ReadsInOrder` is about.

### McpTransport (`mcp_server/.../server.py`, `shared/stdio_framing.py`)

The event loop is one thread whose tasks are atomic between two awaits; reading a frame, a
call of the service and a write run in threads that go on when their task is cancelled.

* `ReadMore`, `ReadEof`, `ReadFails`, `RefuseUnterminated`, `RefuseIncomplete`, `RefuseLine`:
  `read_frame`, over a stream of bytes of which each read returns any part; `TakeLine` is the
  frame it returns.
* `DeliverRequest`, `DeliverCancel`, `JsonRaises`, `ReplyParseError`, `ReplyWritten`: the input
  task, which answers a line that is not JSON itself.
* `RefuseCall`, `Dispatch`, `HandleResult`, `CancelTasks`, and `RefuseResource`,
  `HandleResource`: `on_call_tool` and `on_read_resource`; `ServiceReturns` is module `Service`.
* `WriteBegin`, `WritePiece`: a thread in `_ExclusiveAsyncOutput._write`, one `os.write` at a
  time into a pipe of bounded size; `CloseOutput` is its `close()`.
* `Launch`, `Unwind`, `CloseService`: `main()` and `run_stdio` with the exit status.

The SDK is not part of the repository and is modelled from how it is used: a task per request,
one writer task that takes answers in order (`WriterTakes`, `WriterResumes`), task groups that
cancel everything when a task raises (`Unwind`), and after the end of input a session that runs
out or is cancelled (`DrainCancels`, `DrainEnds`). A message of the client is a byte of its own,
which keeps line lengths meaningful; the contents of answers are left out.

### OperationRuntime and HostFailures (`operation_runtime.py`, `worker_entry.py`, `worker_inspection.py`, `host_failures.py`)

`Runners` are processes that want the same output directory: workers, and a runner without an
output limit. Actions follow `execute_operation`: `ValidateRequest`, `PrepareOutput`;
`FindComponent`, `ImportComponent`, `HashSubject`, three moments at which the installed files
are looked at and between which `Reinstall` may replace them, with or without a new version;
`LoadModels`, `ValidateInput`, `NormalizeInput`, `LoadCallable`, `InvokeComponent`,
`ValidateOutput`, `NormalizeOutput`; `PrepareStage`, `WriteMember`, `VerifyBundle`,
`CheckPublication`, `PublishBundle`, `DiscardStage`. `DescribeComponent` and `ComparePorts` are
the inspections. `RespondOperation` and `RespondInspection` are `worker_main`, which turns a
typed error into a host failure. Component code does any of `Behaviours`, every use of the host
in `Faults` may fail, `ForeignCreates` lets others take the output path and `Killed` ends a
process anywhere. An installation is its version, the rest of its contract, its models and its
other Python files; `Subject` is what `_subject_manifest` puts together of the contract it read,
the models of the code it imported and the files it finds then. `HostFailures` holds the pure
part: outcome, retry and admissible details of every code, and `MapOperationError`.

### OperationRecords (`operation_records.py`, `publish_operation` of `session_cas.py`)

One call of the host on a bundle: `CheckBinding`, then the derivation of a record
(`ListMembers`, `ReadManifest`, `ReadMember`, `CheckTotal`, `ReadResult`), its reconciliation
(`ParseManifest` and the same readings again), the copy (`CopyManifest`, `CopyMember`) and
`PublishRecord`, which reconciles once more on a private copy. `ChangeBundle` rewrites or
removes a member, or rewrites the manifest, between any two of them; it never adds a
member. A digest is the content it stands for. The manifest's own bytes do not count towards the
limits, and the number of artifacts and the separate maxima of their kinds are left out.

### Datasets (`dataset_registry.py`, models of `data_records.py`)

`RefuseRequest`, `ReadSource`, `RootRefuses`, `NormalizeSource` and `FinishDataset` are the
parts of `normalize_dataset`: the limits judged before validation, the source, the cells and
rows with the events they leave, the payload and the record with its validators. `BindFields`
is `resolve_dataset_fields`. A cell is its JSON type, what its text reads as, the number or
instant it stands for, and its size; the ledger is a function of code and field. `Doubles` are
the numbers a float can hold. A CSV text that is a number but not an integer is rounded to one
nearest to it (`Float`, the code's `float(value)`: tiny numbers become zero), which is judged
then; which of two equally near ones is taken is left open. What `json.loads` made of a JSON
document's numbers is where the model begins.

### SecureReads (`ConfiguredFileRoots`, `_posix_local_host.py`)

`OpenRoot`, `CheckRoot`, `DenyRoots` pin the roots; a reader duplicates the pinned descriptor
and walks from it one open at a time, checks, reads chunks and looks at the file again;
`CloseRoots` and `ClosePinnedRoot` close the roots meanwhile. Descriptors are numbers that
`OtherOpens` reuses at once; `FilesChange` replaces, links and rewrites files.

### Guidance, SemanticPorts, PlanAuthorization (`validation.py`, `ports.py`, `plan_validation.py`, `protocol/`)

`Guidance` evaluates expressions to the depth limit of the code and settles defaults in its
three passes; `RunPreflight` and `AnswerQuestions` are a caller in dialogue with it.
`SemanticPorts` extracts ports from schemas and compares them; `SchemaShapes`, `ArrayMinimums`
and `AllowsNull` go through references and choices as the three recursions of the code do,
without a bound (`Nesting` says that a schema comes to an end), and `AcceptedValues` is what a
schema accepts by the rules of JSON Schema. `PlanAuthorization` extends
`Guidance`: `CallValidate`, `ConfirmAnswers`, `CallApprove`, `CallBind`, `CallVerify`, and
`Drift`, by which plan, policy, package, component or approval change between them. A hash is
what it is computed from, so that two hashes agree exactly when those agree.

### MCOperations

`MCOperations` puts one instance of each of the seven machines above side by side. They
share no variable and could not influence each other, so a behaviour runs the one its
`subject` names while the others rest: the run explores the sum of their state spaces, not
the product.

## 3. The runs

| Run | Checks | Bounds and why they are enough |
|---|---|---|
| `worker_one` | `TreeOwned`, `HonestSuccess` | one call, two `close()`; every worker answer, noise and fault: all exits of one call, in all orders with shutdown |
| `worker_two` | `CapacityConserved`, `CloseLeavesNoTree`, `PublishedAgrees`, `NoPublishAfterClose` | two operations on one output directory, two permits, one `close()`; two calls are what registration and publication can confuse |
| `worker_live` | every call and every `close()` returns | an operation whose request does not fit the pipe, two `close()`, every fault of the host |
| `worker_stdin` | violation of `CancelledCallReturns` | an inspection; finding 1 |
| `worker_readers` | violation of `TreeOwned` | finding 2 |
| `cas` | `RegistryExact` (with the source of every operation), `BytesAccounted` (with the limit), `ImplementsStore` | two sessions with different limits, a dataset and an operation computed from it: one limit admits both, the other does not |
| `lifecycle` | `LiveIntact`, `RemovalExclusive`, `NoLockLeak`; on Windows `ClaimsHonoured` | three sessions: one to be removed and two that compete for it; a behaviour is on one of the two hosts |
| `service` | `OneStore`, `LiveIffAnswered`, `WorkerKeepsStage`, `EveryRequestEnds` | a registration, an execution of its dataset and one without source, one permit, two stores |
| `service_session` | violation of `EveryStoreClosed` | finding 3 |
| `views` | `ReadsInOrder`, `PageExact`, `RegisteredSummaryFits`, `CursorsBornLive` | item sizes and overheads chosen around the byte limit: pages that just fit, just do not, and fit only without a cursor; two sessions; two fields |
| `transport` | `ReaderExact`, `WholeFrames`, `AbandonedAreSignalled`, `OneAuditPerCall`, `AnswersArrive`, `SessionEnds` | frames of at most 3 bytes and reads of at most 2, so that the limit, a line and a read meet in every way; streams around the limit, and streams in which a call, a resource, a cancellation and a line that is not JSON race; frames of two writes, a pipe of one |
| `operations` | `OutputWhole`, `AnswerTellsOutput`, `ResultIdentity`, `HostTruth` | a worker and a runner of one request that want one output, every fault and behaviour; or one of them, or an inspection, while the component is replaced by an edit of the same version or by a release: two are what the output path can confuse, and no runner sees what another has read |
| | `PublishedIsAnswer`, `NoFalseCorruption` | two members with contents that fit, just fit, exceed a member's or the bundle's limit, or are no JSON; two changes, one for each of two readings |
| | `DefaultsExact` | all sets of at most two rules and two questions over two fields, conditions on either field; every measure of lists of at most three values |
| | `CompatiblePortsFit` | thirteen leaves, every choice of two of them, references to choices and choices of references up to five levels above the leaves; two shapes, two units, every provenance |
| | `AuthorizedIsApproved`, `AskedOnce` | fourteen plans, two policies, ten states of the installed component, each one edit away from what is authorized; two changes around the chain |
| | `DatasetFaithful` | every cell in a column of every type, two columns in the other order, one above each limit; numbers in quarters of which the doubles are the whole ones: below, at and beyond the safe range on either side, some that are rounded to zero and some into the range |
| | `ReadsConfined` | two roots, one reader of either kind, six descriptors, two changes of the files |

Deadlock checking is off: calls, requests and sessions are finite in number, and
a system in which all have ended stops.

**Fairness.** `ControllerFairness` assumes that the threads of calls, of `close()` and of
the captures run, and that the monotonic clock passes every deadline; both are what the
interpreter and the operating system give. `FairSpec` adds that a worker reads its
request; the run `worker_stdin` shows what happens without it. Nothing is assumed of
what a worker does afterwards. In `Service`, the fairness of `WorkerReturns` is the result
`EveryCallReturns` of `WorkerController`, not an assumption about components; `close()` is
not assumed to begin, only to go on. In `McpTransport` the event loop and the threads run, the
service returns (`EveryRequestEnds`), and a client that keeps its end of the output open
reads from it; neither input nor the end of input is assumed to come.

**Findings.**

1. `worker_runtime.py:267` writes the request with a blocking write before the deadline is
   set and before `cancel_event` is looked at. With a request larger than the pipe buffer
   and a worker that does not read, a cancelled call never returns
   (`docs/LOCAL_MCP_ALPHA_DESIGN.md:1213`, `1410-1412` promise otherwise).
2. `worker_runtime.py:261`: when a capture thread cannot be started, the `finally` block
   closes the handle and unregisters the worker but does not stop its processes (comment at 630).
3. `service.py:135`: a thread abandoned before `close()` creates a new store after it, which
   nobody closes (`docs/LOCAL_MCP_ALPHA_DESIGN.md:1135-1136`).

**Observations without a run.** A request above capacity has already had a staging directory
created (`service.py:405`; the design, line 1376, says it has not). A process lost while its
session directory is incomplete leaves one that no cleanup can claim (`session_cas.py:239`;
design 1356-1358). A stall of more than the orphan age between marker and lock lets a cleanup
delete a session that then goes live (`LiveIntact` exempts it; on Windows the lock file is read
again under the lock, and `ClaimsHonoured` needs no exemption). On Windows a tree is deleted in
the order of names, the marker first: a deletion interrupted after that leaves a tombstone that
no cleanup accepts (`_windows_local_host.py:1965`, `2100`). When `AssignProcessToJobObject`
fails, the suspended process is not in the job that is then terminated, and only its handles are
closed (`_windows_worker.py:404`). The summary view of `get_operation` wraps the summary in a
larger answer than execution does, so that an operation may be live while its default view is
refused (`record_views.py:364`). A registered dataset whose metadata are too large stays live
although its caller is told of a failure. `output.close()` waits, on the event loop, for the
lock of a thread that may be blocked in `os.write` (`server.py:349`): without the assumption
that the client reads, TLC finds a session that never ends. The audit record is written before
the answer is bounded, so a call is audited "ok" too where the client is told
`result_limit_exceeded` (`server.py:755`); `OneAuditPerCall` says so. A line on which
`json.loads` raises something else than `JSONDecodeError` ends the session with status 70
(`server.py:302`). A timestamp of a year before 1000 passes the normalizer, whose `strftime`
does not pad it, and is then rejected by the payload's model, as a `ValidationError` nothing
catches (`dataset_registry.py:159`, `609`; `DatasetFaithful` states that this is the only such
case). Two open questions with one identifier or field make `validate_plan` raise instead of
asking (`plan_validation.py:217`); `AskedOnce` holds of a call that raises, and no property
speaks of this. Details of a component's own error that cannot be serialized turn its refusal
into `operation_failed` (`operation_runtime.py:905`). A check of the handles that fails after
the rename, which only the Windows provider has, reports `output_exists` for the caller's own
bundle (`operation_runtime.py:656`). A local file rewritten with the same size and time while it
is read yields bytes of both versions (`_posix_local_host.py:100`). `validate_component_input`
looks a component up in the default catalog for its preflight, whichever catalog the request was
resolved in.

*A result under the subject of other code.* `_validate_component_output`
(`operation_runtime.py:457-468`) compares the version the result gives and the subject hash, and
that hash is of the files found after the code was imported (`catalog.py:429`, then `:464`).
Nothing obliges two installations to differ in version:
`authoring/tests/test_subject_cache.py:120-141` changes one without. So an operation that has
imported the code, whose files are then replaced by others of the same version and models, and
which hashes those, publishes the result of the old code under the subject of the new, although
the hash is to identify behaviour (`VALIDATION.md:27`, `:39-40`). The property
`ResultOfRequestedCode` of `OperationRuntime` says that this never happens; no run lists it,
because as an invariant of `operations` it is violated, by this very story (`MCInstalls` has
`Base` and `Edited`, which differ in their files only). `ResultIdentity`, which the run checks,
says what the code does ensure: the identity published was made out of the contract, the models
and the files requested, and the code that ran has their version and models. A component hashes
itself in the default catalog or takes the cached digest; the model gives it the digest
`verify_subject` left.

*A shape told by half of a choice.* `_schema_shapes` adds no shape for an object, a set or an
untyped value, so that `float | Any` is a scalar, and `exactly_one`, although it admits null and
lists (`ports.py:472`; `protocol/README.md:88` calls such a port non-nullable).
`CompatiblePortsFit` therefore leaves out the values that are accepted by something `Shapeless`;
without the exception TLC finds the choice of an untyped value beside a scalar.

## 4. The proofs

Every theorem holds for any number of calls, sessions, references, requests, runners, readers,
items and questions, and any limits: the assumptions on constants (`...Assumption` in each
module, evaluated by TLC) say what kind of value a constant is and nothing about its size.

| Theorem | States | Assumes besides |
|---|---|---|
| `PermitsConserved` | types and `CapacityConserved` | finitely many calls |
| `TreesOwned` | `TreeOwned` | capture threads start |
| `CloseIsComplete` | `CloseLeavesNoTree`, and that `_all_done` is exact | capture threads start |
| `PublicationAgrees` | `PublishedAgrees` | capture threads start |
| `ShutdownStopsPublication` | `NoPublishAfterClose` | capture threads start |
| `SuccessIsHonest` | `HonestSuccess` | no join of a capture thread times out |
| `RegistrationSound` | types (with the byte limit) and `RegistryExact`, the source of every operation included | |
| `ReferencesChargedOnce` | `BytesAccounted` | finitely many references |
| `StoreImplemented` | `SessionCas` implements `ImmutableStore` | |
| `SessionsIntact`, `LocksAreReleased` | `LiveIntact`; `NoLockLeak` | |
| `RemovalIsExclusive` | `RemovalExclusive` | |
| `WindowsClaimsHonoured` | `ClaimsHonoured` | |
| `RequestsShareOneStore` | `OneStore` | |
| `LiveOperationsAnswered` | `LiveIffAnswered` (the thread's result, whoever still waits for it) | |
| `WorkersKeepTheirStage` | `WorkerKeepsStage` | |
| `PagesReassemble`, `PagesAreExact` | `ReadsInOrder`, `PageWithinBounds`; `PageExact` | |
| `SummariesFit`, `CursorsLive` | `RegisteredSummaryFits`; `CursorsBornLive` | |
| `TransportTypes` | types, with the bound on the reader's buffer | |
| `LinesAreReadExactly` | `ReaderExact` | |
| `WireStaysWhole` | `WholeFrames` | |
| `CallsAreSignalled`, `CallsAreAudited` | `AbandonedAreSignalled`; `OneAuditPerCall` | a request's identifier is sent once |
| `OutputIsWhole`, `AnswersTellTheOutput` | `OutputWhole`; `AnswerTellsOutput` | |
| `ResultsOfBoundIdentity` | `ResultIdentity` (installations may share a version) | |
| `HostIsToldTheTruth` | `HostTruth` | |
| `PublishedRecordIsAnswer` | `PublishedIsAnswer` | |
| `CorruptionIsReal` | `NoFalseCorruption` | |
| `OnlyTheApprovedIsAuthorized` | `AuthorizedIsApproved` | |
| `QuestionsAskedOnce` | `AskedOnce` | a component's identifiers name one question each |
| `ReadsStayConfined` | `ReadsConfined` | |
| `DefaultsAreExact` | `DefaultsExact` | |
| `CompatibleMeansFit` | `CompatiblePortsFit` | schemas come to an end (`Nesting`) |
| `DatasetsAreFaithful` | `DatasetFaithful` | |

"Capture threads start" is `"reader_start" \notin Faults`: with that fault the statements
are false, which is finding 2. `"join_timeout" \notin Faults` is the other: a capture
thread that is still reading when its join gives up after a second (`worker_runtime.py:636`)
may have seen only a part of what the worker wrote, and the call is judged by that part; the
run of `HonestSuccess` has no such fault either. All other faults are allowed. The inductive
invariants below hold in the runs too, where TLC can evaluate them on every reachable state.

* `WorkerControllerProofs`. The invariant `IInv` adds to the properties who may hold the
  lock at which control point (`LockInv`), which control points belong to registered
  workers (`RegistryInv`), at which points a tree may live and that a call past its
  cleanup has none (`TreeInv`), what a `close()` that has passed its first step knows of the
  registry (`CloserInv`) and that publication needs the lock and an open controller
  (`PublishInv`). None of the properties is inductive alone: that `close()` leaves no tree
  needs that a launch cannot register after `close()` began, which needs the lock.
  `HonestInv` follows the evidence of a success from the monitor through the join of the
  capture threads to the judgement.
* `SessionCasProofs`. `CasInv` ties registry and reference sets; each action is then shown
  to be a step of `ImmutableStore` or to leave it unchanged under the mapping. The bytes of a
  session are a fold over its references, and a lemma says what adding one changes.
* `SessionLifecycleProofs`. `IInv` records who may hold which lock (`LockInv`), that a lock
  holder past verification works on the directory of an ended session (`TreeInv`,
  `BornInv`), and how age and creation are related (`AgeInv`). On Windows `WinInv` needs
  instead that an owner past `Confirm` has seen its directory under the lock, and that a
  tombstone has one deleter, who holds the lock it was claimed with.
* `ServiceProofs`. `IInv` counts permits against running requests (`PermitInv`), says that the
  slot holds the only store made until `close()` takes it (`StoreInv`), that a request on its
  way to its worker has its stage (`StageInv`) and that only an execution whose thread returned
  success is live (`LiveInv`). `LiveIffAnswered` is not inductive without the last two.
* `RecordViewsProofs`. `IInv` says of every cursor that its index is within the list and
  that what its client collected is the list up to it (`CursorInv`), and of every thread
  that the page it builds starts where its cursor says (`ThreadInv`, `ReplyInv`). That a page
  is no shorter than it must be needs the bytes of the page in hand to be the sum of its items
  and that the one refused did not fit.
* `McpTransportProofs`. `IInv` says what of the input is in the buffer, so that a request that
  arrives has no task yet (`ReadInv`), that the writing thread is the holder of the lock
  (`LockInv`), that an answer is queued once and written by one thread (`QueueInv`), that the
  wire ends where the holder of the lock stands and the output is never closed in the middle
  of a frame (`WireInv`), and which threads may run beside which tasks (`CallInv`).
  `ReaderExact` compares with what the whole input holds; its invariant says that the lines
  handed over are those in front of the buffer, and its lemmas that a line found in a part of
  the input is the line of the whole.
* `OperationRuntimeProofs`. `RuntimeInv` says what a runner has established at each control
  point (`PointInv`: the models of the code it imported, that identity and version were
  compared, what it has staged) and which errors may be on their way out there (`ErrorInv`), and
  that a bundle at the output path belongs to a runner that is past publishing (`BundleInv`). A
  failed check after the rename is why `output_exists` is in it. `HostTruth` follows from the
  shape of each error.
* `OperationDataProofs`, records. `StepInv` says that the members in hand are those the
  manifest in hand declares and that the manifest in hand is the worker's until the record
  exists; `Untouched` that without a change all copies agree.
* Plans. `ChainInv` ties a receipt to the plan the approver saw; `AskInv` ties questions to
  the plan that was validated. Lemmas say that each stage of `validate_plan` passes or blocks,
  and that a validated plan leaves no question open.
* Reads. `TableInv` gives every open descriptor one owner, `RootsInv` follows the handles
  through pinning and closing, `WalkInv` says where in the tree a reader's descriptors are.
* Guidance. The three passes see growing sets of values, so the proof is that a condition that
  could be evaluated keeps its verdict when values are added (`EvaluateStable`, by the depth of
  the expression); the invariant of each pass (`PassInv`) then survives the later ones.
* Ports. `DifferencesFound` (no dimension differs), `ProvenanceIsInclusion`, and `ShapeIsSound`:
  if null is not allowed, one shape was found and no array may be empty, then all that a schema
  accepts has that shape, from the keywords of a schema (`OwnKeywordsFit`) up through references and
  choices by induction on `Nesting` (`NestedInduction`). `NestedFunction` shows that functions
  defined along `Nesting` exist, and so what each of the four is (`ShapesOf`, `NullOf`, ...).
* Datasets. A cell of any type is kept, parsed or refused (`CsvCellKept`, `JsonCellKept`; a text is
  rounded to a double nearest to it, `FloatIsNearest`), and a
  change leaves one of two events, that of an absent cell or that of its column's type. So a
  column has at most two entries in the ledger, which count disjoint sets of its rows
  (`LedgerCounts`, `SumOfTwo`, `TableLedger`). `DatasetInv` says that a table is the source's,
  normalized (`TableFits`), and a dataset built of it or refused as expected (`DatasetFits`);
  `PayloadAccepted` and `RecordAccepted` say that the validators pass what was built, but for a
  year before 1000. `FieldsResolved` follows the bindings through the mappings.

Induction over the steps of a loop is done without an operator as parameter: the numbers for
which the statement holds are a set, and a smallest number outside it leads to a contradiction
(`LeastNumber`). Loops of the code are recursive functions (`Picked`, `AskQuestions`, `TakeName`,
`Bytes`, `Differences`, `ResolveFields`) and not folds where they are reasoned about: a `LET` function is
its own definition, and one lemma each (`...Exists`) shows that the function it chooses exists.
`SelectSeq` is such a function too, but the prover cannot open it.

The proofs corrected the models in several places. `McpTransport!FateOfLine` was a `CASE`
whose arms overlapped, and so was not a definition of the order in which `read_frame` tests
them (TLC takes the first, the logic any); `AskedOnce` allowed more than was meant; the lists
in a contract, an error, a manifest or a request were not known to be lists, nor the cells of a
source to be cells, which is now assumed by name (`GuidanceAssumption`, `RuntimeAssumption`,
`RecordsAssumption`, `DatasetsAssumption`); and a request was not held to the kinds of source
there are, nor a column to the types, by `RequestValid`.

Only model-checked: all liveness, which is outside the prover's reach (`EveryCallReturns`,
`EveryRequestEnds`, `AnswersArrive`, `SessionEnds`). The three violations are counterexamples
and need no proof.

## 5. What is not modelled, and the plan

Left out for good: floating-point series of the components, SVG layout, value types without
operations, command-line tools of maintainers (`authoring/`, the scripts of the skills), JSON
spelling, the generation of schema metadata; the choice of a host platform.

Not modelled: the rest of the Windows providers (`_windows_local_host.py`,
`_windows_worker.py`), which repeats the reads, the publication and the worker tree of the
POSIX parts over handles and job objects: the models of controller and reads say what they
have to provide, not that they do. Discovery (`discovery.py`) ranks by weights over text and
keeps no state that changes.

What the models assume or leave out and a reader should know: `SecureReads` never links or
replaces an intermediate directory below a root, has no FIFO put in the place of a file between
look and open, and a whole file is one of the expected size. `PlanAuthorization` reads the
installed component in one step of a validation, where the code reads contract, code and models
at different moments. `HostFailures` has unserializable details in a component's own error only,
where the code turns those of any error into `operation_failed`. `SessionEnds` assumes a client
that reads or leaves, and so says nothing of a close that waits for a blocked write
(`server.py:349`). No property covers the session directory left by a process that was lost
while creating it (`session_cas.py:239`), which stays for ever.

Planned: the refinement of an abstract record store by `OperationRecords` (one step publishes
what the worker answered or refuses it), and of an abstract reader of whole files by `SecureReads`.
