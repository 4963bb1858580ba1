-------------------------- MODULE OperationRuntime --------------------------
(***************************************************************************)
(* execute_operation of shared/operation_runtime.py and the inspections of *)
(* shared/worker_inspection.py, as worker_main of shared/worker_entry.py   *)
(* runs them: one request, from its validation to the atomic publication   *)
(* of its bundle or to a typed error, and the answer that error becomes.   *)
(*                                                                         *)
(* Runners are processes.  The ones with an operation want the same output *)
(* directory, on a host where somebody else may create it, where the       *)
(* component may be reinstalled at any moment, where a use of the file     *)
(* system may fail, and where a process may be killed.  Component code     *)
(* does anything: it returns, raises, prints, floods its stream.           *)
(***************************************************************************)
EXTENDS HostFailures, FiniteSets

CONSTANTS
    Runners,
    Workers,        \* runners started with worker_output_limit
    Installs,       \* contents of the component's directory: version, rest of the
                    \* contract, models and Python files, all but the first edited freely
    Requested,      \* [Runners -> Installs]: the identity a request binds
    RequestId,      \* the component identifier of every request
    InputFields,    \* fields of the component's Inputs model
    QuestionFields, \* those its required questions resolve to
    ErrorLists,     \* lists of field names a validation or a question can report
    ArtifactRunners,\* operations that ask for the visualization
    Behaviours,     \* what component code does when it is called
    Noises,         \* what it prints meanwhile
    Faults          \* uses of the host that may fail

ASSUME RuntimeAssumption ==
    /\ Workers \subseteq Runners
    /\ Requested \in [Runners -> Installs]
    /\ RequestId \in ComponentIds
    /\ QuestionFields \subseteq InputFields
    /\ ErrorLists \subseteq Seq(STRING)

VARIABLES
    task,       \* what each runner was started for
    pc,         \* control point of each runner
    left,       \* components it still has to resolve
    disk,       \* the installed contents
    found,      \* the identity component_reference made out, or its contract only
    code,       \* the contents it imported first
    error,      \* the error on its way out
    answer,     \* what it answered
    stage,      \* members written to its staging directory, NoStage without one
    sound,      \* whether every staged member has the bytes of its digest
    output      \* what is at the output path

vars == <<task, pc, left, disk, found, code, error, answer, stage, sound, output>>

NoStage == -1

Absent == [kind |-> "absent"]
Bundle(r) == [kind |-> "bundle", owner |-> r, members |-> stage[r], sound |-> sound[r]]
OwnBundle(r) == output.kind = "bundle" /\ output.owner = r

\* input.json, result.json, one visualization if asked for, manifest.json.
Members(r) == IF r \in ArtifactRunners THEN 4 ELSE 3

\* An OperationRuntimeError; supplied says whether the component wrote its details.
Error(c, names, x) ==
    [code |-> c, component |-> RequestId, fields |-> names, ambiguous |-> x = "ambiguous",
     memory |-> x = "memory",
     supplied |-> x \in {"ambiguous", "refusal", "dq_other"} /\ c # "operation_failed"]
Plain(c) == Error(c, <<>>, "none")
NoError == [code |-> "none"]
Overflow == [code |-> "overflow"]

\* Only workers inspect; a runner with the task "none" is never started.
Init ==
    /\ task \in [Runners -> {"operation", "inspect", "compare", "none"}]
    /\ \A r \in Runners \ Workers : task[r] \in {"operation", "none"}
    /\ pc = [r \in Runners |-> CASE task[r] = "operation" -> "validating"
                                [] task[r] = "none" -> "killed"
                                [] OTHER -> "finding"]
    /\ left = [r \in Runners |-> IF task[r] = "compare" THEN 2 ELSE 1]
    /\ disk \in Installs
    /\ found = [r \in Runners |-> None] /\ code = [r \in Runners |-> None]
    /\ error = [r \in Runners |-> NoError]
    /\ answer = [r \in Runners |-> NoError]
    /\ stage = [r \in Runners |-> NoStage] /\ sound = [r \in Runners |-> TRUE]
    /\ output = Absent

Goto(r, step) == pc' = [pc EXCEPT ![r] = step]
Advance(r, step) == Goto(r, step) /\ UNCHANGED error

\* The exception leaves _materialize through its finally block, if it got there.
Raise(r, e) ==
    /\ error' = [error EXCEPT ![r] = e]
    /\ Goto(r, IF stage[r] = NoStage THEN "responding" ELSE "discarding")

Success == [kind |-> "success"]
ResourceLimit == [kind |-> "resource_limit"]
Crash == [kind |-> "crash"]
Failure(f) == [kind |-> "failure", failure |-> f]

Answer(r, a) == answer' = [answer EXCEPT ![r] = a] /\ Advance(r, "done")

KeepFiles == UNCHANGED <<stage, sound, output>>
KeepCode == UNCHANGED <<task, disk, found, code, left>>

-----------------------------------------------------------------------------
(* Before the component is called *)

\* A worker whose request cannot be read ends without an answer.
ValidateRequest(r) ==
    /\ pc[r] = "validating"
    /\ \/ Advance(r, "preparing") /\ UNCHANGED answer
       \/ /\ r \notin Workers /\ UNCHANGED answer
          /\ Raise(r, [Plain("invalid_operation_request") EXCEPT !.component = None])
       \/ r \in Workers /\ Answer(r, Crash)
    /\ KeepCode /\ KeepFiles

\* A link, a root or home directory, a path that cannot be resolved, an entry.
PrepareOutput(r) ==
    /\ pc[r] = "preparing"
    /\ \/ "path" \in Faults /\ Raise(r, Plain("invalid_output_directory"))
       \/ "path" \in Faults /\ Raise(r, Plain("operation_failed"))
       \/ output.kind = "file" /\ Raise(r, Plain("invalid_output_directory"))
       \/ output.kind \notin {"absent", "file"} /\ Raise(r, Plain("output_exists"))
       \/ output = Absent /\ Advance(r, "finding")
    /\ UNCHANGED answer /\ KeepCode /\ KeepFiles

\* component_record walks the contracts of the catalog in order.  verify_subject finds
\* the contract again: the two readings are one here, at the moment of the one that decides.
FindComponent(r) ==
    /\ pc[r] = "finding"
    /\ \/ Raise(r, Plain("component_not_found")) /\ UNCHANGED found
       \/ Raise(r, Plain("component_contract_error")) /\ UNCHANGED found
       \/ Advance(r, "importing") /\ found' = [found EXCEPT ![r] = disk]
    /\ UNCHANGED <<task, left, disk, code, answer>> /\ KeepFiles

\* verify_subject imports the component for its schemas before it hashes its files.
\* A module is imported once in a process.
ImportComponent(r) ==
    /\ pc[r] = "importing"
    /\ code' = [code EXCEPT ![r] = IF @ = None THEN disk ELSE @]
    /\ Goto(r, "hashing")
    /\ UNCHANGED <<task, left, disk, found, error, answer>> /\ KeepFiles

-----------------------------------------------------------------------------
(* Component code behind _quiet_component_call *)

Refusals == {"ambiguous", "refusal"}
DQErrors == {"contract", "integrity", "dq_other"} \cup Refusals

\* _mapped_dq_error
MappedDqError(b) ==
    CASE b \in {"contract", "integrity"} -> "component_contract_error"
      [] b \in Refusals -> "component_refused"
      [] OTHER -> "component_execution_failed"

\* _quiet_component_call and _NoiseCapture: output overrides every result, and a
\* flood ends a worker whatever handlers there are.
QuietCall(r, b, n) ==
    CASE n = "flood" /\ r \in Workers -> "overflow"
      [] n # "silent" /\ ~(n = "flood" /\ r \in Workers) -> "noise"
      [] OTHER -> b

\* The error code that the handlers around a call give to what it raised.
Raised(step, x) ==
    LET bytes == step \in {"normalizing_input", "normalizing_output"}
        badOutput == x = "contract" /\ step = "checking_output"
    IN  CASE x = "noise" -> "component_contract_error"
          [] badOutput -> "output_validation_failed"
          [] x \in DQErrors /\ ~badOutput /\ ~bytes -> MappedDqError(x)
          [] x = "validation" /\ step = "hashing" -> "component_contract_error"
          [] x = "validation" /\ step \in {"invoking", "checking_output"} ->
                "output_validation_failed"
          [] x \in {"validation", "value"} /\ step = "normalizing_input" ->
                "invalid_component_input"
          [] x \in {"validation", "value"} /\ step = "normalizing_output" ->
                "output_validation_failed"
          [] x \in {"value", "memory", "other"} /\ step = "invoking" ->
                "component_execution_failed"
          [] OTHER -> "operation_failed"

\* A call of component code that does one of bs, ends in success or raises.
Call(r, bs, success) ==
    \E b \in bs, n \in Noises, names \in ErrorLists :
        LET x == QuietCall(r, b, n)
        IN  CASE x = "ok" -> success
              [] x = "overflow" -> Raise(r, Overflow)
              [] OTHER -> Raise(r, Error(Raised(pc[r], x),
                                         IF x = "ambiguous" THEN names ELSE <<>>, x))

\* A step that only calls component code.
CallStep(r, step, success) ==
    /\ pc[r] = step
    /\ Call(r, Behaviours, success)
    /\ UNCHANGED answer /\ KeepCode /\ KeepFiles

\* _subject_manifest: the contract read before, the models of the imported code, and the
\* files on the disk now.  Its digest stands for it, here and in the subject cache.
Subject(r) ==
    [version |-> found[r].version, contract |-> found[r].contract,
     models |-> code[r].models, files |-> disk.files]

HashSubject(r) ==
    /\ pc[r] = "hashing"
    /\ Call(r, Behaviours,
            IF Subject(r) = Requested[r] \/ task[r] = "inspect" THEN Advance(r, "loading_models")
            ELSE Raise(r, Plain("component_identity_mismatch")))
    /\ found' = IF pc'[r] = "loading_models" THEN [found EXCEPT ![r] = Subject(r)] ELSE found
    /\ UNCHANGED <<task, left, disk, code, answer>> /\ KeepFiles

\* A comparison resolves its producer, then its consumer.
LoadModels(r) ==
    /\ pc[r] = "loading_models"
    /\ Call(r, Behaviours,
            CASE task[r] = "operation" -> Advance(r, "checking_input")
              [] task[r] = "inspect" -> Advance(r, "describing")
              [] OTHER -> Advance(r, IF left[r] > 1 THEN "finding" ELSE "comparing"))
    /\ left' = [left EXCEPT ![r] = IF pc'[r] = "finding" THEN @ - 1 ELSE @]
    /\ UNCHANGED <<task, disk, found, code, answer>> /\ KeepFiles

\* Only missing fields, each asked for by a required question.
OnlyQuestionsMissing(names) ==
    /\ names # <<>>
    /\ Cardinality(ToSet(names)) = Len(names)
    /\ ToSet(names) \subseteq QuestionFields

\* Input that fails validation is an error, unless preflight can say what to ask.
\* preflight looks the component up in the default catalog, where it may be missing.
InvalidInput(r) ==
    \E names \in ErrorLists, missing \in BOOLEAN, b \in {"ok"} \cup DQErrors :
        Raise(r, IF missing /\ OnlyQuestionsMissing(names) /\ b # "ok"
                 THEN Error(MappedDqError(b), IF b = "ambiguous" THEN names ELSE <<>>, b)
                 ELSE Error("invalid_component_input", names, "validation"))

ValidateInput(r) ==
    /\ pc[r] = "checking_input"
    /\ \/ Call(r, Behaviours \ {"validation"}, Advance(r, "normalizing_input"))
       \/ InvalidInput(r)
    /\ UNCHANGED answer /\ KeepCode /\ KeepFiles

NormalizeInput(r) == CallStep(r, "normalizing_input", Advance(r, "loading"))

LoadCallable(r) == CallStep(r, "loading", Advance(r, "invoking"))

InvokeComponent(r) == CallStep(r, "invoking", Advance(r, "checking_output"))

\* Mutant: the result's version is not compared with the requested one.
ValidateOutputUnbound(r) ==
    CallStep(r, "checking_output", Advance(r, "normalizing_output"))

\* The result must be an instance of Output and name the requested component,
\* version and subject: the version is the one in the imported code, the subject the
\* digest that verify_subject left in the cache.
ValidateOutput(r) ==
    CallStep(r, "checking_output",
             \/ Raise(r, Plain("output_validation_failed"))
             \/ IF code[r].version = Requested[r].version /\ found[r] = Requested[r]
                THEN Advance(r, "normalizing_output")
                ELSE Raise(r, Plain("output_validation_failed")))

NormalizeOutput(r) == CallStep(r, "normalizing_output", Advance(r, "staging"))

-----------------------------------------------------------------------------
(* _materialize *)

\* The parent exists or is made, the output is still absent, and a new private
\* directory beside it was found within a hundred names.
PrepareStage(r) ==
    /\ pc[r] = "staging"
    /\ \/ /\ output = Absent
          /\ stage' = [stage EXCEPT ![r] = 0]
          /\ Advance(r, "writing")
       \/ output # Absent /\ Raise(r, Plain("output_exists")) /\ UNCHANGED stage
       \/ "stage" \in Faults /\ Raise(r, Plain("artifact_write_failed")) /\ UNCHANGED stage
    /\ UNCHANGED <<answer, sound, output>> /\ KeepCode

\* The next member in order.  A visualization is rendered before it is written.
WriteMember(r) ==
    /\ pc[r] = "writing"
    /\ \/ /\ stage' = [stage EXCEPT ![r] = @ + 1]
          /\ sound' \in {sound} \cup (IF "corrupt" \in Faults
                                      THEN {[sound EXCEPT ![r] = FALSE]} ELSE {})
          /\ Advance(r, IF stage'[r] = Members(r) THEN "verifying" ELSE "writing")
       \/ /\ "write" \in Faults
          /\ Raise(r, Plain("artifact_write_failed")) /\ UNCHANGED <<stage, sound>>
       \/ /\ "render" \in Faults /\ r \in ArtifactRunners /\ stage[r] = 2
          /\ Raise(r, Plain("operation_failed")) /\ UNCHANGED <<stage, sound>>
    /\ UNCHANGED <<answer, output>> /\ KeepCode

\* Mutant: the digests of the staged members are not recomputed.
VerifyBundleNames(r) ==
    /\ pc[r] = "verifying" /\ Advance(r, "checking_publication")
    /\ UNCHANGED answer /\ KeepCode /\ KeepFiles

\* verify_operation_bundle reads every member back.
VerifyBundle(r) ==
    /\ pc[r] = "verifying"
    /\ \/ sound[r] /\ Advance(r, "checking_publication")
       \/ ~sound[r] /\ Raise(r, Plain("artifact_write_failed"))
       \/ "read" \in Faults /\ Raise(r, Plain("artifact_write_failed"))
    /\ UNCHANGED answer /\ KeepCode /\ KeepFiles

CheckPublication(r) ==
    /\ pc[r] = "checking_publication"
    /\ \/ output = Absent /\ Advance(r, "publishing")
       \/ output # Absent /\ Raise(r, Plain("output_exists"))
    /\ UNCHANGED answer /\ KeepCode /\ KeepFiles

Rename(r) == output' = Bundle(r) /\ stage' = [stage EXCEPT ![r] = NoStage]

\* Mutant: a rename that replaces what is there.
PublishReplacing(r) ==
    /\ pc[r] = "publishing"
    /\ Rename(r) /\ Advance(r, "responding")
    /\ UNCHANGED <<answer, sound>> /\ KeepCode

\* publish_directory_no_replace.  On Windows the handles are verified after the
\* rename: when that fails the bundle is there, and its owner says output_exists.
PublishBundle(r) ==
    /\ pc[r] = "publishing"
    /\ \/ output = Absent /\ Rename(r) /\ Advance(r, "responding")
       \/ output # Absent /\ Raise(r, Plain("output_exists")) /\ UNCHANGED <<output, stage>>
       \/ /\ "rename" \in Faults
          /\ Raise(r, Plain(IF output = Absent THEN "artifact_write_failed"
                                               ELSE "output_exists"))
          /\ UNCHANGED <<output, stage>>
       \/ /\ "check" \in Faults /\ output = Absent
          /\ Rename(r)
          /\ error' = [error EXCEPT ![r] = Plain("output_exists")]
          /\ Goto(r, "responding")
    /\ UNCHANGED <<answer, sound>> /\ KeepCode

\* The finally block: a stage that cannot be removed stays.
DiscardStage(r) ==
    /\ pc[r] = "discarding"
    /\ stage' \in {[stage EXCEPT ![r] = NoStage]}
                  \cup (IF "remove" \in Faults THEN {stage} ELSE {})
    /\ Advance(r, "responding")
    /\ UNCHANGED <<answer, sound, output>> /\ KeepCode

-----------------------------------------------------------------------------
(* Answers *)

\* operation_failure: details of the component's own that are not canonical JSON make
\* it start again with nothing.
Serialized(e) ==
    {e} \cup (IF e.supplied THEN {[Plain("operation_failed") EXCEPT !.component = None]}
              ELSE {})

\* _input_fields resolves the component again; what was imported stays imported.
VerifiedFields(r) ==
    LET imported == IF code[r] = None THEN disk ELSE code[r]
    IN  {{}} \cup (IF [disk EXCEPT !.models = imported.models] = Requested[r]
                   THEN {InputFields} ELSE {})

\* worker_main after execute_operation, and the host's reading of its answer.
OperationAnswer(r, e, fields) ==
    CASE e = NoError -> Success
      [] e # NoError /\ e.memory /\ r \in Workers -> ResourceLimit
      [] OTHER -> Failure(MapOperationError(e, RequestId, fields))

RespondOperation(r) ==
    /\ pc[r] = "responding" /\ task[r] = "operation"
    /\ \/ /\ error[r] # Overflow
          /\ \E e \in (IF error[r] = NoError THEN {NoError} ELSE Serialized(error[r])),
                fields \in VerifiedFields(r) :
                Answer(r, OperationAnswer(r, e, fields))
       \/ error[r] = Overflow /\ Answer(r, ResourceLimit)
       \/ "flood" \in Noises /\ r \in Workers /\ Answer(r, ResourceLimit)
    /\ KeepCode /\ KeepFiles

\* _component turns what resolution raises into a host failure; the rest ends the worker.
RespondInspection(r) ==
    /\ pc[r] = "responding" /\ task[r] # "operation"
    /\ LET e == error[r]
       IN  Answer(r,
             CASE e = Overflow -> ResourceLimit
               [] e # Overflow /\ e.code = "operation_failed" ->
                     IF e.memory THEN ResourceLimit ELSE Crash
               [] e # Overflow /\ e.code \in {"component_not_found", "component_identity_mismatch"} ->
                     Failure(HostFailure(e.code, Component(RequestId)))
               [] OTHER -> Failure(HostFailure("component_contract_error", NoDetails)))
    /\ KeepCode /\ KeepFiles

\* inspect_component reads the ports of both models and the guidance.
DescribeComponent(r) ==
    /\ pc[r] = "describing"
    /\ \/ Answer(r, Success)
       \/ Answer(r, Failure(HostFailure("component_contract_error", NoDetails)))
       \/ Answer(r, Failure(HostFailure("component_contract_error", Component(RequestId))))
    /\ KeepCode /\ KeepFiles

ComparePorts(r) ==
    /\ pc[r] = "comparing"
    /\ \/ Answer(r, Success)
       \/ Answer(r, Failure(HostFailure("invalid_field_mapping", Fields(<<>>))))
       \/ Answer(r, Failure(HostFailure("incompatible_ports",
                     [kind |-> "ports", count |-> 1, wellformed |-> TRUE])))
    /\ KeepCode /\ KeepFiles

-----------------------------------------------------------------------------
(* The host *)

Reinstall ==
    /\ disk' \in Installs \ {disk}
    /\ UNCHANGED <<task, pc, left, found, code, error, answer>> /\ KeepFiles

ForeignCreates ==
    /\ output = Absent
    /\ output' \in {[kind |-> "file"], [kind |-> "foreign"]}
    /\ UNCHANGED <<task, pc, left, disk, found, code, error, answer, stage, sound>>

Killed(r) ==
    /\ pc[r] \notin {"done", "killed"}
    /\ Advance(r, "killed")
    /\ UNCHANGED answer /\ KeepCode /\ KeepFiles

Next ==
    \/ \E r \in Runners :
        \/ ValidateRequest(r) \/ PrepareOutput(r) \/ FindComponent(r) \/ ImportComponent(r)
        \/ HashSubject(r) \/ LoadModels(r) \/ ValidateInput(r) \/ NormalizeInput(r)
        \/ LoadCallable(r) \/ InvokeComponent(r) \/ ValidateOutput(r) \/ NormalizeOutput(r)
        \/ PrepareStage(r) \/ WriteMember(r) \/ VerifyBundle(r) \/ CheckPublication(r)
        \/ PublishBundle(r) \/ DiscardStage(r) \/ RespondOperation(r)
        \/ RespondInspection(r) \/ DescribeComponent(r) \/ ComparePorts(r) \/ Killed(r)
    \/ Reinstall
    \/ ForeignCreates

Spec == Init /\ [][Next]_vars

-----------------------------------------------------------------------------
(* Properties *)

\* The output directory is never seen incomplete or with bytes that do not match its
\* manifest (_materialize, verify_operation_bundle, _publish_staged_directory).
OutputWhole ==
    output.kind = "bundle" => output.members = Members(output.owner) /\ output.sound

\* A success means that the output is the runner's own bundle; an answer that blames the
\* request, the component or its output means that it is not.  Only a failed publication
\* and an exhausted resource leave the question open (execute_operation, worker_main).
AnswerTellsOutput ==
    \A r \in Runners : pc[r] = "done" /\ task[r] = "operation" =>
        /\ answer[r] = Success => OwnBundle(r)
        /\ answer[r].kind = "failure"
           /\ answer[r].failure.code # "artifact_publication_failed" => ~OwnBundle(r)

\* A published result names an identity that was really made out of the requested contract,
\* the models its own code validates with, and the requested files as they were on the disk;
\* and its code says it is of the requested version, although the component can be replaced
\* between its import, its hash and its call.  Nothing more is bound: code of the same
\* version and models, imported before its files were replaced, passes (see
\* ResultOfRequestedCode; component_record_for_request, _validate_component_output).
ResultIdentity ==
    output.kind = "bundle" =>
        LET asked == Requested[output.owner]
            ran == code[output.owner]
        IN  /\ found[output.owner] = asked
            /\ ran.version = asked.version /\ ran.models = asked.models

\* What the documentation says of the subject (VALIDATION.md, "Subject binding"): the hash
\* identifies the behaviour, so a result is one of the code its subject names.
ResultOfRequestedCode ==
    output.kind = "bundle" => code[output.owner] = Requested[output.owner]

\* What the host is told: a well-formed failure that is never retried; a question names
\* verified fields, each once; and only an unforeseen failure is called internal
\* (map_operation_error, operation_failure).
HostTruth ==
    \A r \in Runners : pc[r] = "done" /\ answer[r].kind = "failure" =>
        LET f == answer[r].failure
            named == f.details.names
        IN  /\ Constructible(f) /\ ~f.retry
            /\ f.code = "missing_convention" =>
                  /\ error[r].ambiguous /\ named # <<>>
                  /\ ToSet(named) \subseteq InputFields /\ IsInjective(named)
            /\ f.code = "internal_failure" =>
                  error[r].code = "operation_failed" \/ error[r].supplied
=============================================================================
