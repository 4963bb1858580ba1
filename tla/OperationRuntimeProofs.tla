----------------------- MODULE OperationRuntimeProofs -----------------------
(***************************************************************************)
(* Proofs about OperationRuntime, for any runners, any contents of the     *)
(* component's directory, any behaviour of its code and any faults of the  *)
(* host.                                                                   *)
(***************************************************************************)
EXTENDS OperationRuntime, WellFoundedInduction, TLAPS

-----------------------------------------------------------------------------
(* Induction over the natural numbers, with the property given as a set *)

NatLess == {p \in Nat \X Nat : p[1] < p[2]}

\* No descending sequence of natural numbers goes on for ever.
LEMMA NatLessWellFounded == IsWellFoundedOn(NatLess, Nat)
<1>1. NatLess = OpToRel(<, Nat) BY DEF OpToRel, NatLess
<1>2. QED BY <1>1, NatLessThanWellFounded, Zenon

\* A non-empty set of natural numbers has a least one.
LEMMA LeastNumber ==
    ASSUME NEW T \in SUBSET Nat, T # {}
    PROVE  \E n \in T : \A m \in T : n <= m
<1>1. PICK x \in T : \A y \in T : ~ (<<y, x>> \in NatLess)
  BY WFMin, NatLessWellFounded
<1>2. \A x1, y1 \in Nat : x1 < y1 => <<x1, y1>> \in NatLess
  BY DEF NatLess
<1>3. \A y \in T : ~(y < x)
  BY <1>1, <1>2
<1>4. \A y \in T : x <= y
  BY <1>3
<1>5. QED BY <1>4

\* A set that has 0, and with every number the next, has all.
LEMMA SetInduction ==
    ASSUME NEW T, 0 \in T, \A n \in Nat : n \in T => n + 1 \in T
    PROVE  Nat \subseteq T
<1>1. SUFFICES ASSUME NEW k \in Nat, k \notin T PROVE FALSE
  OBVIOUS
<1> DEFINE Missing == {n \in Nat : n \notin T}
<1>2. PICK n \in Missing : \A m \in Missing : n <= m
  <2>1. Missing # {} BY <1>1
  <2> HIDE DEF Missing
  <2>2. Missing \in SUBSET Nat BY DEF Missing
  <2>3. QED BY <2>1, <2>2, LeastNumber
<1>3. n # 0 OBVIOUS
<1>4. n - 1 \in Nat /\ n - 1 \notin Missing BY <1>2, <1>3
<1>5. QED BY <1>4, <1>2

-----------------------------------------------------------------------------
(* The invariant *)

\* Control points before _materialize, in it, and after a request failed or ended.
Before ==
    {"validating", "preparing", "finding", "importing", "hashing", "loading_models",
     "describing", "comparing", "checking_input", "normalizing_input", "loading", "invoking",
     "checking_output", "normalizing_output", "staging"}
Working == Before \cup {"writing", "verifying", "checking_publication", "publishing"}
ControlPoint == Working \cup {"discarding", "responding", "done", "killed"}

\* Points only an operation reaches, points behind the check of the requested identity,
\* and points behind the check of the result's version.
OperationOnly ==
    {"validating", "preparing", "checking_input", "normalizing_input", "loading", "invoking",
     "checking_output", "normalizing_output", "staging", "writing", "verifying",
     "checking_publication", "publishing"}
Identified == (OperationOnly \ {"validating", "preparing"}) \cup {"loading_models"}
Bound ==
    {"normalizing_output", "staging", "writing", "verifying", "checking_publication",
     "publishing"}

\* The errors of execute_operation.
RuntimeCodes ==
    {"invalid_operation_request", "invalid_output_directory", "operation_failed",
     "output_exists", "component_not_found", "component_contract_error",
     "component_identity_mismatch", "component_refused", "component_execution_failed",
     "output_validation_failed", "invalid_component_input", "artifact_write_failed"}
TypedErrors ==
    [code : RuntimeCodes, component : {RequestId, None}, fields : Seq(STRING),
     ambiguous : BOOLEAN, memory : BOOLEAN, supplied : BOOLEAN]
Errors == TypedErrors \cup {Overflow}

\* The type of the state; answers have none that matters.
RuntimeType ==
    /\ task \in [Runners -> {"operation", "inspect", "compare", "none"}]
    /\ pc \in [Runners -> ControlPoint]
    /\ disk \in Installs
    /\ DOMAIN found = Runners
    /\ code \in [Runners -> Installs \cup {None}]
    /\ error \in [Runners -> Errors \cup {NoError}]
    /\ DOMAIN answer = Runners
    /\ stage \in [Runners -> Int]
    /\ sound \in [Runners -> BOOLEAN]

\* What a runner at a control point has established.
At(r, point) ==
    /\ point \in Before => stage[r] = NoStage
    /\ point = "writing" => stage[r] \in 0..(Members(r) - 1)
    /\ point \in {"verifying", "checking_publication", "publishing"} => stage[r] = Members(r)
    /\ point \in {"checking_publication", "publishing"} => sound[r]
    /\ point \in OperationOnly => task[r] = "operation"
    /\ point \in {"describing", "comparing"} => task[r] # "operation"
    /\ point \in Identified /\ task[r] = "operation" =>
          found[r] = Requested[r] /\ code[r].models = Requested[r].models
    /\ point \in Bound => code[r].version = Requested[r].version

\* An error is on its way out exactly when something failed, and a runner that answers
\* without one has published.
ErrorAt(r, point) ==
    /\ point \in Working => error[r] = NoError
    /\ point = "discarding" => error[r] # NoError
    /\ point = "responding" /\ error[r] = NoError => OwnBundle(r)

\* A bundle at the output path was published by a runner that had established all of it
\* and is past publication; if that runner has an error it is the one of the late check.
BundleInv ==
    output.kind = "bundle" =>
        /\ output.owner \in Runners
        /\ pc[output.owner] \in {"responding", "done", "killed"}
        /\ task[output.owner] = "operation"
        /\ error[output.owner] \in {NoError, Plain("output_exists")}
        /\ output.members = Members(output.owner) /\ output.sound
        /\ found[output.owner] = Requested[output.owner]
        /\ code[output.owner].version = Requested[output.owner].version
        /\ code[output.owner].models = Requested[output.owner].models

PointInv == \A r \in Runners : At(r, pc[r])
ErrorInv == \A r \in Runners : ErrorAt(r, pc[r])

\* The inductive invariant.
RuntimeInv ==
    RuntimeType /\ PointInv /\ ErrorInv /\ BundleInv /\ AnswerTellsOutput

-----------------------------------------------------------------------------
(* Errors *)

\* Component code never makes the runtime raise an error of another kind.
LEMMA RaisedCode == \A step, x : Raised(step, x) \in RuntimeCodes
<1> SUFFICES ASSUME NEW step, NEW x PROVE Raised(step, x) \in RuntimeCodes
  OBVIOUS
<1>1. \A b : MappedDqError(b) \in RuntimeCodes
  BY DEF MappedDqError, RuntimeCodes
<1>2. QED BY <1>1 DEF Raised, RuntimeCodes

\* An OperationRuntimeError has its type.
LEMMA ErrorTyped ==
    ASSUME NEW c \in RuntimeCodes, NEW names \in Seq(STRING), NEW x
    PROVE  Error(c, names, x) \in TypedErrors
  BY DEF Error, TypedErrors

\* An error made from a code alone is a typed error of the runtime.
LEMMA PlainTyped == \A c \in RuntimeCodes : Plain(c) \in TypedErrors /\ Plain(c) \in Errors
<1>1. <<>> \in Seq(STRING) OBVIOUS
<1>2. QED BY <1>1, ErrorTyped DEF Plain, Errors

\* No typed error and no overflow is taken for the absence of one.
LEMMA ErrorsAreErrors == NoError \notin Errors
  BY DEF Errors, TypedErrors, NoError, Overflow, RuntimeCodes

\* The invariant holds initially.
LEMMA InitRuntimeInv == Init => RuntimeInv
<1> SUFFICES ASSUME Init PROVE RuntimeInv
  OBVIOUS
<1>1. RuntimeType
  BY DEF Init, RuntimeType, ControlPoint, Working, Before, NoStage
<1>2. \A r \in Runners : pc[r] \in {"validating", "finding", "killed"} /\ stage[r] = NoStage
                         /\ (pc[r] = "validating" => task[r] = "operation") /\ error[r] = NoError
  BY DEF Init
<1>3. PointInv
  BY <1>2 DEF PointInv, At, Before, OperationOnly, Identified, Bound
<1>4. ErrorInv
  BY <1>2 DEF ErrorInv, ErrorAt
<1>5. BundleInv /\ AnswerTellsOutput
  BY <1>2 DEF BundleInv, AnswerTellsOutput, Init, Absent
<1>6. QED BY <1>1, <1>3, <1>4, <1>5 DEF RuntimeInv

-----------------------------------------------------------------------------
(* The two ways a runner at work goes on *)

Unmoved == UNCHANGED <<task, disk, found, code, answer, stage, sound, output>>

\* A runner that is still at work has published nothing.
LEMMA WorkingOwnsNothing ==
    ASSUME RuntimeInv, NEW r \in Runners, pc[r] \in Working \cup {"discarding"}
    PROVE  ~OwnBundle(r)
  BY DEF RuntimeInv, BundleInv, OwnBundle, Working, Before

\* An error that leaves a runner at work keeps the invariant.
LEMMA RaiseKeeps ==
    ASSUME RuntimeInv, NEW r \in Runners, NEW e \in Errors, pc[r] \in Working,
           Raise(r, e), Unmoved
    PROVE  RuntimeInv'
<1> DEFINE to == IF stage[r] = NoStage THEN "responding" ELSE "discarding"
<1>a. RuntimeType /\ PointInv /\ ErrorInv /\ BundleInv /\ AnswerTellsOutput
  BY DEF RuntimeInv
<1>b. pc' = [pc EXCEPT ![r] = to] /\ error' = [error EXCEPT ![r] = e]
  BY DEF Raise, Goto
<1>c. to \in {"responding", "discarding"} /\ e # NoError /\ ~OwnBundle(r)
  BY ErrorsAreErrors, WorkingOwnsNothing
<1> HIDE DEF to
<1>1. RuntimeType'
  BY <1>a, <1>b, <1>c DEF RuntimeType, Unmoved, ControlPoint
<1>2. PointInv'
  BY <1>a, <1>b, <1>c DEF RuntimeType, PointInv, At, Unmoved, Before, OperationOnly, Identified,
     Bound, Members
<1>3. ErrorInv'
  BY <1>a, <1>b, <1>c DEF RuntimeType, ErrorInv, ErrorAt, Unmoved, OwnBundle, Working, Before
<1>4. BundleInv'
  BY <1>a, <1>b, <1>c DEF RuntimeType, BundleInv, OwnBundle, Unmoved, Members
<1>5. AnswerTellsOutput'
  BY <1>a, <1>b, <1>c DEF RuntimeType, AnswerTellsOutput, OwnBundle, Unmoved
<1>6. QED BY <1>1, <1>2, <1>3, <1>4, <1>5 DEF RuntimeInv

\* What the other runners have established for themselves does not change.
OthersKeep(r) ==
    \A q \in Runners \ {r} :
        found'[q] = found[q] /\ code'[q] = code[q] /\ stage'[q] = stage[q] /\ sound'[q] = sound[q]

\* So does a move to a point whose facts are established.
LEMMA MoveKeeps ==
    ASSUME RuntimeInv, NEW r \in Runners, NEW to \in Working, pc[r] \in Working,
           Advance(r, to), UNCHANGED <<task, answer, output>>, OthersKeep(r),
           RuntimeType', At(r, to)'
    PROVE  RuntimeInv'
<1>a. RuntimeType /\ PointInv /\ ErrorInv /\ BundleInv /\ AnswerTellsOutput
  BY DEF RuntimeInv
<1>b. pc' = [pc EXCEPT ![r] = to] /\ UNCHANGED error /\ to # "done" /\ to # "responding"
  BY DEF Advance, Goto, Working, Before
<1>c. ~OwnBundle(r)
  BY WorkingOwnsNothing
<1>1. PointInv'
  <2>1. SUFFICES ASSUME NEW q \in Runners PROVE At(q, pc[q])'
    BY DEF PointInv
  <2>2. CASE q = r BY <1>a, <1>b, <2>2 DEF RuntimeType
  <2>3. CASE q # r
    <3>1. At(q, pc[q]) /\ pc'[q] = pc[q] BY <1>a, <1>b, <2>3 DEF RuntimeType, PointInv
    <3>2. QED BY <2>3, <3>1 DEF At, OthersKeep, Members
  <2>4. QED BY <2>2, <2>3
<1>2. ErrorInv'
  BY <1>a, <1>b DEF RuntimeType, ErrorInv, ErrorAt, OwnBundle, Working, Before
<1>3. BundleInv'
  BY <1>a, <1>b, <1>c DEF RuntimeType, BundleInv, OwnBundle, OthersKeep, Members
<1>4. AnswerTellsOutput'
  BY <1>a, <1>b DEF RuntimeType, AnswerTellsOutput, OwnBundle
<1>5. QED BY <1>1, <1>2, <1>3, <1>4 DEF RuntimeInv

\* A runner that only moves on to its next step keeps the invariant.
LEMMA AdvanceKeeps ==
    ASSUME RuntimeInv, NEW r \in Runners, NEW to \in Working, pc[r] \in Working,
           At(r, to), Advance(r, to), Unmoved
    PROVE  RuntimeInv'
<1>1. RuntimeType'
  BY DEF RuntimeInv, RuntimeType, Unmoved, ControlPoint, Advance, Goto
<1>2. At(r, to)'
  BY DEF At, Unmoved, Members
<1>3. QED BY <1>1, <1>2, MoveKeeps DEF Unmoved, OthersKeep

\* An answer keeps the invariant if it tells the truth about the output.
LEMMA AnswerKeeps ==
    ASSUME RuntimeInv, NEW r \in Runners, NEW a, pc[r] \in Working \cup {"responding"},
           Answer(r, a), UNCHANGED <<task, disk, found, code, stage, sound, output>>,
           task[r] = "operation" =>
               /\ a = Success => OwnBundle(r)
               /\ a.kind = "failure" /\ a.failure.code # "artifact_publication_failed"
                     => ~OwnBundle(r)
    PROVE  RuntimeInv'
<1>a. RuntimeType /\ PointInv /\ ErrorInv /\ BundleInv /\ AnswerTellsOutput
  BY DEF RuntimeInv
<1>b. pc' = [pc EXCEPT ![r] = "done"] /\ answer' = [answer EXCEPT ![r] = a] /\ UNCHANGED error
  BY DEF Answer, Advance, Goto
<1>1. RuntimeType'
  BY <1>a, <1>b DEF RuntimeType, ControlPoint
<1>2. PointInv'
  BY <1>a, <1>b DEF RuntimeType, PointInv, At, Before, OperationOnly, Identified, Bound, Members
<1>3. ErrorInv'
  BY <1>a, <1>b DEF RuntimeType, ErrorInv, ErrorAt, OwnBundle, Working, Before
<1>4. BundleInv'
  BY <1>a, <1>b DEF RuntimeType, BundleInv, OwnBundle, Members
<1>5. AnswerTellsOutput'
  BY <1>a, <1>b DEF RuntimeType, AnswerTellsOutput, OwnBundle
<1>6. QED BY <1>1, <1>2, <1>3, <1>4, <1>5 DEF RuntimeInv

\* What a call of component code raises is an error of the runtime.
LEMMA CallErrors ==
    /\ Overflow \in Errors
    /\ \A step, x : \A names \in ErrorLists :
          Error(Raised(step, x), IF x = "ambiguous" THEN names ELSE <<>>, x) \in Errors
<1>1. \A x : \A names \in ErrorLists : (IF x = "ambiguous" THEN names ELSE <<>>) \in Seq(STRING)
  <2>1. ErrorLists \subseteq Seq(STRING) BY RuntimeAssumption
  <2>2. <<>> \in Seq(STRING) OBVIOUS
  <2>3. QED BY <2>1, <2>2
<1>2. QED BY <1>1, RaisedCode, ErrorTyped DEF Errors

\* So is what input that fails its validation leads to.
LEMMA InputErrors ==
    \A names \in ErrorLists, missing \in BOOLEAN, b \in {"ok"} \cup DQErrors :
        (IF missing /\ OnlyQuestionsMissing(names) /\ b # "ok"
         THEN Error(MappedDqError(b), IF b = "ambiguous" THEN names ELSE <<>>, b)
         ELSE Error("invalid_component_input", names, "validation")) \in Errors
<1>1. \A b : MappedDqError(b) \in RuntimeCodes
  BY DEF MappedDqError, RuntimeCodes
<1>2. \A x : \A names \in ErrorLists : names \in Seq(STRING)
                                   /\ (IF x = "ambiguous" THEN names ELSE <<>>) \in Seq(STRING)
  <2>1. ErrorLists \subseteq Seq(STRING) BY RuntimeAssumption
  <2>2. <<>> \in Seq(STRING) OBVIOUS
  <2>3. QED BY <2>1, <2>2
<1>3. "invalid_component_input" \in RuntimeCodes BY DEF RuntimeCodes
<1>4. QED BY <1>1, <1>2, <1>3, ErrorTyped DEF Errors

-----------------------------------------------------------------------------
(* Up to the staging directory *)

\* The steps before the component's files are compared keep the invariant.
LEMMA FrontSteps ==
    ASSUME RuntimeInv, NEW r \in Runners,
           ValidateRequest(r) \/ PrepareOutput(r) \/ FindComponent(r) \/ ImportComponent(r)
    PROVE  RuntimeInv'
<1> USE DEF Unmoved, KeepCode, KeepFiles
<1>a. RuntimeType /\ At(r, pc[r]) /\ ErrorAt(r, pc[r]) /\ BundleInv /\ AnswerTellsOutput
  BY DEF RuntimeInv, PointInv, ErrorInv
<1>b. \A c \in RuntimeCodes : Plain(c) \in Errors
  BY PlainTyped
<1>1. CASE ValidateRequest(r)
  <2>1. pc[r] \in Working /\ ~OwnBundle(r)
    BY <1>1, WorkingOwnsNothing DEF ValidateRequest, Working, Before
  <2>2. CASE Advance(r, "preparing") /\ UNCHANGED answer
    <3>1. At(r, "preparing")
      BY <1>1, <1>a DEF ValidateRequest, At, Before, OperationOnly, Identified, Bound
    <3>2. QED BY <1>1, <2>1, <2>2, <3>1, AdvanceKeeps DEF ValidateRequest, Working, Before
  <2>3. CASE UNCHANGED answer
             /\ Raise(r, [Plain("invalid_operation_request") EXCEPT !.component = None])
    <3>1. [Plain("invalid_operation_request") EXCEPT !.component = None] \in Errors
      <4>1. Plain("invalid_operation_request") \in TypedErrors BY PlainTyped DEF RuntimeCodes
      <4>2. QED BY <4>1 DEF Errors, TypedErrors
    <3>2. QED BY <1>1, <2>1, <2>3, <3>1, RaiseKeeps DEF ValidateRequest
  <2>4. CASE Answer(r, Crash)
    BY <1>1, <2>1, <2>4, AnswerKeeps DEF ValidateRequest, Crash, Success
  <2>5. QED BY <1>1, <2>2, <2>3, <2>4 DEF ValidateRequest
<1>2. CASE PrepareOutput(r)
  <2>1. pc[r] \in Working
    BY <1>2 DEF PrepareOutput, Working, Before
  <2>2. Advance(r, "finding") \/ \E e \in Errors : Raise(r, e)
    BY <1>2, <1>b DEF PrepareOutput, RuntimeCodes
  <2>3. At(r, "finding")
    BY <1>2, <1>a DEF PrepareOutput, At, Before, OperationOnly, Identified, Bound
  <2>4. QED BY <1>2, <2>1, <2>2, <2>3, AdvanceKeeps, RaiseKeeps DEF PrepareOutput, Working, Before
<1>3. CASE FindComponent(r)
  <2>1. pc[r] \in Working
    BY <1>3 DEF FindComponent, Working, Before
  <2>2. CASE UNCHANGED found /\ \E e \in Errors : Raise(r, e)
    BY <1>3, <2>1, <2>2, RaiseKeeps DEF FindComponent
  <2>3. CASE Advance(r, "importing") /\ found' = [found EXCEPT ![r] = disk]
    <3>1. RuntimeType'
      BY <1>3, <1>a, <2>3 DEF FindComponent, RuntimeType, ControlPoint, Working, Before, Advance, Goto
    <3>2. At(r, "importing")'
      BY <1>3, <1>a DEF FindComponent, At, Before, OperationOnly, Identified, Bound
    <3>3. OthersKeep(r)
      BY <1>3, <1>a, <2>3 DEF FindComponent, RuntimeType, OthersKeep
    <3>4. QED BY <1>3, <2>1, <2>3, <3>1, <3>2, <3>3, MoveKeeps DEF FindComponent, Working, Before
  <2>4. QED BY <1>3, <1>b, <2>2, <2>3 DEF FindComponent, RuntimeCodes
<1>4. CASE ImportComponent(r)
  <2>1. pc[r] \in Working /\ Advance(r, "hashing")
    BY <1>4 DEF ImportComponent, Working, Before, Advance
  <2>2. RuntimeType'
    BY <1>4, <1>a DEF ImportComponent, RuntimeType, ControlPoint, Working, Before, Goto
  <2>3. At(r, "hashing")'
    BY <1>4, <1>a DEF ImportComponent, At, Before, OperationOnly, Identified, Bound
  <2>4. OthersKeep(r)
    BY <1>4, <1>a DEF ImportComponent, RuntimeType, OthersKeep
  <2>5. QED BY <1>4, <2>1, <2>2, <2>3, <2>4, MoveKeeps DEF ImportComponent, Working, Before
<1>5. QED BY <1>1, <1>2, <1>3, <1>4

\* The calls of component code keep it.
LEMMA CallSteps ==
    ASSUME RuntimeInv, NEW r \in Runners,
           \/ HashSubject(r) \/ LoadModels(r) \/ ValidateInput(r) \/ NormalizeInput(r)
           \/ LoadCallable(r) \/ InvokeComponent(r) \/ ValidateOutput(r) \/ NormalizeOutput(r)
    PROVE  RuntimeInv'
<1> USE DEF Unmoved, KeepCode, KeepFiles
<1>a. At(r, pc[r])
  BY DEF RuntimeInv, PointInv
<1>b. \A c \in RuntimeCodes : Plain(c) \in Errors
  BY PlainTyped
<1>c. RuntimeType
  BY DEF RuntimeInv
<1>1. CASE HashSubject(r)
  <2> DEFINE told == Subject(r)
  <2>1. pc[r] = "hashing" /\ pc[r] \in Working
        /\ UNCHANGED <<task, left, disk, code, answer, stage, sound, output>>
    BY <1>1 DEF HashSubject, Working, Before
  <2>2. told.models = code[r].models
    BY DEF Subject
  <2> HIDE DEF told
  <2>3. \/ (told = Requested[r] \/ task[r] # "operation") /\ Advance(r, "loading_models")
        \/ \E e \in Errors : Raise(r, e)
    BY <1>1, <1>b, CallErrors DEF HashSubject, Call, RuntimeCodes, told
  <2>4. found' = IF pc'[r] = "loading_models" THEN [found EXCEPT ![r] = told] ELSE found
    BY <1>1 DEF HashSubject, told
  <2>5. CASE \E e \in Errors : Raise(r, e)
    <3>1. pc'[r] # "loading_models" BY <1>c, <2>5 DEF RuntimeType, Raise, Goto
    <3>2. QED BY <2>1, <2>4, <2>5, <3>1, RaiseKeeps
  <2>6. CASE (told = Requested[r] \/ task[r] # "operation") /\ Advance(r, "loading_models")
    <3>1. found' = [found EXCEPT ![r] = told]
      BY <1>c, <2>4, <2>6 DEF RuntimeType, Advance, Goto
    <3>2. RuntimeType'
      BY <1>c, <2>1, <2>6, <3>1
      DEF RuntimeType, ControlPoint, Working, Before, Advance, Goto
    <3>3. found'[r] = told BY <1>c, <3>1 DEF RuntimeType
    <3>4. At(r, "loading_models")'
      BY <1>a, <2>1, <2>2, <2>6, <3>3 DEF At, Before, OperationOnly, Identified, Bound
    <3>5. OthersKeep(r) BY <1>c, <2>1, <3>1 DEF RuntimeType, OthersKeep
    <3>6. QED BY <2>1, <2>6, <3>2, <3>4, <3>5, MoveKeeps DEF Working, Before
  <2>7. QED BY <2>3, <2>5, <2>6
<1>2. CASE LoadModels(r)
  <2>1. pc[r] = "loading_models" /\ pc[r] \in Working /\ Unmoved
    BY <1>2 DEF LoadModels, Working, Before
  <2>2. \/ task[r] = "operation" /\ Advance(r, "checking_input")
        \/ task[r] # "operation"
           /\ (Advance(r, "describing") \/ Advance(r, "finding") \/ Advance(r, "comparing"))
        \/ \E e \in Errors : Raise(r, e)
    BY <1>2, CallErrors DEF LoadModels, Call
  <2>3. /\ task[r] = "operation" => At(r, "checking_input")
        /\ task[r] # "operation" => At(r, "describing") /\ At(r, "finding") /\ At(r, "comparing")
    BY <1>a, <2>1 DEF At, Before, OperationOnly, Identified, Bound
  <2>4. QED BY <2>1, <2>2, <2>3, AdvanceKeeps, RaiseKeeps DEF Working, Before
<1>3. CASE ValidateInput(r)
  <2>1. pc[r] = "checking_input" /\ pc[r] \in Working /\ Unmoved
    BY <1>3 DEF ValidateInput, Working, Before
  <2>2. \/ Advance(r, "normalizing_input")
        \/ \E e \in Errors : Raise(r, e)
    <3>1. CASE InvalidInput(r)
      BY <3>1, InputErrors DEF InvalidInput
    <3>2. CASE Call(r, Behaviours \ {"validation"}, Advance(r, "normalizing_input"))
      BY <3>2, CallErrors DEF Call
    <3>3. QED BY <1>3, <3>1, <3>2 DEF ValidateInput
  <2>3. At(r, "normalizing_input")
    BY <1>a, <2>1 DEF At, Before, OperationOnly, Identified, Bound
  <2>4. QED BY <2>1, <2>2, <2>3, AdvanceKeeps, RaiseKeeps DEF Working, Before
<1>4. CASE NormalizeInput(r)
  <2>1. pc[r] = "normalizing_input" /\ pc[r] \in Working /\ Unmoved
    BY <1>4 DEF NormalizeInput, CallStep, Working, Before
  <2>2. \/ Advance(r, "loading")
        \/ \E e \in Errors : Raise(r, e)
    BY <1>4, <1>b, CallErrors DEF NormalizeInput, CallStep, Call, RuntimeCodes
  <2>3. At(r, "loading")
    BY <1>a, <2>1 DEF At, Before, OperationOnly, Identified, Bound
  <2>4. QED BY <2>1, <2>2, <2>3, AdvanceKeeps, RaiseKeeps DEF Working, Before
<1>5. CASE LoadCallable(r)
  <2>1. pc[r] = "loading" /\ pc[r] \in Working /\ Unmoved
    BY <1>5 DEF LoadCallable, CallStep, Working, Before
  <2>2. \/ Advance(r, "invoking")
        \/ \E e \in Errors : Raise(r, e)
    BY <1>5, <1>b, CallErrors DEF LoadCallable, CallStep, Call, RuntimeCodes
  <2>3. At(r, "invoking")
    BY <1>a, <2>1 DEF At, Before, OperationOnly, Identified, Bound
  <2>4. QED BY <2>1, <2>2, <2>3, AdvanceKeeps, RaiseKeeps DEF Working, Before
<1>6. CASE InvokeComponent(r)
  <2>1. pc[r] = "invoking" /\ pc[r] \in Working /\ Unmoved
    BY <1>6 DEF InvokeComponent, CallStep, Working, Before
  <2>2. \/ Advance(r, "checking_output")
        \/ \E e \in Errors : Raise(r, e)
    BY <1>6, <1>b, CallErrors DEF InvokeComponent, CallStep, Call, RuntimeCodes
  <2>3. At(r, "checking_output")
    BY <1>a, <2>1 DEF At, Before, OperationOnly, Identified, Bound
  <2>4. QED BY <2>1, <2>2, <2>3, AdvanceKeeps, RaiseKeeps DEF Working, Before
<1>7. CASE ValidateOutput(r)
  <2>1. pc[r] = "checking_output" /\ pc[r] \in Working /\ Unmoved
    BY <1>7 DEF ValidateOutput, CallStep, Working, Before
  <2>2. \/ code[r].version = Requested[r].version /\ Advance(r, "normalizing_output")
        \/ \E e \in Errors : Raise(r, e)
    BY <1>7, <1>b, CallErrors DEF ValidateOutput, CallStep, Call, RuntimeCodes
  <2>3. code[r].version = Requested[r].version => At(r, "normalizing_output")
    BY <1>a, <2>1 DEF At, Before, OperationOnly, Identified, Bound
  <2>4. QED BY <2>1, <2>2, <2>3, AdvanceKeeps, RaiseKeeps DEF Working, Before
<1>8. CASE NormalizeOutput(r)
  <2>1. pc[r] = "normalizing_output" /\ pc[r] \in Working /\ Unmoved
    BY <1>8 DEF NormalizeOutput, CallStep, Working, Before
  <2>2. \/ Advance(r, "staging")
        \/ \E e \in Errors : Raise(r, e)
    BY <1>8, <1>b, CallErrors DEF NormalizeOutput, CallStep, Call, RuntimeCodes
  <2>3. At(r, "staging")
    BY <1>a, <2>1 DEF At, Before, OperationOnly, Identified, Bound
  <2>4. QED BY <2>1, <2>2, <2>3, AdvanceKeeps, RaiseKeeps DEF Working, Before
<1>9. QED BY <1>1, <1>2, <1>3, <1>4, <1>5, <1>6, <1>7, <1>8

-----------------------------------------------------------------------------
(* _materialize *)

\* The steps that stage, verify and publish the bundle keep it.
LEMMA MaterializeSteps ==
    ASSUME RuntimeInv, NEW r \in Runners,
           \/ PrepareStage(r) \/ WriteMember(r) \/ VerifyBundle(r) \/ CheckPublication(r)
           \/ DiscardStage(r)
    PROVE  RuntimeInv'
<1> USE DEF Unmoved, KeepCode, KeepFiles
<1>a. RuntimeType /\ At(r, pc[r]) /\ PointInv /\ ErrorInv /\ BundleInv /\ AnswerTellsOutput
  BY DEF RuntimeInv, PointInv
<1>b. \A c \in RuntimeCodes : Plain(c) \in Errors
  BY PlainTyped
<1>c. Members(r) \in {3, 4}
  BY DEF Members
<1>1. CASE PrepareStage(r)
  <2>1. pc[r] = "staging" /\ pc[r] \in Working
    BY <1>1 DEF PrepareStage, Working, Before
  <2>2. CASE UNCHANGED stage /\ \E e \in Errors : Raise(r, e)
    BY <1>1, <2>1, <2>2, RaiseKeeps DEF PrepareStage
  <2>3. CASE stage' = [stage EXCEPT ![r] = 0] /\ Advance(r, "writing")
    <3>1. RuntimeType'
      BY <1>1, <1>a, <2>3 DEF PrepareStage, RuntimeType, ControlPoint, Working, Before, Advance, Goto
    <3>2. At(r, "writing")'
      <4>1. stage'[r] = 0 BY <1>a, <2>3 DEF RuntimeType
      <4>2. QED BY <1>1, <1>a, <1>c, <2>1, <4>1
                DEF PrepareStage, At, Before, OperationOnly, Identified, Bound, Members
    <3>3. OthersKeep(r)
      BY <1>1, <1>a, <2>3 DEF PrepareStage, RuntimeType, OthersKeep
    <3>4. QED BY <1>1, <2>1, <2>3, <3>1, <3>2, <3>3, MoveKeeps DEF PrepareStage, Working, Before
  <2>4. QED BY <1>1, <1>b, <2>2, <2>3 DEF PrepareStage, RuntimeCodes
<1>2. CASE WriteMember(r)
  <2>1. pc[r] = "writing" /\ pc[r] \in Working
    BY <1>2 DEF WriteMember, Working, Before
  <2>2. CASE UNCHANGED <<stage, sound>> /\ \E e \in Errors : Raise(r, e)
    BY <1>2, <2>1, <2>2, RaiseKeeps DEF WriteMember
  <2>3. CASE /\ stage' = [stage EXCEPT ![r] = @ + 1]
             /\ sound' \in {sound, [sound EXCEPT ![r] = FALSE]}
             /\ Advance(r, IF stage'[r] = Members(r) THEN "verifying" ELSE "writing")
    <3>1. stage'[r] = stage[r] + 1 /\ stage[r] \in 0..(Members(r) - 1)
      BY <1>a, <2>1, <2>3 DEF RuntimeType, At
    <3>2. PICK to \in {"verifying", "writing"} :
             Advance(r, to) /\ (to = "verifying" <=> stage'[r] = Members(r))
      BY <2>3
    <3>3. sound' \in [Runners -> BOOLEAN]
      BY <1>a, <2>3, Zenon DEF RuntimeType
    <3>4. RuntimeType'
      <4>1. stage' \in [Runners -> Int] BY <1>a, <2>3 DEF RuntimeType
      <4>2. pc' \in [Runners -> ControlPoint]
        BY <1>a, <3>2 DEF RuntimeType, ControlPoint, Working, Before, Advance, Goto
      <4>3. UNCHANGED <<task, disk, found, code, error, answer>>
        BY <1>2, <3>2 DEF WriteMember, Advance
      <4>4. QED BY <1>a, <3>3, <4>1, <4>2, <4>3 DEF RuntimeType
    <3>5. At(r, to)'
      BY <1>2, <1>a, <1>c, <2>1, <3>1, <3>2
      DEF WriteMember, At, Before, OperationOnly, Identified, Bound, Members
    <3>6. OthersKeep(r)
      BY <1>2, <1>a, <2>3 DEF WriteMember, RuntimeType, OthersKeep
    <3>7. QED
      BY <1>2, <2>1, <3>2, <3>4, <3>5, <3>6, MoveKeeps DEF WriteMember, Working, Before
  <2>4. QED BY <1>2, <1>b, <2>2, <2>3 DEF WriteMember, RuntimeCodes
<1>3. CASE VerifyBundle(r)
  <2>1. pc[r] = "verifying" /\ pc[r] \in Working /\ Unmoved
    BY <1>3 DEF VerifyBundle, Working, Before
  <2>2. (sound[r] /\ Advance(r, "checking_publication")) \/ \E e \in Errors : Raise(r, e)
    BY <1>3, <1>b DEF VerifyBundle, RuntimeCodes
  <2>3. sound[r] => At(r, "checking_publication")
    BY <1>a, <2>1 DEF At, Before, OperationOnly, Identified, Bound
  <2>4. QED BY <2>1, <2>2, <2>3, AdvanceKeeps, RaiseKeeps DEF Working, Before
<1>4. CASE CheckPublication(r)
  <2>1. pc[r] = "checking_publication" /\ pc[r] \in Working /\ Unmoved
    BY <1>4 DEF CheckPublication, Working, Before
  <2>2. Advance(r, "publishing") \/ \E e \in Errors : Raise(r, e)
    BY <1>4, <1>b DEF CheckPublication, RuntimeCodes
  <2>3. At(r, "publishing")
    BY <1>a, <2>1 DEF At, Before, OperationOnly, Identified, Bound
  <2>4. QED BY <2>1, <2>2, <2>3, AdvanceKeeps, RaiseKeeps DEF Working, Before
<1>5. CASE DiscardStage(r)
  <2>1. pc[r] = "discarding" /\ pc' = [pc EXCEPT ![r] = "responding"] /\ UNCHANGED error
    BY <1>5 DEF DiscardStage, Advance, Goto
  <2>2. ~OwnBundle(r) /\ error[r] # NoError
    BY <1>a, <2>1, WorkingOwnsNothing DEF ErrorInv, ErrorAt
  <2>3. stage' \in [Runners -> Int] /\ \A q \in Runners \ {r} : stage'[q] = stage[q]
    BY <1>5, <1>a DEF DiscardStage, RuntimeType, NoStage
  <2>4. RuntimeType'
    BY <1>5, <1>a, <2>1, <2>3 DEF DiscardStage, RuntimeType, ControlPoint
  <2>5. PointInv'
    BY <1>5, <1>a, <2>1, <2>3
    DEF DiscardStage, RuntimeType, PointInv, At, Before, OperationOnly, Identified, Bound, Members
  <2>6. ErrorInv'
    BY <1>5, <1>a, <2>1, <2>2
    DEF DiscardStage, RuntimeType, ErrorInv, ErrorAt, OwnBundle, Working, Before
  <2>7. BundleInv'
    BY <1>5, <1>a, <2>1, <2>2 DEF DiscardStage, RuntimeType, BundleInv, OwnBundle, Members
  <2>8. AnswerTellsOutput'
    BY <1>5, <1>a, <2>1 DEF DiscardStage, RuntimeType, AnswerTellsOutput, OwnBundle
  <2>9. QED BY <2>4, <2>5, <2>6, <2>7, <2>8 DEF RuntimeInv
<1>6. QED BY <1>1, <1>2, <1>3, <1>4, <1>5

\* Publication puts a whole and sound bundle where nothing was, and keeps it.
LEMMA PublishStep ==
    ASSUME RuntimeInv, NEW r \in Runners, PublishBundle(r)
    PROVE  RuntimeInv'
<1> USE DEF Unmoved, KeepCode, KeepFiles
<1>a. RuntimeType /\ At(r, pc[r]) /\ PointInv /\ ErrorInv /\ BundleInv /\ AnswerTellsOutput
  BY DEF RuntimeInv, PointInv
<1>b. pc[r] = "publishing" /\ pc[r] \in Working /\ error[r] = NoError
  BY <1>a DEF PublishBundle, Working, Before, ErrorInv, ErrorAt
<1>1. CASE UNCHANGED <<output, stage>> /\ \E e \in Errors : Raise(r, e)
  BY <1>b, <1>1, RaiseKeeps DEF PublishBundle
<1>2. CASE /\ output = Absent /\ Rename(r)
           /\ pc' = [pc EXCEPT ![r] = "responding"]
           /\ \E e \in {NoError, Plain("output_exists")} : error' = [error EXCEPT ![r] = e]
  <2>1. PICK e \in {NoError, Plain("output_exists")} : error' = [error EXCEPT ![r] = e]
    BY <1>2
  <2>2. /\ output' = Bundle(r) /\ output.kind = "absent"
        /\ stage' \in [Runners -> Int] /\ \A q \in Runners \ {r} : stage'[q] = stage[q]
    BY <1>a, <1>2 DEF Rename, Absent, RuntimeType, NoStage
  <2>3. /\ output'.kind = "bundle" /\ output'.owner = r
        /\ output'.members = stage[r] /\ output'.sound = sound[r]
    BY <2>2 DEF Bundle
  <2>4. e \in Errors \cup {NoError}
    BY <2>1, PlainTyped DEF RuntimeCodes
  <2>5. error' \in [Runners -> Errors \cup {NoError}]
    BY <1>a, <2>1, <2>4 DEF RuntimeType
  <2>6. RuntimeType'
    BY <1>a, <1>2, <2>2, <2>5 DEF PublishBundle, RuntimeType, ControlPoint
  <2>7. PointInv'
    BY <1>a, <1>2, <2>2
    DEF PublishBundle, RuntimeType, PointInv, At, Before, OperationOnly, Identified, Bound, Members
  <2>8. ErrorInv'
    <3>1. SUFFICES ASSUME NEW q \in Runners PROVE ErrorAt(q, pc[q])'
      BY DEF ErrorInv
    <3>2. CASE q = r
      BY <1>a, <1>2, <2>3, <3>2 DEF RuntimeType, ErrorAt, OwnBundle, Working, Before
    <3>3. CASE q # r
      BY <1>a, <1>2, <2>1, <2>2, <3>3 DEF RuntimeType, ErrorInv, ErrorAt, OwnBundle
    <3>4. QED BY <3>2, <3>3
  <2>9. BundleInv'
    <3>1. /\ pc'[r] = "responding" /\ task'[r] = "operation" /\ error'[r] = e
          /\ stage[r] = Members(r) /\ sound[r]
          /\ found'[r] = Requested[r] /\ code'[r].version = Requested[r].version
          /\ code'[r].models = Requested[r].models
      BY <1>a, <1>b, <1>2, <2>1
      DEF PublishBundle, RuntimeType, At, OperationOnly, Identified, Bound
    <3>2. QED BY <2>1, <2>3, <3>1 DEF BundleInv, Members
  <2>10. AnswerTellsOutput'
    BY <1>a, <1>2, <2>2, <2>3 DEF PublishBundle, RuntimeType, AnswerTellsOutput, OwnBundle
  <2>11. QED BY <2>6, <2>7, <2>8, <2>9, <2>10 DEF RuntimeInv
<1>3. Plain("output_exists") \in Errors /\ Plain("artifact_write_failed") \in Errors
  BY PlainTyped DEF RuntimeCodes
<1>4. error' = error => error' = [error EXCEPT ![r] = NoError]
  BY <1>a, <1>b DEF RuntimeType
<1>5. QED BY <1>1, <1>2, <1>3, <1>4 DEF PublishBundle, Advance, Goto

-----------------------------------------------------------------------------
(* Answers, and the host *)

\* The error of the late check is told as a failed publication.
LEMMA PublicationFailureTold ==
    \A fields : MapOperationError(Plain("output_exists"), RequestId, fields).code
                    = "artifact_publication_failed"
<1> SUFFICES ASSUME NEW fields
             PROVE  MapOperationError(Plain("output_exists"), RequestId, fields).code
                        = "artifact_publication_failed"
  OBVIOUS
<1> DEFINE e == Plain("output_exists")
<1>1. DefaultCode(e.code) = "artifact_publication_failed"
  BY DEF Plain, Error, DefaultCode
<1>2. Projection(e, RequestId, fields)
        = HostFailure("artifact_publication_failed", NoDetails)
  BY <1>1 DEF Projection, ComponentCodes
<1>3. Constructible(HostFailure("artifact_publication_failed", NoDetails))
  BY DEF Constructible, HostFailure, NoDetails, DetailsValid, BareCodes
<1>4. QED BY <1>2, <1>3 DEF MapOperationError, HostFailure

\* An operation's answer tells the truth about the output.
LEMMA RespondStep ==
    ASSUME RuntimeInv, NEW r \in Runners, RespondOperation(r)
    PROVE  RuntimeInv'
<1>a. RuntimeType /\ ErrorAt(r, pc[r]) /\ BundleInv
  BY DEF RuntimeInv, ErrorInv
<1>b. pc[r] = "responding" /\ UNCHANGED <<task, disk, found, code, stage, sound, output>>
  BY DEF RespondOperation, KeepCode, KeepFiles
<1>1. CASE Answer(r, ResourceLimit)
  BY <1>b, <1>1, AnswerKeeps DEF ResourceLimit, Success
<1>2. CASE error[r] = NoError /\ Answer(r, Success)
  <2>1. OwnBundle(r) BY <1>a, <1>b, <1>2 DEF ErrorAt
  <2>2. Success.kind # "failure" BY DEF Success
  <2>3. QED BY <1>b, <1>2, <2>1, <2>2, AnswerKeeps
<1>3. ASSUME error[r] # NoError, error[r] # Overflow,
             NEW e \in Serialized(error[r]), NEW fields \in VerifiedFields(r),
             Answer(r, OperationAnswer(r, e, fields))
      PROVE  RuntimeInv'
  <2>1. e # NoError
    BY <1>3 DEF Serialized, Plain, Error, NoError
  <2>2. OperationAnswer(r, e, fields)
          \in {ResourceLimit, Failure(MapOperationError(e, RequestId, fields))}
    BY <2>1 DEF OperationAnswer
  <2>3. CASE OperationAnswer(r, e, fields) = Failure(MapOperationError(e, RequestId, fields))
    <3>1. OwnBundle(r) => MapOperationError(e, RequestId, fields).code = "artifact_publication_failed"
      <4>1. OwnBundle(r) => error[r] = Plain("output_exists")
        BY <1>a, <1>3 DEF OwnBundle, BundleInv
      <4>2. OwnBundle(r) => e = Plain("output_exists")
        <5>1. ~Plain("output_exists").supplied BY DEF Plain, Error
        <5>2. Serialized(Plain("output_exists")) = {Plain("output_exists")} BY <5>1 DEF Serialized
        <5>3. QED BY <1>3, <4>1, <5>2
      <4>3. QED BY <4>2, PublicationFailureTold
    <3>2. Failure(MapOperationError(e, RequestId, fields)) # Success
      BY DEF Failure, Success
    <3>3. Failure(MapOperationError(e, RequestId, fields)).failure
             = MapOperationError(e, RequestId, fields)
      BY DEF Failure
    <3>4. QED BY <1>b, <1>3, <2>3, <3>1, <3>2, <3>3, AnswerKeeps
  <2>4. QED BY <1>1, <1>3, <2>2, <2>3
<1>4. \A fields : OperationAnswer(r, NoError, fields) = Success
  BY DEF OperationAnswer
<1>5. QED BY <1>1, <1>2, <1>3, <1>4 DEF RespondOperation

\* The other answers are not about operations, and a kill answers nothing.
LEMMA OtherEnds ==
    ASSUME RuntimeInv, NEW r \in Runners,
           RespondInspection(r) \/ DescribeComponent(r) \/ ComparePorts(r) \/ Killed(r)
    PROVE  RuntimeInv'
<1>a. RuntimeType /\ At(r, pc[r]) /\ PointInv /\ ErrorInv /\ BundleInv /\ AnswerTellsOutput
  BY DEF RuntimeInv, PointInv
<1>1. CASE RespondInspection(r) \/ DescribeComponent(r) \/ ComparePorts(r)
  <2>1. /\ pc[r] \in Working \cup {"responding"} /\ task[r] # "operation"
        /\ UNCHANGED <<task, disk, found, code, stage, sound, output>>
        /\ \E a : Answer(r, a)
    BY <1>1, <1>a DEF RespondInspection, DescribeComponent, ComparePorts, At, Working, Before,
       KeepCode, KeepFiles
  <2>2. QED BY <2>1, AnswerKeeps
<1>2. CASE Killed(r)
  <2>1. pc[r] \notin {"done", "killed"} /\ pc' = [pc EXCEPT ![r] = "killed"]
        /\ UNCHANGED <<task, disk, found, code, error, answer, stage, sound, output>>
    BY <1>2 DEF Killed, Advance, Goto, KeepCode, KeepFiles
  <2>2. RuntimeType'
    BY <1>a, <2>1 DEF RuntimeType, ControlPoint
  <2>3. PointInv'
    BY <1>a, <2>1 DEF RuntimeType, PointInv, At, Before, OperationOnly, Identified, Bound, Members
  <2>4. ErrorInv'
    BY <1>a, <2>1 DEF RuntimeType, ErrorInv, ErrorAt, OwnBundle, Working, Before
  <2>5. BundleInv'
    BY <1>a, <2>1 DEF RuntimeType, BundleInv, Members
  <2>6. AnswerTellsOutput'
    BY <1>a, <2>1 DEF RuntimeType, AnswerTellsOutput, OwnBundle
  <2>7. QED BY <2>2, <2>3, <2>4, <2>5, <2>6 DEF RuntimeInv
<1>3. QED BY <1>1, <1>2

\* A new installation and somebody else's entry at the output path change nothing of it.
LEMMA HostSteps ==
    ASSUME RuntimeInv, Reinstall \/ ForeignCreates
    PROVE  RuntimeInv'
<1>a. RuntimeType /\ PointInv /\ ErrorInv /\ BundleInv /\ AnswerTellsOutput
  BY DEF RuntimeInv
<1>1. UNCHANGED <<task, pc, found, code, error, answer, stage, sound>> /\ disk' \in Installs
  BY <1>a DEF Reinstall, ForeignCreates, RuntimeType, KeepFiles
<1>2. UNCHANGED output \/ (output.kind # "bundle" /\ output'.kind # "bundle")
  BY DEF Reinstall, ForeignCreates, KeepFiles, Absent
<1>3. RuntimeType'
  BY <1>a, <1>1 DEF RuntimeType
<1>4. PointInv'
  BY <1>a, <1>1 DEF PointInv, At, Members
<1>5. ErrorInv' /\ BundleInv' /\ AnswerTellsOutput'
  BY <1>a, <1>1, <1>2 DEF ErrorInv, ErrorAt, BundleInv, AnswerTellsOutput, OwnBundle, Members
<1>6. QED BY <1>3, <1>4, <1>5 DEF RuntimeInv

\* Every step keeps the invariant.
LEMMA NextRuntimeInv == RuntimeInv /\ [Next]_vars => RuntimeInv'
<1> SUFFICES ASSUME RuntimeInv, [Next]_vars PROVE RuntimeInv'
  OBVIOUS
<1>1. CASE Next
  BY <1>1, FrontSteps, CallSteps, MaterializeSteps, PublishStep, RespondStep, OtherEnds, HostSteps
  DEF Next
<1>2. CASE UNCHANGED vars
  BY <1>2 DEF vars, RuntimeInv, RuntimeType, PointInv, At, ErrorInv, ErrorAt, BundleInv,
     AnswerTellsOutput, OwnBundle, Members
<1>3. QED BY <1>1, <1>2

\* The runtime keeps its inductive invariant.
THEOREM RuntimeInvariant == Spec => []RuntimeInv
  BY InitRuntimeInv, NextRuntimeInv, PTL DEF Spec

\* The output directory is never seen incomplete or with bytes that do not match its
\* manifest (_materialize, verify_operation_bundle, _publish_staged_directory).
THEOREM OutputIsWhole == Spec => []OutputWhole
<1>1. RuntimeInv => OutputWhole BY DEF RuntimeInv, BundleInv, OutputWhole
<1>2. QED BY <1>1, RuntimeInvariant, PTL

\* A published result names an identity made out of the requested contract, of the models
\* its own code validates with and of the requested files, and its code is of the requested
\* version, although the component can be replaced between its import, its hash and its
\* call.  That the code is the one the files hold is not claimed: a same-version edit between
\* import and hash passes (component_record_for_request, _validate_component_output).
THEOREM ResultsOfBoundIdentity == Spec => []ResultIdentity
<1>1. RuntimeInv => ResultIdentity BY DEF RuntimeInv, BundleInv, ResultIdentity
<1>2. QED BY <1>1, RuntimeInvariant, PTL

\* A success means that the output is the runner's own bundle, and a failure that does not
\* concern publication that it is not (execute_operation, worker_main).
THEOREM AnswersTellTheOutput == Spec => []AnswerTellsOutput
<1>1. RuntimeInv => AnswerTellsOutput BY DEF RuntimeInv
<1>2. QED BY <1>1, RuntimeInvariant, PTL

-----------------------------------------------------------------------------
(* What the host is told *)

\* The names taken after each of the first k names.
Taken(g, k, names, verified) ==
    g = [n \in 0..k |-> IF n = 0 THEN <<>> ELSE TakeName(g[n - 1], names[n], verified)]

\* The function that TakeName goes through the names with exists.
LEMMA TakenExists ==
    ASSUME NEW names, NEW verified, NEW k \in Nat
    PROVE  \E g : Taken(g, k, names, verified)
<1> DEFINE T == {j \in Nat : \E g : Taken(g, j, names, verified)}
<1>1. 0 \in T
  <2>1. Taken([n \in 0..0 |-> <<>>], 0, names, verified) BY DEF Taken
  <2>2. QED BY <2>1
<1>2. ASSUME NEW j \in Nat, j \in T PROVE j + 1 \in T
  <2>1. PICK g : Taken(g, j, names, verified) BY <1>2
  <2> DEFINE h == [n \in 0..(j + 1) |->
                      IF n <= j THEN g[n] ELSE TakeName(g[j], names[j + 1], verified)]
  <2>2. \A n \in 0..j : g[n] = IF n = 0 THEN <<>> ELSE TakeName(g[n - 1], names[n], verified)
    BY <2>1 DEF Taken
  <2>3. \A n \in 0..(j + 1) :
            h[n] = IF n = 0 THEN <<>> ELSE TakeName(h[n - 1], names[n], verified)
    BY <2>2
  <2>4. h = [n \in 0..(j + 1) |-> h[n]] OBVIOUS
  <2> HIDE DEF h
  <2>5. Taken(h, j + 1, names, verified) BY <2>3, <2>4 DEF Taken
  <2>6. QED BY <2>5
<1>3. Nat \subseteq T
  <2> HIDE DEF T
  <2>1. QED BY <1>1, <1>2, SetInduction
<1>4. QED BY <1>3

\* A list of field names a failure may carry.
WellProjected(s, verified) == s \in Seq(verified) /\ Len(s) <= MaxFields /\ IsInjective(s)

\* _project_fields keeps verified names only, each once, and no more than the limit,
\* whatever list it is given.
LEMMA ProjectedFields ==
    ASSUME NEW names, NEW verified, Len(names) \in Nat
    PROVE  WellProjected(ProjectFields(names, verified), verified)
<1>0. MaxFields \in Nat BY HostFailuresAssumption
<1> DEFINE f == CHOOSE g : Taken(g, Len(names), names, verified)
<1>1. Taken(f, Len(names), names, verified) BY TakenExists
<1>2. ProjectFields(names, verified) = f[Len(names)] BY DEF ProjectFields, Taken
<1> HIDE DEF f
<1>3. \A n \in 0..Len(names) :
          f[n] = IF n = 0 THEN <<>> ELSE TakeName(f[n - 1], names[n], verified)
  BY <1>1 DEF Taken
<1>4. \A s, name : WellProjected(s, verified) => WellProjected(TakeName(s, name, verified), verified)
  <2> SUFFICES ASSUME NEW s, NEW name, WellProjected(s, verified)
               PROVE  WellProjected(TakeName(s, name, verified), verified)
    OBVIOUS
  <2>1. CASE name \notin verified \/ Contains(s, name) \/ Len(s) = MaxFields
    BY <2>1 DEF TakeName
  <2>2. CASE ~(name \notin verified \/ Contains(s, name) \/ Len(s) = MaxFields)
    <3>1. TakeName(s, name, verified) = Append(s, name) BY <2>2 DEF TakeName
    <3>2. s \in Seq(verified) /\ name \in verified /\ Len(s) < MaxFields
      BY <1>0, <2>2 DEF WellProjected
    <3>3. \A i \in 1..Len(s) : s[i] # name BY <2>2 DEF Contains
    <3>4. \A i, j \in 1..Len(s) : s[i] = s[j] => i = j
      BY <3>2 DEF WellProjected, IsInjective
    <3>5. \A i, j \in 1..(Len(s) + 1) : Append(s, name)[i] = Append(s, name)[j] => i = j
      BY <3>2, <3>3, <3>4
    <3>6. DOMAIN Append(s, name) = 1..(Len(s) + 1) /\ Len(Append(s, name)) = Len(s) + 1
          /\ Append(s, name) \in Seq(verified)
      BY <3>2
    <3>7. QED BY <1>0, <3>1, <3>2, <3>5, <3>6 DEF WellProjected, IsInjective
  <2>3. QED BY <2>1, <2>2
<1>5. WellProjected(<<>>, verified)
  BY <1>0 DEF WellProjected, IsInjective
<1> DEFINE T == {n \in Nat : n <= Len(names) => WellProjected(f[n], verified)}
<1>6. 0 \in T BY <1>3, <1>5
<1>7. ASSUME NEW n \in Nat, n \in T PROVE n + 1 \in T
  BY <1>3, <1>4, <1>7
<1>8. Nat \subseteq T
  <2> HIDE DEF T
  <2>1. QED BY <1>6, <1>7, SetInduction
<1>9. QED BY <1>2, <1>8

\* A failure the host may be told about the error e.
Truthful(f, e) ==
    /\ Constructible(f) /\ ~f.retry
    /\ f.code = "missing_convention" =>
          /\ e.ambiguous /\ f.details.names # <<>>
          /\ ToSet(f.details.names) \subseteq InputFields /\ IsInjective(f.details.names)
    /\ f.code = "internal_failure" => e.code = "operation_failed"

\* The failures map_operation_error constructs fit their codes.
LEMMA FieldFailures ==
    ASSUME NEW e, NEW fields \in {{}, InputFields},
           NEW names, WellProjected(names, fields \cap FieldNames)
    PROVE  /\ Truthful(HostFailure("invalid_component_input", Fields(names)), e)
           /\ e.ambiguous /\ names # <<>> =>
                 Truthful(HostFailure("missing_convention", Fields(names)), e)
           /\ ToSet(names) \subseteq InputFields
<1>1. FieldList(names) /\ ToSet(names) \subseteq InputFields /\ IsInjective(names)
  BY DEF WellProjected, FieldList, ToSet
<1>2. \A c \in {"invalid_component_input", "missing_convention"} :
          /\ HostFailure(c, Fields(names)).code = c
          /\ HostFailure(c, Fields(names)).details.names = names
          /\ HostFailure(c, Fields(names)).details.kind = "fields"
          /\ ~HostFailure(c, Fields(names)).retry
  BY DEF HostFailure, Fields, RetryAllowed
<1>3. \A c \in {"invalid_component_input", "missing_convention"} :
          Constructible(HostFailure(c, Fields(names)))
  BY <1>1, <1>2 DEF Constructible, DetailsValid, FieldCodes
<1>4. QED BY <1>1, <1>2, <1>3 DEF Truthful

\* The host failures of worker_main that carry no message of the component say nothing
\* that was not verified.
LEMMA OtherFailures ==
    ASSUME NEW e
    PROVE  /\ Truthful(HostFailure("invalid_tool_request", Fields(<<>>)), e)
           /\ Truthful(HostFailure("invalid_field_mapping", Fields(<<>>)), e)
           /\ \A c \in ComponentCodes \cup {"component_contract_error"} :
                 Truthful(HostFailure(c, Component(RequestId)), e)
           /\ Truthful(HostFailure("component_contract_error", NoDetails), e)
           /\ Truthful(HostFailure("artifact_publication_failed", NoDetails), e)
           /\ e.code = "operation_failed" =>
                 Truthful(HostFailure("internal_failure", NoDetails), e)
           /\ Truthful(HostFailure("incompatible_ports",
                                   [kind |-> "ports", count |-> 1, wellformed |-> TRUE]), e)
<1>0. RequestId \in ComponentIds BY RuntimeAssumption
<1>1. MaxFields \in Nat /\ MaxDifferences \in Nat /\ MaxDifferences > 0 BY HostFailuresAssumption
<1>2. \A c \in {"invalid_tool_request", "invalid_field_mapping"} :
          Truthful(HostFailure(c, Fields(<<>>)), e)
  <2>1. FieldList(<<>>) BY <1>1 DEF FieldList
  <2>2. QED BY <2>1
        DEF Truthful, HostFailure, Fields, RetryAllowed, Constructible, DetailsValid, FieldCodes
<1>3. \A c \in ComponentCodes \cup {"component_contract_error"} :
          Truthful(HostFailure(c, Component(RequestId)), e)
  <2> TAKE c \in ComponentCodes \cup {"component_contract_error"}
  <2>1. c \notin RetryAllowed \cup {"missing_convention", "internal_failure"}
    BY DEF ComponentCodes, RetryAllowed
  <2>2. /\ HostFailure(c, Component(RequestId)).code = c
        /\ HostFailure(c, Component(RequestId)).retry = (c \in RetryAllowed)
        /\ HostFailure(c, Component(RequestId)).details.kind = "component"
        /\ HostFailure(c, Component(RequestId)).details.id = RequestId
    BY DEF HostFailure, Component
  <2>3. Constructible(HostFailure(c, Component(RequestId)))
    BY <1>0, <2>2 DEF Constructible, DetailsValid
  <2>4. QED BY <2>1, <2>2, <2>3 DEF Truthful
<1>4. \A c \in {"component_contract_error", "artifact_publication_failed"} :
          Truthful(HostFailure(c, NoDetails), e)
  BY DEF Truthful, HostFailure, NoDetails, RetryAllowed, Constructible, DetailsValid, BareCodes
<1>5. e.code = "operation_failed" => Truthful(HostFailure("internal_failure", NoDetails), e)
  BY DEF Truthful, HostFailure, NoDetails, RetryAllowed, Constructible, DetailsValid, BareCodes
<1>6. Truthful(HostFailure("incompatible_ports",
                           [kind |-> "ports", count |-> 1, wellformed |-> TRUE]), e)
  <2> DEFINE d == [kind |-> "ports", count |-> 1, wellformed |-> TRUE]
  <2>1. d.kind = "ports" /\ d.count <= MaxDifferences /\ d.wellformed
    BY <1>1
  <2> HIDE DEF d
  <2>2. /\ HostFailure("incompatible_ports", d).code = "incompatible_ports"
        /\ ~HostFailure("incompatible_ports", d).retry
        /\ HostFailure("incompatible_ports", d).details = d
    BY DEF HostFailure, RetryAllowed
  <2>3. Constructible(HostFailure("incompatible_ports", d))
    BY <2>1, <2>2 DEF Constructible, DetailsValid
  <2>4. QED BY <2>2, <2>3 DEF Truthful, d
<1>7. QED BY <1>2, <1>3, <1>4, <1>5, <1>6

\* map_operation_error tells the truth about every error of the runtime.
LEMMA MappedTruthful ==
    ASSUME NEW e \in TypedErrors, NEW fields \in {{}, InputFields}
    PROVE  Truthful(MapOperationError(e, RequestId, fields), e)
<1> DEFINE c == DefaultCode(e.code)
<1> DEFINE named == ProjectFields(e.fields, fields \cap FieldNames)
<1> DEFINE f == Projection(e, RequestId, fields)
<1>1. WellProjected(named, fields \cap FieldNames)
  BY ProjectedFields DEF TypedErrors
<1>2. ProjectComponentId(e, RequestId) = RequestId /\ RequestId # None
  BY RuntimeAssumption, HostFailuresAssumption DEF ProjectComponentId
<1>3. /\ e.code \in RuntimeCodes
      /\ c \in {"invalid_tool_request", "invalid_component_input", "component_contract_error",
                "artifact_publication_failed"} \cup ComponentCodes
         \/ (c = "internal_failure" /\ e.code = "operation_failed")
  BY DEF TypedErrors, RuntimeCodes, DefaultCode, ComponentCodes
<1>4. \/ f = HostFailure("invalid_tool_request", Fields(<<>>))
      \/ f = HostFailure("invalid_component_input", Fields(named))
      \/ f = HostFailure("missing_convention", Fields(named)) /\ e.ambiguous /\ named # <<>>
      \/ c \in ComponentCodes \cup {"component_contract_error"}
         /\ f = HostFailure(c, Component(RequestId))
      \/ f = HostFailure("artifact_publication_failed", NoDetails)
      \/ f = HostFailure("internal_failure", NoDetails) /\ e.code = "operation_failed"
  <2> HIDE DEF c, named
  <2>1. f = CASE c = "invalid_tool_request" -> HostFailure(c, Fields(<<>>))
            [] c = "invalid_component_input" -> HostFailure(c, Fields(named))
            [] c = "component_refused" /\ e.ambiguous /\ named # <<>> ->
                  HostFailure("missing_convention", Fields(named))
            [] c \in ComponentCodes /\ ~(c = "component_refused" /\ e.ambiguous /\ named # <<>>) ->
                  HostFailure(c, Component(RequestId))
            [] c = "component_contract_error" -> HostFailure(c, Component(RequestId))
            [] OTHER -> HostFailure(c, NoDetails)
    BY <1>2 DEF Projection, c, named
  <2>2. QED BY <1>3, <2>1 DEF ComponentCodes
<1>5. Truthful(f, e)
  <2> HIDE DEF c, named, f
  <2>1. QED BY <1>1, <1>4, FieldFailures, OtherFailures
<1>6. QED BY <1>5 DEF MapOperationError, Truthful

-----------------------------------------------------------------------------
(* HostTruth *)

\* No runner comes to an answer, and none that has one is disturbed.
NobodyAnswers ==
    \A q \in Runners : pc'[q] = "done" =>
        pc[q] = "done" /\ answer'[q] = answer[q] /\ error'[q] = error[q]

\* An error on its way out and a move to another point are no answers.
LEMMA RaiseNoAnswer ==
    ASSUME RuntimeType, NEW r \in Runners, NEW e, Raise(r, e), UNCHANGED answer
    PROVE  NobodyAnswers
  BY DEF RuntimeType, Raise, Goto, NobodyAnswers

\* A runner that moves on without having ended answers nobody.
LEMMA MoveNoAnswer ==
    ASSUME RuntimeType, NEW r \in Runners, NEW to, Advance(r, to), to # "done", UNCHANGED answer
    PROVE  NobodyAnswers
  BY DEF RuntimeType, Advance, Goto, NobodyAnswers

\* A call of component code ends in its success or in an error.
LEMMA CallEnds ==
    ASSUME NEW r, NEW bs, NEW to, Call(r, bs, Advance(r, to))
    PROVE  Advance(r, to) \/ \E e : Raise(r, e)
  BY DEF Call

\* Only five actions answer.
LEMMA QuietActions ==
    ASSUME RuntimeType, NEW r \in Runners,
           \/ PrepareOutput(r) \/ FindComponent(r) \/ ImportComponent(r)
           \/ HashSubject(r) \/ LoadModels(r) \/ ValidateInput(r) \/ NormalizeInput(r)
           \/ LoadCallable(r) \/ InvokeComponent(r) \/ ValidateOutput(r) \/ NormalizeOutput(r)
           \/ PrepareStage(r) \/ WriteMember(r) \/ VerifyBundle(r) \/ CheckPublication(r)
           \/ PublishBundle(r) \/ DiscardStage(r) \/ Killed(r)
    PROVE  NobodyAnswers
<1> DEFINE Ends == (\E to : to # "done" /\ Advance(r, to)) \/ (\E e : Raise(r, e))
<1>0. ASSUME Ends, UNCHANGED answer PROVE NobodyAnswers
  BY <1>0, RaiseNoAnswer, MoveNoAnswer
<1>1. CASE PrepareOutput(r) BY <1>0, <1>1 DEF PrepareOutput
<1>2. CASE FindComponent(r) BY <1>0, <1>2 DEF FindComponent
<1>3. CASE ImportComponent(r)
  <2>1. Advance(r, "hashing") /\ UNCHANGED answer BY <1>3 DEF ImportComponent, Advance
  <2>2. QED BY <1>0, <2>1
<1>4. CASE HashSubject(r)
  <2>1. Advance(r, "loading_models") \/ \E e : Raise(r, e)
    BY <1>4 DEF HashSubject, Call
  <2>2. QED BY <1>0, <1>4, <2>1 DEF HashSubject
<1>5. CASE LoadModels(r)
  <2>1. \/ \E to \in {"checking_input", "describing", "finding", "comparing"} : Advance(r, to)
        \/ \E e : Raise(r, e)
    BY <1>5 DEF LoadModels, Call
  <2>2. QED BY <1>0, <1>5, <2>1 DEF LoadModels
<1>6. CASE ValidateInput(r)
  <2>1. Advance(r, "normalizing_input") \/ \E e : Raise(r, e)
    BY <1>6, CallEnds DEF ValidateInput, InvalidInput
  <2>2. QED BY <1>0, <1>6, <2>1 DEF ValidateInput
<1>7. CASE NormalizeInput(r)
  BY <1>0, <1>7, CallEnds DEF NormalizeInput, CallStep
<1>8. CASE LoadCallable(r)
  BY <1>0, <1>8, CallEnds DEF LoadCallable, CallStep
<1>9. CASE InvokeComponent(r)
  BY <1>0, <1>9, CallEnds DEF InvokeComponent, CallStep
<1>10. CASE ValidateOutput(r)
  <2>1. Advance(r, "normalizing_output") \/ \E e : Raise(r, e)
    BY <1>10 DEF ValidateOutput, CallStep, Call
  <2>2. QED BY <1>0, <1>10, <2>1 DEF ValidateOutput, CallStep
<1>11. CASE NormalizeOutput(r)
  BY <1>0, <1>11, CallEnds DEF NormalizeOutput, CallStep
<1>12. CASE PrepareStage(r) BY <1>0, <1>12 DEF PrepareStage
<1>13. CASE WriteMember(r)
  <2>1. Advance(r, "verifying") \/ Advance(r, "writing") \/ \E e : Raise(r, e)
    BY <1>13 DEF WriteMember
  <2>2. QED BY <1>0, <1>13, <2>1 DEF WriteMember
<1>14. CASE VerifyBundle(r) BY <1>0, <1>14 DEF VerifyBundle
<1>15. CASE CheckPublication(r) BY <1>0, <1>15 DEF CheckPublication
<1>16. CASE PublishBundle(r)
  <2>1. CASE /\ error' = [error EXCEPT ![r] = Plain("output_exists")]
             /\ Goto(r, "responding")
    BY <1>16, <2>1 DEF PublishBundle, Goto, RuntimeType, NobodyAnswers
  <2>2. QED BY <1>0, <1>16, <2>1 DEF PublishBundle
<1>17. CASE DiscardStage(r) BY <1>0, <1>17 DEF DiscardStage
<1>18. CASE Killed(r) BY <1>0, <1>18 DEF Killed
<1>19. QED BY <1>1, <1>2, <1>3, <1>4, <1>5, <1>6, <1>7, <1>8, <1>9, <1>10, <1>11, <1>12, <1>13,
         <1>14, <1>15, <1>16, <1>17, <1>18

\* What an answer says, given the error of its runner.
Tells(a, e) ==
    a.kind = "failure" =>
        /\ Constructible(a.failure) /\ ~a.failure.retry
        /\ a.failure.code = "missing_convention" =>
              /\ e.ambiguous /\ a.failure.details.names # <<>>
              /\ ToSet(a.failure.details.names) \subseteq InputFields
              /\ IsInjective(a.failure.details.names)
        /\ a.failure.code = "internal_failure" => e.code = "operation_failed" \/ e.supplied

\* HostTruth, one runner at a time.
LEMMA HostTruthTells ==
    HostTruth <=> \A r \in Runners : pc[r] = "done" => Tells(answer[r], error[r])
  BY DEF HostTruth, Tells

\* A truthful failure is one, and an answer without a failure says nothing false.
LEMMA FailureTells ==
    ASSUME NEW f, NEW e, Truthful(f, e)
    PROVE  Tells(Failure(f), e)
<1>1. Failure(f).failure = f BY DEF Failure
<1>2. QED BY <1>1 DEF Tells, Truthful

\* Success, a crash and a resource limit tell the host nothing about the component.
LEMMA OtherTells ==
    ASSUME NEW e
    PROVE  Tells(Success, e) /\ Tells(Crash, e) /\ Tells(ResourceLimit, e)
  BY DEF Tells, Success, Crash, ResourceLimit

\* Every answer tells the truth about the error of its runner.
LEMMA AnswersTell ==
    ASSUME RuntimeInv, NEW r \in Runners,
           \/ ValidateRequest(r) \/ RespondOperation(r) \/ RespondInspection(r)
           \/ DescribeComponent(r) \/ ComparePorts(r)
    PROVE  NobodyAnswers \/ \E a : Answer(r, a) /\ Tells(a, error[r])
<1>a. RuntimeType /\ ErrorAt(r, pc[r]) /\ BundleInv
  BY DEF RuntimeInv, ErrorInv
<1>1. CASE ValidateRequest(r)
  BY <1>1, <1>a, RaiseNoAnswer, MoveNoAnswer, OtherTells DEF ValidateRequest
<1>2. CASE DescribeComponent(r)
  <2>1. Truthful(HostFailure("component_contract_error", NoDetails), error[r])
        /\ Truthful(HostFailure("component_contract_error", Component(RequestId)), error[r])
    BY OtherFailures
  <2>2. QED BY <1>2, <2>1, FailureTells, OtherTells DEF DescribeComponent
<1>3. CASE ComparePorts(r)
  BY <1>3, OtherFailures, FailureTells, OtherTells DEF ComparePorts
<1>4. CASE RespondInspection(r)
  <2>1. \A c \in {"component_not_found", "component_identity_mismatch"} :
           Truthful(HostFailure(c, Component(RequestId)), error[r])
    BY OtherFailures DEF ComponentCodes
  <2>2. Truthful(HostFailure("component_contract_error", NoDetails), error[r])
    BY OtherFailures
  <2>3. \A a \in {ResourceLimit, Crash} : Tells(a, error[r])
    BY OtherTells
  <2>4. \A c \in {"component_not_found", "component_identity_mismatch"} :
           Tells(Failure(HostFailure(c, Component(RequestId))), error[r])
    BY <2>1, FailureTells
  <2>5. Tells(Failure(HostFailure("component_contract_error", NoDetails)), error[r])
    BY <2>2, FailureTells
  <2>6. QED BY <1>4, <2>3, <2>4, <2>5 DEF RespondInspection
<1>5. CASE RespondOperation(r)
  <2>1. CASE Answer(r, ResourceLimit) BY <2>1, OtherTells
  <2>2. CASE Answer(r, Success) BY <2>2, OtherTells
  <2>3. ASSUME error[r] # NoError, error[r] # Overflow,
               NEW e \in Serialized(error[r]), NEW fields \in VerifiedFields(r),
               Answer(r, OperationAnswer(r, e, fields))
        PROVE  \E a : Answer(r, a) /\ Tells(a, error[r])
    <3>1. error[r] \in TypedErrors
      BY <1>a, <2>3 DEF RuntimeType, Errors
    <3>2. fields \in {{}, InputFields}
      BY <2>3 DEF VerifiedFields
    <3>3. e \in TypedErrors /\ e # NoError
          /\ (e = error[r] \/ (error[r].supplied /\ e.code = "operation_failed" /\ ~e.ambiguous))
      <4>1. CASE e = error[r]
        <5>1. e # NoError BY <2>3, <4>1
        <5>2. QED BY <3>1, <4>1, <5>1
      <4>2. CASE error[r].supplied /\ e = [Plain("operation_failed") EXCEPT !.component = None]
        <5>1. Plain("operation_failed") \in TypedErrors BY PlainTyped DEF RuntimeCodes
        <5>2. e \in TypedErrors BY <4>2, <5>1 DEF TypedErrors
        <5>3. e.code = "operation_failed" /\ ~e.ambiguous BY <4>2 DEF Plain, Error
        <5>4. e # NoError BY <5>2, ErrorsAreErrors DEF Errors
        <5>5. QED BY <4>2, <5>2, <5>3, <5>4
      <4>3. QED BY <2>3, <4>1, <4>2 DEF Serialized
    <3>4. Truthful(MapOperationError(e, RequestId, fields), e)
      BY <3>2, <3>3, MappedTruthful
    <3>5. Tells(Failure(MapOperationError(e, RequestId, fields)), error[r])
      <4>1. Failure(MapOperationError(e, RequestId, fields)).failure
               = MapOperationError(e, RequestId, fields) BY DEF Failure
      <4>2. QED BY <3>3, <3>4, <4>1 DEF Tells, Truthful
    <3>6. OperationAnswer(r, e, fields)
            \in {ResourceLimit, Failure(MapOperationError(e, RequestId, fields))}
      BY <3>3 DEF OperationAnswer
    <3>7. QED BY <2>3, <3>5, <3>6, OtherTells
  <2>4. \A fields : OperationAnswer(r, NoError, fields) = Success
    BY DEF OperationAnswer
  <2>5. QED BY <1>5, <2>1, <2>2, <2>3, <2>4 DEF RespondOperation
<1>6. QED BY <1>1, <1>2, <1>3, <1>4, <1>5

\* What the host is told stays true: a runner that has answered never changes its error.
LEMMA NextHostTruth == RuntimeInv /\ HostTruth /\ [Next]_vars => HostTruth'
<1> SUFFICES ASSUME RuntimeInv, HostTruth, [Next]_vars PROVE HostTruth'
  OBVIOUS
<1>a. RuntimeType /\ \A r \in Runners : pc[r] = "done" => Tells(answer[r], error[r])
  BY HostTruthTells DEF RuntimeInv
<1>b. SUFFICES \A r \in Runners : pc'[r] = "done" => Tells(answer'[r], error'[r])
  BY DEF HostTruth, Tells, Constructible
<1>1. CASE NobodyAnswers
  BY <1>a, <1>1 DEF NobodyAnswers
<1>2. ASSUME NEW r \in Runners, NEW a, Answer(r, a), Tells(a, error[r])
      PROVE  \A q \in Runners : pc'[q] = "done" => Tells(answer'[q], error'[q])
  BY <1>a, <1>2 DEF RuntimeType, Answer, Advance, Goto
<1>3. CASE Reinstall \/ ForeignCreates \/ UNCHANGED vars
  BY <1>1, <1>3 DEF Reinstall, ForeignCreates, vars, NobodyAnswers
<1>4. QED BY <1>a, <1>1, <1>2, <1>3, QuietActions, AnswersTell DEF Next

\* The host is only told well-formed failures that it must not retry; a question names
\* verified fields, each once; only an unforeseen failure is called internal
\* (map_operation_error, operation_failure).
THEOREM HostIsToldTheTruth == Spec => []HostTruth
<1>1. Init => HostTruth
  BY DEF Init, HostTruth
<1>2. QED BY <1>1, NextHostTruth, RuntimeInvariant, PTL DEF Spec
=============================================================================
