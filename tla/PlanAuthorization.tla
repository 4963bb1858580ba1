-------------------------- MODULE PlanAuthorization --------------------------
(***************************************************************************)
(* shared/plan_validation.py over protocol/plan.py, policy.py and          *)
(* authorization.py: a caller has a plan validated, answers what it is     *)
(* asked, has the receipt approved and bound, and has the whole chain      *)
(* verified later, after plan, policy, component or approval may have      *)
(* changed.  A hash is what it is computed from: two hashes agree when     *)
(* those agree.                                                            *)
(***************************************************************************)
EXTENDS Guidance

CONSTANTS
    Plans,          \* plans a caller may hold
    Policies,       \* execution policies, as supplied and as packaged
    InstalledComponents,       \* what component_record may find installed
    Approvers,
    MaxDrift,       \* changes around the chain
    Nothing        \* nothing there, or not yet

\* A component in the catalog asks each of its questions under an identifier of its own
\* (check_component of authoring/check_component.py); a plan has input and resolved questions.
ASSUME PlanAssumption ==
    /\ \A inst \in InstalledComponents \ {Nothing} :
          LET asked == inst.guidance.questions
          IN  /\ asked \in Seq(ToSet(asked))
              /\ \A p, q \in ToSet(asked) : p.id = q.id => p = q
    /\ \A p \in Plans : {"input", "resolved"} \subseteq DOMAIN p

VARIABLES
    plan, policy,           \* the caller's
    packaged, installed,    \* the package's policy of that name, and the component
    receipt, approval, authorization,
    outcome,                \* of the last call
    rounds,                 \* times the caller answered questions
    drift,
    approved                \* what the approver saw: the plan that was validated

planVars == <<plan, policy, packaged, installed, receipt, approval, authorization, outcome,
              rounds, drift, approved>>

-----------------------------------------------------------------------------
(* Identities *)

\* A canonical hash exists unless a dict or a list was changed in place to hold a non-finite number.
DatasetHashable(p) == NaN \notin {p.input[f] : f \in DOMAIN p.input}
PlanHashable(p) ==
    DatasetHashable(p) /\ NaN \notin {p.resolved[q].answer : q \in DOMAIN p.resolved}

\* AnalysisPlan.semantic_projection: everything but the times at which questions were resolved.
PlanHash(p) ==
    [p EXCEPT !.resolved = [q \in DOMAIN p.resolved |->
        [field |-> p.resolved[q].field, answer |-> p.resolved[q].answer,
         confirmed |-> p.resolved[q].confirmed]]]

-----------------------------------------------------------------------------
(* validate_plan *)

Blocked(code) == [status |-> "blocked", code |-> code]
RaisesError == [status |-> "raised"]

\* ValidationFailure: the questions asked differ in identifier and in field.
NeedsInformation(questions) ==
    IF \E i, j \in DOMAIN questions :
          i # j /\ (questions[i].id = questions[j].id \/ questions[i].field = questions[j].field)
    THEN RaisesError ELSE [status |-> "needs_information", questions |-> questions]

Confirmed(p, q) ==
    /\ q.id \in DOMAIN p.resolved
    /\ p.resolved[q.id].field = q.field /\ p.resolved[q.id].confirmed

\* Mutant: validation stops at the first open question.
OpenQuestionsFirst(p, questions) ==
    LET open == SelectSeq(questions, LAMBDA q : ~Confirmed(p, q))
    IN  IF open = <<>> THEN open ELSE <<open[1]>>

OpenQuestions(p, questions) == Picked(questions, {q \in ToSet(questions) : ~Confirmed(p, q)})

Passes == [status |-> "passed"]

\* _validate_required_questions; a question without its texts is not valid.
ValidateQuestions(p, questions) ==
    LET pairs == {<<q.id, q.field>> : q \in ToSet(questions)}
        open == OpenQuestions(p, questions)
    IN  IF \E i \in DOMAIN questions : ~questions[i].valid
        THEN Blocked("component_contract_error")
        ELSE IF ~({<<q, p.resolved[q].field>> : q \in DOMAIN p.resolved} \subseteq pairs)
        THEN Blocked("plan_resolved_question_mismatch")
        ELSE IF \E q \in ToSet(questions) :
                   /\ Confirmed(p, q)
                   /\ \/ q.field \notin DOMAIN p.input
                      \/ p.input[q.field] # p.resolved[q.id].answer
        THEN Blocked("plan_resolved_question_mismatch")
        ELSE IF open # <<>> THEN NeedsInformation(open) ELSE Passes

\* The empty list, and the empty string, which is first in the order of strings.
IsEmpty(v) == v = List(<<>>) \/ (v.t = "str" /\ v.v = 0)

\* _validate_managed_requirements: the first requirement that is not met.
ValidateRequirements(p, rule) ==
    LET unmet == SelectInSeq(rule.requirements, LAMBDA r :
                     \/ r.field \notin DOMAIN p.input
                     \/ p.input[r.field] = Null
                     \/ r.non_empty /\ IsEmpty(p.input[r.field]))
    IN  IF unmet = 0 THEN Passes ELSE Blocked(rule.requirements[unmet].code)

\* The closed input model: the types of each field, optional when null is one of them.
ModelAccepts(model, input) ==
    /\ DOMAIN input \subseteq DOMAIN model
    /\ \A f \in DOMAIN model :
          IF f \in DOMAIN input THEN input[f].t \in model[f] ELSE "null" \in model[f]
ModelDump(model, input) ==
    [f \in DOMAIN model |-> IF f \in DOMAIN input THEN input[f] ELSE Null]

\* What each outcome of preflight means for the plan.
PreflightIssue(inst, result) ==
    CASE result.kind = "ambiguous" ->
            NeedsInformation(Picked(inst.guidance.questions,
                                    {q \in ToSet(inst.guidance.questions) :
                                        Contains(result.fields, q.field)}))
      [] result.kind = "contract" -> Blocked("component_contract_error")
      [] result.kind = "domain" -> Blocked("component_constraint_violation")
      [] OTHER -> Passes

\* The rest of validate_plan: the input model, then preflight over all its fields.
ValidateInputOf(p, inst) ==
    IF ~inst.imports THEN Blocked("component_contract_error")
    ELSE IF ~ModelAccepts(inst.model, p.input) THEN Blocked("invalid_component_input")
    ELSE PreflightIssue(inst, Preflight(inst.guidance, ModelDump(inst.model, p.input)))

\* _matching_rule, the identity of what is installed, and its lifecycle.
ValidateSubject(p, pol, inst) ==
    LET rule == pol.rules[p.profile]
    IN  IF p.profile \notin DOMAIN pol.rules THEN Blocked("execution_scope_denied")
        ELSE IF rule.component # p.component THEN Blocked("plan_component_identity_mismatch")
        ELSE IF inst = Nothing THEN Blocked("component_contract_error")
        ELSE IF inst.component # p.component THEN Blocked("plan_component_identity_mismatch")
        ELSE IF inst.lifecycle = "invalid" THEN Blocked("component_contract_error")
        ELSE IF \/ p.lifecycle # inst.lifecycle \/ inst.lifecycle # rule.lifecycle
                \/ rule.opt_in /\ ~p.opt_in
        THEN Blocked("plan_component_lifecycle_denied")
        ELSE Passes

Receipt(p, pol) ==
    [status |-> "validated", plan_hash |-> PlanHash(p), policy_hash |-> pol,
     component |-> p.component, dataset_hash |-> p.input]

\* The first stage that does not pass decides.
Then(stage, rest) == IF stage = Passes THEN rest ELSE stage

\* validate_plan; every failure carries the plan's hash.
ValidatePlan(p, pol, pkg, inst) ==
    IF ~PlanHashable(p) THEN RaisesError
    ELSE IF p.policy_hash # pol THEN Blocked("plan_policy_mismatch")
    ELSE IF pkg # pol THEN Blocked("execution_scope_denied")
    ELSE Then(ValidateSubject(p, pol, inst),
         Then(ValidateQuestions(p, inst.guidance.questions),
         Then(ValidateRequirements(p, pol.rules[p.profile]),
         Then(ValidateInputOf(p, inst), Receipt(p, pol)))))

-----------------------------------------------------------------------------
(* Approval, authorization, verification *)

\* create_manual_approval
Approval(r, who) == [plan_hash |-> r.plan_hash, receipt_hash |-> r, approved_by |-> who]

\* create_authorization_binding, where its three checks pass.
Bindable(p, r, a) ==
    /\ PlanHashable(p)
    /\ r.plan_hash = PlanHash(p) /\ a.plan_hash = PlanHash(p) /\ a.receipt_hash = r
AuthorizationBinding(p, r, a) ==
    [plan_hash |-> PlanHash(p), receipt_hash |-> r, approval_hash |-> a,
     component |-> p.component, dataset_hash |-> p.input]

Refused(code) == [status |-> "failed", code |-> code]

\* Mutant: the receipt is believed, nothing is validated again.
VerifyAuthorizationTrusting(p, r, a, b, pol, pkg, inst) ==
    IF PlanHashable(p) /\ b.receipt_hash = r /\ b.approval_hash = a /\ Bindable(p, r, a)
    THEN [status |-> "authorized"] ELSE Refused("validation_receipt_mismatch")

\* verify_authorization
VerifyAuthorization(p, r, a, b, pol, pkg, inst) ==
    IF b.component # p.component \/ r.component # p.component
    THEN Refused("component_binding_mismatch")
    ELSE IF ~DatasetHashable(p) \/ b.dataset_hash # p.input \/ r.dataset_hash # p.input
    THEN Refused("dataset_binding_mismatch")
    ELSE IF p.policy_hash # pol \/ r.policy_hash # pol
    THEN Refused("policy_binding_mismatch")
    ELSE IF ~PlanHashable(p) \/ b.plan_hash # PlanHash(p) \/ r.plan_hash # PlanHash(p)
    THEN Refused("plan_revision_stale")
    ELSE IF b.receipt_hash # r \/ ValidatePlan(p, pol, pkg, inst) # r
    THEN Refused("validation_receipt_mismatch")
    ELSE IF a.plan_hash # PlanHash(p) \/ a.receipt_hash # r \/ b.approval_hash # a
    THEN Refused("approval_binding_mismatch")
    ELSE IF b # AuthorizationBinding(p, r, a)
    THEN Refused("authorization_binding_mismatch")
    ELSE [status |-> "authorized"]

-----------------------------------------------------------------------------
(* The caller *)

NoOutcome == [status |-> "none"]

PlanInit ==
    /\ plan \in Plans /\ policy \in Policies
    /\ packaged \in Policies \cup {Nothing} /\ installed \in InstalledComponents
    /\ receipt = Nothing /\ approval = Nothing /\ authorization = Nothing
    /\ outcome = NoOutcome /\ rounds = 0 /\ drift = 0 /\ approved = Nothing

CallValidate ==
    /\ receipt = Nothing /\ outcome = NoOutcome
    /\ outcome' = ValidatePlan(plan, policy, packaged, installed)
    /\ receipt' = IF outcome'.status = "validated" THEN outcome' ELSE Nothing
    /\ approved' = IF outcome'.status = "validated" THEN plan ELSE Nothing
    /\ UNCHANGED <<plan, policy, packaged, installed, approval, authorization, rounds, drift>>

\* The caller confirms an answer to every question it was asked, in a new revision of its plan.
ConfirmAnswers ==
    /\ outcome.status = "needs_information" /\ rounds = 0
    /\ \E v \in AnswerValues :
        LET qs == ToSet(outcome.questions)
            fs == {q.field : q \in qs}
            ids == {q.id : q \in qs}
        IN  plan' = [plan EXCEPT
                !.input = [f \in DOMAIN @ \cup fs |-> IF f \in fs THEN v ELSE @[f]],
                !.resolved = [i \in DOMAIN @ \cup ids |->
                    IF i \in ids
                    THEN [field |-> (CHOOSE q \in qs : q.id = i).field, answer |-> v,
                          confirmed |-> TRUE, at |-> 2]
                    ELSE @[i]]]
    /\ rounds' = 1 /\ outcome' = NoOutcome
    /\ UNCHANGED <<policy, packaged, installed, receipt, approval, authorization, drift, approved>>

CallApprove(who) ==
    /\ receipt # Nothing /\ approval = Nothing /\ authorization = Nothing
    /\ approval' = Approval(receipt, who)
    /\ UNCHANGED <<plan, policy, packaged, installed, receipt, authorization, outcome, rounds, drift,
                   approved>>

CallBind ==
    /\ approval # Nothing /\ authorization = Nothing /\ Bindable(plan, receipt, approval)
    /\ authorization' = AuthorizationBinding(plan, receipt, approval)
    /\ UNCHANGED <<plan, policy, packaged, installed, receipt, approval, outcome, rounds, drift,
                   approved>>

CallVerify ==
    /\ authorization # Nothing
    /\ outcome' = VerifyAuthorization(plan, receipt, approval, authorization, policy, packaged, installed)
    /\ UNCHANGED <<plan, policy, packaged, installed, receipt, approval, authorization, rounds, drift,
                   approved>>

\* Something around the chain changes: the plan is revised, or changed in place; another policy is
\* passed or installed; the component is reinstalled; another approval is presented.
Drift ==
    /\ receipt # Nothing /\ drift < MaxDrift
    /\ \/ plan' \in Plans /\ UNCHANGED <<policy, packaged, installed, approval>>
       \/ policy' \in Policies /\ UNCHANGED <<plan, packaged, installed, approval>>
       \/ packaged' \in Policies \cup {Nothing} /\ UNCHANGED <<plan, policy, installed, approval>>
       \/ installed' \in InstalledComponents /\ UNCHANGED <<plan, policy, packaged, approval>>
       \/ /\ approval # Nothing
          /\ \E who \in Approvers : approval' = [approval EXCEPT !.approved_by = who]
          /\ UNCHANGED <<plan, policy, packaged, installed>>
    /\ drift' = drift + 1 /\ outcome' = NoOutcome
    /\ UNCHANGED <<receipt, authorization, rounds, approved>>

PlanNext ==
    \/ CallValidate \/ ConfirmAnswers \/ CallBind \/ CallVerify \/ Drift
    \/ \E who \in Approvers : CallApprove(who)

PlanSpec == PlanInit /\ [][PlanNext]_planVars

-----------------------------------------------------------------------------
(* Properties *)

\* What is authorized is what the approver was shown, still in force: the same plan but for
\* audit times, under the packaged policy, for the component installed now, every question of
\* its contract confirmed with the value that will be used, and the approval that was bound
\* (verify_authorization, which calls validate_plan again).
AuthorizedIsApproved ==
    outcome.status = "authorized" =>
        /\ PlanHash(plan) = PlanHash(approved)
        /\ packaged = policy /\ plan.policy_hash = policy
        /\ installed # Nothing
        /\ installed.component = plan.component
        /\ policy.rules[plan.profile].component = installed.component
        /\ installed.lifecycle = plan.lifecycle
        /\ \A q \in ToSet(installed.guidance.questions) :
              \E i \in DOMAIN plan.resolved :
                  /\ plan.resolved[i].confirmed /\ plan.resolved[i].field = q.field
                  /\ plan.input[q.field] = plan.resolved[i].answer
        /\ approval = authorization.approval_hash

\* Questions are asked all at once: a caller that answers what it was asked is not asked
\* again (_validate_required_questions, _ambiguity_failure).
AskedOnce == rounds = 1 => outcome.status # "needs_information"
=============================================================================
