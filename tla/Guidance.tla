------------------------------ MODULE Guidance ------------------------------
(***************************************************************************)
(* preflight of shared/validation.py: the closed evaluator of a component's*)
(* declarative guidance, the defaults it may assume, the questions it must *)
(* ask, and a caller who answers them.                                     *)
(*                                                                         *)
(* Values are tagged.  A string is its place in the order of strings and   *)
(* whether it is a calendar month, whose place is its month number.  A     *)
(* standard deviation is abstracted to zero or positive.  Lists are        *)
(* measured and searched, never ordered.                                   *)
(***************************************************************************)
EXTENDS Integers, Sequences, SequencesExt, FiniteSets

Num(n) == [t |-> "num", v |-> n]
NaN == [t |-> "nan"]
Null == [t |-> "null"]
Bool(b) == [t |-> "bool", v |-> b]
Str(n, month) == [t |-> "str", v |-> n, month |-> month]
List(items) == [t |-> "list", v |-> items]
Broken == [t |-> "error"]       \* a ContractEvaluationError

-----------------------------------------------------------------------------
(* Measures *)

IsNumber(x) == x.t \in {"num", "nan"}                   \* _real refuses booleans
Rank(x) == IF x.t = "bool" THEN (IF x.v THEN 1 ELSE 0) ELSE x.v
Numeric == {"num", "bool"}

Orderable(x, y) ==
    \/ {x.t, y.t} \subseteq Numeric \cup {"nan"}
    \/ x.t = "str" /\ y.t = "str"
Below(x, y) == "nan" \notin {x.t, y.t} /\ Rank(x) < Rank(y)
Equal(x, y) ==
    \/ x.t \in Numeric /\ y.t \in Numeric /\ Rank(x) = Rank(y)
    \/ x.t = y.t /\ x.t \in {"str", "list", "null"} /\ x = y

\* min() and max() keep the first item that no later one beats.
Extreme(items, Beats(_, _)) ==
    FoldSeq(LAMBDA y, best :
                CASE best = Broken -> Broken
                  [] best # Broken /\ ~Orderable(y, best) -> Broken
                  [] OTHER -> IF Beats(y, best) THEN y ELSE best,
            items[1], Reverse(Tail(items)))

\* all(left < right ...) stops at the first pair that is not increasing.
Increasing(items) ==
    LET stops == {i \in 1..(Len(items) - 1) :
                    ~Orderable(items[i], items[i + 1]) \/ ~Below(items[i], items[i + 1])}
        first == CHOOSE i \in stops : \A j \in stops : i <= j
    IN  IF stops = {} THEN Bool(TRUE)
        ELSE IF Orderable(items[first], items[first + 1]) THEN Bool(FALSE) ELSE Broken

MonthLabels(items) == \A i \in DOMAIN items : items[i].t = "str" /\ items[i].month

\* _MEASURE_DISPATCH
Measure(name, x) ==
    LET items == x.v
        listed == x.t = "list"
    IN  CASE name = "identity" -> x
          [] name = "all_finite" ->
                IF listed
                THEN IF \A i \in DOMAIN items : IsNumber(items[i])
                     THEN Bool(\A i \in DOMAIN items : items[i] # NaN) ELSE Broken
                ELSE IF IsNumber(x) THEN Bool(x # NaN) ELSE Broken
          [] name \notin {"identity", "all_finite"} /\ ~listed -> Broken
          [] name = "count" /\ listed -> Num(Len(items))
          [] name = "stdev" /\ listed ->
                IF Len(items) < 2 \/ \E i \in DOMAIN items : items[i].t # "num" THEN Broken
                ELSE Num(IF Cardinality(ToSet(items)) = 1 THEN 0 ELSE 1)
          [] name \in {"min", "max"} /\ listed ->
                IF items = <<>> THEN Broken
                ELSE Extreme(items, LAMBDA y, best : IF name = "min" THEN Below(y, best)
                                                     ELSE Below(best, y))
          [] name = "all_valid_calendar_month_labels" /\ listed -> Bool(MonthLabels(items))
          [] name = "has_duplicates" /\ listed ->
                Bool(\E i, j \in DOMAIN items : i < j /\ Equal(items[i], items[j]))
          [] name = "is_consecutive_calendar_months" /\ listed ->
                Bool(/\ MonthLabels(items)
                     /\ \A i \in 1..(Len(items) - 1) : items[i + 1].v = items[i].v + 1)
          [] name = "is_strictly_increasing" /\ listed -> Increasing(items)
          [] OTHER -> Broken

-----------------------------------------------------------------------------
(* Expressions *)

\* _resolve_operand: a literal, or a measure of a field that is there.
Operand(o, values) ==
    CASE o.kind = "value" -> o.value
      [] o.kind = "field" ->
            IF o.field \in DOMAIN values THEN Measure(o.measure, values[o.field]) ELSE Broken
      [] OTHER -> Broken

\* _compare
Compare(op, x, y) ==
    CASE Broken \in {x, y} -> Broken
      [] Broken \notin {x, y} /\ op \in {"lt", "le", "gt", "ge"} ->
            IF ~Orderable(x, y) THEN Broken
            ELSE Bool(CASE op = "lt" -> Below(x, y)
                        [] op = "gt" -> Below(y, x)
                        [] op = "le" -> Below(x, y) \/ Equal(x, y)
                        [] OTHER -> Below(y, x) \/ Equal(x, y))
      [] Broken \notin {x, y} /\ op = "eq" -> Bool(Equal(x, y))
      [] Broken \notin {x, y} /\ op = "ne" -> Bool(~Equal(x, y))
      [] Broken \notin {x, y} /\ op \in {"in_set", "not_in_set"} ->
            IF y.t # "list" THEN Broken
            ELSE Bool((op = "in_set") = (\E i \in DOMAIN y.v : Equal(x, y.v[i])))
      [] OTHER -> Broken

Comparison(e, values) == Compare(e.op, Operand(e.left, values), Operand(e.right, values))

\* "all" and "any" stop at the first child that decides, or that fails.
Branch(kind, results) ==
    LET stops == {i \in DOMAIN results : results[i] # Bool(kind = "all")}
    IN  IF results = <<>> THEN Broken
        ELSE IF stops = {} THEN Bool(kind = "all")
        ELSE results[CHOOSE i \in stops : \A j \in stops : i <= j]

\* _evaluate_expression at one depth, over the depth below it.
Level(e, values, Inner(_, _)) ==
    CASE e.kind \in {"all", "any"} ->
            Branch(e.kind, [i \in DOMAIN e.children |-> Inner(e.children[i], values)])
      [] e.kind = "comparison" -> Comparison(e, values)
      [] OTHER -> Broken

TooDeep(e, values) == Broken
Depth3(e, values) == Level(e, values, TooDeep)
Depth2(e, values) == Level(e, values, Depth3)

\* evaluate_expression, to MAX_EXPRESSION_DEPTH = 3.
Evaluate(e, values) == Level(e, values, Depth2)

-----------------------------------------------------------------------------
(* Guidance: defaults, questions, constraints *)

NoCondition == [kind |-> "none"]
NoDefault == [t |-> "none"]

\* The last rule of a field counts, at the place of its first.
RuleOf(g, f) == SelectLastInSeq(g.defaults, LAMBDA d : d.field = f)
HasRule(g, f) == RuleOf(g, f) # 0
Rule(g, f) == g.defaults[RuleOf(g, f)]
RuleFields(g) ==
    LET fields[n \in 0..Len(g.defaults)] ==
            IF n = 0 THEN <<>>
            ELSE IF Contains(fields[n - 1], g.defaults[n].field) THEN fields[n - 1]
            ELSE Append(fields[n - 1], g.defaults[n].field)
    IN  fields[Len(g.defaults)]

Holds(rule, values) ==
    IF rule.only_if = NoCondition THEN Bool(TRUE) ELSE Evaluate(rule.only_if, values)

With(values, f, v) == [x \in DOMAIN values \cup {f} |-> IF x = f THEN v ELSE values[x]]

\* The chosen members of a list, in order.
Picked(list, chosen) ==
    LET taken[n \in 0..Len(list)] ==
            IF n = 0 THEN <<>>
            ELSE IF list[n] \in chosen THEN Append(taken[n - 1], list[n]) ELSE taken[n - 1]
    IN  taken[Len(list)]

\* Questions that neither the caller, nor a rule, nor the question itself can answer.
Unanswerable(g, supplied) ==
    Picked(g.questions, {q \in ToSet(g.questions) : /\ q.field \notin DOMAIN supplied
                                                    /\ ~HasRule(g, q.field)
                                                    /\ q.default = NoDefault})

\* What one open question comes to, when its rule's condition held, failed or was broken.
Settle(acc, f, held, value, default) ==
    IF held = Broken THEN [acc EXCEPT !.failed = TRUE]
    ELSE IF held.v THEN [acc EXCEPT !.values = With(@, f, value)]
    ELSE IF default # NoDefault THEN [acc EXCEPT !.values = With(@, f, default)]
    ELSE [acc EXCEPT !.missing = Append(@, f)]

\* The second pass: each open question in order, over the values settled so far.
SettleQuestion(g, acc, q) ==
    IF acc.failed \/ q.field \in DOMAIN acc.values THEN acc
    ELSE IF HasRule(g, q.field)
    THEN Settle(acc, q.field, Holds(Rule(g, q.field), acc.values), Rule(g, q.field).value, q.default)
    ELSE Settle(acc, q.field, Bool(FALSE), q.default, q.default)

AskQuestions(g, start) ==
    LET acc[n \in 0..Len(g.questions)] ==
            IF n = 0 THEN start ELSE SettleQuestion(g, acc[n - 1], g.questions[n])
    IN  acc[Len(g.questions)]

Assume(acc, f, held, value) ==
    IF held = Broken THEN [acc EXCEPT !.failed = TRUE]
    ELSE IF held.v THEN [acc EXCEPT !.values = With(@, f, value)] ELSE acc

\* Mutant: a default is taken whether or not its condition holds.
SettleDefaultAlways(g, acc, f) ==
    IF acc.failed \/ f \in DOMAIN acc.values THEN acc
    ELSE Assume(acc, f, Bool(TRUE), Rule(g, f).value)

\* The last pass: the rules of fields nobody has to be asked about.
SettleDefault(g, acc, f) ==
    IF acc.failed \/ f \in DOMAIN acc.values THEN acc
    ELSE Assume(acc, f, Holds(Rule(g, f), acc.values), Rule(g, f).value)

SettleDefaults(g, start) ==
    LET fields == RuleFields(g)
        acc[n \in 0..Len(fields)] ==
            IF n = 0 THEN start ELSE SettleDefault(g, acc[n - 1], fields[n])
    IN  acc[Len(fields)]

Contract == [kind |-> "contract"]
Ambiguous(fields) == [kind |-> "ambiguous", fields |-> fields]
Settled(values) == [kind |-> "values", values |-> values]

Concluded(final) == IF final.failed THEN Contract ELSE Settled(final.values)

\* The last pass runs when the second asked nothing.
AssumeDefaults(g, asked) ==
    IF asked.failed THEN Contract
    ELSE IF asked.missing # <<>> THEN Ambiguous(asked.missing)
    ELSE Concluded(SettleDefaults(g, asked))

\* _effective_values
EffectiveValues(g, supplied) ==
    IF Unanswerable(g, supplied) # <<>>
    THEN Ambiguous([i \in DOMAIN Unanswerable(g, supplied) |-> Unanswerable(g, supplied)[i].field])
    ELSE AssumeDefaults(g, AskQuestions(g, [values |-> supplied, missing |-> <<>>,
                                            failed |-> FALSE]))

\* evaluate_constraints: every rule is evaluated, in order, up to the first that fails.
Triggered(g, values) == SelectSeq(g.constraints, LAMBDA c : Evaluate(c.when, values) = Bool(TRUE))
ConstraintsBroken(g, values) ==
    \/ \E i, j \in DOMAIN g.constraints : i # j /\ g.constraints[i].id = g.constraints[j].id
    \/ \E i \in DOMAIN g.constraints :
          \/ g.constraints[i].severity \notin {"blocking", "warning"}
          \/ Evaluate(g.constraints[i].when, values) = Broken

\* The constraints, once the values are known.
Judged(g, e) ==
    IF e.kind # "values" THEN e
    ELSE IF ConstraintsBroken(g, e.values) THEN Contract
    ELSE IF \E c \in ToSet(Triggered(g, e.values)) : c.severity = "blocking" THEN [kind |-> "domain"]
    ELSE [kind |-> "clear", values |-> e.values]

\* preflight
Preflight(g, supplied) == Judged(g, EffectiveValues(g, supplied))

-----------------------------------------------------------------------------
(* A caller answers the questions until there are none *)

CONSTANTS
    GuidanceCases,  \* contracts
    Supplies,       \* what a caller supplies at first
    AnswerValues    \* what it answers

\* A contract lists its rules and its questions, and a condition the conditions it joins.
Listed(s) == s \in Seq(ToSet(s))
ListedTree(e, Inner(_)) ==
    e.kind \in {"all", "any"} => Listed(e.children) /\ \A c \in ToSet(e.children) : Inner(c)
AnyTree(e) == TRUE
ListedTree1(e) == ListedTree(e, AnyTree)
ListedTree2(e) == ListedTree(e, ListedTree1)
ListedCondition(e) == ListedTree(e, ListedTree2)

ASSUME GuidanceAssumption ==
    \A g \in GuidanceCases :
        /\ Listed(g.defaults) /\ Listed(g.questions)
        /\ \A d \in ToSet(g.defaults) : ListedCondition(d.only_if)

VARIABLES guidance, supplied, verdict

dialogVars == <<guidance, supplied, verdict>>

Unasked == [kind |-> "unasked"]

DialogInit ==
    /\ guidance \in GuidanceCases /\ supplied \in Supplies
    /\ verdict = Unasked

RunPreflight ==
    /\ verdict = Unasked
    /\ verdict' = Preflight(guidance, supplied)
    /\ UNCHANGED <<guidance, supplied>>

AnswerQuestions ==
    /\ verdict.kind = "ambiguous"
    /\ \E v \in AnswerValues, fs \in SUBSET ToSet(verdict.fields) :
        supplied' = [f \in DOMAIN supplied \cup fs |-> IF f \in fs THEN v ELSE supplied[f]]
    /\ verdict' = Unasked
    /\ UNCHANGED guidance

DialogNext == RunPreflight \/ AnswerQuestions

DialogSpec == DialogInit /\ [][DialogNext]_dialogVars

-----------------------------------------------------------------------------
(* Properties *)

\* What preflight assumed is what the contract allows given everything that was settled in the
\* end: nothing supplied is replaced, a rule's value is taken exactly when its condition holds
\* of the final values, and what is asked is open (_effective_values, in three passes that
\* each see other values).
DefaultsExact ==
    /\ verdict.kind = "clear" =>
        LET final == verdict.values
        IN  /\ \A f \in DOMAIN supplied : final[f] = supplied[f]
            /\ \A f \in ToSet(RuleFields(guidance)) \ DOMAIN supplied :
                  LET rule == Rule(guidance, f)
                  IN  IF Holds(rule, final) = Bool(TRUE) THEN final[f] = rule.value
                      ELSE f \in DOMAIN final =>
                              \E i \in DOMAIN guidance.questions :
                                  /\ guidance.questions[i].field = f
                                  /\ guidance.questions[i].default = final[f]
            /\ \A i \in DOMAIN guidance.questions : guidance.questions[i].field \in DOMAIN final
    /\ verdict.kind = "ambiguous" =>
        verdict.fields # <<>> /\ ToSet(verdict.fields) \cap DOMAIN supplied = {}
=============================================================================
