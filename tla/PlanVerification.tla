--------------------------- MODULE PlanVerification ---------------------------
(***************************************************************************)
(* The plans of a workspace while an agent edits them, the compiler        *)
(* installs a formal contract in them and the three verifiers judge them:  *)
(* verify_plan (supervisor/plan_verifier.py, run by `plan verify` and by   *)
(* the completion gate), `plan-auditor-formal verify` and                  *)
(* `plan-auditor-formalize verify`.  A command reads the plans once; the   *)
(* answer of the external planner is any the process may give.             *)
(* The verifiers change nothing, so one of them judges each version of the *)
(* plans before the next edit.                                             *)
(***************************************************************************)
EXTENDS FormalContracts

CONSTANTS
  Workspaces,       \* the workspaces at the start: their plans, and how often they are edited
  MaxSearchStates,  \* MAX_SEARCH_STATES
  StateBounds,      \* the values of --max-states that are tried
  Answers           \* what the external planner may do

VARIABLES
  plans,     \* the active plans, in the order all_plan_refs lists them
  compiled,  \* the plans that are as the compiler left them
  edits,     \* bound: the edits and compilations that are left
  report     \* the last answer of a verifier, or None

vars == <<plans, compiled, edits, report>>

\* The plans are read from files: what is a list there is one here
ASSUME WorkspacesAssumption ==
  \A w \in Workspaces : w.plans \in Seq(ToSet(w.plans)) /\ \A p \in DOMAIN w.plans : IsPlan(w.plans[p])

ASSUME BoundsAssumption == MaxSearchStates \in Nat /\ StateBounds \subseteq Nat

-----------------------------------------------------------------------------
(* verify_plan *)

\* A step without a check other than file_exists and regex; the generated checks are run checks
Weak(step) == \A i \in DOMAIN step.verify : step.verify[i].kind = "check" /\ step.verify[i].weak

WeakSteps(plan) == {i \in DOMAIN plan.steps : Weak(plan.steps[i])}

CoverageChecked(plan, required) ==
  \/ required
  \/ plan.reqs # Undeclared
  \/ \E i \in DOMAIN plan.steps : plan.steps[i].covers # Undeclared

VerifyPlan(plan, requireCoverage) ==
  LET formal == AnalyzeFormalContract(plan, MaxSearchStates)
      verdict ==
        IF \/ plan.steps = <<>>
           \/ ~ OutputLinksValid(plan.steps)
           \/ formal.verdict = "REJECT"
           \/ ~ SemanticsValid(plan) THEN "REJECT"
        ELSE IF CoverageChecked(plan, requireCoverage) /\ ~ CoverageValid(plan)
        THEN IF requireCoverage THEN "REJECT" ELSE "REVISE"
        ELSE IF formal.verdict = "UNKNOWN"          THEN "REVISE"
        ELSE IF WeakSteps(plan) = DOMAIN plan.steps THEN "REJECT"
        ELSE IF WeakSteps(plan) # {}                THEN "REVISE"
        ELSE "PASS"
  IN  [verdict |-> verdict, formal |-> formal]

-----------------------------------------------------------------------------
(* plan-auditor-formal verify *)

\* Where the contracts of the workspace are: those with the wanted digest, or all (None)
Matches(workspace, wanted) ==
  UNION {{[plan |-> p, at |-> at] :
            at \in {a \in Anchors(workspace[p]) :
                      wanted = None \/ CheckAt(workspace[p], a).contract = wanted}} :
           p \in DOMAIN workspace}

MatchedCheck(workspace, match) == CheckAt(workspace[match.plan], match.at)

\* Their order in the workspace
NotAfter(match, other) ==
  \/ match.plan < other.plan
  \/ match.plan = other.plan /\ match.at.step < other.at.step
  \/ match.plan = other.plan /\ match.at.step = other.at.step /\ match.at.check <= other.at.check

\* With a planner of its own the caller overrides the command line of the check; without
\* one it is read from there, and a requirement read there stays for the contracts that follow
RequiredAt(workspace, matches, match, planner, required) ==
  \/ required
  \/ /\ planner = "none"
     /\ \E other \in matches : NotAfter(other, match) /\ MatchedCheck(workspace, other).required

\* The external planner makes the outcome a FAIL
CrossCheckFails(plan, check, verdict, planner, required, answer) ==
  LET selected == IF planner # "none" THEN planner ELSE check.planner
      status   == RunFastDownward(plan, check.contract, answer)
  IN  IF selected # "none"
      THEN /\ verdict = "PASS"
           /\ status # "SOLVED"
           /\ status = "UNAVAILABLE" => required
      ELSE required /\ status # "SOLVED"

\* What one contract counts for
MatchOutcome(workspace, matches, match, planner, required, max, answers) ==
  LET plan    == workspace[match.plan]
      verdict == AnalyzeFormalContract(plan, max).verdict
      must    == RequiredAt(workspace, matches, match, planner, required)
  IN  IF CrossCheckFails(plan, MatchedCheck(workspace, match), verdict, planner, must, answers[match.plan])
      THEN "FAIL"
      ELSE IF verdict \in {"PASS", "UNKNOWN"} THEN verdict ELSE "FAIL"

\* The worst of them decides
VerifyContracts(workspace, wanted, planner, required, max, answers) ==
  LET matches  == Matches(workspace, wanted)
      outcomes == {MatchOutcome(workspace, matches, m, planner, required, max, answers) : m \in matches}
  IN  IF matches = {} \/ "FAIL" \in outcomes THEN "FAIL"
      ELSE IF "UNKNOWN" \in outcomes THEN "UNKNOWN" ELSE "PASS"

FormalExitCode(outcome) == CASE outcome = "PASS" -> 0 [] outcome = "UNKNOWN" -> 3 [] outcome = "FAIL" -> 2

-----------------------------------------------------------------------------
(* plan-auditor-formalize verify *)

VerifyFormalizations(workspace, wanted) ==
  LET matches == {m \in Matches(workspace, wanted) : IsGenerated(MatchedCheck(workspace, m).contract)}
  IN  /\ matches # {}
      /\ \A m \in matches :
           /\ GeneratedValid(workspace[m.plan], MatchedCheck(workspace, m).contract)
           /\ SemanticsValid(workspace[m.plan])

-----------------------------------------------------------------------------
Init ==
  /\ \E workspace \in Workspaces : plans = workspace.plans /\ edits = workspace.edits
  /\ compiled = {}
  /\ report = None

Compile(p, asked, planner, required) ==
  /\ edits > 0
  /\ CompileSucceeds(plans[p], asked)
  /\ plans' = [plans EXCEPT ![p] = CompilePlan(@, asked, planner, required)]
  /\ compiled' = compiled \cup {p}
  /\ edits' = edits - 1
  /\ report' = None

\* What an agent changes in a step or in the requirements
EditedSteps(step) ==
  {[step EXCEPT !.deps = <<>>], [step EXCEPT !.requires = <<>>], [step EXCEPT !.outputs = <<>>],
   [step EXCEPT !.covers = <<>>], [step EXCEPT !.verify = <<>>]}

\* ... and in a contract, whose digest is recomputed
EditedContracts(contract) ==
  {[contract EXCEPT !.goals = @ \ {fact}] : fact \in contract.goals}
    \cup {[contract EXCEPT !.initial = @ \cup {fact}] : fact \in contract.goals}
    \cup {[contract EXCEPT !.initial = {}, !.actions = [i \in DOMAIN @ |-> [@[i] EXCEPT !.pre = {}]]]}
    \cup {[contract EXCEPT !.actions[i].add = @ \cup {fact}] :
            i \in DOMAIN contract.actions, fact \in contract.goals}

EditedChecks(check) ==
  IF check.kind = "formal"
  THEN {MakeFormalCheck(contract, check.planner, check.required) :
          contract \in EditedContracts(check.contract)}
  ELSE {}

EditedPlans(plan) ==
  LET steps == UNION {{[plan.steps EXCEPT ![i] = step] : step \in EditedSteps(plan.steps[i])} :
                        i \in DOMAIN plan.steps}
      checks == UNION {UNION {{[plan.steps EXCEPT ![i].verify[j] = check] :
                                 check \in EditedChecks(plan.steps[i].verify[j])} :
                                j \in DOMAIN plan.steps[i].verify} : i \in DOMAIN plan.steps}
      doubled == {[plan.steps EXCEPT ![i].verify = @ \o @] : i \in DOMAIN plan.steps}
  IN  {[plan EXCEPT !.steps = s] : s \in steps \cup checks \cup doubled}
        \cup {[plan EXCEPT !.reqs = Undeclared]}

Edit(p) ==
  /\ edits > 0
  /\ \E edited \in EditedPlans(plans[p]) : plans' = [plans EXCEPT ![p] = edited]
  /\ compiled' = compiled \ {p}
  /\ edits' = edits - 1
  /\ report' = None

PlanVerify(p, requireCoverage) ==
  /\ report = None
  /\ report' = [kind |-> "plan", plan |-> p, result |-> VerifyPlan(plans[p], requireCoverage)]
  /\ UNCHANGED <<plans, compiled, edits>>

FormalVerify(planner, required, max, answers) ==
  /\ report = None
  /\ report' = [kind |-> "formal", planner |-> planner, required |-> required, answers |-> answers,
                exit |-> FormalExitCode(VerifyContracts(plans, None, planner, required, max, answers))]
  /\ UNCHANGED <<plans, compiled, edits>>

FormalizeVerify ==
  /\ report = None
  /\ report' = [kind |-> "formalize", ok |-> VerifyFormalizations(plans, None)]
  /\ UNCHANGED <<plans, compiled, edits>>

Next ==
  \/ \E p \in DOMAIN plans :
       \/ \E asked \in {0} \cup Ids(plans[p].steps), planner \in {"none", "auto"}, required \in BOOLEAN :
            Compile(p, asked, planner, required)
       \/ Edit(p)
       \/ \E requireCoverage \in BOOLEAN : PlanVerify(p, requireCoverage)
  \/ \E planner \in {"none", "auto"}, required \in BOOLEAN, max \in StateBounds :
       \E answers \in [DOMAIN plans -> Answers] : FormalVerify(planner, required, max, answers)
  \/ FormalizeVerify

Spec == Init /\ [][Next]_vars

-----------------------------------------------------------------------------
(* Reference: what an order of the steps does in the exported problem *)

Executes(problem, order) ==
  LET facts[n \in 0..Len(order)] ==
        IF n = 0 THEN problem.init
        ELSE (facts[n - 1] \ problem.actions[order[n]].del) \cup problem.actions[order[n]].add
  IN  /\ \A n \in DOMAIN order : problem.actions[order[n]].pre \subseteq facts[n - 1]
      /\ problem.goal \subseteq facts[Len(order)]

Solvable(problem) == \E order \in SetToSeqs(DOMAIN problem.actions) : Executes(problem, order)

JudgedPlan == plans[report.plan]
JudgedContract == FormalCheck(JudgedPlan).contract
JudgedProblem == ExportPddl(JudgedPlan, JudgedContract)

HasOneContract(plan) ==
  /\ OneAnchor(plan)
  /\ AnchorArgvValid(FormalCheck(plan))
  /\ ContractValid(plan, FormalCheck(plan).contract)

\* Both internal planners agree with the problem that is exported for the external
\* one: a PASS comes with an order of all steps that executes in it, a REJECT of a
\* well-formed contract means that no order does, and UNKNOWN only follows a search
\* that took more states than its bound.
SolverIsRight ==
  report.kind = "plan" /\ HasOneContract(JudgedPlan) =>
    LET formal == report.result.formal
    IN  /\ formal.verdict = "PASS" =>
             /\ Executes(JudgedProblem, formal.order)
             /\ ToSet(formal.order) = Ids(JudgedPlan.steps)
        /\ formal.verdict = "REJECT" => ~ Solvable(JudgedProblem)
        /\ formal.verdict = "UNKNOWN" => formal.explored > MaxSearchStates

NoPaddedNames(plan) ==
  \A i \in DOMAIN plan.steps : \A ref \in RequiredOutputs(plan.steps[i]) : ref.name \notin DOMAIN Padded

\* What the compiler leaves is what the verifiers accept: a plan with valid output links is
\* never rejected for the contract the compiler derived from it, unless an output
\* is required by a name with blanks around it, which compiles to a fact nobody adds.
CompiledIsAccepted ==
  /\ report.kind = "plan" /\ report.plan \in compiled /\ OutputLinksValid(JudgedPlan.steps) =>
       (report.result.formal.verdict = "PASS" <=> NoPaddedNames(JudgedPlan))
  /\ report.kind = "formalize" /\ compiled = DOMAIN plans /\ compiled # {} => report.ok

\* Whatever was edited, in the plan or in the contract: when a plan with a contract passes, the
\* final state has every must or should requirement, and until a step that covers it has run
\* no order has it; and when the contract is a generated one, the audit's own order of the
\* steps, which is not the planner's, executes it too.
PassIsEarned ==
  report.kind = "plan" /\ Anchors(JudgedPlan) # {} /\ report.result.verdict \in {"PASS", "REVISE"} =>
    /\ \A req \in RequiredIds(JudgedPlan) :
         LET others == Ids(JudgedPlan.steps) \ CoveringSteps(JudgedPlan, req)
         IN  RequirementFact(req) \notin
               JudgedContract.initial \cup UNION {ActionOf(JudgedContract, id).add : id \in others}
    /\ report.result.formal.verdict = "PASS" =>
         \A req \in RequiredIds(JudgedPlan) : <<"fact", RequirementFact(req)>> \in JudgedProblem.goal
    /\ IsGenerated(JudgedContract) => Executes(JudgedProblem, TopologicalOrder(JudgedPlan.steps))

\* Exit 0 of plan-auditor-formal is a proof for every contract of every plan: its exported
\* problem has a solution, and where the caller or the command line of the check demands the
\* external planner, it gave a plan of all the steps.
ExitZeroIsProof ==
  report.kind = "formal" /\ report.exit = 0 =>
    /\ \E p \in DOMAIN plans : Anchors(plans[p]) # {}
    /\ \A p \in DOMAIN plans : Anchors(plans[p]) # {} =>
         /\ HasOneContract(plans[p])
         /\ Solvable(ExportPddl(plans[p], FormalCheck(plans[p]).contract))
         /\ \/ report.required
            \/ report.planner = "none" /\ FormalCheck(plans[p]).required
            => report.answers[p].kind = "plan" /\ ToSet(report.answers[p].order) = Ids(plans[p].steps)
=============================================================================
