---------------------------- MODULE FormalContracts ----------------------------
(***************************************************************************)
(* The formal contract of a plan: supervisor/formal_compiler.py derives it *)
(* from the structure of the plan and recompiles it to compare,            *)
(* supervisor/formal_planning.py parses it, solves it, exports it and asks *)
(* an external planner, supervisor/formal_semantics.py binds its goals to  *)
(* the requirements, supervisor/coverage.py the requirements to the steps. *)
(*                                                                         *)
(* A plan is [reqs, steps]: reqs a sequence of [id, priority, described]   *)
(* or Undeclared, steps as in PlanGraph with two more fields:              *)
(*   covers  a sequence of requirement ids, or Undeclared                  *)
(*   verify  a sequence of checks, of which three kinds matter: "check",   *)
(*           an ordinary one that is weak (file_exists, regex) or not;     *)
(*           "formal", the run check that carries a contract, the digest   *)
(*           on its command line and its planner flags; "semantic", the    *)
(*           generated recompilation check                                 *)
(* A contract is [initial, goals, actions], its facts tagged tuples, an    *)
(* action [step, pre, add, del].  A SHA-256 digest is what it is taken of. *)
(* Limits on lengths and counts, duplicates in a list of facts and unknown *)
(* fields, all structural errors of a contract, are left out.              *)
(***************************************************************************)
EXTENDS PlanGraph

CONSTANT Padded   \* output names with blanks around them: padded name -> stripped name

ASSUME PaddedAssumption == \A name \in DOMAIN Padded : Padded[name] \notin DOMAIN Padded

StripName(name) == IF name \in DOMAIN Padded THEN Padded[name] ELSE name

None == [kind |-> "none"]

IsStep(step) ==
  step \in [id : Int, deps : {step.deps}, outputs : {step.outputs}, requires : {step.requires},
            covers : {step.covers}, verify : Seq(ToSet(step.verify))]

IsPlan(plan) ==
  /\ plan \in [reqs : {plan.reqs}, steps : Seq(ToSet(plan.steps))]
  /\ \A i \in DOMAIN plan.steps : IsStep(plan.steps[i])

-----------------------------------------------------------------------------
(* Requirements and their coverage *)

Required == {"must", "should"}

\* _normalized_requirements, and coverage's own copy of it, find no error
RequirementsValid(reqs) ==
  /\ reqs # Undeclared
  /\ reqs # <<>>
  /\ Distinct([i \in DOMAIN reqs |-> reqs[i].id])
  /\ \A i \in DOMAIN reqs : reqs[i].described /\ reqs[i].priority \in Required \cup {"may"}

Requirements(plan) == IF plan.reqs = Undeclared THEN {} ELSE ToSet(plan.reqs)
RequiredIds(plan)  == {req.id : req \in {r \in Requirements(plan) : r.priority \in Required}}
KnownIds(plan)     == {req.id : req \in Requirements(plan)}

Covers(step) == IF step.covers = Undeclared THEN <<>> ELSE step.covers

CoversKnown(plan, step) ==
  /\ Distinct(Covers(step))
  /\ ToSet(Covers(step)) \subseteq KnownIds(plan)

CoveredIds(plan) == UNION {ToSet(Covers(plan.steps[i])) : i \in DOMAIN plan.steps}

\* analyze_coverage(plan).valid
CoverageValid(plan) ==
  /\ RequirementsValid(plan.reqs)
  /\ \A i \in DOMAIN plan.steps : plan.steps[i].id >= 1 /\ CoversKnown(plan, plan.steps[i])
  /\ RequiredIds(plan) \subseteq CoveredIds(plan)

-----------------------------------------------------------------------------
(* The compiler *)

RequirementFact(req) == <<"requirement", req>>
StepFact(id)         == <<"step", id>>
OutputFact(id, name) == <<"output", id, name>>

\* The checks that are neither an anchor nor a recompilation check
OrdinaryChecks(checks) ==
  LET kept[n \in 0..Len(checks)] ==
        IF n = 0 THEN <<>>
        ELSE IF checks[n].kind = "check" THEN Append(kept[n - 1], checks[n]) ELSE kept[n - 1]
  IN  kept[Len(checks)]

\* Mutant: the fingerprint covers the checks the compiler installs
SourceProjectionWhole(plan) ==
  [reqs |-> plan.reqs, steps |-> [i \in DOMAIN plan.steps |-> plan.steps[i].verify]]

Projected(step) ==
  [id |-> step.id, deps |-> Parents(step), requires |-> step.requires, covers |-> Covers(step),
   outputs |-> step.outputs, verify |-> OrdinaryChecks(step.verify)]

\* The part of the plan the source fingerprint is taken of: all but what the
\* compiler itself installs
SourceProjection(plan) ==
  [reqs |-> plan.reqs, steps |-> [i \in DOMAIN plan.steps |-> Projected(plan.steps[i])]]

SourceFact(plan) == <<"source", SourceProjection(plan)>>

SourceMarkers(contract) == {fact \in contract.initial : fact[1] = "source"}

IsGenerated(contract) == SourceMarkers(contract) # {}

\* The names the compiler knows an output by are stripped, those it is required by are not
StepOutputNames(step) == [i \in DOMAIN step.outputs |-> StripName(step.outputs[i].name)]

\* compile_contract raises nothing
Compilable(plan) ==
  /\ RequirementsValid(plan.reqs)
  /\ RequiredIds(plan) # {}
  /\ plan.steps # <<>>
  /\ GraphValid(plan.steps)
  /\ \A i \in DOMAIN plan.steps : /\ Distinct(StepOutputNames(plan.steps[i]))
                                  /\ RequiredDeclared(plan.steps[i])
                                  /\ CoversKnown(plan, plan.steps[i])
  /\ EdgesBound(plan.steps)
  /\ RequiredIds(plan) \subseteq CoveredIds(plan)

OutputFacts(step) == {OutputFact(step.id, name) : name \in ToSet(StepOutputNames(step))}

CompileAction(plan, step) ==
  [step |-> step.id,
   pre  |-> {SourceFact(plan)} \cup {OutputFact(ref.step, ref.name) : ref \in RequiredOutputs(step)},
   add  |-> {StepFact(step.id)} \cup OutputFacts(step)
              \cup {RequirementFact(id) : id \in ToSet(Covers(step)) \cap RequiredIds(plan)},
   del  |-> {}]

CompileContract(plan) ==
  [initial |-> {SourceFact(plan)},
   goals   |-> {RequirementFact(id) : id \in RequiredIds(plan)}
                 \cup UNION {{StepFact(plan.steps[i].id)} \cup OutputFacts(plan.steps[i]) :
                               i \in DOMAIN plan.steps},
   actions |-> [i \in DOMAIN plan.steps |-> CompileAction(plan, plan.steps[i])]]

\* validate_generated_contract finds no error: recompile and compare exactly
GeneratedValid(plan, contract) ==
  IsGenerated(contract) =>
    /\ SourceMarkers(contract) = {SourceFact(plan)}
    /\ Compilable(plan)
    /\ contract = CompileContract(plan)

\* find_formal_anchors: where the checks with a contract are, [step, check]
Anchors(plan) ==
  UNION {{[step |-> i, check |-> j] : j \in {k \in DOMAIN plan.steps[i].verify :
                                               plan.steps[i].verify[k].kind = "formal"}} :
           i \in DOMAIN plan.steps}

CheckAt(plan, at) == plan.steps[at.step].verify[at.check]

OneAnchor(plan) == \E at \in Anchors(plan) : Anchors(plan) = {at}

\* The check that carries the contract, where there is one
FormalCheck(plan) == CheckAt(plan, CHOOSE at \in Anchors(plan) : TRUE)

\* A manual contract is not overwritten, and several are not sorted out
Strippable(plan) ==
  Anchors(plan) # {} => OneAnchor(plan) /\ IsGenerated(FormalCheck(plan).contract)

Stripped(step) == [step EXCEPT !.verify = OrdinaryChecks(@)]

StripGeneratedChecks(plan) ==
  [plan EXCEPT !.steps = [i \in DOMAIN plan.steps |-> Stripped(plan.steps[i])]]

\* The step the contract is anchored at: the one asked for (0: none), the one
\* before, else the first root
AnchorStep(plan, asked) ==
  LET roots == {id \in Ids(plan.steps) : EffectiveDependencies(plan.steps)[id] = {}}
  IN  IF asked # 0 THEN asked
      ELSE IF Anchors(plan) # {} THEN plan.steps[(CHOOSE at \in Anchors(plan) : TRUE).step].id
      ELSE IF roots = {} THEN plan.steps[1].id
      ELSE CHOOSE id \in roots : \A other \in roots : id <= other

\* compile_plan raises nothing
CompileSucceeds(plan, asked) ==
  /\ Strippable(plan)
  /\ Compilable(StripGeneratedChecks(plan))
  /\ AnchorStep(plan, asked) \in Ids(plan.steps)

MakeFormalCheck(contract, planner, required) ==
  [kind |-> "formal", contract |-> contract, digest |-> contract,
   planner |-> planner, required |-> required]

MakeSemanticCheck(contract) == [kind |-> "semantic", digest |-> contract]

CompilePlan(plan, asked, planner, required) ==
  LET base     == StripGeneratedChecks(plan)
      contract == CompileContract(base)
      at       == CHOOSE i \in DOMAIN base.steps : base.steps[i].id = AnchorStep(plan, asked)
  IN  [base EXCEPT !.steps[at].verify =
         <<MakeFormalCheck(contract, planner, required), MakeSemanticCheck(contract)>> \o @]

-----------------------------------------------------------------------------
(* The internal planner *)

KnownSources(contract) ==
  contract.initial \cup UNION {contract.actions[i].add : i \in DOMAIN contract.actions}

\* _parse_contract finds no error
ContractValid(plan, contract) ==
  LET actions == contract.actions
      known   == KnownSources(contract)
  IN  /\ contract.goals # {}
      /\ Distinct([i \in DOMAIN actions |-> actions[i].step])
      /\ {actions[i].step : i \in DOMAIN actions} = Ids(plan.steps)
      /\ Len(actions) = Len(plan.steps)
      /\ \A i \in DOMAIN actions : /\ actions[i].add \cap actions[i].del = {}
                                   /\ actions[i].pre \cup actions[i].del \subseteq known
      /\ contract.goals \subseteq known
      /\ GraphValid(plan.steps)

\* _anchor_argv_errors finds none: the command line names this very contract
AnchorArgvValid(check) == check.digest = check.contract

Monotonic(contract) == \A i \in DOMAIN contract.actions : contract.actions[i].del = {}

ActionOf(contract, id) ==
  contract.actions[CHOOSE i \in DOMAIN contract.actions : contract.actions[i].step = id]

Applicable(action, facts, done, deps) == deps[action.step] \subseteq done /\ action.pre \subseteq facts

ApplyAction(action, facts) == (facts \ action.del) \cup action.add

Answer(verdict, order, explored) == [verdict |-> verdict, order |-> order, explored |-> explored]

\* One turn: the lowest applicable step, if there is one
Advanced(contract, deps, s) ==
  LET candidates == {id \in DOMAIN deps \ ToSet(s.order) :
                       Applicable(ActionOf(contract, id), s.facts, ToSet(s.order), deps)}
      lowest     == CHOOSE id \in candidates : \A other \in candidates : id <= other
  IN  IF candidates = {} THEN s
      ELSE [facts |-> ApplyAction(ActionOf(contract, lowest), s.facts), order |-> Append(s.order, lowest)]

\* Facts only accumulate, so no choice is ever wrong
MonotonicSolve(contract, deps) ==
  LET turns == Cardinality(DOMAIN deps)
      state[n \in 0..turns] ==
        IF n = 0 THEN [facts |-> contract.initial, order |-> <<>>]
        ELSE Advanced(contract, deps, state[n - 1])
      end   == state[turns]
  IN  Answer(IF Len(end.order) = turns /\ contract.goals \subseteq end.facts
             THEN "PASS" ELSE "REJECT", end.order, Len(end.order) + 1)

\* Mutant: the facts that already hold do not count for the goals
FutureImpossibleBlind(contract, facts, done) ==
  LET left == {id \in {contract.actions[i].step : i \in DOMAIN contract.actions} : id \notin done}
  IN  ~ (contract.goals \subseteq UNION {ActionOf(contract, id).add : id \in left})

\* Nothing left can still produce a missing goal, or what a step that is left needs
FutureImpossible(contract, facts, done) ==
  LET left    == {id \in {contract.actions[i].step : i \in DOMAIN contract.actions} : id \notin done}
      adds(S) == UNION {ActionOf(contract, id).add : id \in S}
  IN  \/ ~ (contract.goals \ facts \subseteq adds(left))
      \/ \E id \in left : ~ (ActionOf(contract, id).pre \ facts \subseteq adds(left \ {id}))

InOrder(ids) ==
  CHOOSE seq \in [1..Cardinality(ids) -> ids] :
    /\ ToSet(seq) = ids
    /\ \A i, j \in DOMAIN seq : i < j => seq[i] < seq[j]

Successor(contract, node, id) ==
  [facts |-> ApplyAction(ActionOf(contract, id), node.facts),
   done  |-> node.done \cup {id},
   order |-> Append(node.order, id)]

Seen(node) == <<node.facts, node.done>>

\* The states one step away that were not seen before, in the order of the step ids; what
\* is done tells them from each other
Successors(contract, deps, node, seen) ==
  LET fresh == {id \in DOMAIN deps \ node.done :
                  /\ Applicable(ActionOf(contract, id), node.facts, node.done, deps)
                  /\ Seen(Successor(contract, node, id)) \notin seen}
      ids   == InOrder(fresh)
  IN  [i \in DOMAIN ids |-> Successor(contract, node, ids[i])]

Start(contract) == [facts |-> contract.initial, done |-> {}, order |-> <<>>]

\* One turn of the loop of the breadth-first search
SearchTurn(contract, deps, max, s) ==
  LET node     == Head(s.queue)
      explored == s.explored + 1
      after    == [s EXCEPT !.queue = Tail(@), !.explored = explored]
      found    == Successors(contract, deps, node, s.seen)
  IN  IF s.verdict # "searching" THEN s
      ELSE IF s.queue = <<>> THEN [s EXCEPT !.verdict = "REJECT", !.order = <<>>]
      ELSE IF explored > max THEN [after EXCEPT !.verdict = "UNKNOWN", !.order = node.order]
      ELSE IF node.done = DOMAIN deps
      THEN IF contract.goals \subseteq node.facts
           THEN [after EXCEPT !.verdict = "PASS", !.order = node.order] ELSE after
      ELSE IF FutureImpossible(contract, node.facts, node.done) THEN after
      ELSE [after EXCEPT !.queue = @ \o found,
                         !.seen  = @ \cup {Seen(n) : n \in ToSet(found)}]

\* The loop ends within max + 1 turns that take a node, and one that finds none
SearchSolve(contract, deps, max) ==
  LET turns == max + 2
      state[n \in 0..turns] ==
        IF n = 0
        THEN [queue |-> <<Start(contract)>>, seen |-> {Seen(Start(contract))},
              explored |-> 0, verdict |-> "searching", order |-> <<>>]
        ELSE SearchTurn(contract, deps, max, state[n - 1])
      end   == state[turns]
  IN  Answer(end.verdict, end.order, end.explored)

Disabled == [enabled |-> FALSE, verdict |-> "PASS", order |-> <<>>, explored |-> 0]

Rejected == [enabled |-> TRUE, verdict |-> "REJECT", order |-> <<>>, explored |-> 0]

AnalyzeFormalContract(plan, max) ==
  LET contract == FormalCheck(plan).contract
      deps     == EffectiveDependencies(plan.steps)
      answer   == IF Monotonic(contract) THEN MonotonicSolve(contract, deps)
                  ELSE SearchSolve(contract, deps, max)
  IN  IF Anchors(plan) = {} THEN Disabled
      ELSE IF \/ ~ OneAnchor(plan)
              \/ ~ AnchorArgvValid(FormalCheck(plan))
              \/ ~ ContractValid(plan, contract) THEN Rejected
      ELSE [enabled |-> TRUE, verdict |-> answer.verdict,
            order |-> answer.order, explored |-> answer.explored]

-----------------------------------------------------------------------------
(* The exported problem and the external planner *)

\* _fact_mapping: a fact of the contract has a name of its own in the problem
Named(facts) == {<<"fact", fact>> : fact \in facts}

\* export_pddl: every step an action that is used once and waits for its parents
ExportPddl(plan, contract) ==
  LET deps  == EffectiveDependencies(plan.steps)
      steps == Ids(plan.steps)
  IN  [init |-> Named(contract.initial) \cup {<<"unused", id>> : id \in steps},
       goal |-> Named(contract.goals) \cup {<<"done", id>> : id \in steps},
       actions |-> [id \in steps |->
          LET action == ActionOf(contract, id)
          IN  [pre |-> {<<"unused", id>>} \cup {<<"done", parent>> : parent \in deps[id]} \cup Named(action.pre),
               add |-> {<<"done", id>>} \cup Named(action.add),
               del |-> {<<"unused", id>>} \cup Named(action.del)]]]

\* Mutant: a plan file counts whatever is in it
RunAnyPlan(plan, contract, answer) ==
  CASE answer.kind = "unavailable" -> "UNAVAILABLE"
    [] answer.kind = "plan"        -> "SOLVED"
    [] OTHER                       -> "ERROR"

\* run_fast_downward: what becomes of an answer.  A plan file counts when it names
\* every step once; nothing else of it is looked at
RunFastDownward(plan, contract, answer) ==
  IF answer.kind = "unavailable" THEN "UNAVAILABLE"
  ELSE IF ~ ContractValid(plan, contract) THEN "ERROR"
  ELSE CASE answer.kind = "timeout"     -> "TIMEOUT"
         [] answer.kind = "no solution" -> "UNSOLVABLE"
         [] answer.kind = "plan"        ->
              IF Len(answer.order) = Len(plan.steps) /\ ToSet(answer.order) = Ids(plan.steps)
              THEN "SOLVED" ELSE "ERROR"
         [] OTHER                       -> "ERROR"

-----------------------------------------------------------------------------
(* The binding of goals to requirements *)

Producers(contract, fact) ==
  {contract.actions[i].step : i \in {j \in DOMAIN contract.actions : fact \in contract.actions[j].add}}

CoveringSteps(plan, req) ==
  {plan.steps[i].id : i \in {j \in DOMAIN plan.steps : req \in ToSet(Covers(plan.steps[j]))}}

\* Mutant: one covering producer is enough
EarnedSomehow(plan, contract, req) ==
  /\ RequirementFact(req) \in contract.goals \ contract.initial
  /\ Producers(contract, RequirementFact(req)) \cap CoveringSteps(plan, req) # {}

\* A goal that is not true from the start and is produced by covering steps only
Earned(plan, contract, req) ==
  /\ RequirementFact(req) \in contract.goals \ contract.initial
  /\ Producers(contract, RequirementFact(req)) # {}
  /\ Producers(contract, RequirementFact(req)) \subseteq CoveringSteps(plan, req)

\* analyze_formal_semantics(plan).valid
SemanticsValid(plan) ==
  LET contract == FormalCheck(plan).contract
  IN  Anchors(plan) # {} =>
        /\ OneAnchor(plan)
        /\ GeneratedValid(plan, contract)
        /\ \A i \in DOMAIN contract.actions : contract.actions[i].add \cup contract.actions[i].del # {}
        /\ \A req \in RequiredIds(plan) : Earned(plan, contract, req)
=============================================================================
