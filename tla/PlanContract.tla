----------------------------- MODULE PlanContract -----------------------------
(***************************************************************************)
(* What a plan promises and who approved it: scripts/contract.py, the      *)
(* comparisons of supervisor/sealing.py, and the alignment of              *)
(* supervisor/request_contract.py.                                         *)
(*                                                                         *)
(* A plan is a record [task, reqs, tools, traffic, steps].  Its steps have *)
(* the fields of PlanGraph and                                             *)
(*   title, covers, status                                                 *)
(*   verify    a sequence of checks                                        *)
(*   outputs   a sequence of [name, meta, checked, checks]                 *)
(* A digest is the value it digests.  The ids of the steps are distinct,   *)
(* as validate_plan requires of every plan that is sealed or run.          *)
(***************************************************************************)
EXTENDS PlanGraph

-----------------------------------------------------------------------------
(* The contract and its digests *)

ContractStep(step, deps) ==
  [id |-> step.id, title |-> step.title, deps |-> deps, requires |-> step.requires,
   outputs |-> step.outputs, covers |-> step.covers, verify |-> step.verify]

\* Dependencies that are not declared are written out; those of an invalid graph stay
ContractPlan(plan) ==
  LET deps(step) == IF GraphValid(plan.steps) THEN Parents(step) ELSE step.deps
  IN  [plan EXCEPT !.steps = [i \in DOMAIN @ |-> ContractStep(@[i], deps(@[i]))]]

PlanHash(plan) == ContractPlan(plan)

\* The digest of format 3: raw dependencies, and no outbound traffic
LegacyHash(plan) ==
  [task |-> plan.task, reqs |-> plan.reqs, tools |-> plan.tools,
   steps |-> [i \in DOMAIN plan.steps |-> ContractStep(plan.steps[i], plan.steps[i].deps)]]

-----------------------------------------------------------------------------
(* check_monotonic *)

Count(list, x) == Cardinality({i \in DOMAIN list : list[i] = x})

MultisetContains(before, after) ==
  \A x \in ToSet(before) : Count(before, x) <= Count(after, x)

SameMultiset(left, right) == Len(left) = Len(right) /\ MultisetContains(left, right)

OutputMap(step) ==
  LET last(name) == CHOOSE i \in DOMAIN step.outputs :
                      /\ step.outputs[i].name = name
                      /\ \A j \in DOMAIN step.outputs : step.outputs[j].name = name => j <= i
  IN  [name \in OutputIndex(step) |-> step.outputs[last(name)]]

OutputKept(before, now) ==
  /\ before.name = now.name /\ before.meta = now.meta
  /\ MultisetContains(before.checks, now.checks)

StepKept(before, now) ==
  /\ before.id = now.id /\ before.title = now.title
  /\ MultisetContains(before.verify, now.verify)
  /\ MultisetContains(Parents(before), Parents(now))
  /\ MultisetContains(before.requires, now.requires)
  /\ SameMultiset(before.covers, now.covers)
  /\ LET was == OutputMap(before)  is == OutputMap(now) IN
       /\ DOMAIN was = DOMAIN is
       /\ \A name \in DOMAIN was : OutputKept(was[name], is[name])

RequirementsKept(before, now) ==
  IF Undeclared \in {before, now} THEN before = now ELSE SameMultiset(before, now)

\* The hosts of outbound traffic, without their order and their case
TrafficScope(traffic) ==
  IF traffic = Undeclared THEN Undeclared ELSE {traffic[i].host : i \in DOMAIN traffic}

CheckMonotonic(before, now) ==
  /\ Len(before.steps) = Len(now.steps)
  /\ \A i \in DOMAIN before.steps : StepKept(before.steps[i], now.steps[i])
  /\ before.task = now.task
  /\ RequirementsKept(before.reqs, now.reqs)
  /\ SameMultiset(before.tools, now.tools)
  /\ TrafficScope(before.traffic) = TrafficScope(now.traffic)

-----------------------------------------------------------------------------
(* analyze_request_alignment *)

DeclaredRequirements(plan) == IF plan.reqs = Undeclared THEN {} ELSE ToSet(plan.reqs)

States(plan, req) ==
  \E item \in DeclaredRequirements(plan) :
    /\ item.id = req.id
    /\ item.description = req.description /\ item.priority = req.priority

\* The checks of the steps that cover a requirement in the plans that state it
CoveringSteps(plans, req) ==
  {step \in UNION {ToSet(plan.steps) : plan \in {p \in plans : States(p, req)}} :
     req.id \in ToSet(step.covers)}

Aligned(plans, request) ==
  /\ request # <<>>
  /\ \A i \in DOMAIN request :
       LET req == request[i]  steps == CoveringSteps(plans, req) IN
         /\ \E plan \in plans : States(plan, req)
         /\ req.priority \in {"must", "should"} =>
              /\ steps # {}
              /\ req.checks \subseteq UNION {ToSet(step.verify) : step \in steps}
=============================================================================
