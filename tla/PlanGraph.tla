------------------------------- MODULE PlanGraph -------------------------------
(***************************************************************************)
(* scripts/plan_graph.py: the dependency graph of a plan and the outputs   *)
(* that pass along its edges.                                              *)
(*                                                                         *)
(* The steps of a plan are a sequence of records with at least the fields  *)
(*   id        an integer, positive when it is valid                       *)
(*   deps      depends_on, a sequence of ids, or Undeclared                *)
(*   outputs   a sequence of [name, checked]: checked when the output has  *)
(*             checks of its own                                           *)
(*   requires  requires_outputs, a sequence of [step, name]                *)
(* A PlanGraphError is the falsity of the predicate that would raise it; a *)
(* field of the wrong JSON type is such an error and is left out.          *)
(***************************************************************************)
EXTENDS Integers, FiniteSets, Sequences, SequencesExt

CONSTANT Undeclared   \* a field the plan does not have

Ids(steps) == {steps[i].id : i \in DOMAIN steps}

Distinct(seq) == Cardinality(ToSet(seq)) = Len(seq)

StepIndexed(steps) ==
  /\ \A i \in DOMAIN steps : steps[i].id >= 1
  /\ Cardinality(Ids(steps)) = Len(steps)

Parents(step) == IF step.deps = Undeclared THEN <<>> ELSE step.deps

\* effective_dependencies raises nothing
GraphValid(steps) ==
  /\ StepIndexed(steps)
  /\ Len(steps) > 1 => \A i \in DOMAIN steps : steps[i].deps # Undeclared
  /\ \A i \in DOMAIN steps :
       /\ Distinct(Parents(steps[i]))
       /\ ToSet(Parents(steps[i])) \subseteq Ids(steps) \ {steps[i].id}

StepOf(steps, id) == steps[CHOOSE i \in DOMAIN steps : steps[i].id = id]

EffectiveDependencies(steps) ==
  [id \in Ids(steps) |-> ToSet(Parents(StepOf(steps, id)))]

\* The positions of the steps that may come next
Ready(steps, order) ==
  {i \in DOMAIN steps : /\ steps[i].id \notin ToSet(order)
                        /\ EffectiveDependencies(steps)[steps[i].id] \subseteq ToSet(order)}

Placed(steps, order) ==
  LET first == CHOOSE i \in Ready(steps, order) : \A j \in Ready(steps, order) : i <= j
  IN  IF Ready(steps, order) = {} THEN order ELSE Append(order, steps[first].id)

\* Kahn's algorithm with ties broken by the position in the plan; on a cycle the
\* order stops before the steps of the cycle
TopologicalOrder(steps) ==
  LET order[n \in 0..Len(steps)] == IF n = 0 THEN <<>> ELSE Placed(steps, order[n - 1])
  IN  order[Len(steps)]

\* topological_order raises nothing
Acyclic(steps) == GraphValid(steps) /\ Len(TopologicalOrder(steps)) = Len(steps)

Gathered(steps, closure, id) ==
  LET parents == EffectiveDependencies(steps)[id]
  IN  [closure EXCEPT ![id] = parents \cup UNION {closure[parent] : parent \in parents}]

\* Each step's direct and indirect dependencies, gathered along the order
TransitiveDependencies(steps) ==
  LET order == TopologicalOrder(steps)
      closure[n \in 0..Len(order)] ==
        IF n = 0 THEN [id \in Ids(steps) |-> {}] ELSE Gathered(steps, closure[n - 1], order[n])
  IN  closure[Len(order)]

\* output_index raises nothing
OutputsDeclared(step) ==
  /\ Distinct([i \in DOMAIN step.outputs |-> step.outputs[i].name])
  /\ \A i \in DOMAIN step.outputs : step.outputs[i].checked

OutputIndex(step) == {step.outputs[i].name : i \in DOMAIN step.outputs}

\* required_outputs raises nothing
RequiredDeclared(step) ==
  /\ Distinct(step.requires)
  /\ \A i \in DOMAIN step.requires : step.requires[i].step >= 1

RequiredOutputs(step) == ToSet(step.requires)

LinkedSources(step) == {ref.step : ref \in RequiredOutputs(step)}

\* Also the second look of plan_verifier at the edges of a plan that declares them
EdgesBound(steps) ==
  \A i \in DOMAIN steps : ToSet(Parents(steps[i])) \subseteq LinkedSources(steps[i])

\* validate_output_links finds no error
OutputLinksValid(steps) ==
  /\ Acyclic(steps)
  /\ \A i \in DOMAIN steps : OutputsDeclared(steps[i]) /\ RequiredDeclared(steps[i])
  /\ EdgesBound(steps)
  /\ \A i \in DOMAIN steps : \A ref \in RequiredOutputs(steps[i]) :
       /\ ref.step \in TransitiveDependencies(steps)[steps[i].id]
       /\ ref.name \in OutputIndex(StepOf(steps, ref.step))
=============================================================================
