-------------------------- MODULE MCPlanVerification --------------------------
(* TLC instance of PlanVerification: every plan of two steps over one required  *)
(* requirement and one output, for the compiler and the edits, alone or beside  *)
(* one that needs the external planner; and three steps with hand-written       *)
(* contracts that add and delete two facts, for the two internal planners.      *)
EXTENDS PlanVerification, TLC

CONSTANT U   \* the model value of Undeclared

MCPadded == "out " :> "out"

Must == [id |-> "R", priority |-> "must", described |-> TRUE]
May  == [id |-> "S", priority |-> "may", described |-> TRUE]

Check(weak) == [kind |-> "check", weak |-> weak]

Output(name) == [name |-> name, checked |-> TRUE]
Ref(id, name) == [step |-> id, name |-> name]

First == [id : {1}, deps : {U, <<>>}, requires : {<<>>},
          outputs : {<<>>, <<Output("out")>>, <<Output("out ")>>},
          covers : {U, <<"R">>}, verify : {<<Check(FALSE)>>}]

Second == [id : {2}, deps : {U, <<>>, <<1>>}, requires : {<<>>, <<Ref(1, "out")>>, <<Ref(1, "out ")>>},
           outputs : {<<Output("out")>>}, covers : {U, <<"R">>, <<"S">>},
           verify : {<<Check(FALSE)>>, <<Check(TRUE)>>}]

Structured == [reqs : {U, <<Must>>}, steps : {<<f>> : f \in First} \cup {<<f, s>> : f \in First, s \in Second}]

\* Hand-written contracts
R == RequirementFact("R")
F == <<"fact", "f">>

Action(id, pre, add, del) == [step |-> id, pre |-> pre, add |-> add, del |-> del]

Kinds(id) == {Action(id, {}, {F}, {}), Action(id, {F}, {R}, {}), Action(id, {F}, {R}, {F}),
              Action(id, {}, {F}, {R}), Action(id, {R}, {F}, {}), Action(id, {R}, {R}, {F}),
              Action(id, {}, {R}, {}), Action(id, {}, {}, {})}

Contracts == [initial : {{}, {F}}, goals : {{R}, {R, F}},
              actions : {<<a, b, c>> : a \in Kinds(1), b \in Kinds(2), c \in Kinds(3)}]

Step(id, deps, requires, covers, verify) ==
  [id |-> id, deps |-> deps, requires |-> requires, outputs |-> <<Output("out")>>,
   covers |-> covers, verify |-> verify]

Linked(deps) == [i \in DOMAIN deps |-> Ref(deps[i], "out")]

Manual(contract, third) ==
  [reqs  |-> <<Must>>,
   steps |-> <<Step(1, third, Linked(third), <<"R">>, <<MakeFormalCheck(contract, "none", FALSE)>>),
               Step(2, <<>>, <<>>, <<"R">>, <<Check(FALSE)>>),
               Step(3, <<>>, <<>>, U, <<Check(FALSE)>>)>>]

Linear ==
  [reqs |-> <<Must, May>>, steps |-> <<Step(1, <<>>, <<>>, <<"R">>, <<Check(FALSE)>>),
                                       Step(2, <<1>>, Linked(<<1>>), <<"R", "S">>, <<Check(TRUE)>>)>>]

Cyclic ==
  [reqs |-> <<Must>>, steps |-> <<Step(1, <<2>>, Linked(<<2>>), U, <<Check(FALSE)>>),
                                  Step(2, <<1>>, Linked(<<1>>), <<"R">>, <<Check(FALSE)>>)>>]

MCWorkspaces ==
  [plans : {<<plan>> : plan \in Structured}, edits : {1}]
    \cup [plans : {<<Manual(contract, third)>> : contract \in Contracts, third \in {<<>>, <<3>>}}, edits : {0}]
    \cup [plans : {<<Linear>>, <<Cyclic>>}, edits : {2}]
    \cup [plans : {<<CompilePlan(Linear, 2, "auto", TRUE), CompilePlan(Linear, 0, "none", FALSE)>>}, edits : {1}]

MCAnswers == [kind : {"unavailable", "no solution"}] \cup [kind : {"plan"}, order : {<<1, 2>>, <<1, 1>>}]
=============================================================================
