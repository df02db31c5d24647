------------------------------- MODULE MCApproval -------------------------------
(* TLC instance of Approval: one plan in the versions that matter (as approved, *)
(* with one more check, with the check of the requirement gone), from every     *)
(* stage of the approval.                                                       *)
EXTENDS Approval, TLC

CONSTANT U   \* the model value of Undeclared

Req == [id |-> "R", description |-> "r", priority |-> "must", checks |-> {"test"}]

Plan(verify, deps) ==
  [task |-> "t", reqs |-> <<[id |-> "R", description |-> "r", priority |-> "must"]>>,
   tools |-> <<>>, traffic |-> U,
   steps |-> <<[id |-> 1, title |-> "s", deps |-> deps, requires |-> <<>>,
                outputs |-> <<[name |-> "out", meta |-> "m", checked |-> TRUE, checks |-> <<"exists">>]>>,
                covers |-> <<"R">>, verify |-> verify, status |-> "pending"]>>]

Approved == Plan(<<"test">>, U)
Stronger == Plan(<<"test", "lint">>, <<>>)
Weaker   == Plan(<<"lint">>, <<>>)

MCPlans == {Approved, Stronger, Weaker}
MCRequests == {<<Req>>}

MCCompiled(p) ==
  IF Contains(p.steps[1].verify, "formal") THEN p
  ELSE [p EXCEPT !.steps = <<[@[1] EXCEPT !.verify = Append(@, "formal")]>>]

Stages == {"fresh", "requested", "legacy", "sealed", "authenticated"}

Body(stamp) == [reqs |-> <<Req>>, stamp |-> stamp]

LegacySeal(p) == [version |-> 3, plan |-> p, hash |-> LegacyHash(p), env |-> [config |-> "c"], signed |-> FALSE]

Env(stamp) == [config |-> "c", request |-> Body(stamp)]

Start(stage, p, stamp) ==
  LET signed == stage = "authenticated"
      l == <<[id |-> 1, prev |-> 0, signed |-> signed]>>
  IN [plan |-> p, config |-> "c", signed |-> signed, log |-> l,
      head |-> IF signed THEN HeadOf(l) ELSE None,
      request |-> IF stage = "fresh" THEN None ELSE [reqs |-> <<Req>>, stamp |-> stamp, signed |-> signed],
      activation |-> IF stage = "fresh" THEN None ELSE [digest |-> Body(stamp), signed |-> signed],
      seal |-> CASE stage = "legacy" -> LegacySeal(p)
                 [] stage = "sealed" -> SealPlan(p, Env(stamp))
                 [] signed -> [SealPlan(p, Env(stamp)) EXCEPT !.signed = TRUE]
                 [] OTHER -> None]

MCStarts ==
  {Start("fresh", p, None) : p \in {None, Approved}}
    \cup {Start(stage, Approved, None) : stage \in {"requested", "sealed", "authenticated"}}
    \cup {Start(stage, Approved, PlanHash(Approved)) : stage \in {"requested", "legacy", "authenticated"}}

\* Each plan, compiled or not, as it is written and with the statuses of a run
MCVersions ==
  LET written == MCPlans \cup {MCCompiled(p) : p \in MCPlans}
  IN  written \cup {Stored(p) : p \in written}

Symmetry == Permutations(Slots)
=============================================================================
