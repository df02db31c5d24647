----------------------------- MODULE MCSupervision -----------------------------
(* TLC instance of Supervision: daemons and commands beside a finished and an     *)
(* unused workspace, and without them every workspace that is at most two changes *)
(* away from a finished one of one or two plans, with custom rules of each kind.  *)
EXTENDS Supervision, TLC

Plan == [loads |-> TRUE, passes |-> TRUE, sealedFor |-> "standard", monotonic |-> TRUE,
         proof |-> TRUE, pending |-> FALSE, failing |-> FALSE, tools |-> TRUE,
         traffic |-> "none", severe |-> FALSE]

Finished(plans, rules) ==
  [raises |-> FALSE, plans |-> plans, request |-> "valid", aligned |-> TRUE, trace |-> TRUE,
   chain |-> TRUE, anchored |-> TRUE, keyed |-> TRUE, registry |-> TRUE, profile |-> "standard",
   configValid |-> TRUE, policyValid |-> TRUE, rules |-> rules, conflicts |-> FALSE, secret |-> FALSE]

Unused == [Finished(<<>>, {}) EXCEPT !.request = "absent", !.trace = FALSE]

Rule(level, kind, field) == [level |-> level, kind |-> kind, field |-> field]

RuleSets ==
  {{}, {Rule(4, "require_empty", "agent_conflicts")},
   {Rule(4, "require_empty", "agent_conflicts"), Rule(5, "require_truthy", "seal_ok")},
   {Rule(5, "require_empty", "agent_conflicts"), Rule(0, "require_truthy", "agent_registry_valid")}}

Judged == [ws : {Finished(plans, rules) : plans \in {<<Plan>>, <<Plan, Plan>>}, rules \in RuleSets},
           facts : {Facts}, edits : {2}, commands : {0}, crashes : {0}]

Watched == [ws : {Finished(<<Plan>>, {})}, facts : {{"pending"}}, edits : {1}, commands : {2}, crashes : {1}]

Begun == [ws : {Unused}, facts : {{}}, edits : {0}, commands : {3}, crashes : {1}]

MCStarts == Judged \cup Watched \cup Begun
=============================================================================
