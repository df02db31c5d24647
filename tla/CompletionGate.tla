----------------------------- MODULE CompletionGate -----------------------------
(***************************************************************************)
(* The verdict on a workspace: evaluate_workspace of                       *)
(* supervisor/orchestrator.py with the policy engine (policies.py), the    *)
(* priority layer (priority.py), the gate (gate.py), the lifecycle         *)
(* (lifecycle.py) and what the two hooks make of it.                       *)
(*                                                                         *)
(* A workspace is a record of what the evaluation finds:                   *)
(*   raises     a path or a name in the control plane is unsafe            *)
(*   plans      the active plans, by name                                  *)
(*   request    "absent", "invalid" or "valid"                             *)
(*   aligned    the plans that load serve the request                      *)
(*   trace      auditor state besides plans, request and assessment        *)
(*   chain, anchored, keyed, registry                                      *)
(*              the active log, the archives and the registry verify, and  *)
(*              a usable key exists                                        *)
(*   profile, configValid, policyValid                                     *)
(*              the configuration and the policy files                     *)
(*   rules      the custom rules: [level, kind, field]                     *)
(*   conflicts, secret                                                     *)
(*              live agents share a file; a log line looks like a secret   *)
(* and a plan of                                                           *)
(*   loads, passes     it is valid JSON; its schema and verify_plan pass   *)
(*   sealedFor         the profile in its seal, or "none" without a usable *)
(*                     seal of the current format                          *)
(*   monotonic, proof  it still meets its seal; fresh_full_audit_proof     *)
(*   pending, failing  a step is not verified; a stored result failed      *)
(*   tools             the tools it requires are there                     *)
(*   traffic           "none", "ok" or "bad"                               *)
(*   severe            the adversarial review finds something high         *)
(***************************************************************************)
EXTENDS Integers, FiniteSetsExt, SequencesExt

Profiles == {"standard", "strict"}
Outcomes == {"PASS", "FAIL", "UNKNOWN", "NO_PLAN"}

Plans ==
  [loads : BOOLEAN, passes : BOOLEAN, sealedFor : Profiles \cup {"none"}, monotonic : BOOLEAN,
   proof : BOOLEAN, pending : BOOLEAN, failing : BOOLEAN, tools : BOOLEAN,
   traffic : {"none", "ok", "bad"}, severe : BOOLEAN]

\* _compile_policy takes levels from 0 to 5
Rules == [level : 0..5, kind : {"require_empty", "require_truthy"}, field : STRING]

IsWorkspace(w) ==
  w \in [raises : BOOLEAN, plans : [DOMAIN w.plans -> Plans], request : {"absent", "invalid", "valid"},
         aligned : BOOLEAN, trace : BOOLEAN, chain : BOOLEAN, anchored : BOOLEAN, keyed : BOOLEAN,
         registry : BOOLEAN, profile : Profiles, configValid : BOOLEAN, policyValid : BOOLEAN,
         rules : SUBSET Rules, conflicts : BOOLEAN, secret : BOOLEAN]

-----------------------------------------------------------------------------
(* policies.py and priority.py *)

PolicyErrors(w) ==
  \/ w.request # "valid"
  \/ ~w.aligned
  \/ \E n \in DOMAIN w.plans : ~w.plans[n].loads
  \/ ~w.policyValid

\* An assessment made under another profile sees another environment
SealOk(p, profile) == p.monotonic /\ p.sealedFor = profile

EvidenceValid(w) == w.chain /\ w.anchored

\* bool(context[field]); a field nobody sets is None. plan_steps, logs, evidence_count and
\* evidence_problem are not in the model: a rule about them is taken as one about an empty field
Filled(w, p, profile, field) ==
  CASE field = "agent_conflicts"        -> w.conflicts
    [] field = "evidence_valid"         -> EvidenceValid(w)
    [] field = "agent_registry_valid"   -> w.registry
    [] field = "seal_ok"                -> SealOk(p, profile)
    [] field = "missing_required_tools" -> ~p.tools
    [] field = "configuration_errors"   -> ~w.configValid
    [] field = "policy_errors"          -> PolicyErrors(w)
    [] field = "workspace"              -> TRUE
    [] OTHER                            -> FALSE

Hits(w, p, profile, rule) ==
  Filled(w, p, profile, rule.field) = (rule.kind = "require_empty")

\* DEFAULT_RULES
BuiltIn(w, p, profile) ==
  {[level |-> 1, hit |-> ~w.configValid],
   [level |-> 1, hit |-> PolicyErrors(w)],
   [level |-> 2, hit |-> p.failing],
   [level |-> 2, hit |-> p.pending],
   [level |-> 1, hit |-> ~SealOk(p, profile)],
   [level |-> 3, hit |-> w.secret],
   [level |-> 2, hit |-> ~EvidenceValid(w)],
   [level |-> 2, hit |-> ~w.registry],
   [level |-> 2, hit |-> ~p.tools]}

\* PolicyEngine.failures: the levels of the rules that were triggered
Triggered(w, p, profile) ==
  {r.level : r \in {b \in BuiltIn(w, p, profile) : b.hit}}
    \cup {r.level : r \in {c \in w.rules : Hits(w, p, profile, c)}}

\* Levels 0 to 3 block, 4 leaves the outcome open, 5 alone blocks again
ResolvePriority(levels) ==
  IF levels = {} THEN "PASS"
  ELSE CASE Min(levels) <= 3 -> "FAIL"
         [] Min(levels) = 4  -> "UNKNOWN"
         [] Min(levels) = 5  -> "FAIL"

-----------------------------------------------------------------------------
(* gate.py and _evaluate_plan *)

\* Mutant: a chain that verifies is taken for a proof
DeterministicUnsigned(w, p, profile) ==
  /\ p.passes /\ p.proof /\ SealOk(p, profile)
  /\ EvidenceValid(w)
  /\ w.configValid /\ ~PolicyErrors(w)
  /\ p.traffic # "bad"

\* deterministic_passed
Deterministic(w, p, profile) ==
  /\ p.passes /\ p.proof /\ SealOk(p, profile)
  /\ EvidenceValid(w) /\ w.keyed
  /\ w.configValid /\ ~PolicyErrors(w)
  /\ p.traffic # "bad"

Gate(w, p, profile) ==
  LET policy == ResolvePriority(Triggered(w, p, profile))
  IN  IF \/ p.pending
         \/ ~Deterministic(w, p, profile)
         \/ policy = "FAIL"
         \/ ~SealOk(p, profile)
         \/ p.traffic = "bad"
      THEN "FAIL"
      ELSE IF policy = "UNKNOWN" \/ (profile = "strict" /\ p.severe) THEN "UNKNOWN" ELSE "PASS"

PlanOutcome(w, p, profile) == IF p.loads THEN Gate(w, p, profile) ELSE "FAIL"

\* evaluate_workspace, the persisted assessment being a trace as well
Verdict(w, assessed, profile) ==
  LET outcomes == {PlanOutcome(w, w.plans[n], profile) : n \in DOMAIN w.plans}
  IN  IF w.raises THEN "UNKNOWN"
      ELSE IF outcomes = {} THEN IF w.request # "absent" \/ w.trace \/ assessed THEN "FAIL" ELSE "NO_PLAN"
      ELSE IF "FAIL" \in outcomes THEN "FAIL"
      ELSE IF "UNKNOWN" \in outcomes THEN "UNKNOWN" ELSE "PASS"

\* stop_gate.py and gate_hook.py exit with 0: the agent may end its turn
HookLets(outcome) == outcome \in {"PASS", "NO_PLAN"}

-----------------------------------------------------------------------------
(* lifecycle.py, and the path _lifecycle_for takes through it *)

\* Where an operator may take a task, CANCELLED left out
Transitions ==
  [new                |-> {"discovered"},
   discovered         |-> {"analyzing"},
   analyzing          |-> {"requirements_ready", "failed"},
   requirements_ready |-> {"plan_proposed", "failed"},
   plan_proposed      |-> {"plan_review"},
   plan_review        |-> {"plan_approved", "revision_required", "failed"},
   revision_required  |-> {"plan_proposed", "escalated"},
   plan_approved      |-> {"sealed"},
   sealed             |-> {"implementing"},
   implementing       |-> {"verifying", "retrying", "failed"},
   verifying          |-> {"passed", "retrying", "failed", "final_audit"},
   retrying           |-> {"implementing", "escalated", "failed"},
   escalated          |-> {"failed", "recovery"},
   final_audit        |-> {"passed", "failed", "unknown"},
   recovery           |-> {"implementing", "failed"},
   passed             |-> {},
   failed             |-> {},
   unknown            |-> {"recovery", "failed"}]

\* TaskLifecycle.transition: one that is not allowed changes nothing and says so to nobody
Transition(at, to) == IF to \in Transitions[at] THEN to ELSE at

Proposal == <<"discovered", "analyzing", "requirements_ready", "plan_proposed", "plan_review">>

Path(w, p, profile) ==
  LET outcome == Gate(w, p, profile)
      end     == IF outcome = "PASS" /\ p.proof THEN <<"passed">>
                 ELSE IF outcome = "UNKNOWN" THEN <<"unknown">>
                 ELSE IF outcome = "FAIL" THEN <<"failed">> ELSE <<>>
  IN  Proposal \o
        IF ~p.passes THEN <<"revision_required">>
        ELSE IF ~SealOk(p, profile) THEN <<"plan_approved">>
        ELSE IF p.pending THEN <<"plan_approved", "sealed", "implementing">>
        ELSE <<"plan_approved", "sealed", "implementing", "verifying", "final_audit">> \o end

Walk(path) ==
  LET at[i \in 0..Len(path)] == IF i = 0 THEN "new" ELSE Transition(at[i - 1], path[i])
  IN  at[Len(path)]

Lifecycle(w, p, profile) == Walk(Path(w, p, profile))
=============================================================================
