------------------------------ MODULE AuditSteps ------------------------------
(***************************************************************************)
(* audit_steps of scripts/audit_check.py: the processes that run or audit  *)
(* one plan, in a workspace that others change meanwhile.                  *)
(*                                                                         *)
(* A run takes some of the steps and records one attempt of each; an audit *)
(* takes all of them, watches the workspace fingerprint, and ends with a   *)
(* marker.  Both keep the statuses they loaded and save the whole plan at  *)
(* the end, through a temporary file with a fixed name.                    *)
(*                                                                         *)
(* Step k is the k-th of topological_order.  Appending a record is one     *)
(* step (EvidenceLock, EvidenceLog); the contract of the plan is constant. *)
(***************************************************************************)
EXTENDS Integers, Sequences, FiniteSets

CONSTANTS
  Runners,      \* processes that run or audit the plan
  N,            \* number of steps
  Deps,         \* the steps each step depends on
  Needs,        \* the steps whose outputs it requires
  Contents,     \* what the workspace may hold
  None,         \* no fingerprint
  Good,         \* the contents on which the checks of a step pass
  Out,          \* the contents on which its declared outputs pass
  Flaky,        \* a check may fail for reasons of its own, such as its time limit
  Returns,      \* the workspace may return to an earlier content
  MaxAttempts,  \* the configured limit of failed attempts
  MaxJobs,      \* bound on commands
  MaxCrashes    \* bound on killed commands

Steps    == 1..N
Statuses == {"pending", "verified", "failed", "blocked"}

ASSUME AuditStepsAssumption ==
  /\ IsFiniteSet(Runners) /\ N \in Nat
  /\ Deps \in [Steps -> SUBSET Steps] /\ Needs \in [Steps -> SUBSET Steps]
  /\ \A s \in Steps : Deps[s] \subseteq Needs[s] /\ \A d \in Needs[s] : d < s
  /\ Good \in [Steps -> SUBSET Contents] /\ Out \in [Steps -> SUBSET Contents]
  /\ None \notin Contents
  /\ Flaky \in BOOLEAN /\ Returns \in BOOLEAN
  /\ MaxAttempts \in Nat \ {0} /\ MaxJobs \in Nat /\ MaxCrashes \in Nat

Pending == [s \in Steps |-> "pending"]
NoFile  == [form |-> "none", status |-> Pending]
NoJob   == [mode |-> "none", force |-> FALSE, chosen |-> {}, at |-> 0,
            status |-> Pending, counts |-> [s \in Steps |-> 0], passed |-> {},
            base |-> None, before |-> None, good |-> FALSE, ok |-> FALSE,
            fd |-> "none"]

VARIABLES
  product,   \* the workspace content
  past,      \* what it was before
  plan, tmp, \* plan.json and plan.json.tmp: whole, empty, torn or none
  log,       \* the evidence of this plan, archives included
  pc, job,   \* where each process is, and its local variables
  jobs, crashes,
  tries,     \* failed attempts of a step, with --force and without
  refused,   \* steps refused for their failed attempts
  raced      \* two commands were open at the same time

world  == <<product, past>>
files  == <<plan, tmp>>
ghosts == <<tries, refused, raced>>
vars   == <<world, files, log, pc, job, jobs, crashes, ghosts>>

-----------------------------------------------------------------------------
(* Reading the evidence, the workspace and the plan *)

NotVerified(s) ==                                     \* mutant: a blocked step costs a try
  Cardinality({i \in 1..Len(log) : /\ log[i].mode = "run" /\ log[i].step = s
                                   /\ log[i].status # "verified"})
FailedAttempts(s) ==
  Cardinality({i \in 1..Len(log) : /\ log[i].mode = "run" /\ log[i].step = s
                                   /\ log[i].status = "failed"})

Outcomes(set) == {product \in set} \cup IF Flaky THEN {FALSE} ELSE {}

Entry(mode, s, status, print) == [mode |-> mode, step |-> s, status |-> status, print |-> print]
Kinds       == {"limited", "forced"}
Kind(j)     == IF j.force THEN "forced" ELSE "limited"
Verdict(ok) == IF ok THEN "verified" ELSE "failed"

Goto(r, label, j) == job' = [job EXCEPT ![r] = j] /\ pc' = [pc EXCEPT ![r] = label]

\* The next step of the target, or the end of the loop
FirstStep(mode) == IF mode = "audit" THEN "guard" ELSE "gate"
After(j)    == {t \in j.chosen : t > j.at}

Continue(r, j) ==
  \/ After(j) = {} /\ Goto(r, "save", j)
  \/ \E t \in After(j) :
       /\ \A u \in After(j) : t <= u
       /\ Goto(r, FirstStep(j.mode), [j EXCEPT !.at = t, !.good = FALSE])

-----------------------------------------------------------------------------
(* cmd_run and cmd_audit: the plan is read *)

Load(r, mode, force, chosen) ==
  /\ pc[r] = "idle"
  /\ jobs < MaxJobs
  /\ plan.form = "whole"                   \* otherwise it is no JSON and the command ends
  /\ chosen # {}
  /\ Goto(r, "loaded", [NoJob EXCEPT !.mode = mode, !.force = force, !.chosen = chosen,
                                     !.status = plan.status, !.ok = TRUE])
  /\ jobs' = jobs + 1
  /\ raced' = (raced \/ \E q \in Runners : pc[q] # "idle")
  /\ UNCHANGED <<world, files, log, crashes, tries, refused>>

\* Without ids, a run takes the steps that are not verified
StartRun(r) ==
  \E force \in BOOLEAN :
    \E chosen \in {{s \in Steps : plan.status[s] # "verified"}} \cup SUBSET Steps :
      Load(r, "run", force, chosen)

StartAudit(r) == Load(r, "audit", FALSE, Steps)

CountAttempts(r) ==
  /\ pc[r] = "loaded" /\ job[r].mode = "run"
  /\ Continue(r, [job[r] EXCEPT !.counts = [s \in Steps |-> FailedAttempts(s)]])
  /\ UNCHANGED <<world, files, log, jobs, crashes, ghosts>>

TakeBaseline(r) ==
  /\ pc[r] = "loaded" /\ job[r].mode = "audit"
  /\ Continue(r, [job[r] EXCEPT !.base = product])
  /\ UNCHANGED <<world, files, log, jobs, crashes, ghosts>>

-----------------------------------------------------------------------------
(* One step of the loop *)

\* An audit stops at a step that finds another workspace than the first one
Guard(r) ==
  /\ pc[r] = "guard"
  /\ LET j == job[r] IN
       IF product = j.base
       THEN Goto(r, "gate", j) /\ UNCHANGED log
       ELSE /\ Goto(r, "save", [j EXCEPT !.status[j.at] = "failed", !.ok = FALSE])
            /\ log' = Append(log, Entry("audit_guard", j.at, "failed", None))
  /\ UNCHANGED <<world, files, jobs, crashes, ghosts>>

\* Prerequisites of this command count by their outcome, others by their status
Prerequisites(j) ==
  \A d \in Deps[j.at] :
    IF d \in j.chosen THEN d \in j.passed ELSE j.status[d] = "verified"

\* Required outputs are checked again
Blocked(r) ==
  /\ pc[r] = "gate"
  /\ LET j == job[r] IN
       /\ ~Prerequisites(j) \/ \E d \in Needs[j.at] : FALSE \in Outcomes(Out[d])
       /\ Continue(r, [j EXCEPT !.status[j.at] = "blocked", !.ok = FALSE])
       /\ log' = Append(log, Entry(j.mode, j.at, "blocked", None))
  /\ UNCHANGED <<world, files, jobs, crashes, ghosts>>

Admitted(j) ==
  /\ Prerequisites(j)
  /\ \A d \in Needs[j.at] : product \in Out[d]

\* The counts are those of the start of the run
OverByOne(j) == j.counts[j.at] > MaxAttempts /\ ~j.force    \* mutant: off by one
OverLimit(j) == j.counts[j.at] + 1 > MaxAttempts /\ ~j.force

Skip(r) ==
  /\ pc[r] = "gate" /\ job[r].mode = "run"
  /\ Admitted(job[r])
  /\ OverLimit(job[r])
  /\ Continue(r, [job[r] EXCEPT !.ok = FALSE])
  /\ refused' = refused \cup {job[r].at}
  /\ UNCHANGED <<world, files, log, jobs, crashes, tries, raced>>

BeginStep(r) ==
  /\ pc[r] = "gate"
  /\ Admitted(job[r])
  /\ IF job[r].mode = "run"
     THEN ~OverLimit(job[r]) /\ Goto(r, "verify", job[r])
     ELSE Goto(r, "verify", [job[r] EXCEPT !.before = product])
  /\ UNCHANGED <<world, files, log, jobs, crashes, ghosts>>

Verify(r) ==
  /\ pc[r] = "verify"
  /\ \E good \in Outcomes(Good[job[r].at]) :
       Goto(r, "outputs", [job[r] EXCEPT !.good = good])
  /\ UNCHANGED <<world, files, log, jobs, crashes, ghosts>>

CheckOutputs(r) ==
  /\ pc[r] = "outputs"
  /\ \E good \in Outcomes(Out[job[r].at]) :
       Goto(r, "record", [job[r] EXCEPT !.good = @ /\ good])
  /\ UNCHANGED <<world, files, log, jobs, crashes, ghosts>>

\* An audited step fails unless the workspace is what it was at its start and at
\* the start of the audit
Pure(j) == j.mode = "audit" => product = j.before /\ product = j.base

RecordStepEarly(r) ==                                 \* mutant: status before the purity test
  /\ pc[r] = "record"
  /\ LET j  == job[r]
         ok == j.good /\ Pure(j)
     IN  /\ Continue(r, [j EXCEPT !.status[j.at] = Verdict(j.good), !.ok = @ /\ ok,
                                  !.passed = IF ok THEN @ \cup {j.at} ELSE @])
         /\ log' = Append(log, Entry(j.mode, j.at, Verdict(ok), None))
         /\ tries' = IF j.mode = "run" /\ ~ok
                     THEN [tries EXCEPT ![Kind(j)][j.at] = @ + 1] ELSE tries
  /\ UNCHANGED <<world, files, jobs, crashes, refused, raced>>
RecordStep(r) ==
  /\ pc[r] = "record"
  /\ LET j  == job[r]
         ok == j.good /\ Pure(j)
     IN  /\ Continue(r, [j EXCEPT !.status[j.at] = Verdict(ok), !.ok = @ /\ ok,
                                  !.passed = IF ok THEN @ \cup {j.at} ELSE @])
         /\ log' = Append(log, Entry(j.mode, j.at, Verdict(ok), None))
         /\ tries' = IF j.mode = "run" /\ ~ok
                     THEN [tries EXCEPT ![Kind(j)][j.at] = @ + 1] ELSE tries
  /\ UNCHANGED <<world, files, jobs, crashes, refused, raced>>

-----------------------------------------------------------------------------
(* save_plan *)

OpenPlan(r) ==                                        \* mutant: written in place
  /\ pc[r] = "save"
  /\ plan' = [NoFile EXCEPT !.form = "empty"]
  /\ Goto(r, "write", [job[r] EXCEPT !.fd = "plan"])
  /\ UNCHANGED <<world, tmp, log, jobs, crashes, ghosts>>
\* open(tmp, "w") truncates a temporary file that another process is writing
OpenTmp(r) ==
  /\ pc[r] = "save"
  /\ tmp' = [NoFile EXCEPT !.form = "empty"]
  /\ Goto(r, "write", [job[r] EXCEPT !.fd = "tmp"])
  /\ UNCHANGED <<world, plan, log, jobs, crashes, ghosts>>

\* What a write leaves in a file: bytes of others may be left in it as well
Written(r, file) ==
  LET mine  == [form |-> "whole", status |-> job[r].status]
      alone == \A q \in Runners \ {r} : pc[q] # "write" \/ job[q].fd # job[r].fd
  IN  IF file.form = "empty" /\ alone THEN {mine} ELSE {mine, [mine EXCEPT !.form = "torn"]}

\* The open file may have become plan.json meanwhile, or have no name any more
WriteTmp(r) ==
  /\ pc[r] = "write"
  /\ CASE job[r].fd = "tmp"  -> tmp' \in Written(r, tmp) /\ UNCHANGED plan
       [] job[r].fd = "plan" -> plan' \in Written(r, plan) /\ UNCHANGED tmp
       [] OTHER              -> UNCHANGED files
  /\ Goto(r, "replace", [job[r] EXCEPT !.fd = "none"])
  /\ UNCHANGED <<world, log, jobs, crashes, ghosts>>

\* os.replace: the open files of others keep their contents, not their names
NewName(fd) == CASE fd = "tmp" -> "plan" [] fd = "plan" -> "gone" [] OTHER -> fd
Renamed(q)  == [job[q] EXCEPT !.fd = NewName(@)]

ReplacePlan(r) ==
  /\ pc[r] = "replace"
  /\ tmp.form # "none"
  /\ plan' = tmp
  /\ tmp' = NoFile
  /\ LET done == job[r].mode = "run" IN
       /\ pc' = [pc EXCEPT ![r] = IF done THEN "idle" ELSE "final"]
       /\ job' = [q \in Runners |-> IF q = r /\ done THEN NoJob ELSE Renamed(q)]
  /\ UNCHANGED <<world, log, jobs, crashes, ghosts>>

\* Somebody else has renamed the file: the command ends with an exception
ReplaceFails(r) ==
  /\ pc[r] = "replace"
  /\ tmp.form = "none"
  /\ Goto(r, "idle", NoJob)
  /\ UNCHANGED <<world, files, log, jobs, crashes, ghosts>>

-----------------------------------------------------------------------------
(* The end of an audit *)

FinalGuardOmitted(r) ==                               \* mutant: the loop's guards suffice
  /\ pc[r] = "final"
  /\ Goto(r, "marker", [job[r] EXCEPT !.before = product])
  /\ UNCHANGED <<world, files, log, jobs, crashes, ghosts>>
FinalGuard(r) ==
  /\ pc[r] = "final"
  /\ LET j == job[r] IN
       /\ Goto(r, "marker", [j EXCEPT !.before = product, !.ok = @ /\ product = j.base])
       /\ log' = IF product = j.base THEN log
                 ELSE Append(log, Entry("audit_guard", 0, "failed", None))
  /\ UNCHANGED <<world, files, jobs, crashes, ghosts>>

Complete(r) ==
  /\ pc[r] = "marker"
  /\ log' = Append(log, Entry("audit_complete", 0, Verdict(job[r].ok), job[r].before))
  /\ Goto(r, "idle", NoJob)
  /\ UNCHANGED <<world, files, jobs, crashes, ghosts>>

-----------------------------------------------------------------------------
(* fresh_full_audit_proof of supervisor/orchestrator.py *)

IsAudit(record) == record.mode = "audit"

\* The last marker is verified, and before it are the verified steps in their order
LastMarker(m) ==
  /\ log[m].mode = "audit_complete" /\ log[m].status = "verified"
  /\ \A k \in m + 1 .. Len(log) : log[k].mode # "audit_complete"
  /\ LET audits == SelectSeq(SubSeq(log, 1, m), IsAudit) IN
       /\ Len(audits) >= N
       /\ \A s \in Steps : audits[Len(audits) - N + s] = Entry("audit", s, "verified", None)

StaleProof == \E m \in 1..Len(log) : LastMarker(m)    \* mutant: fingerprint not compared
FreshProof == \E m \in 1..Len(log) : LastMarker(m) /\ log[m].print = product

-----------------------------------------------------------------------------
(* Everybody else *)

ChangeProduct ==
  /\ product' \in Contents \ {product}
  /\ Returns \/ product' \notin past
  /\ past' = past \cup {product}
  /\ UNCHANGED <<files, log, pc, job, jobs, crashes, ghosts>>

Kill(r) ==
  /\ pc[r] # "idle"
  /\ crashes < MaxCrashes
  /\ crashes' = crashes + 1
  /\ Goto(r, "idle", NoJob)
  /\ UNCHANGED <<world, files, log, jobs, ghosts>>

Init ==
  /\ product \in Contents
  /\ past = {}
  /\ plan = [NoFile EXCEPT !.form = "whole"]
  /\ tmp = NoFile
  /\ log = <<>>
  /\ pc = [r \in Runners |-> "idle"]
  /\ job = [r \in Runners |-> NoJob]
  /\ jobs = 0 /\ crashes = 0
  /\ tries = [kind \in Kinds |-> [s \in Steps |-> 0]]
  /\ refused = {} /\ raced = FALSE

Next ==
  \/ \E r \in Runners :
       \/ StartRun(r) \/ StartAudit(r) \/ CountAttempts(r) \/ TakeBaseline(r)
       \/ Guard(r) \/ Blocked(r) \/ Skip(r) \/ BeginStep(r)
       \/ Verify(r) \/ CheckOutputs(r) \/ RecordStep(r)
       \/ OpenTmp(r) \/ WriteTmp(r) \/ ReplacePlan(r) \/ ReplaceFails(r)
       \/ FinalGuard(r) \/ Complete(r) \/ Kill(r)
  \/ ChangeProduct

Spec == Init /\ [][Next]_vars

-----------------------------------------------------------------------------
(* Properties *)

Loop   == {"guard", "gate", "verify", "outputs", "record"}
Saves  == {"save", "write", "replace"}
Ends   == {"final", "marker"}
Labels == {"idle", "loaded"} \cup Loop \cup Saves \cup Ends

File ==
  [form : {"none", "whole", "empty", "torn"}, status : [Steps -> Statuses]]
Job ==
  [mode : {"none", "run", "audit"}, force : BOOLEAN, chosen : SUBSET Steps, at : 0..N,
   status : [Steps -> Statuses], counts : [Steps -> Nat], passed : SUBSET Steps,
   base : Contents \cup {None}, before : Contents \cup {None}, good : BOOLEAN,
   ok : BOOLEAN, fd : {"none", "tmp", "plan", "gone"}]
Record ==
  [mode : {"run", "audit", "audit_guard", "audit_complete"}, step : 0..N,
   status : Statuses, print : Contents \cup {None}]

\* A process has local variables exactly while its command runs, the step it is
\* at is one of its target, and only an audit guards its steps and has an end
JobOK(label, j) ==
  /\ j \in Job
  /\ j.mode = "none" <=> label = "idle"
  /\ label \in Loop => j.at \in j.chosen
  /\ label \in {"guard"} \cup Ends => j.mode = "audit"
  /\ j.mode = "audit" => j.chosen = Steps

\* Every variable has its type, and every process fits where it is
TypeOK ==
  /\ product \in Contents /\ past \subseteq Contents
  /\ plan \in File /\ tmp \in File
  /\ log \in Seq(Record)
  /\ pc \in [Runners -> Labels]
  /\ job \in [Runners -> Job]
  /\ \A r \in Runners : JobOK(pc[r], job[r])
  /\ jobs \in 0..MaxJobs /\ crashes \in 0..MaxCrashes
  /\ tries \in [Kinds -> [Steps -> Nat]]
  /\ refused \subseteq Steps
  /\ raced \in BOOLEAN

\* "A step may fail at most three times", if commands run one after the other;
\* runs at the same time may each let it fail once more, and no more than that
AttemptsBounded ==
  \A s \in Steps :
    tries["limited"][s] <= IF raced THEN MaxAttempts + Cardinality(Runners) - 1 ELSE MaxAttempts

\* Only failed attempts of runs use up the limit: not a blocked step, not the
\* failures of an audit or its guard
RefusedWereTried ==
  \A s \in refused : tries["limited"][s] + tries["forced"][s] >= MaxAttempts

Proved(s, i) ==
  log[i].mode \in {"run", "audit"} /\ log[i].step = s /\ log[i].status = "verified"

\* Whatever was saved over whatever, and wherever a command was killed: a plan
\* that calls a step verified has a record of a verification that passed
StatusHasEvidence ==
  plan.form = "whole" =>
    \A s \in Steps : plan.status[s] = "verified" => \E i \in 1..Len(log) : Proved(s, i)

\* A step is recorded as verified only after each step it depends on was
VerifiedHadPrerequisites ==
  \A i \in 1..Len(log) : \A s \in Steps :
    Proved(s, i) => \A d \in Deps[s] : \E k \in 1..i : Proved(d, k)

\* A killed command leaves a whole plan; only commands at the same time, which
\* share the name of the temporary file, can leave a torn one
PlanStaysWhole == plan.form = "whole" \/ raced

\* A verified audit: every step passes on the content the marker names, whoever
\* changed the workspace during the audit, unless it came back to that content
VerifiedMarkerHolds ==
  Returns \/ \A i \in 1..Len(log) :
    log[i].mode = "audit_complete" /\ log[i].status = "verified" =>
      \A s \in Steps : log[i].print \in Good[s] \cap Out[s]

\* A proof that is accepted is one of the workspace as it is
AcceptedProofIsSound ==
  Returns \/ (FreshProof => \A s \in Steps : product \in Good[s] \cap Out[s])
=============================================================================
