# Verification of plan-auditor

plan-auditor (version 2.6.3, Python) decides whether a piece of work is done. A
*plan* lists steps with machine-checkable verifications; the *core*
(`src/scripts/`, called L10 in the code) executes them and writes every result to
a hash-chained *evidence log*; the *supervisor* (`src/supervisor/`, L11 and up)
seals plans so that they can only be strengthened, keeps a registry of cooperating
agents, and turns evidence, seals, requests and traffic into one gate verdict that
hooks (`src/hooks/`, `src/scripts/stop_gate.py`) enforce. Everything lives in
files under `.plan-auditor/` in a workspace that several processes share: there is
no server, and the only coordination is lock files, atomic renames and
append-only logs.

This directory holds TLA+ modules that model that system from its source, TLC
configurations that check them on small instances, and TLAPS proofs of the
properties that matter most for every size of the instance. `PROJECT.json` maps
every definition to the lines it stands for.

## 1. The system: components, state, operations, hazards

| Component | State | Operations | What is hard |
|---|---|---|---|
| Evidence log (`scripts/audit_check.py`, `supervisor/evidence.py`) | `evidence.jsonl`, `archive/*.jsonl`, `evidence.head.json` | `append_evidence` (rotate, link, write, checkpoint), `verify_chain`, archive manifest | a crash between any two writes, half-written lines, truncation, repair of a lagging checkpoint, links over file boundaries |
| Evidence write lock (`_evidence_lock`) | `evidence.write.lock` | create exclusively, reap when old and the owner is dead, unlink | two waiters reaping the same lock; unconditional release |
| Registry write lock (`supervisor/lock_hardening.py`) | `agents/registry.write.lock` with pid and token | the same with an identity check before reaping and before release | check-then-unlink; the identity can change in between |
| Agent registry (`supervisor/agents.py`, `agents_hardening.py`) | `registry.jsonl`, `registry.head.json`, ownership and heartbeats per agent | join, leave, heartbeat, claim, update ownership, release stale | timeouts racing late heartbeats, two owners of a file, crash between record and head |
| Final audit session (`supervisor/audit_session.py`) | `audit.freeze.lock`, workspace fingerprint | enter (quiescence check and freeze under the registry lock), body, exit | agents reappearing, stale freezes, mutations during the audit |
| Core run and audit (`audit_steps`, `cmd_run`, `cmd_audit`) | plan statuses, attempt counts, evidence | prerequisite gate, attempt limit, purity guard, `audit_complete` marker, `save_plan` | concurrent runs overwriting statuses, stale counts, changes between steps |
| Snapshot and rollback | archives under `snapshots/` | `make_snapshot`, `restore_snapshot` | failure halfway through a restore |
| Plan graph (`scripts/plan_graph.py`) | none | dependencies, topological order, output links | cycles, order of ties, transitive closure |
| Bounded command (`_bounded_command`) | child process, two pipes | spawn, drain, time out, overflow, kill | races of exit, timeout and output limit |
| Plan seal (`supervisor/sealing.py`, `seal_migration.py`) | `*.seal.json` | seal, load, check monotonic, migrate, re-sign | weakening a sealed plan, a crash leaving the temporary file |
| Request contract (`supervisor/request_contract.py`) | `request.json`, `activation.json` | initialise, verify, align with plans | a crash between the two files |
| Integrity (`scripts/integrity.py`, `supervisor/integrity.py`) | key, marker, signatures of all stores | initialise in five steps, status | a crash between the steps, concurrent appends |
| Execution trust (`scripts/exec_trust.py`) | seal and request | `require_plan_trust` | seal checked, plan changed afterwards |
| Orchestrator and gate (`supervisor/orchestrator.py`, `gate.py`, `priority.py`, `policies.py`) | assessment | collect proofs, resolve priority, PASS/FAIL/UNKNOWN | stale audit proofs, order of evidence records, contradictory findings |
| Lifecycle (`supervisor/lifecycle.py`) | lifecycle state | transition table | unreachable or skipped states |
| Assessment (`supervisor/assessment.py`) | `assessment.json` signed over the evidence | write, verify, bind | nothing calls it (section 5) |
| Supervisor daemon (`supervisor/daemon.py`, `cli.py`) | state file, stop marker, child process | start, run loop, stop | two starts, a stop marker lost, a stale state |
| Traffic recording (`scripts/traffic.py`, `supervisor/traffic.py`) | proxy threads, state file, session records | start, record, stop, close the session, report | handler threads outliving the closing record, two starts, signals |
| Formal planning (`supervisor/formal_*.py`, `coverage.py`, `plan_verifier.py`) | contracts inside the plans | compile, analyse, export, call the external planner, verify | bounded search and pruning, contracts that outlive an edit, two orders of the same steps |
| Hooks (`scripts/stop_gate.py`, `hooks/gate_hook.py`) | none | run the gate, map the verdict to an exit code | an error read as a pass |
| Analysis helpers (coverage, requirements, adversarial, watchdog, events, contracts, goals) | none | deterministic reports | none beyond their inputs |
| Packaging (`bin/*.js`, `index.js`) | none | launch Python, pre-publish gate | none |

How they interact: every command of the core first calls `verify_chain` on the
log, without the evidence lock, and appends its results under it. The supervisor's
audit takes the registry lock, checks that no agent is active, creates the freeze
file and releases the lock; the registry's mutations check the freeze under the
same lock. The body of the session calls the core's audit for every plan and then
the orchestrator, which reads the log, the archives, the seals and the registry
and writes the assessment. The traffic proxy and the daemon append to the same log
from processes of their own.

What makes each of them correct:

- *log*: whoever verifies between two appends is satisfied when nothing went wrong;
  an accepted log holds every acknowledged record; one killed append never makes
  later ones fork the chain; repair repairs.
- *locks*: at most one holder while nobody dies; a waiter gets the lock or times
  out; a dead owner's lock is eventually reaped; nobody removes another's lock.
- *registry and session*: under the strict mode no two live agents own the same
  file; nobody mutates the registry while the audit session is open; a session
  that succeeds saw one workspace from start to end.
- *core audit*: a step is recorded verified only after its prerequisites passed in
  the same pass; `audit_complete` says verified only for an unchanged workspace;
  the attempt limit holds over rotations.
- *seal, request, integrity, trust*: under one approval one contract is executed, and
  it meets the request; signing a workspace loses no record and leaves nothing
  unsigned; a crash between two files leaves a state that can be left again.
- *formal planning*: a PASS comes with an order that works, a REJECT means that there
  is none, and both speak of the order the audit runs; what the compiler wrote is
  accepted until somebody edits it.
- *gate*: PASS if and only if every plan is accepted and nothing objects; UNKNOWN never
  hides a defect; the hook lets an agent go only then.
- *daemon*: at most one, named by the state file; stop stops it; its assessment becomes
  the verdict on the workspace.
- *traffic*: an accepted report covers everything that left through the proxy; at most
  one recorder; stop stops it; a trusted certificate stays removable.

## 2. What is modelled, and how it corresponds to the code

| Module | Extends | Models |
|---|---|---|
| `EvidenceLog` | community modules | append, rotation, checkpoint, repair, verification of the evidence log |
| `EvidenceLogInv`, `EvidenceLogProofs` | `EvidenceLog` | its inductive invariant, and the proofs |
| `WriteLock` | - | abstract: what both lock files promise |
| `EvidenceLock` | instance of `WriteLock` | `_evidence_lock` of the core |
| `RegistryLock`, `LockProofs` | instance of `WriteLock` | `_write_lock` of `lock_hardening.py`, and the proofs of both locks |
| `AgentRegistry` | - | the registry's transactions |
| `AuditSession`, `AuditSessionProofs` | `AgentRegistry` | `final_audit_session` together with the agents, and the proofs of both |
| `AuditSteps`, `AuditStepsProofs` | - | `audit_steps`, `save_plan` and the orchestrator's freshness proof, and the proofs |
| `TrafficRecords` | - | pure: contract, HTTP parser, classification, records, audit, report and gate condition of the traffic |
| `TrafficProxy` | `TrafficRecords` | the recorder: start, stop, the daemon, its connections and the closing record |
| `TrafficTrust`, `TrafficProofs` | `TrafficProxy` | the certificate authority, the trust store and its marker under the same commands, and the proofs of recorder and authority |
| `PlanGraph` | - | pure: `plan_graph.py`, the dependency graph and the outputs along its edges |
| `FormalContracts` | `PlanGraph` | pure: compiler, recompilation, parser, search, export, semantics, coverage |
| `PlanVerification`, `PlanProofs` | `FormalContracts` | plans that are edited and compiled, and the three verifiers, and the proofs |
| `PlanContract` | `PlanGraph` | pure: contract and digest of a plan, monotonicity, alignment with a request |
| `Approval`, `ApprovalProofs` | `PlanContract` | request, seal, migration, compilation, integrity initialisation and execution trust, and the proofs of both |
| `CompletionGate` | - | pure: policy engine, priorities, gate, verdict, lifecycle and the answer of the Stop hook |
| `Supervision`, `SupervisionProofs` | `CompletionGate` | the supervisor daemon, `supervisor start` and `supervisor stop`, and the proofs |
| `MC...` | the module of that name | symmetry sets, plans, messages and initial workspaces for TLC |

### EvidenceLog

State: the active file, the archives and the checkpoint (`evidence.head.json`) are
sequences of records and one record; a hash is an identity (no collisions), so a
record is `[id, prev, link]` and "the hash matches" means "the identity is the
expected one". Each writer has a program counter and the local variables
`_write_evidence_record` carries between its writes. A step is the part of
`append_evidence` between two writes to the disk: `Enter` takes the lock and
`maybe_rotate` decides, `StartAnchor`/`StartRecord` derive the link from log,
archives and checkpoint (`Derive`), `AppendRecord` is the write with its fsync,
`UpdateHead` the replaced checkpoint, `ReplaceActive` and `RewriteHead` the two
effects of a rotation, `Leave` releases the lock. `Crash`, `CrashInLine` and
`LoseTail` are a writer killed between two writes or inside its line, and a file
truncated from outside. `VerifyChain` and `Anchored` are `verify_chain` and the
archive manifest, as pure functions of the state. The lock is taken as exclusive
here: that is what `EvidenceLock` establishes, and where it does not (after a
death) the log may additionally suffer two writers at once, which is not modelled.

### EvidenceLock and RegistryLock

State: the lock file with its creator, whether the creator has written its PID and
(for the evidence lock) whether the file is older than the stale limit; each
process's place in the polling loop; who is past its deadline. Every system call
is a step: exclusive creation, writing the PID, reading age and holder, judging,
unlinking, releasing. `NameFails` and the failing variants of `Reap` and `Leave`
are refused writes and unlinks, bounded by `MaxFails`; `Crash` is a death anywhere,
bounded by `MaxCrashes`. The registry lock also has the identity that was observed
(`seen`) and whether it is still current, because its reaping compares PID, token
and inode once more before it unlinks, and its release compares its own token.

`WriteLock` is the abstract specification: ask, be granted when nobody holds the
lock, give up, give back; and once somebody died, a grant may pass a holder. Both
lock files are shown to implement it with `phase` mapped from the place in the
code and `died` from the count of deaths.

### AgentRegistry

One transaction of the registry lock is two steps: the record (admission, read
back, conflict check, append) and the checkpoint with its answer (`Finish`).
Nothing else can happen in between except time, `write_lock` outside the lock and
a kill, which is why two steps are enough. The log and its checkpoint are
abstracted to the last record of each agent (`entry`) and whether the two agree
(`ahead`): a log that is ahead of its head does not verify, and every command
refuses it. `TimeOut` is the clock passing an agent's `owner_timeout`. A sweep
(`release_stale_ownership`) is one transaction that writes one record and one head
per stale agent. `told`, `warned` and `lapsed` are history variables: what the
answers of the commands told each agent. An agent's own process may stop beating
at any time and beat again later: heartbeats have no fairness and no deadline.
The freeze file is checked inside every transaction and, without the registry
lock, in `write_lock` (`JudgeFreeze`, `UnlinkFreeze`).

### AuditSession

`Enter` is the whole critical section up to the exclusive creation (quiescence,
verification and creation are under one lock), `NameFreeze` the payload and the
release of the lock. Then `Fingerprint`, the body, `CheckFreeze`, `Compare` and
`Close` are separate steps without any lock. The body is abstract: it passes or
fails. The product changes at any time (`ChangeProduct`); a fingerprint is one
step, while the code walks the tree, so a change during the walk counts as before
or after it. A session is a process that ends with it, so the PID in its freeze is
dead once it is over.

### AuditSteps

State: the workspace content and what it was before (`product`, `past`),
`plan.json` and `plan.json.tmp` (whole, empty, torn or absent, with the statuses a
whole one holds), the evidence of this plan without its chain, and for every
command the local variables of `audit_steps`: its target, the statuses it loaded,
the attempt counts read once (`counts`), what passed in this pass (`passed`, and
`ok` for `all_ok`), the baseline (`base`) and the fingerprint taken last
(`before`). Step *k* is the *k*-th of `topological_order`; a failing check is an
outcome, and with `Flaky` a check may also fail where it would pass (its time
limit). The loop is one action per part that reads the shared state at another
moment: `Guard` (the fingerprint comparison of an audit), `Blocked`, `Skip` and
`BeginStep` (the prerequisite gate and the attempt limit), `Verify`,
`CheckOutputs`, `RecordStep` (purity, status, record). `OpenTmp`, `WriteTmp` and
`ReplacePlan` are the three system calls of `save_plan`: opening truncates, the
rename takes the file from whoever has it open, and `ReplaceFails` is the
`FileNotFoundError` of the second of two renames. `FinalGuard` and `Complete` end
an audit. `FreshProof` is `fresh_full_audit_proof` as a function of log and
workspace.

Abstractions: appending a record is one step (`EvidenceLock` and `EvidenceLog`
model what is inside); reading the counts and taking a fingerprint are one step,
while the code walks several files, so a rotation or a change during the walk
counts as before or after it; the contract of the plan does not change (`Approval`
covers that); a command that does not find a whole plan ends without a change.
The commands verify chain, schema and trust before they start and change nothing
when they refuse, so a refusal is a command that never started.

### TrafficRecords, TrafficProxy and TrafficTrust

`TrafficRecords` is what one record says and what the audit makes of all of them:
`ParseHttpRequest` and `ClassifyRequest` over messages whose paths and bodies are
sets of markers, `AuditRecords` with every kind of violation, `EvaluateTraffic` as
the gate asks it. `TrafficProxy` has the state file, the stop file, the log, two
daemons and the commands: each read or write of a shared file is a step of its own
(`StartCommand`, `CleanStop`, `WriteStarting`, `Spawn`, `Ready`; `WriteStop`,
`StopSeen`, `Escalate`, `ReadAgain`, `WriteAgain`). A connection is accepted, its
request recorded under the daemon's own lock and then forwarded (`Record`, `Keep`,
`Forward`); the daemon's end is `StopServing`, `CountCaptures`, `AppendClosing`,
`WriteStopped`, and its handler threads are not waited for. `TrafficTrust` puts the
authority's files (key and certificate, written one after the other), the trust
store and `trust.json` into the places of those commands where the code calls
them; every tool may fail and every command may be interrupted.

Abstractions: a PID is not reused; one plan is recorded; an append to the log is
one step that may fail before or after its line; leaf certificates are issued in
one step; masked secrets, detected names and counts by day and host are left out,
as is TLS; a certificate is a number.

### PlanGraph, FormalContracts and PlanVerification

Plans are sequences of steps with dependencies, outputs, covered requirements and
checks. `FormalContracts` follows `formal_compiler.py` (facts of requirements,
outputs and the source; `GeneratedValid` recompiles the plan without its generated
checks and compares), `formal_planning.py` (`MonotonicSolve` for contracts that delete
nothing, `SearchSolve`, the breadth-first search with its bound and its pruning, for the
others, `ExportPddl`, `RunFastDownward`), `formal_semantics.py` (`Earned`) and
`coverage.py`. A digest is what it is taken of.
`PlanVerification` compiles, edits and verifies: the verifiers change nothing, so
one of them judges each version of the plans before the next edit, and that loses
no behaviour. The formal and the semantic check are `run` checks and therefore
count as behavioural (`Weak`). A `--fast-downward` of the caller replaces the one
on the sealed command line, with its requirement; within one command a
requirement read from one contract stays in force for the plans after it. Both are
in the model as they are in the code. Left out: the structural errors of a
contract, limits on lists, the text of the task.

### PlanContract and Approval

`PlanContract` is what the seal is about: `ContractPlan`, `PlanHash` (a digest is
the contract itself), `CheckMonotonic` with every one of its clauses, and `Aligned`,
the analysis of the request. `Approval` has the files of one approval and one
process per slot that holds the key or does not. Every exclusive creation of a
temporary file and every replacement of a file is a step, and so is every read on whose
result a later step of the same command relies: the plan, the seal and the request that
`require_plan_trust` compares are read by `StartRun` or `AuditLoad`, `ReadSeal` and
`Execute`. What looks at several files at once and then either ends the command or goes on
(`verify_chain` and the gates in `StartVerify`, `StartAudit`, `StartMigrate` and
`MigrateOne`) is one step. What is executed counts under the approval whose seal was read,
though it may have been withdrawn since (`Execution`). The steps are
`StartRequest` / `WriteRequest` / `WriteActivation`, `StartVerify` / `VerifyLoad` /
`VerifyCheck` / `SaveOpen` / `SaveReplace`, `StartMigrate` / `MigrateOne`,
`StartCompile` / `CompileOpen` / `CompileReplace`, `StartRun` or `StartAudit` /
`AuditLoad` / `ReadSeal` / `Execute` / `AppendOpen` / `AppendWrite` / `StorePlan`, and the twelve
steps of `integrity init` from `StartIntegrity` to `CheckStatus`. `EditPlan`,
`EditConfig` and `Withdraw` are the agent and the host; `Crash` is a killed process.

Abstractions: one active plan, one key, no archives; the registry is one
signature; `verify_plan` refuses what `OutputLinksValid` refuses and nothing else;
a run writes one record; a plan is saved with the statuses of a passing run; full
disks and the start of the traffic recorder are left out.

`Init` starts in any workspace of the constant `Starts`, of which `SoundStart` assumes what
completed commands leave: a linked chain that is signed throughout, with its checkpoint,
or not at all; a seal that passes its own check and was given to a plan that met the
request in it. `MCApproval` gives each stage an approval can be in, so that three
commands are enough to leave it wrongly. `Versions` is what `plan.json` may hold: the plans
of the agent, compiled or not, with the statuses of a run or without. A request initialised without the key after the marker exists is not
excluded there, since the code does not exclude it.

### CompletionGate and Supervision

`CompletionGate` describes a workspace by what the gate finds in it: per plan whether
it loads, passes `verify_plan`, is sealed for the profile, has its proof, and so on;
and for the workspace the request, the chain, the registry, the custom rules.
`BuiltIn`, `Hits` and `Triggered` are the policy engine, `ResolvePriority` the five levels,
`Gate` the two stages, `Verdict` the fold over the plans, `Path` and `Lifecycle` the
transitions that are taken beside it. `Supervision` runs two daemons and two
commands: `Look` and `ClearOldMarker` at the start, `Publish`, `JudgeFirst`,
`WriteFirst`, `Announce`, then the loop of `Poll`, `JudgeAgain`, `WriteAgain`, `Beat` and
`Wait`, and the end with `RemoveMarker`, `JudgeLast`, `WriteLast`, `Close`; `StartBegin` and
`StopBegin` with their steps are the commands. An assessment is read in one step and
written in another.

Abstractions: PIDs are not reused; a read of the workspace is one step; the findings
of the analysis helpers are one fact each; the results of a command are only
reported. A daemon judges under the profile it was started with, while the hook uses
the configured one: `VerdictIsEarned` speaks of every profile. A custom rule reads what the
model keeps of the orchestrator's context (`Filled`); a rule about the steps, the logs or the
count and the problem of the evidence is taken as one about an empty field. `WriteFails` is a
write in the daemon's loop that fails, after which its `finally` block is run; a write that
fails before the loop or in that block ends the daemon like a kill.

## 3. What the runs check

A run lists the properties that several actors or several steps could break. The type
invariants of the modules are in the proofs instead (`TypeCorrect` and its like) or,
for the modules of this table without proofs, stated beside the properties. "Faults"
are killed processes unless stated otherwise.

| Run | Instance | What it shows |
|---|---|---|
| `log_faults` | 2 writers, keyed, rotation limit 3, up to 3 killed writers, a torn line, 2 truncations | an accepted log is complete, repair repairs, an undisturbed log verifies |
| `log_gap_healed` (violation) | 2 killed writers, 1 truncation | a log that lost an acknowledged record is accepted by every check |
| `lock_deaths` | 3 processes, 2 deaths, 1 refused call | the evidence lock implements `WriteLock`, every attempt ends, an abandoned lock is reaped |
| `registry_lock_deaths` | 3 processes, 2 deaths, 1 refused call | the same for the registry lock, and overlapping transactions never both succeed |
| `registry_claims` | 2 agents, 2 files, 2 kills, both modes | owners that beat keep their files, sharing is reported, a torn registry stays refused |
| `audit_sessions` | 3 sessions, 1 agent, 2 contents, 2 kills | no agent is live under a freeze, a disturbed or overlapped session does not pass |
| `audit_steps` | 2 commands at a time, 2 steps, 3 contents, limit 1, 1 kill | verified markers and accepted proofs hold of the workspace, statuses are backed by evidence, the limit is exceeded by concurrent runs only, and by how much |
| `traffic_ledger` | 2 daemons, 2 commands, 2 connections at a time, 3 kinds of message, 1 fault | an accepted report covers everything that was forwarded; the records of a session are numbered and counted exactly |
| `traffic_commands` | 3 commands, 2 certificates, 1 fault, with 2 daemons, with a daemon and a connection, or overlapping | at most one recorder, a stop ends it, a trusted certificate can be withdrawn |
| `plan_verification` | every structure of up to 2 steps, 2048 hand-written contracts over 3 steps, plans of two with edits | the internal planners agree with the exported problem, what the compiler leaves is accepted, a pass is earned and exit 0 is a proof |
| `approval` | 3 commands of 2 processes from every stage of an approval, two of an edit, a withdrawal and a kill | one approval executes one contract that meets the request; signing loses and forgets nothing and can be repeated |
| `supervision` | all workspaces two changes away from a finished one, 4 sets of custom rules; 2 daemons, 3 commands, 1 kill or failed write | what a verdict means; one daemon, which is named, stops and converges |

### Bounds, and why they are enough

- *EvidenceLog.* The rotation limit counts records instead of bytes. A limit of 3
  leaves room for an anchor and two records in one file, which is the least that
  lets a checkpoint lag behind a file that already counts records; eight records
  give rotations enough for an archive that links to an archive. Two writers show
  every hand-over, since the lock admits one at a time.
- *Locks.* Two waiters and a holder are what the races of reaping take. Two deaths
  give one abandoned lock and a second one among those that reap it. One refused
  system call reaches every error path; the theorems hold for any number.
- *AgentRegistry.* Conflicts are pairwise; two files tell overlapping claims from
  equal ones. Three agents with one kill pass as well, in some minutes.
- *AuditSteps.* Two commands are what a race takes, run with run, run with audit
  and audit with audit; two steps, the second depending on the first, separate a
  prerequisite from its dependant and give the freshness proof an order to mix up.
  The three contents are one on which only the first step passes, one on which
  only the second does and one on which both do, which is every case a change
  between the two can make. A limit of one is reached by one failure. Contents do
  not return to an earlier value (`Returns = FALSE`): a workspace that is changed
  and restored between two fingerprints is seen by none of the guards, and
  `VerifiedMarkerHolds` and `AcceptedProofIsSound` do not claim otherwise.
- *AuditSession.* The freeze races take a dead session, one whose freeze is
  unlinked and one that enters because of it: three. The agent is there to
  disturb them and to run `write_lock`.
- *Traffic.* Two daemons are what a late end of one needs beside the next; two
  connections of one daemon race for its counter. The messages are an ordinary
  prompt, one whose body does not come in whole and the upload of a transcript. The
  certificate run takes three sets of bounds in turn (`Limits`): two daemons under commands that
  follow each other, one daemon with a connection, whose only part is to make it issue, and two
  commands that overlap while they install and remove.
- *PlanVerification.* Two steps give every shape of dependency, requirement and
  output, with two edits where the compiler is involved. Three steps are what the
  pruning of the search takes: one that must not run early, one that repairs and one
  that waits; the search bound of 6 lies below and above what these contracts need.
- *Approval.* A weakening takes a sealing command, an edit and a second sealing
  command; signing takes `integrity init` after or beside another one. Both fit into three
  commands from a stage, where a stage is what earlier commands left. The three
  versions of the plan are the approved one, a stronger and a weaker one.
  A race of a run with a new approval takes an edit and a withdrawal; the bound of two
  incidents lets every pair of edit, withdrawal and kill happen in one behaviour, with three
  commands before, between and after them.
- *Supervision.* The nine rules and the fold read independent facts, so that
  a wrong level or a wrong fold shows on two facts at once. A third daemon would meet
  what the second one met: a state file, a marker and an assessment of a process
  before it.

`CHECK_DEADLOCK FALSE` where it appears: once the bounds on records, kills, commands
or sessions are used up nothing is left to do, and a program that has done its work
stops. The locks are checked for deadlock.

### Fairness

- *Locks.* `FairSpec` assumes that a process that lives keeps taking its steps in the
  polling loop and in the body of the lock (the bodies are finite file operations) and
  that its deadline passes. Nobody has to start an attempt and nobody has to die. The
  evidence lock's promise that an attempt ends holds for finitely many refused
  unlinks: after a failed unlink of a stale lock the loop continues without looking
  at the deadline (`audit_check.py:1234`), so an unlink that fails for ever would
  make it spin.
- *Traffic.* A daemon's main loop polls its stop condition and ends on its own
  (weak fairness of its main steps; connections are handled by other threads and have
  none), and each wait of a command has a deadline (weak fairness of the open command, which is
  one as long as `StopEnds` promises anything). No command has to be started. `StopEnds` is conditional: commands that
  overlap each other, or that are interrupted, promise nothing.
- *Supervision.* A daemon takes its steps until it ends, since its waits and probes
  time out, and so does a stop. A start has no fairness: none of the properties needs it.
  `AssessmentConverges` speaks of the daemon that is left when nothing ends any more.

## 4. What the properties except

Each exception is a window that the code leaves open. They are part of the statements so
that what the rest of the code guarantees can be stated and checked.

- *A lag from zero.* `AppendRepairs` excepts a checkpoint that counts no records: such a lag
  takes the branch at `audit_check.py:1121`, is not repaired although the comment at
  line 1099 says "a one-record lag continues from the real tail and repairs the
  checkpoint", and stays in the count until the next rotation.
- *Robbed locks.* Judging a holder dead and unlinking the path are two steps
  (`audit_check.py:1228` and `1230`, `lock_hardening.py:60` and `68`), so that after a
  death a slow waiter may remove the new lock of a live process. `WriteLock` therefore
  allows a grant beside a holder once somebody died; `OverlapIsReported` shows that the
  registry notices.
- *A revived owner.* A time out releases nothing until a sweep and a heartbeat does not look for
  conflicts (`agents_hardening.py:283`), so that also in the strict mode two live agents may
  own a file, unlike `src/docs/architecture.md:152` says. `SharingIsReported` excepts owners
  that lapsed.
- *A thawed session.* `write_lock` judges a freeze outside the registry lock and may unlink the one
  of a later session (`agents_hardening.py:107`). That session does not pass:
  `PassedSessionWasQuiet`, `OverlappingSessionsDoNotPass`.
- *Concurrent runs.* `src/docs/cli.md:139` says that a step may fail at most three times:
  `AttemptsBounded` shows that runs at the same time may each let it fail once more. Two
  commands that save at the same time share the name `plan.json.tmp`: `PlanStaysWhole`
  holds only without a race, and a torn plan ends every later command with an exception until
  it is repaired by hand. A run killed between its checks and its record has used up no
  attempt. `src/docs/index.md:86` says that an audit fails if the workspace changed during the
  run: it does unless the change was undone before the next fingerprint.
- *Traffic.* A connection that is still open when the daemon counts its captures may be recorded
  after the closing record (`late`); the count then differs, and the audit reports it, which is
  why `OkIsComplete` needs no exception. An append that raises after its line is written leaves a
  record that the daemon does not count (`torn`). Commands that overlap may leave two recorders.
- *Padded names.* An output that is required by a name with blanks around it compiles to
  a fact nobody adds; `CompiledIsAccepted` excepts it.
- *Approval.* Two `plan verify` that overlap, or one during which the plan or the request changes,
  may seal what neither judged (`disturbed`); with a request made for a plan the trust
  gate still executes one contract only. A record appended between reading and replacing the log in
  `initialize_evidence_auth` is lost (`exposed`). A command without the key that is open when the marker
  is written may leave something unsigned (`straddled`). A killed process may leave the temporary
  file of a seal or half of a request, and these block every later `integrity init`
  (`failures`). So may commands that are open beside it (`beside`): two appends without the
  key that are in flight when an init is killed between its checkpoint and its marker break the
  chain (`audit_check.py:1109` takes the second one for a lag), and every init after them refuses
  the log. An init that has read the seal puts it back although the approval was withdrawn in
  between, so that it counts as a sealing command, too. The order of the commands matters for the documentation too:
  `src/docs/cli.md:85` says to seal before formalizing, `SKILL.md` to compile first.
- *Overlapping starts.* Two daemons that look before either has announced itself both run
  (`overlapped`), the state file names one of them, and stops find only that one. A
  start that is refused has already rewritten `supervisor.json`.

## 5. Where the code does not do what it says

- `log_gap_healed`: the comment at `audit_check.py:1100` says that a truncated log
  is never healed; after two killed appends it can be. Two appends killed before their
  checkpoint, the first ones that the checkpoint would count, leave two records and a
  count of 0. The third append therefore does not compare log and checkpoint (line 1109),
  links its record to the real tail (lines 1121-1122), which is right, and adds one to
  the count (lines 1150-1157), which leaves it two short. When the third record,
  which was acknowledged, is cut off, the next append finds two records where the
  checkpoint counts one (line 1116), takes the loss for an interrupted append,
  continues from the tail and rewrites the checkpoint. The chain has no break anywhere, so
  that every check accepts it.

Met while modelling, each without a run of its own: two appends killed onto a checkpoint
that does count records leave the log two ahead, and the next append links to the tail in the
checkpoint (line 1119), so that `verify_chain` reports a break although nothing was deleted;
after a truncation an append breaks the chain as intended, but a rotation then moves the
break into the archive, which `verify_chain` does not read (the archive anchoring, which the
supervisor checks, still reports it, and `AcceptedLogIsComplete` asks for both); the assessment file of a daemon makes an unused workspace
count as activated, so that a verdict of NO_PLAN becomes FAIL (`request_contract.py:524`
lists the traces); the comment at `priority.py:53` says that findings of levels 4 and 5 do not
hard-fail, but a level 5 rule alone fails, and a level 4 finding beside it makes the verdict
UNKNOWN; `write_assessment` and `read_assessment_verified` have no caller, although the head of
`assessment.py` says that the stored assessment is signed; the daemon writes it as plain JSON.

## 6. What is proved

The proofs hold for all values of the constants under the assumptions named in the
modules: bounds are naturals, `"nobody"` is not a process, the lists of a plan are lists,
stripping a name twice does no more than once (`PaddedAssumption`), the plans of a workspace
are plans (`WorkspacesAssumption`),
the workspaces a behaviour of `Approval` starts in are sound (`SoundStart`) and those of
`Supervision` are records of the facts `CompletionGate` names (`StartsAssumption`).

| Theorem | Property | Argument |
|---|---|---|
| `EvidenceLogProofs!TypeCorrect` | type invariant | inductive as it stands |
| `EvidenceLogProofs!RepairCorrect` | `AppendRepairs` | `RepairInv`: what each local variable of a writer in the middle of an append says of log and checkpoint, by the case that `Derive` found; nothing is assumed of the state it starts from, so it holds after any history of faults |
| `EvidenceLogProofs!QuietCorrect` | `QuietLogVerifies` | `QuietInv`: without faults, log and archives are one linked chain and the checkpoint is exact, except in the middle of an append, where it is exact for the log without the new record |
| `EvidenceLogProofs!AcceptedCorrect` | `AcceptedLogIsComplete` | two arguments. Without a truncation only a record glued to a half-written line is lost, and the glued line stays in its file, which both checks refuse (`KeptInv`). With truncations, one killed writer and no half-written line (`TruncatedInv`): every linked part of the active file that ends where the checkpoint says it ends, together with the archives, holds every acknowledged record (`Matched`), which a truncation cannot break because it only removes such parts; a writer continues the chain of a linked file only behind such an end, or when the file is one line longer than the checkpoint counts, which a single killed writer can cause only without a gap (`OneMore`, `Counts`); a file that is renamed with a break in it is an archive that fails its check ever after (`RenamedUnlinked`) |
| `LockProofs!EvidenceTypeCorrect`, `EvidenceExclusionCorrect` | type invariant, `ExclusionUntilADeath` | `Owned`: while nobody died nobody is judged dead, so nobody reaps, and whoever created the file and has not released it still owns it |
| `LockProofs!EvidenceImplementsCorrect` | `ImplementsWriteLock` | step by step: each step moves one process, its mapped phase moves as one action of `WriteLock` or not at all; a grant needs `Owned` |
| `LockProofs!TypeCorrect`, `ExclusionCorrect`, `ImplementsCorrect` | the same | the same invariant for the longer loop |
| `LockProofs!OverlapCorrect` | `OverlapIsReported` | a transaction that was overlapped has lost the file, the file can only be created by somebody else while it runs, so its release check fails |
| `AuditSessionProofs!TypeCorrect` | type invariant | inductive as it stands |
| `AuditSessionProofs!OwnersCorrect` | `LiveOwnersKeepTheirFiles` | strengthened to agents that did not lapse, live or not; the sweep only touches agents that timed out, which are lapsed, and a command in progress reports what it recorded |
| `AuditSessionProofs!SharingCorrect` | `SharingIsReported` | strengthened to all owners: an owner that is not live owns nothing or lapsed, so the conflict check sees all others |
| `AuditSessionProofs!RefusalCorrect` | `KilledRecordStaysRefused` | action property: every command that writes reads the log back first |
| `AuditStepsProofs!StepsTypeCorrect` | type invariant | inductive as it stands, with one lemma per kind of move |
| `AuditStepsProofs!RefusedCorrect` | `RefusedWereTried` | `CountInv`: the evidence holds exactly as many failed attempts of a step as were made, and no process has counted more than there are |
| `AuditStepsProofs!MarkerCorrect`, `ProofCorrect` | `VerifiedMarkerHolds`, `AcceptedProofIsSound` | `SoundInv`: the baseline of an audit is, or was, the content; while it is, the checks that passed pass on it; since contents do not return, a later purity test that finds the baseline proves that it never left |
| `AuditStepsProofs!StatusCorrect`, `PrerequisitesCorrect` | `StatusHasEvidence`, `VerifiedHadPrerequisites` | `EvidenceInv`: whatever a file or a process in a command calls verified is in `Done`, the steps with a verified record, which only grows |
| `AuditStepsProofs!WholeCorrect` | `PlanStaysWhole` | `AloneInv`: without a race one command is open, and the temporary file it writes is its own |
| `AuditStepsProofs!AttemptsCorrect` | `AttemptsBounded` | `TryInv`: the failures of a step plus the runs that may still fail it keep within the bound; only the count of attempts adds a run to these, and only below the limit, and a failure takes its run out |
| `AuditSessionProofs!SessionTypeCorrect` | type invariant | inductive as it stands |
| `AuditSessionProofs!QuietCorrect` | `FrozenIsQuiet` | a freeze of a session that is not over is active, so nothing is admitted; nothing else makes an agent live |
| `AuditSessionProofs!PassedCorrect`, `OverlapCorrect` | `PassedSessionWasQuiet`, `OverlappingSessionsDoNotPass` | `LosersLost`: a disturbed or overlapped session no longer has its freeze, and a freeze of its own comes only from an entry, which is behind it |
| `ApprovalProofs!MonotonicReflexive`, `MonotonicTransitive` | - | `check_monotonic` is reflexive and transitive. The commands compare a plan with its seal only, and seal it again only as it is; transitivity says that this comparison accepts whatever the comparisons of single edits would: the count of a list contained in a list, one clause of `CheckMonotonic` at a time |
| `ApprovalProofs!AlignmentSurvivesAmendment` | - | a plan that meets a request still meets it after a monotonic amendment: every step that covered a requirement is kept with its checks, and a must requirement loses none |
| `ApprovalProofs!ApprovalTypes` | type invariant | what a process holds fits the place where it is (`Fits`), whoever edits the files it was read from |
| `ApprovalProofs!OneApprovalOneContract`, `TrustMeetsRequest` | `OneContractPerApproval`, `ExecutedMeetsRequest` | `ApprovedOK`: while sealing is undisturbed the seal that stands is of the contract that has run, or whose seal a process has read and will let run (`Granted`), under this generation, and meets the request named in it; a sealing command holds what it has read (`Sealed`) and nothing else seals, so it can only write the same contract again. A process between the seal and the request holds a contract that met the request named in that seal (`Bound`), and runs only if the request that stands is still that one. The digest of a contract is the digest of the plan (`ContractOfContract`), and alignment looks at the contract only (`AlignedByContract`) |
| `ApprovalProofs!AuthenticationHolds` | `AuthenticatedStays` | `Authentic`: if nothing was open when the marker was written, whoever is about to write a seal or a record has the key, and no init is before its last check; an append to a log its checkpoint agrees with leaves such a log |
| `ApprovalProofs!IntegrityFailsForAReason` | `InitFailsForAReason` | `UndisputedOK`: what each step of an init has made true stays true until its check (`Progress`), and between inits the chain holds with a checkpoint that agrees or none, which no process appends to without signing |
| `ApprovalProofs!SigningLosesNoRecord` | `EvidenceSurvives` | `Kept`: what is not exposed is in the log and in every signed log that is about to replace it |
| `TrafficProofs!RecorderTypes`, `AuthorityKeepsTypes` | type invariants | inductive as they stand |
| `TrafficProofs!AcceptedTrafficIsComplete`, `LedgerIsAlwaysExact` | `OkIsComplete`, `LedgerIsExact` | what a daemon has numbered and not yet written, written and not yet counted, and counted adds up, whatever its connections do; a closing record is the last one unless a late connection follows it, which the audit reports |
| `TrafficProofs!RecorderIsAlone`, `RecorderWithAuthority` | `OneRecorder` | without overlap and interruption the daemon a command has not seen end is the one in the state file, so the next start refuses; the steps of the authority move no daemon |
| `TrafficProofs!TrustCanBeRemoved` | `TrustIsRemovable` | the marker names a certificate only while it is the file on the disk, and the files are removed only behind the marker |
| `PlanProofs!SolverCorrect` | `SolverIsRight` | a run is an order of steps with its facts (`Runs`), and an order is executed by the exported problem exactly if it is a run of all the steps that reaches the goals (`SolvesIsExecutes`). Where nothing is deleted, whoever cannot go on has taken every step that some run takes (`StuckHasAll`), so the lowest step is never a wrong choice. The search keeps that every way (a run of all the steps that reaches the goals) starts in a seen state, and that each seen state of it waits in the queue or has its next state seen (`Followed`, `Searching`): nodes with the same facts and steps continue alike, and what `_future_impossible` prunes has no continuation (`DeadEnds`) |
| `PlanProofs!PassCorrect` | `PassIsEarned` | what is not rejected has one well-formed contract (`AcceptedParts`); a contract that compiles from the plan is solved by the topological order, because every required output is of a step that is a transitive dependency and these come before (`DependenciesComeBefore`, `GeneratedSolves`) |
| `PlanProofs!CompiledCorrect` | `CompiledIsAccepted` | `PlanInv`: what counts as compiled is `CompilePlan` of some plan; it differs from its source in the two checks in front, which the projection leaves out (`GeneratedChecksAreLeftOut`), so the plan with its contract compiles to the same contract (`AsLeftIsCompiled`), which is well-formed exactly if no required name has blanks around it (`KnownIsNotPadded`, `CompiledIsValid`) |
| `PlanProofs!ExitZeroCorrect` | `ExitZeroIsProof` | exit 0 means that every match counts for a PASS (`ExitZeroPasses`), a PASS is of a well-formed contract, and then the theorem about the planners gives a solution |
| `PlanProofs!InvCorrect` | - | `PlanInv`: whatever is edited, plans stay plans, and a report is about the plans as they are |
| `SupervisionProofs!SoleCorrect` | `SoleDaemonIsNamed` | `Sole`: a start that passed its check is the only one and nothing lives, so that the daemon it spawns is alone; a daemon that announced itself is named, so that the next start is refused. It needs that a spawned daemon without a name counts as an unfinished start. |
| `SupervisionProofs!VerdictCorrect` | `VerdictIsEarned` | the workspace keeps its shape whatever is changed (`Typed`), and for every workspace of that shape: nothing is triggered exactly when the plan is clean, a smallest level exists among the six, and the gate, the plan and the merge follow (`GateIs`, `PlanOutcomeIs`, `VerdictIs`); the way of a task arrives where it says because each of its steps is an allowed transition (`WalkArrives`, by induction over a set of numbers) |

Only model-checked: the liveness properties (fairness and `ENABLED` are beyond the
prover) and the violation. What the recursive definitions of the planners and of the graph
compute is proved all the same where they are recursive functions over numbers: such a function is
what its turns lead to, one after the other (`Iterates`), and what each turn keeps holds at
the end (`Passes`).

Three invariants came out of the proofs stronger or more exact than they were checked before: a
stamped request is obeyed whatever is disturbed; an `integrity init` excepts every command that is
open beside it, not only steps during it; and an init counts among the sealing commands.
The inductive invariants of `ApprovalProofs`, and `CompleteInv` of `EvidenceLogInv`, were checked
by TLC on the instances of section 3 before they were proved.

## 7. What is not modelled, and what could come next

Not modelled, each with its reason in `PROJECT.json`:

- *Snapshot and rollback*: one command copies or puts back files. Nothing runs beside it
  by design, an interrupted restore is repeated from the archive, and what can be
  wrong is the handling of paths, links and modes, which is data.
- *Bounded command*: one child process with a time limit and an output limit. The models
  take its result as one outcome.
- *Assessment*: `assessment.py` has no caller in the program.
- *Analysis helpers*: reports computed from their inputs without state; the gate's model
  has one fact for what each of them finds.
- *Packaging*: scripts that start Python or npm and pass the exit code on.
- Cryptography (a signature is valid or not, a hash is an identity), TLS, and the
  formatting of records and messages.

Partly modelled: the two-read window of `verify_chain` (it ends in a refusal that changes
nothing, or in a log as it was a moment earlier), the registry's per-agent files and its
legacy migration, the JSON validation of requests, the policy file's syntax, and the reading of a
hook's input.

What could come next, most useful first:

1. The composition of `EvidenceLock` with `EvidenceLog`, which implements `EvidenceLog` until a process
   dies and forks the chain when a lock is robbed; and of `AuditSession` with `AuditSteps` as its body.
2. An abstract specification of the evidence log (what is acknowledged stays, or is missed by
   the check), shown to be implemented by `EvidenceLog` with `CompleteInv`.

Every safety invariant and every action property that a run checks is proved. The unkeyed log is proved about (`QuietCorrect` holds for every value of `Keyed`)
and has no run of its own.
