-------------------------------- MODULE Approval --------------------------------
(***************************************************************************)
(* The files that approve a plan and the commands that write and trust     *)
(* them: request init (supervisor/request_contract.py), plan verify and    *)
(* the seal (supervisor/cli.py, sealing.py), plan-auditor-migrate-seal,    *)
(* plan-auditor-formalize compile, integrity init (integrity.py), and run  *)
(* and audit up to what require_plan_trust lets them execute.              *)
(*                                                                         *)
(* Each slot is one process at a time: it holds the integrity key in its   *)
(* environment or it does not, and it may be killed between two steps.     *)
(* There is one active plan, one key, and no archived evidence.            *)
(***************************************************************************)
EXTENDS PlanContract

CONSTANTS
  Slots,         \* processes at the same time
  None,          \* no file
  Plans,         \* what the agent or the user may write as the plan
  Requests,      \* what the host may approve: sequences of requirements
  Configs,       \* configurations of the supervisor, policies included
  Compiled(_),   \* the plan with its generated contract (FormalContracts)
  Versions,      \* what plan.json may hold: Plans, compiled and with the statuses of a run
  Starts,        \* the workspaces in which a behaviour starts
  MaxCommands, MaxEdits, MaxWithdrawals, MaxCrashes,
  MaxIncidents   \* edits, withdrawals and crashes together

VARIABLES
  plan, config, request, activation, seal,
  sealTmp, planTmp,          \* the temporary files of a seal and of a compiled plan
  log, head, registry,       \* the evidence, its checkpoint, whether the registry is signed
  marker,                    \* whether the integrity marker exists
  pc, job,                   \* where each process is, and what it holds
  commands, edits, crashes,  \* how many of each so far
  generation,                \* the approvals the host has withdrawn
  ran,                       \* history: what was executed, under which approval
  appended, exposed,         \* history: records written; those written while the log was replaced
  disturbed,                 \* history: something changed, or sealed, beside a sealing command
  straddled,                 \* history: a command was open when the marker was written
  reported,                  \* history: an integrity init has reported success
  beside,                    \* history: something else happened during an integrity init
  failures                   \* history: what stood in the way of integrity inits that failed

approvalFiles == <<request, activation, seal, sealTmp>>
planFiles     == <<plan, planTmp, config>>
evidence      == <<log, head, appended, exposed>>
integrity     == <<registry, marker, straddled, reported, failures>>
counters      == <<edits, crashes, generation>>
vars == <<approvalFiles, planFiles, evidence, integrity, counters, commands, pc, job, ran, disturbed, beside>>

\* A plan with the statuses of a passing run
Stored(p) == [p EXCEPT !.steps = [i \in DOMAIN @ |-> [@[i] EXCEPT !.status = "verified"]]]

\* What a process holds; approval is history: the generation of the seal it has read
NoJob == [key |-> FALSE, plan |-> None, env |-> None, file |-> None, log |-> <<>>, approval |-> 0]

Goes(s, label, j) == pc' = [pc EXCEPT ![s] = label] /\ job' = [job EXCEPT ![s] = j]
Ends(s) == Goes(s, "idle", NoJob)
Begins(s, label, j) == pc[s] = "idle" /\ commands < MaxCommands /\ commands' = commands + 1 /\ Goes(s, label, j)

-----------------------------------------------------------------------------
(* What a process with or without the key makes of the files *)

\* runtime_key raises nothing: the key and the marker go together
KeyUsable(key) == key = marker

SignedBy(key, file) == file.signed = key

Digest(file) == [reqs |-> file.reqs, stamp |-> file.stamp]

\* verify_request_contract(root).valid; it does not ask for the marker
RequestValid(key) ==
  /\ None \notin {request, activation}
  /\ activation.digest = Digest(request)
  /\ SignedBy(key, request) /\ SignedBy(key, activation)

RequestGateUnaligned(key) == RequestValid(key)         \* mutant: the plan is not compared
RequestGate(key) == RequestValid(key) /\ Aligned({plan} \ {None}, request.reqs)

EnvironmentContract(key) ==
  [config |-> config, request |-> IF RequestValid(key) THEN Digest(request) ELSE None]

SealPlan(p, env) ==
  [version |-> 4, plan |-> ContractPlan(p), hash |-> PlanHash(p), env |-> env, signed |-> FALSE]

SelfConsistent(file) ==
  file.hash = IF file.version = 3 THEN LegacyHash(file.plan) ELSE PlanHash(file.plan)

-----------------------------------------------------------------------------
(* The files *)

Contracts       == {PlanHash(p) : p \in Versions}
Digests         == [reqs : Requests, stamp : {None} \cup Contracts]
RequestFiles    == [reqs : Requests, stamp : {None} \cup Contracts, signed : BOOLEAN]
ActivationFiles == [digest : Digests, signed : BOOLEAN]
Environments    == [config : Configs, request : {None} \cup Digests]
Seals           == [version : {4}, plan : Contracts, hash : Contracts, env : Environments, signed : BOOLEAN]
LegacySeals     == [version : {3}, plan : Versions, hash : {LegacyHash(p) : p \in Versions},
                    env : [config : Configs], signed : BOOLEAN]
Records         == [id : Nat, prev : Nat, signed : BOOLEAN]
Heads           == [count : Nat, tail : Nat]

\* load_seal raises nothing
SealLoads(key) == seal # None => SelfConsistent(seal) /\ KeyUsable(key) /\ SignedBy(key, seal)

TailOf(l) == IF l = <<>> THEN 0 ELSE Last(l).id

HeadOf(l) == [count |-> Len(l), tail |-> TailOf(l)]

Chained(l) == \A i \in DOMAIN l : l[i].prev = IF i = 1 THEN 0 ELSE l[i - 1].id

\* verify_chain of scripts/audit_check.py
ChainValid(key) ==
  /\ KeyUsable(key)
  /\ Chained(log)
  /\ \A i \in DOMAIN log : SignedBy(key, log[i])
  /\ head = IF key THEN HeadOf(log) ELSE None

\* integrity_status(root)["authenticated"] for a process with the key
Authenticated ==
  /\ request # None \/ activation # None => RequestValid(TRUE)
  /\ ChainValid(TRUE)
  /\ registry
  /\ plan # None => seal # None /\ SealLoads(TRUE)

\* require_plan_trust raises nothing before it reads the request
SealTrusted(key, p) ==
  /\ seal # None /\ seal.version >= 4 /\ seal.hash = PlanHash(p)
  /\ KeyUsable(key) /\ SignedBy(key, seal)

RequestPresent(committed, p) ==                        \* mutant: any request will do
  (request = None) <=> (committed = None)

\* _verify_request_binding, of the digest in the seal that was read
RequestBound(committed, p) ==
  IF request = None THEN committed = None
  ELSE committed = Digest(request) /\ request.stamp \in {None, PlanHash(p)}

-----------------------------------------------------------------------------
(* What is assumed of the plans and of the workspaces *)

IsPlan(p) ==
  /\ DOMAIN p = {"task", "reqs", "tools", "traffic", "steps"}
  /\ p.steps \in Seq(ToSet(p.steps))

ASSUME VersionsAreClosed ==
  /\ Plans \subseteq Versions
  /\ \A p \in Versions : IsPlan(p) /\ Compiled(p) \in Versions /\ Stored(p) \in Versions

ASSUME NoneIsNoFile ==
  /\ None \notin Versions /\ None \notin Digests /\ None \notin Heads
  /\ None \notin RequestFiles /\ None \notin ActivationFiles
  /\ None \notin Seals /\ None \notin LegacySeals

\* What completed commands leave: a chain, signed throughout with its checkpoint or not
\* at all, and a seal that passes its own check and was given to a plan that met the request
SoundStart(w) ==
  /\ w.plan \in Versions \cup {None} /\ w.config \in Configs /\ w.signed \in BOOLEAN
  /\ w.request \in RequestFiles \cup {None} /\ w.activation \in ActivationFiles \cup {None}
  /\ w.log \in Seq(Records) /\ Chained(w.log)
  /\ \A i \in DOMAIN w.log : w.log[i].signed = w.signed
  /\ w.head = IF w.signed THEN HeadOf(w.log) ELSE None
  /\ w.seal \in Seals \cup LegacySeals \cup {None}
  /\ w.seal # None =>
       /\ w.plan # None /\ SelfConsistent(w.seal) /\ (w.signed => w.seal.signed)
       /\ w.seal.version = 4 /\ w.seal.env.request # None =>
            Aligned({w.seal.hash}, w.seal.env.request.reqs)

ASSUME StartsAreSound == \A w \in Starts : SoundStart(w)

ASSUME BoundsAreNaturals == {MaxCommands, MaxEdits, MaxWithdrawals, MaxCrashes, MaxIncidents} \subseteq Nat

-----------------------------------------------------------------------------
(* request init *)

StartRequest(s) ==
  \E key \in BOOLEAN, reqs \in Requests :
    /\ request = None /\ activation = None
    /\ LET stamp == IF plan = None THEN None ELSE PlanHash(plan)
           digest == [reqs |-> reqs, stamp |-> stamp]
       IN  Begins(s, "request", [NoJob EXCEPT !.key = key, !.file = digest])
    /\ UNCHANGED <<approvalFiles, planFiles, evidence, integrity, counters, ran>>

WriteRequest(s) ==
  /\ pc[s] = "request"
  /\ request' = [reqs |-> job[s].file.reqs, stamp |-> job[s].file.stamp, signed |-> job[s].key]
  /\ Goes(s, "activation", job[s])
  /\ UNCHANGED <<activation, seal, sealTmp, planFiles, evidence, integrity, counters, commands, ran>>

WriteActivation(s) ==
  /\ pc[s] = "activation"
  /\ activation' = [digest |-> job[s].file, signed |-> job[s].key]
  /\ Ends(s)
  /\ UNCHANGED <<request, seal, sealTmp, planFiles, evidence, integrity, counters, commands, ran>>

-----------------------------------------------------------------------------
(* plan verify and the migration of a seal *)

StartVerify(s) ==
  \E key \in BOOLEAN :
    /\ plan # None /\ RequestGate(key)
    /\ Begins(s, "verify", [NoJob EXCEPT !.key = key, !.env = EnvironmentContract(key)])
    /\ UNCHANGED <<approvalFiles, planFiles, evidence, integrity, counters, ran>>

VerifyLoad(s) ==
  /\ pc[s] = "verify"
  /\ IF plan # None /\ OutputLinksValid(plan.steps)
     THEN Goes(s, "check", [job[s] EXCEPT !.plan = plan])
     ELSE Ends(s)
  /\ UNCHANGED <<approvalFiles, planFiles, evidence, integrity, counters, commands, ran>>

\* A sealed plan is sealed again only as it is
ResealStronger(j) ==                                   \* mutant: a stronger plan as well
  /\ seal.version >= 4
  /\ CheckMonotonic(seal.plan, j.plan) /\ seal.env = j.env

Resealable(j) ==
  /\ seal.version >= 4
  /\ CheckMonotonic(seal.plan, j.plan) /\ seal.env = j.env
  /\ seal.hash = PlanHash(j.plan)

VerifyCheck(s) ==
  /\ pc[s] = "check"
  /\ IF SealLoads(job[s].key) /\ (seal # None => Resealable(job[s]))
     THEN Goes(s, "save", [job[s] EXCEPT !.file = SealPlan(job[s].plan, job[s].env)])
     ELSE Ends(s)
  /\ UNCHANGED <<approvalFiles, planFiles, evidence, integrity, counters, commands, ran>>

StartMigrate(s) ==
  \E key \in BOOLEAN :
    /\ plan # None /\ RequestGate(key)
    /\ Begins(s, "migrate", [NoJob EXCEPT !.key = key])
    /\ UNCHANGED <<approvalFiles, planFiles, evidence, integrity, counters, ran>>

\* Only a seal of format 3, of the plan as it is, under the configuration as it is
MigrateOne(s) ==
  /\ pc[s] = "migrate"
  /\ LET env == EnvironmentContract(job[s].key) IN
       IF /\ plan # None /\ seal # None /\ SealLoads(job[s].key)
          /\ seal.version = 3
          /\ ContractPlan(seal.plan) = ContractPlan(plan)
          /\ seal.env.config = env.config /\ env.request # None
       THEN Goes(s, "save", [job[s] EXCEPT !.file = SealPlan(plan, env)])
       ELSE Ends(s)
  /\ UNCHANGED <<approvalFiles, planFiles, evidence, integrity, counters, commands, ran>>

\* save_seal: the temporary file must not exist
SaveOpen(s) ==
  /\ pc[s] = "save"
  /\ IF KeyUsable(job[s].key) /\ ~sealTmp
     THEN sealTmp' = TRUE /\ Goes(s, "replace", job[s])
     ELSE UNCHANGED sealTmp /\ Ends(s)
  /\ UNCHANGED <<request, activation, seal, planFiles, evidence, integrity, counters, commands, ran>>

Unsigned(file, key) == file                            \* mutant: what is written carries no MAC
Signed(file, key) == [file EXCEPT !.signed = key]

SaveReplace(s) ==
  /\ pc[s] = "replace"
  /\ seal' = Signed(job[s].file, job[s].key)
  /\ sealTmp' = FALSE
  /\ Ends(s)
  /\ UNCHANGED <<request, activation, planFiles, evidence, integrity, counters, commands, ran>>

-----------------------------------------------------------------------------
(* plan-auditor-formalize compile *)

StartCompile(s) ==
  /\ plan # None
  /\ Begins(s, "compile", [NoJob EXCEPT !.plan = plan])
  /\ UNCHANGED <<approvalFiles, planFiles, evidence, integrity, counters, ran>>

CompileOpen(s) ==
  /\ pc[s] = "compile"
  /\ IF Compiled(job[s].plan) # job[s].plan /\ seal = None /\ ~planTmp
     THEN planTmp' = TRUE /\ Goes(s, "compiled", job[s])
     ELSE UNCHANGED planTmp /\ Ends(s)
  /\ UNCHANGED <<approvalFiles, plan, config, evidence, integrity, counters, commands, ran>>

CompileReplace(s) ==
  /\ pc[s] = "compiled"
  /\ plan' = Compiled(job[s].plan)
  /\ planTmp' = FALSE
  /\ Ends(s)
  /\ UNCHANGED <<approvalFiles, config, evidence, integrity, counters, commands, ran>>

-----------------------------------------------------------------------------
(* run, and the audit behind its gate *)

StartRun(s) ==
  \E key \in BOOLEAN :
    /\ plan # None /\ ChainValid(key)
    /\ Begins(s, "trust", [NoJob EXCEPT !.key = key, !.plan = plan])
    /\ UNCHANGED <<approvalFiles, planFiles, evidence, integrity, counters, ran>>

StartAudit(s) ==
  \E key \in BOOLEAN :
    /\ plan # None /\ RequestGate(key)
    /\ seal # None /\ SealLoads(key) /\ seal.version >= 4
    /\ CheckMonotonic(seal.plan, plan) /\ seal.env = EnvironmentContract(key)
    /\ Begins(s, "audit", [NoJob EXCEPT !.key = key])
    /\ UNCHANGED <<approvalFiles, planFiles, evidence, integrity, counters, ran>>

AuditLoad(s) ==
  /\ pc[s] = "audit"
  /\ IF plan # None /\ ChainValid(job[s].key)
     THEN Goes(s, "trust", [job[s] EXCEPT !.plan = plan])
     ELSE Ends(s)
  /\ UNCHANGED <<approvalFiles, planFiles, evidence, integrity, counters, commands, ran>>

ReadSeal(s) ==
  /\ pc[s] = "trust"
  /\ IF SealTrusted(job[s].key, job[s].plan)
     THEN Goes(s, "bind", [job[s] EXCEPT !.env = seal.env, !.approval = generation])
     ELSE Ends(s)
  /\ UNCHANGED <<approvalFiles, planFiles, evidence, integrity, counters, commands, ran>>

\* The seal that was read may have been withdrawn since; what runs, runs under its approval
Execution(j) ==
  [contract |-> PlanHash(j.plan), generation |-> j.approval,
   digest |-> IF request = None THEN None ELSE Digest(request)]

Execute(s) ==
  /\ pc[s] = "bind"
  /\ IF RequestBound(job[s].env.request, job[s].plan)
     THEN ran' = ran \cup {Execution(job[s])} /\ Goes(s, "record", job[s])
     ELSE UNCHANGED ran /\ Ends(s)
  /\ UNCHANGED <<approvalFiles, planFiles, evidence, integrity, counters, commands>>

\* append_evidence: the key is looked up under the lock, which integrity init does not take
AppendOpen(s) ==
  /\ pc[s] = "record"
  /\ \A t \in Slots : pc[t] # "append"
  /\ IF KeyUsable(job[s].key) THEN Goes(s, "append", job[s]) ELSE Ends(s)
  /\ UNCHANGED <<approvalFiles, planFiles, evidence, integrity, counters, commands, ran>>

Lags == head # None /\ head.count > 0 /\ TailOf(log) # head.tail

Previous ==
  IF Lags /\ ~(TailOf(log) # 0 /\ Len(log) = head.count + 1) THEN head.tail ELSE TailOf(log)

\* A signing process that overlaps, between reading the log and replacing it
Replacing == \E t \in Slots : pc[t] = "log"

AppendWrite(s) ==
  /\ pc[s] = "append"
  /\ LET id == Cardinality(appended) + 1 IN
       /\ log' = Append(log, [id |-> id, prev |-> Previous, signed |-> job[s].key])
       /\ appended' = appended \cup {id}
       /\ exposed' = exposed \cup IF Replacing THEN {id} ELSE {}
       /\ head' = IF ~job[s].key THEN head
                  ELSE [tail |-> id, count |-> IF Lags \/ head = None THEN Len(log) + 1 ELSE head.count + 1]
  /\ Goes(s, "store", job[s])
  /\ UNCHANGED <<approvalFiles, planFiles, integrity, counters, commands, ran>>

\* save_plan writes the plan as it was loaded, with its new statuses
StorePlan(s) ==
  /\ pc[s] = "store"
  /\ plan' = Stored(job[s].plan)
  /\ Ends(s)
  /\ UNCHANGED <<approvalFiles, planTmp, config, evidence, integrity, counters, commands, ran>>

-----------------------------------------------------------------------------
(* integrity init *)

PairPresent == request # None \/ activation # None
PairMatches == None \notin {request, activation} /\ activation.digest = Digest(request)

\* What stands in the way when it fails
Obstacles ==
  {o \in {"leftover", "unsealed", "pair"} :
     \/ o = "leftover" /\ sealTmp
     \/ o = "unsealed" /\ plan # None /\ seal = None
     \/ o = "pair" /\ PairPresent /\ ~PairMatches}

InitFails(s) == failures' = failures \cup {Obstacles} /\ Ends(s)

StartIntegrity(s) ==
  /\ ~marker
  /\ Begins(s, IF PairPresent THEN "pair" ELSE "read", [NoJob EXCEPT !.key = TRUE])
  /\ UNCHANGED <<approvalFiles, planFiles, evidence, integrity, counters, ran>>

ReadPair(s) ==
  /\ pc[s] = "pair"
  /\ IF PairMatches
     THEN /\ Goes(s, "sign request", [job[s] EXCEPT !.file = [request |-> request, activation |-> activation]])
          /\ UNCHANGED failures
     ELSE InitFails(s)
  /\ UNCHANGED <<approvalFiles, planFiles, evidence, registry, marker, straddled, reported, counters, commands, ran>>

SignRequest(s) ==
  /\ pc[s] = "sign request"
  /\ request' = Signed(job[s].file.request, TRUE)
  /\ Goes(s, "sign activation", job[s])
  /\ UNCHANGED <<activation, seal, sealTmp, planFiles, evidence, integrity, counters, commands, ran>>

SignActivation(s) ==
  /\ pc[s] = "sign activation"
  /\ activation' = Signed(job[s].file.activation, TRUE)
  /\ Goes(s, "read", job[s])
  /\ UNCHANGED <<request, seal, sealTmp, planFiles, evidence, integrity, counters, commands, ran>>

\* _sign_jsonl: the chain must hold, whoever signed its records
ReadableUnsigned(l) ==                                 \* mutant: records signed before are refused
  Chained(l) /\ \A i \in DOMAIN l : ~l[i].signed
Readable(l) == Chained(l)

SignedLogOfUnsigned(l) ==                              \* mutant: keeps what is not signed yet
  [i \in DOMAIN SelectSeq(l, LAMBDA r : ~r.signed) |-> Signed(SelectSeq(l, LAMBDA r : ~r.signed)[i], TRUE)]
SignedLog(l) == [i \in DOMAIN l |-> Signed(l[i], TRUE)]

ReadLog(s) ==
  /\ pc[s] = "read"
  /\ IF Readable(log)
     THEN Goes(s, "log", [job[s] EXCEPT !.log = SignedLog(log)]) /\ UNCHANGED failures
     ELSE InitFails(s)
  /\ UNCHANGED <<approvalFiles, planFiles, evidence, registry, marker, straddled, reported, counters, commands, ran>>

ReplaceLog(s) ==
  /\ pc[s] = "log"
  /\ log' = job[s].log
  /\ Goes(s, "head", [job[s] EXCEPT !.log = <<>>])
  /\ UNCHANGED <<approvalFiles, planFiles, head, appended, exposed, integrity, counters, commands, ran>>

WriteHead(s) ==
  /\ pc[s] = "head"
  /\ head' = HeadOf(log)
  /\ Goes(s, "registry", job[s])
  /\ UNCHANGED <<approvalFiles, planFiles, log, appended, exposed, integrity, counters, commands, ran>>

SignRegistry(s) ==
  /\ pc[s] = "registry"
  /\ registry' = TRUE
  /\ Goes(s, "sign seal", job[s])
  /\ UNCHANGED <<approvalFiles, planFiles, evidence, marker, straddled, reported, failures, counters, commands, ran>>

SignSealOpen(s) ==
  /\ pc[s] = "sign seal"
  /\ CASE seal = None -> Goes(s, "marker", job[s]) /\ UNCHANGED <<sealTmp, failures>>
       [] seal # None /\ sealTmp -> InitFails(s) /\ UNCHANGED sealTmp
       [] OTHER -> /\ Goes(s, "sealed", [job[s] EXCEPT !.file = seal])
                   /\ sealTmp' = TRUE /\ UNCHANGED failures
  /\ UNCHANGED <<request, activation, seal, planFiles, evidence, registry, marker, straddled, reported,
                 counters, commands, ran>>

SignSealReplace(s) ==
  /\ pc[s] = "sealed"
  /\ seal' = Signed(job[s].file, TRUE)
  /\ sealTmp' = FALSE
  /\ Goes(s, "marker", job[s])
  /\ UNCHANGED <<request, activation, planFiles, evidence, integrity, counters, commands, ran>>

WriteMarker(s) ==
  /\ pc[s] = "marker"
  /\ marker' = TRUE
  /\ straddled' = (straddled \/ \E t \in Slots \ {s} : pc[t] # "idle")
  /\ Goes(s, "status", job[s])
  /\ UNCHANGED <<approvalFiles, planFiles, evidence, registry, reported, failures, counters, commands, ran>>

CheckStatus(s) ==
  /\ pc[s] = "status"
  /\ IF Authenticated
     THEN reported' = TRUE /\ Ends(s) /\ UNCHANGED failures
     ELSE InitFails(s) /\ UNCHANGED reported
  /\ UNCHANGED <<approvalFiles, planFiles, evidence, registry, marker, straddled, counters, commands, ran>>

-----------------------------------------------------------------------------
(* The agent, the host and the system *)

IncidentsLeft == edits + generation + crashes < MaxIncidents

EditPlan ==
  /\ IncidentsLeft /\ edits < MaxEdits /\ edits' = edits + 1
  /\ plan' \in Plans \ {plan}
  /\ UNCHANGED <<approvalFiles, planTmp, config, evidence, integrity, crashes, generation, commands, pc, job, ran>>

EditConfig ==
  /\ IncidentsLeft /\ edits < MaxEdits /\ edits' = edits + 1
  /\ config' \in Configs \ {config}
  /\ UNCHANGED <<approvalFiles, plan, planTmp, evidence, integrity, crashes, generation, commands, pc, job, ran>>

\* A new approval generation: the host removes the old one
Withdraw ==
  /\ IncidentsLeft /\ generation < MaxWithdrawals /\ generation' = generation + 1
  /\ PairPresent
  /\ request' = None /\ activation' = None /\ seal' = None
  /\ UNCHANGED <<sealTmp, planFiles, evidence, integrity, edits, crashes, commands, pc, job, ran>>

\* A process is killed; what it has opened stays
Crash(s) ==
  /\ IncidentsLeft /\ crashes < MaxCrashes /\ crashes' = crashes + 1
  /\ pc[s] # "idle"
  /\ Ends(s)
  /\ UNCHANGED <<approvalFiles, planFiles, evidence, integrity, edits, generation, commands, ran>>

-----------------------------------------------------------------------------

Sealing(s) == pc[s] \in {"verify", "check", "migrate", "save", "replace", "sealed"}

ContractChanges ==
  \/ None \in {plan, plan'} /\ plan' # plan
  \/ None \notin {plan, plan'} /\ PlanHash(plan') # PlanHash(plan)

Disturbs ==
  \E s \in Slots :
    /\ Sealing(s)
    /\ ContractChanges \/ request' # request \/ \E t \in Slots \ {s} : Sealing(t)

Command(s) ==
  \/ StartRequest(s) \/ WriteRequest(s) \/ WriteActivation(s)
  \/ StartVerify(s) \/ VerifyLoad(s) \/ VerifyCheck(s) \/ StartMigrate(s) \/ MigrateOne(s)
  \/ SaveOpen(s) \/ SaveReplace(s)
  \/ StartCompile(s) \/ CompileOpen(s) \/ CompileReplace(s)
  \/ StartRun(s) \/ StartAudit(s) \/ AuditLoad(s) \/ ReadSeal(s) \/ Execute(s)
  \/ AppendOpen(s) \/ AppendWrite(s) \/ StorePlan(s)
  \/ StartIntegrity(s) \/ ReadPair(s) \/ SignRequest(s) \/ SignActivation(s)
  \/ ReadLog(s) \/ ReplaceLog(s) \/ WriteHead(s) \/ SignRegistry(s)
  \/ SignSealOpen(s) \/ SignSealReplace(s) \/ WriteMarker(s) \/ CheckStatus(s)
  \/ Crash(s)

Signing(s) ==
  pc[s] \in {"pair", "sign request", "sign activation", "read", "log", "head", "registry",
             "sign seal", "sealed", "marker", "status"}

\* While one slot signs another one is open, or the agent or the host does something
Besides ==
  \E s \in Slots : Signing(s) /\ (pc'[s] = pc[s] \/ \E t \in Slots \ {s} : pc[t] # "idle")

Next ==
  /\ (\E s \in Slots : Command(s)) \/ EditPlan \/ EditConfig \/ Withdraw
  /\ disturbed' = (disturbed \/ Disturbs)
  /\ beside' = (beside \/ Besides)

\* Every process is idle, and the files are what completed commands have left
Init ==
  /\ \E w \in Starts :
       /\ plan = w.plan /\ config = w.config
       /\ request = w.request /\ activation = w.activation /\ seal = w.seal
       /\ log = w.log /\ head = w.head
       /\ registry = w.signed /\ marker = w.signed /\ reported = w.signed
  /\ sealTmp = FALSE /\ planTmp = FALSE
  /\ pc = [s \in Slots |-> "idle"] /\ job = [s \in Slots |-> NoJob]
  /\ commands = 0 /\ edits = 0 /\ crashes = 0 /\ generation = 0
  /\ ran = {} /\ appended = {log[i].id : i \in DOMAIN log} /\ exposed = {}
  /\ disturbed = FALSE /\ straddled = FALSE /\ beside = FALSE /\ failures = {}

Spec == Init /\ [][Next]_vars

-----------------------------------------------------------------------------
(* Properties *)

Labels ==
  {"idle", "request", "activation", "verify", "check", "migrate", "save", "replace", "compile", "compiled",
   "trust", "audit", "bind", "record", "append", "store", "pair", "sign request", "sign activation", "read", "log",
   "head", "registry", "sign seal", "sealed", "marker", "status"}

PairFiles == [request : RequestFiles, activation : ActivationFiles]

Jobs ==
  [key : BOOLEAN, plan : Versions \cup {None}, env : Environments \cup {None}, log : Seq(Records),
   approval : Nat, file : {None} \cup Digests \cup Seals \cup LegacySeals \cup PairFiles]

\* What a process holds at the place where it is
Fits(label, j) ==
  /\ label \in {"request", "activation"} => j.file \in Digests
  /\ label \in {"verify", "check", "bind"} => j.env \in Environments
  /\ label \in {"check", "compile", "compiled", "trust", "bind", "record", "append", "store"} => j.plan \in Versions
  /\ label \in {"save", "replace"} => j.file \in Seals
  /\ label \in {"sign request", "sign activation"} => j.file \in PairFiles
  /\ label = "sealed" => j.file \in Seals \cup LegacySeals

TypeOK ==
  /\ plan \in Versions \cup {None} /\ config \in Configs
  /\ request \in RequestFiles \cup {None} /\ activation \in ActivationFiles \cup {None}
  /\ seal \in Seals \cup LegacySeals \cup {None}
  /\ log \in Seq(Records) /\ head \in Heads \cup {None}
  /\ {sealTmp, planTmp, registry, marker, straddled, reported, disturbed, beside} \subseteq BOOLEAN
  /\ {commands, edits, crashes, generation} \subseteq Nat
  /\ pc \in [Slots -> Labels] /\ job \in [Slots -> Jobs] /\ \A s \in Slots : Fits(pc[s], job[s])
  /\ ran \subseteq [contract : Contracts, generation : Nat, digest : Digests \cup {None}]
  /\ appended \subseteq Nat /\ IsFiniteSet(appended) /\ exposed \subseteq Nat
  /\ failures \subseteq SUBSET {"leftover", "unsealed", "pair"}

\* One approval executes one contract: a request that was made for a plan lets nothing
\* else run, whatever is done beside it; and under one generation of the request, no
\* sequence of edits, compilations, re-verifications, migrations and crashes makes a run or
\* an audit execute another contract than the first one executed, unless sealing was
\* disturbed.
OneContractPerApproval ==
  /\ \A e \in ran : e.digest # None /\ e.digest.stamp # None => e.contract = e.digest.stamp
  /\ ~disturbed => \A e, f \in ran : e.generation = f.generation => e.contract = f.contract

\* What is executed has the requirements of the request it is executed under, and
\* the checks the host asked for, though require_plan_trust does not look at them:
\* the seal stands for the gate of plan verify, unless sealing was disturbed.
ExecutedMeetsRequest ==
  ~disturbed => \A e \in ran : e.digest # None => Aligned({e.contract}, e.digest.reqs)

\* Signing the evidence loses no record that was written before it or after it,
\* whatever it was interrupted by.
EvidenceSurvives ==
  \A id \in appended \ exposed : \E i \in DOMAIN log : log[i].id = id

\* A workspace reported as authenticated stays so for those who hold the key: no
\* command, with the key or without, leaves evidence, registry or seal unsigned,
\* unless it was open when the marker was written.
AuthenticatedStays ==
  reported /\ ~straddled => ChainValid(TRUE) /\ registry /\ SealLoads(TRUE)

\* An interrupted integrity init can be repeated until it succeeds: with no other command
\* open beside it, it fails only for a plan without a seal, or for what a killed process
\* left of a seal or of a request.
InitFailsForAReason ==
  ~beside => \A obstacles \in failures : obstacles # {}
=============================================================================
