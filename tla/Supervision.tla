------------------------------ MODULE Supervision ------------------------------
(***************************************************************************)
(* The supervisor daemon (supervisor/daemon.py) and the commands           *)
(* `supervisor start` and `supervisor stop` (supervisor/cli.py) of one     *)
(* workspace, which share three files: supervisor-runtime.json, the stop   *)
(* marker supervisor.stop and supervisor-assessment.json.  The daemon      *)
(* judges the workspace with CompletionGate while others change it.        *)
(*                                                                         *)
(* Processes are numbered in the order they are spawned and a PID is not   *)
(* reused.  A file is replaced in one step; an assessment reads the        *)
(* workspace in one step and is written in another.  Waits may time out    *)
(* at any moment, time itself is left out.                                 *)
(***************************************************************************)
EXTENDS CompletionGate

CONSTANTS
  Starts,      \* what there is at the start: [ws, facts, edits, commands, crashes], the facts that
               \* may change and bounds on changes, commands, and killed processes and failed writes
  MaxDaemons,  \* bound on daemons
  Slots        \* bound on commands at the same time

VARIABLES
  ws,          \* the workspace
  state,       \* supervisor-runtime.json: [phase, pid], or NoState
  marker,      \* whether supervisor.stop exists
  assessment,  \* the outcome in supervisor-assessment.json, or "none"
  daemon,      \* the processes: [at, profile, told, seen]
  command,     \* the commands: [kind, at, profile, pid]
  left,        \* what is left of the bounds
  overlapped   \* a start passed its check while another one was not over

vars == <<ws, state, marker, assessment, daemon, command, left, overlapped>>

Daemons == 1..MaxDaemons
NoState == [phase |-> "none", pid |-> 0]

Ended    == {"none", "dead"}
Starting == {"spawned", "clearing", "publishing", "judging", "judged", "announcing"}
Working  == {"looping", "assessing", "assessed", "beating", "waiting"}
Leaving  == {"leaving", "judging last", "judged last", "closing"}

Alive(d) == d \in Daemons /\ daemon[d].at \notin Ended
Living   == {d \in Daemons : Alive(d)}

\* Mutant: the wrong phase is asked for
SupervisedSoon == state.phase = "starting" /\ Alive(state.pid)

Supervised == state.phase = "running" /\ Alive(state.pid)

Assessed == assessment # "none"

Process(at, profile) == [at |-> at, profile |-> profile, told |-> FALSE, seen |-> "none"]
Idle                 == [kind |-> "none", at |-> "none", profile |-> "standard", pid |-> 0]

\* A process that ends takes its variables with it; a command reports how it ended and no more
DaemonAt(d, place)  == daemon' = [daemon EXCEPT ![d] = IF place = "dead" THEN Process("dead", "standard")
                                                       ELSE [@ EXCEPT !.at = place]]
CommandAt(c, place) == command' = [command EXCEPT ![c] = IF place = "none" THEN Idle ELSE [@ EXCEPT !.at = place]]

-----------------------------------------------------------------------------
(* run_daemon *)

\* A daemon that finds another one running ends with 2
Look(d) ==
  /\ daemon[d].at = "spawned"
  /\ DaemonAt(d, IF Supervised THEN "dead" ELSE "clearing")
  /\ UNCHANGED <<ws, state, marker, assessment, command, left, overlapped>>

ClearOldMarker(d) ==
  /\ daemon[d].at = "clearing"
  /\ marker' = FALSE
  /\ DaemonAt(d, "publishing")
  /\ UNCHANGED <<ws, state, assessment, command, left, overlapped>>

\* The signal handlers are installed before the PID can be known
WriteState(d, from, phase, to) ==
  /\ daemon[d].at = from
  /\ state' = [phase |-> phase, pid |-> d]
  /\ DaemonAt(d, to)
  /\ UNCHANGED <<ws, marker, assessment, command, left, overlapped>>

Publish(d)  == WriteState(d, "publishing", "starting", "judging")
Announce(d) == WriteState(d, "announcing", "running", "looping")
Beat(d)     == WriteState(d, "beating", "running", "waiting")
Close(d)    == WriteState(d, "closing", "stopped", "dead")

\* _safe_assessment, under the profile the daemon was started with
Judge(d, from, to) ==
  /\ daemon[d].at = from
  /\ daemon' = [daemon EXCEPT ![d].at = to,
                              ![d].seen = Verdict(ws, Assessed, daemon[d].profile)]
  /\ UNCHANGED <<ws, state, marker, assessment, command, left, overlapped>>

WriteAssessment(d, from, to) ==
  /\ daemon[d].at = from
  /\ assessment' = daemon[d].seen
  /\ daemon' = [daemon EXCEPT ![d].at = to, ![d].seen = "none"]
  /\ UNCHANGED <<ws, state, marker, command, left, overlapped>>

JudgeFirst(d) == Judge(d, "judging", "judged")
WriteFirst(d) == WriteAssessment(d, "judged", "announcing")

\* Mutant: nothing is assessed when the watchdog, which does not look into .plan-auditor, saw nothing
JudgeSkipped(d) ==
  /\ daemon[d].at = "assessing"
  /\ DaemonAt(d, "beating")
  /\ UNCHANGED <<ws, state, marker, assessment, command, left, overlapped>>

JudgeAgain(d) == Judge(d, "assessing", "assessed")
WriteAgain(d) == WriteAssessment(d, "assessed", "beating")
JudgeLast(d)  == Judge(d, "judging last", "judged last")
WriteLast(d)  == WriteAssessment(d, "judged last", "closing")

\* Mutant: a signal is not enough
MarkerOnly(d) == marker

ToldToStop(d) == daemon[d].told \/ marker

\* The head of the loop, and _interruptible_wait
Poll(d) ==
  /\ daemon[d].at = "looping"
  /\ DaemonAt(d, IF ToldToStop(d) THEN "leaving" ELSE "assessing")
  /\ UNCHANGED <<ws, state, marker, assessment, command, left, overlapped>>

Wait(d) ==
  /\ daemon[d].at = "waiting"
  /\ DaemonAt(d, IF ToldToStop(d) THEN "leaving" ELSE "looping")
  /\ UNCHANGED <<ws, state, marker, assessment, command, left, overlapped>>

RemoveMarker(d) ==
  /\ daemon[d].at = "leaving"
  /\ marker' = FALSE
  /\ DaemonAt(d, "judging last")
  /\ UNCHANGED <<ws, state, assessment, command, left, overlapped>>

DaemonStep(d) ==
  \/ Look(d) \/ ClearOldMarker(d) \/ Publish(d) \/ JudgeFirst(d) \/ WriteFirst(d) \/ Announce(d)
  \/ Poll(d) \/ JudgeAgain(d) \/ WriteAgain(d) \/ Beat(d) \/ Wait(d)
  \/ RemoveMarker(d) \/ JudgeLast(d) \/ WriteLast(d) \/ Close(d)

-----------------------------------------------------------------------------
(* supervisor start and supervisor stop *)

Free(c) == command[c].at = "none"

Begin(c, kind, place, profile, pid) ==
  /\ Free(c)
  /\ left.commands > 0
  /\ left' = [left EXCEPT !.commands = @ - 1]
  /\ command' = [command EXCEPT ![c] = [kind |-> kind, at |-> place, profile |-> profile, pid |-> pid]]

\* _persist_supervisor_config comes before anything is checked
StartBegin(c) ==
  \E profile \in Profiles :
    /\ Begin(c, "start", "configured", profile, 0)
    /\ ws' = [ws EXCEPT !.profile = profile]
    /\ UNCHANGED <<state, marker, assessment, daemon, overlapped>>

\* A start that has passed its check, or whose daemon has not announced itself
Unfinished ==
  \/ \E c \in Slots : command[c].kind = "start" /\ command[c].at \in {"unlinking", "unmarking", "spawning"}
  \/ \E d \in Living : daemon[d].at \in Starting

StartCheck(c) ==
  /\ command[c].at = "configured"
  /\ CommandAt(c, IF Supervised THEN "none" ELSE "unlinking")
  /\ overlapped' = (overlapped \/ (~Supervised /\ Unfinished))
  /\ UNCHANGED <<ws, state, marker, assessment, daemon, left>>

UnlinkState(c) ==
  /\ command[c].at = "unlinking"
  /\ state' = NoState
  /\ CommandAt(c, "unmarking")
  /\ UNCHANGED <<ws, marker, assessment, daemon, left, overlapped>>

UnlinkMarker(c) ==
  /\ command[c].at = "unmarking"
  /\ marker' = FALSE
  /\ CommandAt(c, "spawning")
  /\ UNCHANGED <<ws, state, assessment, daemon, left, overlapped>>

\* What is left of a start is to watch the state file, which changes nothing
NextPid == Cardinality({d \in Daemons : daemon[d].at # "none"}) + 1

Spawn(c) ==
  /\ command[c].at = "spawning"
  /\ NextPid \in Daemons
  /\ daemon' = [daemon EXCEPT ![NextPid] = Process("spawned", command[c].profile)]
  /\ CommandAt(c, "none")
  /\ UNCHANGED <<ws, state, marker, assessment, left, overlapped>>

\* With nobody to stop the command is over at once
StopBegin(c) ==
  /\ Alive(state.pid)
  /\ Begin(c, "stop", "marking", "standard", state.pid)
  /\ UNCHANGED <<ws, state, marker, assessment, daemon, overlapped>>

Mark(c) ==
  /\ command[c].at = "marking"
  /\ marker' = TRUE
  /\ CommandAt(c, "awaiting")
  /\ UNCHANGED <<ws, state, assessment, daemon, left, overlapped>>

\* The daemon ends within eight seconds, or is sent SIGTERM; whether it has ended then is only reported
Await(c) ==
  /\ command[c].at = "awaiting"
  /\ IF Alive(command[c].pid)
     THEN /\ daemon' = [daemon EXCEPT ![command[c].pid].told = TRUE]
          /\ CommandAt(c, "none")
     ELSE CommandAt(c, "none") /\ UNCHANGED daemon
  /\ UNCHANGED <<ws, state, marker, assessment, left, overlapped>>

StartStep(c) == StartCheck(c) \/ UnlinkState(c) \/ UnlinkMarker(c) \/ Spawn(c)
StopStep(c)  == Mark(c) \/ Await(c)

-----------------------------------------------------------------------------
(* The workspace, and processes that are killed *)

SharedFacts == {"raises", "aligned", "trace", "chain", "anchored", "keyed", "registry",
                "configValid", "policyValid", "conflicts", "secret"}
PlanFacts   == {"loads", "passes", "monotonic", "proof", "pending", "failing", "tools", "severe"}
Others      == {"request", "sealedFor", "traffic", "plans"}
Facts       == SharedFacts \cup PlanFacts \cup Others

Changed(w, fact) ==
  LET names == DOMAIN w.plans
  IN  CASE fact \in SharedFacts -> {[w EXCEPT ![fact] = ~@]}
        [] fact \in PlanFacts   -> {[w EXCEPT !.plans[n][fact] = ~@] : n \in names}
        [] fact = "request"     -> {[w EXCEPT !.request = r] : r \in {"absent", "invalid", "valid"}}
        [] fact = "sealedFor"   -> {[w EXCEPT !.plans[n].sealedFor = s] : n \in names, s \in Profiles \cup {"none"}}
        [] fact = "traffic"     -> {[w EXCEPT !.plans[n].traffic = t] : n \in names, t \in {"none", "ok", "bad"}}
        [] fact = "plans"       -> {[w EXCEPT !.plans = Restrict(@, names \ {n})] : n \in names}

Edit ==
  /\ left.edits > 0
  /\ left' = [left EXCEPT !.edits = @ - 1]
  /\ \E fact \in left.facts : ws' \in Changed(ws, fact) \ {ws}
  /\ UNCHANGED <<state, marker, assessment, daemon, command, overlapped>>

Dies ==
  /\ left.crashes > 0
  /\ left' = [left EXCEPT !.crashes = @ - 1]
  /\ UNCHANGED <<ws, state, marker, assessment, overlapped>>

KillDaemon(d) == Alive(d) /\ Dies /\ DaemonAt(d, "dead") /\ UNCHANGED command

\* In the loop a write that fails (a full disk) ends the daemon by its finally block
WriteFails(d) ==
  /\ daemon[d].at \in {"assessing", "assessed", "beating"}
  /\ Dies /\ DaemonAt(d, "leaving") /\ UNCHANGED command

KillCommand(c) == ~Free(c) /\ command[c].at # "killed" /\ Dies /\ CommandAt(c, "killed") /\ UNCHANGED daemon

-----------------------------------------------------------------------------
ASSUME StartsAssumption == \A s \in Starts : IsWorkspace(s.ws) /\ s.facts \subseteq Facts

Init ==
  /\ \E s \in Starts :
       /\ ws = s.ws
       /\ left = [facts |-> s.facts, edits |-> s.edits, commands |-> s.commands, crashes |-> s.crashes]
  /\ state = NoState
  /\ marker = FALSE
  /\ assessment = "none"
  /\ daemon = [d \in Daemons |-> Process("none", "standard")]
  /\ command = [c \in Slots |-> Idle]
  /\ overlapped = FALSE

Next ==
  \/ \E d \in Daemons : DaemonStep(d) \/ KillDaemon(d) \/ WriteFails(d)
  \/ \E c \in Slots : StartBegin(c) \/ StopBegin(c) \/ StartStep(c) \/ StopStep(c) \/ KillCommand(c)
  \/ Edit

Fairness ==
  /\ \A d \in Daemons : WF_vars(DaemonStep(d))
  /\ \A c \in Slots : WF_vars(StopStep(c))

Spec == Init /\ [][Next]_vars /\ Fairness

-----------------------------------------------------------------------------
(* Properties *)

\* Everything the gate of a workspace has to find, said once and without levels
Accepted(w, profile) ==
  /\ w.request = "valid" /\ w.aligned /\ w.configValid /\ w.policyValid
  /\ w.chain /\ w.anchored /\ w.keyed /\ w.registry /\ ~w.secret
  /\ \A n \in DOMAIN w.plans :
       LET p == w.plans[n]
       IN  /\ p.loads /\ p.passes /\ p.proof /\ p.tools
           /\ p.monotonic /\ p.sealedFor = profile
           /\ ~p.pending /\ ~p.failing
           /\ p.traffic # "bad"

\* A custom rule or, in the strict profile, the adversarial review has an objection
Objection(w, profile) ==
  \E n \in DOMAIN w.plans :
    \/ \E rule \in w.rules : Hits(w, w.plans[n], profile, rule)
    \/ profile = "strict" /\ w.plans[n].severe

\* What nine rules, five levels and two stages of the gate add up to: PASS if and only if every
\* plan is accepted without an objection; UNKNOWN never hides a defect; the Stop hook lets an
\* agent end its turn only then or in a workspace without a trace of the auditor; and the
\* lifecycle, which takes a way of its own, arrives where the gate does
VerdictIsEarned ==
  \A profile \in Profiles :
    LET outcome == Verdict(ws, Assessed, profile)
        some    == DOMAIN ws.plans # {}
    IN  /\ outcome = "PASS" <=> ~ws.raises /\ some /\ Accepted(ws, profile) /\ ~Objection(ws, profile)
        /\ outcome = "UNKNOWN" => ws.raises \/ (Accepted(ws, profile) /\ Objection(ws, profile))
        /\ HookLets(outcome) /\ some => Accepted(ws, profile)
        /\ HookLets(outcome) /\ ~some => ws.request = "absent" /\ ~ws.trace
        /\ \A n \in DOMAIN ws.plans :
             LET end == Lifecycle(ws, ws.plans[n], profile)
             IN  ws.plans[n].loads =>
                   /\ end = "passed"  <=> Gate(ws, ws.plans[n], profile) = "PASS"
                   /\ end = "unknown" <=> Gate(ws, ws.plans[n], profile) = "UNKNOWN"

\* Unless two starts overlap, at most one daemon lives, and from its announcement to its end the
\* state file names it, so that a stop finds it and a start is refused
SoleDaemonIsNamed ==
  ~overlapped =>
    /\ Cardinality(Living) <= 1
    /\ \A d \in Living : daemon[d].at \in Working \cup Leaving => state = [phase |-> "running", pid |-> d]

\* A daemon that a stop has found ends, whatever becomes of the marker: another daemon or a start
\* may remove it, but then the signal comes; unless the stop itself is killed
StopTakesEffect ==
  \A c \in Slots, d \in Daemons :
    command[c].at = "marking" /\ command[c].pid = d ~> ~Alive(d) \/ command[c].at = "killed"

\* When nothing changes any more, the assessment of the one daemon that lives on becomes the
\* verdict on the workspace, whatever daemons and assessments there were before
AssessmentConverges ==
  \A d \in Daemons :
    <>[](Living = {d}) => <>[](assessment = Verdict(ws, TRUE, daemon[d].profile))

TypeOK ==
  /\ IsWorkspace(ws) /\ left.facts \subseteq Facts
  /\ state \in [phase : {"none", "starting", "running", "stopped"}, pid : 0..MaxDaemons]
  /\ marker \in BOOLEAN
  /\ assessment \in Outcomes \cup {"none"}
  /\ \A d \in Daemons : daemon[d].at \in Ended \cup Starting \cup Working \cup Leaving
=============================================================================
