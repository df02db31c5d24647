---------------------------- MODULE AgentRegistry ----------------------------
(***************************************************************************)
(* The registry of cooperating agents: supervisor/agents.py with the       *)
(* transactions of supervisor/agents_hardening.py.                         *)
(*                                                                         *)
(* Every command takes the registry write lock, reads the log back, and    *)
(* appends one record and then the head checkpoint.  The agent map is the  *)
(* last record of each agent; of log and checkpoint only matters whether   *)
(* they agree (ahead).  RegistryLock models the lock; here at most one     *)
(* transaction runs at a time and the lock of a killed command is reaped.  *)
(* A command is a process of its own: killing it does not kill its agent.  *)
(***************************************************************************)
EXTENDS Integers, FiniteSets

CONSTANTS
  Agents,       \* agent ids
  Files,        \* canonical workspace paths agents may claim
  Auditors,     \* processes that run a final audit session, once each
  Modes,        \* the coordination modes of claims; serial claims are warn claims
  Unchecked,    \* callers also use register with files and update_ownership
  MaxCrashes    \* bound on killed commands

ASSUME AgentRegistryAssumption ==
  /\ Modes \subseteq {"warn", "strict"}
  /\ Unchecked \in BOOLEAN
  /\ MaxCrashes \in Nat
  /\ "nobody" \notin Auditors \cup Agents

Absent   == [state |-> "absent", owns |-> {}]
NoFreeze == [owner |-> "nobody", named |-> FALSE]
NoTxn    == [kind |-> "none", agent |-> "nobody", todo |-> {}]

VARIABLES
  entry,     \* what the log says of each agent: its state and owned files
  timedOut,  \* agents without a heartbeat for owner_timeout
  ahead,     \* the log holds a record or a torn line the head does not count
  txn,       \* the transaction that holds the registry lock
  freeze,    \* audit.freeze.lock: the session that made it, its PID written?
  gone,      \* auditors whose process has ended
  judged,    \* agents inside write_lock that found the freeze of a dead PID
  told,      \* the files each agent's last ownership command reported as its
             \* own, whether it lived to report them, and whether it is one
             \* that looks for conflicts
  warned,    \* the files that command warned of as conflicts
  lapsed,    \* agents that timed out since their last ownership command
  crashes    \* killed commands so far

agentView    == <<told, warned, lapsed>>
registryVars == <<entry, timedOut, ahead, txn, freeze, gone, judged, agentView, crashes>>

Kinds == {"join", "leave", "heartbeat", "ownership"}

-----------------------------------------------------------------------------
(* What a transaction reads *)

Live(a) == entry[a].state = "active" /\ a \notin timedOut

\* The files of which _current_conflicts_locked reports another live owner
EqualClaimsOnly(a, files) ==                          \* mutant: equality, not overlap
  {f \in files : \E b \in Agents \ {a} : Live(b) /\ entry[b].owns = files}
Conflicts(a, files) ==
  {f \in files : \E b \in Agents \ {a} : Live(b) /\ f \in entry[b].owns}

\* _audit_freeze_active: a freeze without a dead PID counts as active
FreezeDead   == freeze.named /\ freeze.owner \in gone
FreezeActive == freeze # NoFreeze /\ ~FreezeDead

-----------------------------------------------------------------------------
(* One transaction: admission and record, then checkpoint and answer *)

\* The lock is free and no audit is running; a dead session's freeze goes away
Admitted ==
  /\ txn = NoTxn
  /\ ~FreezeActive
  /\ freeze' = NoFreeze

RecordUnverified(a, kind, e) ==                       \* mutant: log not read back first
  /\ ahead' = TRUE
  /\ entry' = [entry EXCEPT ![a] = e]
  /\ txn' = [kind |-> kind, agent |-> a, todo |-> {}]
  /\ timedOut' = timedOut \ {a}
  /\ UNCHANGED <<gone, judged, crashes>>
Record(a, kind, e) ==
  /\ ~ahead
  /\ ahead' = TRUE
  /\ entry' = [entry EXCEPT ![a] = e]
  /\ txn' = [kind |-> kind, agent |-> a, todo |-> {}]
  /\ timedOut' = timedOut \ {a}
  /\ UNCHANGED <<gone, judged, crashes>>

\* The caller's own view is settled by the answer of the command (Finish)
Asks(a, files, asked, conflicts) ==
  /\ told' = [told EXCEPT ![a] = [sure |-> FALSE, asked |-> asked, files |-> files]]
  /\ warned' = [warned EXCEPT ![a] = conflicts]
  /\ lapsed' = lapsed \ {a}

Join(a) ==
  \E files \in IF Unchecked THEN SUBSET Files ELSE {{}} :
    /\ Admitted
    /\ Record(a, "join", [state |-> "active", owns |-> files])
    /\ Asks(a, files, FALSE, {})

\* An unknown agent leaves without a record and without an error
Leave(a) ==
  /\ Admitted
  /\ entry[a] # Absent
  /\ Record(a, "leave", Absent)
  /\ Asks(a, {}, TRUE, {})

Revived(a) == [entry[a] EXCEPT !.state = "active"]
Heartbeat(a) ==
  /\ Admitted
  /\ entry[a] # Absent
  /\ Record(a, "heartbeat", Revived(a))
  /\ UNCHANGED agentView

UpdateOwnership(a) ==
  \E files \in SUBSET Files :
    /\ Unchecked
    /\ Admitted
    /\ entry[a] # Absent
    /\ Record(a, "ownership", [state |-> "active", owns |-> files])
    /\ Asks(a, files, FALSE, {})

\* A refused claim (strict mode and a conflict) changes nothing but the freeze;
\* a strict caller takes a granted claim for one without conflicts
Claim(a) ==
  \E files \in SUBSET Files, mode \in Modes :
    /\ Admitted
    /\ entry[a] # Absent
    /\ mode = "strict" => Conflicts(a, files) = {}
    /\ Record(a, "ownership", [state |-> "active", owns |-> files])
    /\ Asks(a, files, TRUE, IF mode = "strict" THEN {} ELSE Conflicts(a, files))

\* Every mutation is refused when log and head disagree, or conflicts in the
\* strict mode; the freeze of a dead session is gone by then
Refused ==
  /\ Admitted
  /\ FreezeDead
  /\ UNCHANGED <<entry, timedOut, ahead, txn, gone, judged, agentView, crashes>>

\* The head checkpoint is replaced, the log verified and the lock released
Finish ==
  /\ txn.kind \in Kinds
  /\ ahead' = FALSE
  /\ txn' = NoTxn
  /\ told' = IF txn.kind = "heartbeat" THEN told ELSE [told EXCEPT ![txn.agent].sure = TRUE]
  /\ UNCHANGED <<entry, timedOut, freeze, gone, judged, warned, lapsed, crashes>>

-----------------------------------------------------------------------------
(* release_stale_ownership: one record per agent that timed out; it does not *)
(* look at the freeze                                                        *)

ActiveAgents == {a \in Agents : entry[a].state = "active"}  \* mutant: no clock
StaleAgents == {a \in Agents : entry[a].state = "active" /\ a \in timedOut}

Sweep(todo) == [kind |-> "sweep", agent |-> "nobody", todo |-> todo]

StartSweep ==
  /\ txn = NoTxn
  /\ ~ahead
  /\ StaleAgents # {}
  /\ txn' = Sweep(StaleAgents)
  /\ UNCHANGED <<entry, timedOut, ahead, freeze, gone, judged, agentView, crashes>>

Released(a) == [state |-> "stale", owns |-> {}]

SweepRecord(a) ==
  /\ a \in txn.todo
  /\ ~ahead
  /\ ahead' = TRUE
  /\ entry' = [entry EXCEPT ![a] = Released(a)]
  /\ txn' = Sweep(txn.todo \ {a})
  /\ UNCHANGED <<timedOut, freeze, gone, judged, agentView, crashes>>

SweepHead ==
  /\ txn.kind = "sweep"
  /\ ahead
  /\ ahead' = FALSE
  /\ txn' = IF txn.todo = {} THEN NoTxn ELSE txn
  /\ UNCHANGED <<entry, timedOut, freeze, gone, judged, agentView, crashes>>

-----------------------------------------------------------------------------
(* write_lock: the freeze is checked, and a dead one unlinked, without the   *)
(* registry lock                                                             *)

JudgeFreeze(a) ==
  /\ FreezeDead
  /\ judged' = judged \cup {a}
  /\ UNCHANGED <<entry, timedOut, ahead, txn, freeze, gone, agentView, crashes>>

UnlinkFreeze(a) ==
  /\ a \in judged
  /\ judged' = judged \ {a}
  /\ freeze' = NoFreeze
  /\ UNCHANGED <<entry, timedOut, ahead, txn, gone, agentView, crashes>>

-----------------------------------------------------------------------------
(* Time and killed commands *)

TimeOut(a) ==
  /\ entry[a].state = "active"
  /\ a \notin timedOut
  /\ timedOut' = timedOut \cup {a}
  /\ lapsed' = lapsed \cup {a}
  /\ UNCHANGED <<entry, ahead, txn, freeze, gone, judged, told, warned, crashes>>

\* Killed before or after the head was replaced
Kill ==
  /\ txn # NoTxn
  /\ crashes < MaxCrashes
  /\ crashes' = crashes + 1
  /\ txn' = NoTxn
  /\ ahead' \in {ahead, FALSE}
  /\ UNCHANGED <<entry, timedOut, freeze, gone, judged, agentView>>

\* Killed in the middle of the record
KillTorn ==
  /\ Admitted
  /\ ~ahead
  /\ crashes < MaxCrashes
  /\ crashes' = crashes + 1
  /\ ahead' = TRUE
  /\ UNCHANGED <<entry, timedOut, txn, gone, judged, agentView>>

RegistryInit ==
  /\ entry = [a \in Agents |-> Absent]
  /\ timedOut = {}
  /\ ahead = FALSE
  /\ txn = NoTxn
  /\ judged = {}
  /\ told = [a \in Agents |-> [sure |-> TRUE, asked |-> TRUE, files |-> {}]]
  /\ warned = [a \in Agents |-> {}]
  /\ lapsed = {}
  /\ crashes = 0

\* An earlier audit may have been killed and left its freeze
Init ==
  /\ RegistryInit
  /\ gone = Auditors
  /\ freeze \in {NoFreeze} \cup [owner : Auditors, named : BOOLEAN]

Mutate(a) == Join(a) \/ Leave(a) \/ Heartbeat(a) \/ UpdateOwnership(a) \/ Claim(a)

Next ==
  \/ \E a \in Agents :
       Mutate(a) \/ SweepRecord(a) \/ JudgeFreeze(a) \/ UnlinkFreeze(a) \/ TimeOut(a)
  \/ Refused \/ Finish \/ StartSweep \/ SweepHead \/ Kill \/ KillTorn

Spec == Init /\ [][Next]_registryVars

-----------------------------------------------------------------------------
(* Properties *)

Entries == [state : {"absent", "active", "stale"}, owns : SUBSET Files]

\* The shape of the registry, of the freeze and of a transaction; an agent that
\* is not active owns nothing
TypeOK ==
  /\ entry \in [Agents -> Entries]
  /\ \A a \in Agents : entry[a].state # "active" => entry[a].owns = {}
  /\ timedOut \subseteq Agents
  /\ ahead \in BOOLEAN
  /\ txn \in [kind : Kinds \cup {"none", "sweep", "enter"},
             agent : Agents \cup Auditors \cup {"nobody"}, todo : SUBSET Agents]
  /\ freeze \in [owner : Auditors, named : BOOLEAN] \cup {NoFreeze}
  /\ gone \subseteq Auditors
  /\ judged \subseteq Agents
  /\ told \in [Agents -> [sure : BOOLEAN, asked : BOOLEAN, files : SUBSET Files]]
  /\ warned \in [Agents -> SUBSET Files]
  /\ lapsed \subseteq Agents
  /\ crashes \in 0..MaxCrashes

\* An agent that keeps its heartbeat keeps exactly the files its last command
\* said it owns, whatever other agents claim, leave and sweep, and whatever
\* commands are killed (claim_files, release_stale_ownership)
LiveOwnersKeepTheirFiles ==
  \A a \in Agents :
    Live(a) /\ a \notin lapsed /\ told[a].sure => entry[a].owns = told[a].files

\* Two live agents share a file only if one of them was warned by its last
\* claim, in a mode that warns, or came back after a time out, or took the file
\* with a command that does not look for conflicts; a strict claim is refused
\* instead (claim_files, _current_conflicts_locked)
SharingIsReported ==
  \A a, b \in Agents :
    a # b /\ Live(a) /\ Live(b) /\ entry[a].owns \cap entry[b].owns # {} =>
      \/ a \in lapsed \/ b \in lapsed
      \/ ~told[a].asked \/ ~told[b].asked
      \/ entry[a].owns \cap entry[b].owns \subseteq warned[a] \cup warned[b]

\* After a killed command left log and head apart, no later command of any
\* agent builds on that log or makes the two agree again (_append_locked)
KilledRecordStaysRefused ==
  [][ahead /\ txn = NoTxn => ahead' /\ txn' = NoTxn /\ entry' = entry]_registryVars
=============================================================================
