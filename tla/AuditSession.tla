----------------------------- MODULE AuditSession -----------------------------
(***************************************************************************)
(* final_audit_session of supervisor/audit_session.py together with the    *)
(* agents of AgentRegistry: a session checks under the registry lock that  *)
(* no agent is live and creates the freeze there; outside the lock it      *)
(* fingerprints the product, runs the audit, reads the freeze again,       *)
(* fingerprints once more and removes the freeze.                          *)
(*                                                                         *)
(* A session is a process of its own that ends with it, so the PID in a    *)
(* freeze is dead once its session is over.                                *)
(***************************************************************************)
EXTENDS AgentRegistry

CONSTANT Products      \* the contents the product may have

VARIABLES
  spc,         \* where each auditor is in final_audit_session
  product,     \* the product's files as the fingerprint sees them
  base,        \* the fingerprint each session took at its start
  sound,       \* sessions whose audit passed on an unchanged product
  disturbed,   \* sessions during which an agent changed the registry
  overlapped   \* sessions open while another found its own freeze intact

sessionVars == <<spc, product, base, sound, disturbed, overlapped>>
vars        == <<registryVars, sessionVars>>

Open   == {"created", "frozen", "running"}
Ended  == {"passed", "failed", "dead"}
Phases == Open \cup Ended \cup {"idle", "checked", "lost", "closing"}

Opened == {s \in Auditors : spc[s] \in Open}

Step(s, phase) == spc' = [spc EXCEPT ![s] = phase]

registryIdle == <<entry, timedOut, ahead, judged, agentView, crashes>>

-----------------------------------------------------------------------------
(* Entry, under the registry lock *)

NobodyOwns == \A a \in Agents : Live(a) => entry[a].owns = {}   \* mutant: owners only
Quiescent == \A a \in Agents : ~Live(a)

\* O_EXCL under the lock: the check, a dead freeze and the new one are one step
Enter(s) ==
  /\ spc[s] = "idle"
  /\ txn = NoTxn
  /\ ~FreezeActive
  /\ ~ahead
  /\ Quiescent
  /\ freeze' = [owner |-> s, named |-> FALSE]
  /\ txn' = [kind |-> "enter", agent |-> s, todo |-> {}]
  /\ Step(s, "created")
  /\ UNCHANGED <<registryIdle, gone, product, base, sound, disturbed, overlapped>>

\* A live or malformed freeze, a log that does not verify, or a live agent; the
\* freeze of a dead session is removed before any of that is looked at
EnterRefused(s) ==
  /\ spc[s] = "idle"
  /\ txn = NoTxn
  /\ FreezeActive \/ ahead \/ ~Quiescent
  /\ freeze' = IF FreezeDead THEN NoFreeze ELSE freeze
  /\ Step(s, "failed")
  /\ gone' = gone \cup {s}
  /\ UNCHANGED <<registryIdle, txn, product, base, sound, disturbed, overlapped>>

\* The PID and the token are written and the lock is released
NameFreeze(s) ==
  /\ spc[s] = "created"
  /\ freeze' = IF freeze.owner = s THEN [freeze EXCEPT !.named = TRUE] ELSE freeze
  /\ txn' = NoTxn
  /\ Step(s, "frozen")
  /\ UNCHANGED <<registryIdle, gone, product, base, sound, disturbed, overlapped>>

-----------------------------------------------------------------------------
(* The audit and the exit, without the registry lock *)

Fingerprint(s) ==
  /\ spc[s] = "frozen"
  /\ base' = [base EXCEPT ![s] = product]
  /\ Step(s, "running")
  /\ UNCHANGED <<registryIdle, txn, freeze, gone, product, sound, disturbed, overlapped>>

AnyFreeze(s) == freeze # NoFreeze                     \* mutant: token not compared
HasFreeze(s) == freeze.named /\ freeze.owner = s

\* The body is over, with or without an error: the freeze is read again
CheckFreeze(s) ==
  /\ spc[s] = "running"
  /\ IF HasFreeze(s)
     THEN Step(s, "checked") /\ overlapped' = overlapped \cup (Opened \ {s})
     ELSE Step(s, "lost") /\ UNCHANGED overlapped
  /\ UNCHANGED <<registryIdle, txn, freeze, gone, product, base, sound, disturbed>>

\* The second fingerprint; the body may have failed
Compare(s) ==
  /\ spc[s] = "checked"
  /\ sound' \in IF product = base[s] THEN {sound, sound \cup {s}} ELSE {sound}
  /\ Step(s, "closing")
  /\ UNCHANGED <<registryIdle, txn, freeze, gone, product, base, disturbed, overlapped>>

\* path.unlink removes whatever has the name by now, or raises
Close(s) ==
  /\ spc[s] = "closing"
  /\ freeze' = NoFreeze
  /\ Step(s, IF freeze # NoFreeze /\ s \in sound THEN "passed" ELSE "failed")
  /\ gone' = gone \cup {s}
  /\ UNCHANGED <<registryIdle, txn, product, base, sound, disturbed, overlapped>>

\* The freeze is gone or somebody else's: an error, and nothing is removed
CloseLost(s) ==
  /\ spc[s] = "lost"
  /\ Step(s, "failed")
  /\ gone' = gone \cup {s}
  /\ UNCHANGED <<registryIdle, txn, freeze, product, base, sound, disturbed, overlapped>>

KillAuditor(s) ==
  /\ spc[s] \notin Ended \cup {"idle"}
  /\ crashes < MaxCrashes
  /\ crashes' = crashes + 1
  /\ Step(s, "dead")
  /\ gone' = gone \cup {s}
  /\ txn' = IF spc[s] = "created" THEN NoTxn ELSE txn
  /\ UNCHANGED <<entry, timedOut, ahead, judged, agentView, freeze,
                 product, base, sound, disturbed, overlapped>>

-----------------------------------------------------------------------------
(* Agents and everybody else *)

\* A mutation disturbs every session between its entry and its freeze check
AgentStep ==
  /\ \E a \in Agents : Mutate(a)
  /\ disturbed' = disturbed \cup Opened
  /\ UNCHANGED <<spc, product, base, sound, overlapped>>

\* Answers, sweeps of stale agents, write_lock, time and killed commands
RegistryStep ==
  /\ \/ \E a \in Agents : SweepRecord(a) \/ JudgeFreeze(a) \/ UnlinkFreeze(a) \/ TimeOut(a)
     \/ Refused \/ Finish \/ StartSweep \/ SweepHead \/ KillTorn
     \/ Kill /\ txn.kind # "enter"
  /\ UNCHANGED sessionVars

ChangeProduct ==
  /\ product' \in Products \ {product}
  /\ UNCHANGED <<registryVars, spc, base, sound, disturbed, overlapped>>

SessionInit ==
  /\ RegistryInit
  /\ freeze = NoFreeze
  /\ gone = {}
  /\ spc = [s \in Auditors |-> "idle"]
  /\ product \in Products
  /\ base = [s \in Auditors |-> product]
  /\ sound = {}
  /\ disturbed = {}
  /\ overlapped = {}

SessionNext ==
  \/ \E s \in Auditors :
       \/ Enter(s) \/ EnterRefused(s) \/ NameFreeze(s) \/ Fingerprint(s)
       \/ CheckFreeze(s) \/ Compare(s) \/ Close(s) \/ CloseLost(s) \/ KillAuditor(s)
  \/ AgentStep \/ RegistryStep \/ ChangeProduct

SessionSpec == SessionInit /\ [][SessionNext]_vars

-----------------------------------------------------------------------------
(* Properties *)

\* The registry keeps its shape under sessions, and sessions keep theirs
SessionTypeOK ==
  /\ TypeOK
  /\ spc \in [Auditors -> Phases]
  /\ product \in Products
  /\ base \in [Auditors -> Products]
  /\ UNION {sound, disturbed, overlapped} \subseteq Auditors
  /\ gone = {s \in Auditors : spc[s] \in Ended}

\* While the freeze of a session is in place no agent is live: the check and
\* the freeze are under one lock, and no later command makes an agent live
FrozenIsQuiet ==
  \A s \in Auditors :
    spc[s] \notin Ended /\ freeze.owner = s => \A a \in Agents : ~Live(a)

\* A session that ends without an error saw no agent join, leave, claim or
\* beat between its entry and its freeze check, even if a stale-freeze cleanup
\* outside the registry lock removed its freeze on the way
PassedSessionWasQuiet ==
  \A s \in Auditors : spc[s] = "passed" => s \notin disturbed

\* Of two sessions that were open at the same time at most one ends without an
\* error
OverlappingSessionsDoNotPass ==
  \A s \in overlapped : spc[s] # "passed"

=============================================================================
