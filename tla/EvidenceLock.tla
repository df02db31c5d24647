----------------------------- MODULE EvidenceLock -----------------------------
(***************************************************************************)
(* The evidence write lock of scripts/audit_check.py: a file that is       *)
(* created exclusively, filled with the PID of its owner, and unlinked.  A *)
(* waiter may unlink the file of another process once it is old and its    *)
(* owner is dead; every other waiter polls until its deadline.             *)
(*                                                                         *)
(* A process is a PID of this host; a PID is not reused.  Each read and    *)
(* each system call is a step of its own, and a dead process can stop      *)
(* between any two of them.                                                *)
(***************************************************************************)
EXTENDS Naturals

CONSTANTS
  Procs,        \* processes that append evidence
  MaxCrashes,   \* bound on the processes that die
  MaxFails      \* bound on the writes and unlinks the system refuses

ASSUME EvidenceLockAssumption ==
  /\ {MaxCrashes, MaxFails} \subseteq Nat
  /\ "nobody" \notin Procs

NoFile == [owner |-> "nobody", named |-> FALSE, old |-> FALSE]

VARIABLES
  file,      \* evidence.write.lock: its creator, whether it holds the record
             \* {pid, host, ts} yet, and whether it is older than the stale limit
  pc,        \* where each process is in _evidence_lock
  late,      \* the processes whose deadline has passed
  crashes,   \* processes that died so far
  fails      \* refused writes and unlinks so far

vars == <<file, pc, late, crashes, fails>>

Polling == {"try", "collided", "judge", "reap", "wait"}
Places  == Polling \cup {"idle", "created", "in", "dead"}

Init ==
  /\ file = NoFile
  /\ pc = [p \in Procs |-> "idle"]
  /\ late = {}
  /\ crashes = 0
  /\ fails = 0

Goto(p, place) == pc' = [pc EXCEPT ![p] = place]

-----------------------------------------------------------------------------
(* Acquisition *)

Start(p) ==
  /\ pc[p] = "idle"
  /\ Goto(p, "try")
  /\ late' = late \ {p}
  /\ UNCHANGED <<file, crashes, fails>>

NewFile(p) == [owner |-> p, named |-> FALSE, old |-> FALSE]

Create(p) ==
  /\ pc[p] = "try"
  /\ file = NoFile
  /\ file' = NewFile(p)
  /\ Goto(p, "created")
  /\ UNCHANGED <<late, crashes, fails>>

Collide(p) ==
  /\ pc[p] = "try"
  /\ file # NoFile
  /\ Goto(p, "collided")
  /\ UNCHANGED <<file, late, crashes, fails>>

\* The write goes to the file p created, whatever the name refers to by now
Name(p) ==
  /\ pc[p] = "created"
  /\ Goto(p, "in")
  /\ file' = IF file.owner = p THEN [file EXCEPT !.named = TRUE] ELSE file
  /\ UNCHANGED <<late, crashes, fails>>

\* os.write raises: the descriptor is closed, the empty file stays
NameFails(p) ==
  /\ pc[p] = "created"
  /\ fails < MaxFails
  /\ fails' = fails + 1
  /\ Goto(p, "idle")
  /\ UNCHANGED <<file, late, crashes>>

-----------------------------------------------------------------------------
(* Contention *)

\* The stat may also find no file, which is not stale
LookAge(p) ==
  /\ pc[p] = "collided"
  /\ Goto(p, IF file.old THEN "judge" ELSE "wait")
  /\ UNCHANGED <<file, late, crashes, fails>>

\* _lock_holder_dead reads the file that is there now; empty is alive
NamedIsDead == file.named                             \* mutant: age alone is enough
NobodyIsDead == FALSE                                 \* mutant: never reaps
HolderDead == file.named /\ pc[file.owner] = "dead"

JudgeSkipsDeadline(p) ==                              \* mutant: continue one level up
  /\ pc[p] = "judge"
  /\ Goto(p, IF HolderDead THEN "reap" ELSE "try")
  /\ UNCHANGED <<file, late, crashes, fails>>
Judge(p) ==
  /\ pc[p] = "judge"
  /\ Goto(p, IF HolderDead THEN "reap" ELSE "wait")
  /\ UNCHANGED <<file, late, crashes, fails>>

\* os.unlink whatever has the name; a failure is swallowed
Unlink ==
  \/ file' = NoFile /\ UNCHANGED fails
  \/ file # NoFile /\ fails < MaxFails /\ fails' = fails + 1 /\ UNCHANGED file

Reap(p) ==
  /\ pc[p] = "reap"
  /\ Unlink
  /\ Goto(p, "try")
  /\ UNCHANGED <<late, crashes>>

Retry(p) ==
  /\ pc[p] = "wait"
  /\ p \notin late
  /\ Goto(p, "try")
  /\ UNCHANGED <<file, late, crashes, fails>>

GiveUp(p) ==
  /\ pc[p] = "wait"
  /\ p \in late
  /\ Goto(p, "idle")
  /\ UNCHANGED <<file, late, crashes, fails>>

-----------------------------------------------------------------------------
(* Release, death and time *)

\* The release does not look whose file it removes
Leave(p) ==
  /\ pc[p] = "in"
  /\ Unlink
  /\ Goto(p, "idle")
  /\ UNCHANGED <<late, crashes>>

Crash(p) ==
  /\ pc[p] # "dead"
  /\ crashes < MaxCrashes
  /\ crashes' = crashes + 1
  /\ Goto(p, "dead")
  /\ UNCHANGED <<file, late, fails>>

Age ==
  /\ file # NoFile
  /\ ~file.old
  /\ file' = [file EXCEPT !.old = TRUE]
  /\ UNCHANGED <<pc, late, crashes, fails>>

Expire(p) ==
  /\ pc[p] \in Polling
  /\ p \notin late
  /\ late' = late \cup {p}
  /\ UNCHANGED <<file, pc, crashes, fails>>

Step(p) ==
  \/ Create(p) \/ Collide(p) \/ Name(p) \/ NameFails(p)
  \/ LookAge(p) \/ Judge(p) \/ Reap(p) \/ Retry(p) \/ GiveUp(p)
  \/ Leave(p)

Next ==
  \/ \E p \in Procs : Start(p) \/ Step(p) \/ Crash(p) \/ Expire(p)
  \/ Age

Spec == Init /\ [][Next]_vars

\* A process that lives keeps running, the body of the lock is finite file
\* output, and time passes.  Nobody has to start, and nobody has to die.
FairSpec ==
  /\ Spec
  /\ \A p \in Procs : WF_vars(Step(p)) /\ WF_vars(Expire(p))
  /\ WF_vars(Age)

-----------------------------------------------------------------------------
(* Properties *)

\* The shape of the lock file and of every process's place in the protocol
TypeOK ==
  /\ file \in [owner : Procs, named : BOOLEAN, old : BOOLEAN] \cup {NoFile}
  /\ pc \in [Procs -> Places]
  /\ late \subseteq Procs
  /\ crashes \in 0..MaxCrashes
  /\ fails \in 0..MaxFails

Inside == {p \in Procs : pc[p] = "in"}

\* While no process has died, at most one is inside the lock, however old the
\* lock file gets, whatever writes and unlinks fail, and however the polls of
\* the others interleave (_evidence_lock)
ExclusionUntilADeath == crashes = 0 => \A p, q \in Inside : p = q

\* The lock does what WriteLock promises, which until a process dies includes
\* that it is granted to one at a time
Phase(place) ==
  CASE place \in Polling \cup {"created"} -> "waiting"
    [] place = "in" -> "holding"
    [] OTHER -> "idle"

Promise == INSTANCE WriteLock WITH
  phase <- [p \in Procs |-> Phase(pc[p])],
  died  <- crashes > 0

ImplementsWriteLock == Promise!Spec

\* Whoever starts to poll for the lock ends inside, with the timeout error, or
\* dead; no lock file, stale, empty or abandoned, makes it poll for ever
EveryAttemptEnds ==
  \A p \in Procs : pc[p] = "try" ~> pc[p] \in {"in", "idle", "dead"}

Abandoned == file.named /\ file.old /\ pc[file.owner] = "dead"

\* An old lock file that names a dead owner is gone once a process that lives
\* has tried to get the lock, even if that process is past its deadline
AbandonedIsReaped ==
  \A p \in Procs : Abandoned /\ pc[p] = "try" ~> ~Abandoned \/ pc[p] = "dead"
=============================================================================
