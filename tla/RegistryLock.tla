----------------------------- MODULE RegistryLock -----------------------------
(***************************************************************************)
(* The write lock of the agent registry, supervisor/lock_hardening.py: a   *)
(* file created exclusively and filled with the PID of its owner and a     *)
(* random token.  A waiter that finds a dead owner reads the file again,   *)
(* compares PID, token and inode, and unlinks; the owner reads the file    *)
(* before its release and reports a lock that is no longer its own.        *)
(*                                                                         *)
(* Tokens and inodes never repeat, so a file that was replaced is          *)
(* recognised by a reader: seen remembers whether what was read is still   *)
(* there.  A process is a PID of this host; a PID is not reused.           *)
(***************************************************************************)
EXTENDS Naturals

CONSTANTS
  Procs,        \* processes that change the registry
  MaxCrashes,   \* bound on the processes that die
  MaxFails      \* bound on the writes and unlinks the system refuses

ASSUME RegistryLockAssumption ==
  /\ {MaxCrashes, MaxFails} \subseteq Nat
  /\ "nobody" \notin Procs

NoFile  == [owner |-> "nobody", named |-> FALSE]
Nothing == [owner |-> "nobody", current |-> FALSE]

VARIABLES
  file,      \* registry.write.lock: its creator, and whether it holds the
             \* record {pid, token, created} yet
  pc,        \* where each process is in _write_lock
  seen,      \* the owner each process last read, and whether that file is
             \* still in place; Nothing for an absent or unreadable file
  late,      \* the processes whose deadline has passed
  silent,    \* processes inside while another found its own lock intact at
             \* the end of its transaction
  crashes,   \* processes that died so far
  fails      \* refused writes and unlinks so far

vars == <<file, pc, seen, late, silent, crashes, fails>>

Polling == {"try", "read", "check", "recheck", "reap", "wait"}
Places  == Polling \cup {"idle", "created", "in", "leaving", "error", "dead"}

Init ==
  /\ file = NoFile
  /\ pc = [p \in Procs |-> "idle"]
  /\ seen = [p \in Procs |-> Nothing]
  /\ late = {}
  /\ silent = {}
  /\ crashes = 0
  /\ fails = 0

Goto(p, place) == pc' = [pc EXCEPT ![p] = place]

Read == IF file.named THEN [owner |-> file.owner, current |-> TRUE] ELSE Nothing

\* The file in place goes away: nobody has seen the current one any more
Outdated == [p \in Procs |-> [seen[p] EXCEPT !.current = FALSE]]

\* What was read is of no use after the decision
Forget(p) == [seen EXCEPT ![p] = Nothing]

-----------------------------------------------------------------------------
(* Acquisition *)

Start(p) ==
  /\ pc[p] \in {"idle", "error"}
  /\ Goto(p, "try")
  /\ late' = late \ {p}
  /\ UNCHANGED <<file, seen, silent, crashes, fails>>

NewFile(p) == [owner |-> p, named |-> FALSE]

Create(p) ==
  /\ pc[p] = "try"
  /\ file = NoFile
  /\ file' = NewFile(p)
  /\ Goto(p, "created")
  /\ UNCHANGED <<seen, late, silent, crashes, fails>>

Collide(p) ==
  /\ pc[p] = "try"
  /\ file # NoFile
  /\ Goto(p, "read")
  /\ UNCHANGED <<file, seen, late, silent, crashes, fails>>

\* The payload goes to the file p created, whatever the name refers to by now
Written(p) == IF file.owner = p THEN [file EXCEPT !.named = TRUE] ELSE file

Name(p) ==
  /\ pc[p] = "created"
  /\ Goto(p, "in")
  /\ file' = Written(p)
  /\ UNCHANGED <<seen, late, silent, crashes, fails>>

\* os.write or os.fsync raises: the file stays, empty or complete
NameFails(p) ==
  /\ pc[p] = "created"
  /\ fails < MaxFails
  /\ fails' = fails + 1
  /\ Goto(p, "error")
  /\ file' \in {file, Written(p)}
  /\ UNCHANGED <<seen, late, silent, crashes>>

-----------------------------------------------------------------------------
(* Contention *)

Observe(p) ==
  /\ pc[p] = "read"
  /\ seen' = [seen EXCEPT ![p] = Read]
  /\ Goto(p, "check")
  /\ UNCHANGED <<file, late, silent, crashes, fails>>

OwnerRecorded(owner) == owner \in Procs               \* mutant: no liveness probe
OwnerNeverDead(owner) == FALSE                        \* mutant: never reaps
OwnerDead(owner) == owner \in Procs /\ pc[owner] = "dead"

CheckSkipsDeadline(p) ==                              \* mutant: continue, not poll
  /\ pc[p] = "check"
  /\ IF OwnerDead(seen[p].owner)
     THEN Goto(p, "recheck") /\ UNCHANGED seen
     ELSE Goto(p, "try") /\ seen' = Forget(p)
  /\ UNCHANGED <<file, late, silent, crashes, fails>>
Check(p) ==
  /\ pc[p] = "check"
  /\ IF OwnerDead(seen[p].owner)
     THEN Goto(p, "recheck") /\ UNCHANGED seen
     ELSE Goto(p, "wait") /\ seen' = Forget(p)
  /\ UNCHANGED <<file, late, silent, crashes, fails>>

Recheck(p) ==
  /\ pc[p] = "recheck"
  /\ Goto(p, IF seen[p].current THEN "reap" ELSE "wait")
  /\ seen' = Forget(p)
  /\ UNCHANGED <<file, late, silent, crashes, fails>>
\* path.unlink: it removes whatever has the name by now, or raises
Unlinks ==
  /\ file # NoFile
  /\ file' = NoFile
  /\ seen' = Outdated
  /\ UNCHANGED fails

UnlinkRaises ==
  /\ \/ file = NoFile /\ UNCHANGED fails
     \/ file # NoFile /\ fails < MaxFails /\ fails' = fails + 1
  /\ UNCHANGED <<file, seen>>

Reap(p) ==
  /\ pc[p] = "reap"
  /\ \/ Unlinks /\ Goto(p, "try")
     \/ UnlinkRaises /\ Goto(p, "wait")
  /\ UNCHANGED <<late, silent, crashes>>
Retry(p) ==
  /\ pc[p] = "wait"
  /\ p \notin late
  /\ Goto(p, "try")
  /\ UNCHANGED <<file, seen, late, silent, crashes, fails>>

GiveUp(p) ==
  /\ pc[p] = "wait"
  /\ p \in late
  /\ Goto(p, "error")
  /\ UNCHANGED <<file, seen, late, silent, crashes, fails>>

-----------------------------------------------------------------------------
(* Release, death and time *)

Inside == {p \in Procs : pc[p] = "in"}

OwnsAnyway(p) == TRUE                                 \* mutant: unlinks unconditionally
Owns(p) == file.named /\ file.owner = p

\* The body is over: the owner reads the lock file again
Verify(p) ==
  /\ pc[p] = "in"
  /\ IF Owns(p)
     THEN /\ Goto(p, "leaving")
          /\ silent' = silent \cup (Inside \ {p})
     ELSE /\ Goto(p, "error")
          /\ silent' = silent \ {p}
  /\ UNCHANGED <<file, seen, late, crashes, fails>>

Leave(p) ==
  /\ pc[p] = "leaving"
  /\ \/ Unlinks /\ Goto(p, "idle")
     \/ UnlinkRaises /\ Goto(p, "error")
  /\ silent' = silent \ {p}
  /\ UNCHANGED <<late, crashes>>

Crash(p) ==
  /\ pc[p] # "dead"
  /\ crashes < MaxCrashes
  /\ crashes' = crashes + 1
  /\ Goto(p, "dead")
  /\ silent' = silent \ {p}
  /\ UNCHANGED <<file, seen, late, fails>>

Expire(p) ==
  /\ pc[p] \in Polling
  /\ p \notin late
  /\ late' = late \cup {p}
  /\ UNCHANGED <<file, pc, seen, silent, crashes, fails>>

Step(p) ==
  \/ Create(p) \/ Collide(p) \/ Name(p) \/ NameFails(p)
  \/ Observe(p) \/ Check(p) \/ Recheck(p) \/ Reap(p) \/ Retry(p) \/ GiveUp(p)
  \/ Verify(p) \/ Leave(p)

Next == \E p \in Procs : Start(p) \/ Step(p) \/ Crash(p) \/ Expire(p)

Spec == Init /\ [][Next]_vars

\* A process that lives keeps running, the registry's transactions are finite
\* file operations, and time passes.  Nobody has to start, nobody has to die.
FairSpec == Spec /\ \A p \in Procs : WF_vars(Step(p)) /\ WF_vars(Expire(p))

-----------------------------------------------------------------------------
(* Properties *)

\* The shape of the lock file, of what was read of it, and of every process
TypeOK ==
  /\ file \in [owner : Procs, named : BOOLEAN] \cup {NoFile}
  /\ pc \in [Procs -> Places]
  /\ seen \in [Procs -> [owner : Procs \cup {"nobody"}, current : BOOLEAN]]
  /\ late \subseteq Procs
  /\ silent \subseteq Procs
  /\ crashes \in 0..MaxCrashes
  /\ fails \in 0..MaxFails

\* While no process has died at most one runs its transaction, whatever writes
\* and unlinks fail (_write_lock)
ExclusionUntilADeath == crashes = 0 => \A p, q \in Inside : p = q

\* The lock does what WriteLock promises, which until a process dies includes
\* that it is granted to one at a time
Phase(place) ==
  CASE place \in Polling \cup {"created"} -> "waiting"
    [] place \in {"in", "leaving"} -> "holding"
    [] OTHER -> "idle"

Promise == INSTANCE WriteLock WITH
  phase <- [p \in Procs |-> Phase(pc[p])],
  died  <- crashes > 0

ImplementsWriteLock == Promise!Spec

\* Whoever dies and whoever reaps: of two transactions that ran at the same
\* time at most one ends without an error (the identity check of the release)
OverlapIsReported == \A p \in silent : pc[p] # "leaving"

\* Whoever starts to poll for the lock ends inside, with an error, or dead
EveryAttemptEnds ==
  \A p \in Procs : pc[p] = "try" ~> pc[p] \in {"in", "idle", "error", "dead"}

Abandoned == file.named /\ pc[file.owner] = "dead"

\* A lock file that names a dead owner is gone once a process that lives has
\* tried to get the lock, if the system refuses no unlink from then on
AbandonedIsReaped ==
  \A p \in Procs :
    Abandoned /\ fails = MaxFails /\ pc[p] = "try" ~> ~Abandoned \/ pc[p] = "dead"
=============================================================================
