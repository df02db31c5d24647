------------------------------ MODULE WriteLock ------------------------------
(***************************************************************************)
(* What the two write locks of the workspace promise to their callers: a   *)
(* process asks, is granted the lock when nobody holds it, or gives up,    *)
(* and gives back what it was granted.  Once a process has died the lock   *)
(* may be granted past a holder, because the dead have to be robbed; the   *)
(* other promises stay.                                                    *)
(***************************************************************************)
CONSTANT Procs      \* the processes that use the lock

VARIABLES
  phase,            \* what each process knows of its own attempt
  died              \* some process has died

vars == <<phase, died>>

Init ==
  /\ phase = [p \in Procs |-> "idle"]
  /\ died = FALSE

Ask(p) ==
  /\ phase[p] = "idle"
  /\ phase' = [phase EXCEPT ![p] = "waiting"]
  /\ UNCHANGED died

Grant(p) ==
  /\ phase[p] = "waiting"
  /\ died \/ \A q \in Procs : phase[q] # "holding"
  /\ phase' = [phase EXCEPT ![p] = "holding"]
  /\ UNCHANGED died

GiveUp(p) ==
  /\ phase[p] = "waiting"
  /\ phase' = [phase EXCEPT ![p] = "idle"]
  /\ UNCHANGED died

GiveBack(p) ==
  /\ phase[p] = "holding"
  /\ phase' = [phase EXCEPT ![p] = "idle"]
  /\ UNCHANGED died

Die(p) ==
  /\ phase' = [phase EXCEPT ![p] = "idle"]
  /\ died' = TRUE

Next == \E p \in Procs : Ask(p) \/ Grant(p) \/ GiveUp(p) \/ GiveBack(p) \/ Die(p)

Spec == Init /\ [][Next]_vars
=============================================================================
