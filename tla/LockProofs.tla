------------------------------ MODULE LockProofs ------------------------------
(***************************************************************************)
(* Proofs about both write locks, RegistryLock and EvidenceLock, for every *)
(* set of processes and every bound.  The two have the same kind of        *)
(* variables and constants; EvidenceLock is an instance of its own.        *)
(***************************************************************************)
EXTENDS RegistryLock, TLAPS

Evidence == INSTANCE EvidenceLock

-----------------------------------------------------------------------------
(* The evidence lock *)

\* NoFile cannot be taken for the lock file of a process
LEMMA EvidenceNoFileIsNobodys == \A p \in Procs : Evidence!NewFile(p) # Evidence!NoFile /\ Evidence!NoFile.owner # p
  BY RegistryLockAssumption DEF Evidence!NoFile, Evidence!NewFile

\* The lock file, the places in the protocol and the counters keep their shape
THEOREM EvidenceTypeCorrect == Evidence!Spec => []Evidence!TypeOK
<1>1. Evidence!Init => Evidence!TypeOK
  BY RegistryLockAssumption DEF Evidence!Init, Evidence!TypeOK, Evidence!Places, Evidence!NoFile
<1>2. Evidence!TypeOK /\ [Evidence!Next]_(Evidence!vars) => Evidence!TypeOK'
  <2> SUFFICES ASSUME Evidence!TypeOK, [Evidence!Next]_(Evidence!vars) PROVE Evidence!TypeOK'
    OBVIOUS
  <2> USE RegistryLockAssumption DEF Evidence!TypeOK, Evidence!Places, Evidence!Polling, Evidence!Goto
  <2>1. ASSUME NEW p \in Procs, Evidence!Start(p) \/ Evidence!Collide(p) PROVE Evidence!TypeOK'
    BY <2>1 DEF Evidence!Start, Evidence!Collide
  <2>2. ASSUME NEW p \in Procs, Evidence!Create(p) PROVE Evidence!TypeOK'
    BY <2>2 DEF Evidence!Create, Evidence!NewFile
  <2>3. ASSUME NEW p \in Procs, Evidence!Name(p) PROVE Evidence!TypeOK'
    <3>1. file' \in [owner : Procs, named : BOOLEAN, old : BOOLEAN] \cup {Evidence!NoFile}
      <4>1. CASE file.owner = p
        BY <4>1, <2>3, EvidenceNoFileIsNobodys DEF Evidence!Name
      <4>2. CASE file.owner # p
        BY <4>2, <2>3 DEF Evidence!Name
      <4> QED BY <4>1, <4>2
    <3> QED BY <3>1, <2>3 DEF Evidence!Name
  <2>4. ASSUME NEW p \in Procs, Evidence!NameFails(p) PROVE Evidence!TypeOK'
    BY <2>4 DEF Evidence!NameFails
  <2>5. ASSUME NEW p \in Procs, Evidence!LookAge(p) \/ Evidence!Judge(p) PROVE Evidence!TypeOK'
    BY <2>5 DEF Evidence!LookAge, Evidence!Judge
  <2>6. ASSUME NEW p \in Procs, Evidence!Retry(p) \/ Evidence!GiveUp(p) PROVE Evidence!TypeOK'
    BY <2>6 DEF Evidence!Retry, Evidence!GiveUp
  <2>7. ASSUME NEW p \in Procs, Evidence!Reap(p) \/ Evidence!Leave(p) PROVE Evidence!TypeOK'
    BY <2>7 DEF Evidence!Reap, Evidence!Leave, Evidence!Unlink
  <2>8. ASSUME NEW p \in Procs, Evidence!Crash(p) \/ Evidence!Expire(p) PROVE Evidence!TypeOK'
    BY <2>8 DEF Evidence!Crash, Evidence!Expire
  <2>9. CASE Evidence!Age
    BY <2>9 DEF Evidence!Age
  <2>10. CASE UNCHANGED Evidence!vars
    BY <2>10 DEF Evidence!vars
  <2> QED BY <2>1, <2>2, <2>3, <2>4, <2>5, <2>6, <2>7, <2>8, <2>9, <2>10 DEF Evidence!Next, Evidence!Step
<1> QED BY <1>1, <1>2, PTL DEF Evidence!Spec

-----------------------------------------------------------------------------
(* Exclusion *)

\* While nobody has died nobody is believed dead, so that whoever created the
\* lock file still owns it.
EvidenceOwned ==
  crashes = 0 =>
    /\ \A p \in Procs : pc[p] \notin {"dead", "reap"}
    /\ \A p \in Procs : pc[p] \in {"created", "in"} => file.owner = p

LEMMA EvidenceOwnedInductive == Evidence!TypeOK /\ EvidenceOwned /\ [Evidence!Next]_(Evidence!vars) => EvidenceOwned'
<1> SUFFICES ASSUME Evidence!TypeOK, EvidenceOwned, [Evidence!Next]_(Evidence!vars), crashes' = 0
             PROVE  /\ \A p \in Procs : pc'[p] \notin {"dead", "reap"}
                    /\ \A p \in Procs : pc'[p] \in {"created", "in"} => file'.owner = p
  BY DEF EvidenceOwned
<1>0. crashes = 0 /\ ~(\E p \in Procs : Evidence!Crash(p))
  BY RegistryLockAssumption DEF Evidence!TypeOK, Evidence!Next, Evidence!Step, Evidence!vars, Evidence!Start, Evidence!Create, Evidence!Collide, Evidence!Name, Evidence!NameFails,
     Evidence!LookAge, Evidence!Judge, Evidence!Reap, Evidence!Retry, Evidence!GiveUp, Evidence!Leave, Evidence!Crash, Evidence!Age, Evidence!Expire
<1>1. ASSUME NEW p \in Procs, pc[p] \in {"created", "in"} PROVE file # Evidence!NoFile /\ file.owner = p
  BY <1>0, <1>1, EvidenceNoFileIsNobodys DEF EvidenceOwned
<1> USE <1>0, <1>1 DEF EvidenceOwned, Evidence!TypeOK, Evidence!Goto
<1>2. ASSUME NEW p \in Procs, Evidence!Start(p) \/ Evidence!Collide(p) \/ Evidence!LookAge(p) \/ Evidence!Retry(p) \/ Evidence!GiveUp(p) \/ Evidence!NameFails(p)
      PROVE  /\ \A q \in Procs : pc'[q] \notin {"dead", "reap"}
             /\ \A q \in Procs : pc'[q] \in {"created", "in"} => file'.owner = q
  BY <1>2 DEF Evidence!Start, Evidence!Collide, Evidence!LookAge, Evidence!Retry, Evidence!GiveUp, Evidence!NameFails
<1>3. ASSUME NEW p \in Procs, Evidence!Create(p)
      PROVE  /\ \A q \in Procs : pc'[q] \notin {"dead", "reap"}
             /\ \A q \in Procs : pc'[q] \in {"created", "in"} => file'.owner = q
  BY <1>3 DEF Evidence!Create, Evidence!NewFile
<1>4. ASSUME NEW p \in Procs, Evidence!Name(p)
      PROVE  /\ \A q \in Procs : pc'[q] \notin {"dead", "reap"}
             /\ \A q \in Procs : pc'[q] \in {"created", "in"} => file'.owner = q
  <2>1. file'.owner = p
    BY <1>4 DEF Evidence!Name
  <2> QED BY <2>1, <1>4 DEF Evidence!Name
<1>5. ASSUME NEW p \in Procs, Evidence!Judge(p)
      PROVE  /\ \A q \in Procs : pc'[q] \notin {"dead", "reap"}
             /\ \A q \in Procs : pc'[q] \in {"created", "in"} => file'.owner = q
  <2>1. ~Evidence!HolderDead
    BY DEF Evidence!HolderDead, Evidence!NoFile
  <2> QED BY <2>1, <1>5 DEF Evidence!Judge
<1>6. ASSUME NEW p \in Procs, Evidence!Leave(p)
      PROVE  /\ \A q \in Procs : pc'[q] \notin {"dead", "reap"}
             /\ \A q \in Procs : pc'[q] \in {"created", "in"} => file'.owner = q
  <2>1. \A q \in Procs \ {p} : pc[q] \notin {"created", "in"}
    BY <1>6 DEF Evidence!Leave
  <2> QED BY <2>1, <1>6 DEF Evidence!Leave
<1>7. ASSUME NEW p \in Procs, Evidence!Reap(p) PROVE FALSE
  BY <1>7 DEF Evidence!Reap
<1>8. ASSUME NEW p \in Procs, Evidence!Expire(p)
      PROVE  /\ \A q \in Procs : pc'[q] \notin {"dead", "reap"}
             /\ \A q \in Procs : pc'[q] \in {"created", "in"} => file'.owner = q
  BY <1>8 DEF Evidence!Expire
<1>9. CASE Evidence!Age
  <2>1. file'.owner = file.owner
    BY <1>9 DEF Evidence!Age
  <2> QED BY <2>1, <1>9 DEF Evidence!Age
<1>10. CASE UNCHANGED Evidence!vars
  BY <1>10 DEF Evidence!vars
<1> QED BY <1>2, <1>3, <1>4, <1>5, <1>6, <1>7, <1>8, <1>9, <1>10 DEF Evidence!Next, Evidence!Step

LEMMA EvidenceOwnedExcludes == Evidence!TypeOK /\ EvidenceOwned => Evidence!ExclusionUntilADeath
  BY DEF EvidenceOwned, Evidence!ExclusionUntilADeath, Evidence!Inside

\* Until somebody dies at most one process is inside, whatever its speed
THEOREM EvidenceExclusionCorrect == Evidence!Spec => []Evidence!ExclusionUntilADeath
<1>1. Evidence!Init => EvidenceOwned
  BY DEF Evidence!Init, EvidenceOwned
<1> QED BY <1>1, EvidenceTypeCorrect, EvidenceOwnedInductive, EvidenceOwnedExcludes, PTL DEF Evidence!Spec

-----------------------------------------------------------------------------
(* Implementation of the promise *)

EvidencePhases == [p \in Procs |-> Evidence!Phase(pc[p])]
EvidenceDied   == crashes > 0

LEMMA EvidencePhaseValues ==
  /\ Evidence!Phase("idle") = "idle"
  /\ Evidence!Phase("in") = "holding"
  /\ \A place \in Evidence!Polling \cup {"created"} : Evidence!Phase(place) = "waiting"
  BY DEF Evidence!Phase, Evidence!Polling

LEMMA EvidencePhaseSteps ==
  ASSUME NEW place \in Evidence!Places
  PROVE  /\ Evidence!Phase(place) = "idle" <=> place \in {"idle", "dead"}
         /\ Evidence!Phase(place) = "waiting" <=> place \in Evidence!Polling \cup {"created"}
         /\ Evidence!Phase(place) = "holding" <=> place = "in"
  BY DEF Evidence!Phase, Evidence!Places, Evidence!Polling

\* Deaths are counted, and only deaths
LEMMA EvidenceCrashCounts ==
  ASSUME Evidence!TypeOK, NEW p \in Procs
  PROVE  /\ Evidence!Crash(p) => EvidenceDied'
         /\ Evidence!Start(p) \/ Evidence!Step(p) \/ Evidence!Expire(p) => EvidenceDied' = EvidenceDied
<1>1. crashes \in Nat
  BY RegistryLockAssumption DEF Evidence!TypeOK
<1> QED BY <1>1 DEF Evidence!Crash, EvidenceDied, Evidence!Step, Evidence!Start, Evidence!Create, Evidence!Collide, Evidence!Name, Evidence!NameFails, Evidence!LookAge, Evidence!Judge, Evidence!Reap, Evidence!Retry, Evidence!GiveUp, Evidence!Leave, Evidence!Expire

\* A step that moves one process changes one entry of the mapped state
LEMMA EvidencePhasesMove ==
  ASSUME Evidence!TypeOK, NEW p \in Procs, NEW place \in Evidence!Places, Evidence!Goto(p, place)
  PROVE  EvidencePhases' = [EvidencePhases EXCEPT ![p] = Evidence!Phase(place)]
<1>1. \A q \in Procs : EvidencePhases'[q] = IF q = p THEN Evidence!Phase(place) ELSE EvidencePhases[q]
  BY DEF EvidencePhases, Evidence!Goto, Evidence!TypeOK
<1> QED BY <1>1 DEF EvidencePhases

LEMMA EvidencePhasesStay ==
  ASSUME Evidence!TypeOK, NEW p \in Procs, NEW place \in Evidence!Places, Evidence!Goto(p, place), Evidence!Phase(place) = Evidence!Phase(pc[p])
  PROVE  EvidencePhases' = EvidencePhases
<1>1. \A q \in Procs : EvidencePhases'[q] = EvidencePhases[q]
  BY DEF EvidencePhases, Evidence!Goto, Evidence!TypeOK
<1> QED BY <1>1 DEF EvidencePhases

\* Every behaviour of the lock file is one the promise of WriteLock allows, with
\* any number of deaths (ImplementsWriteLock)
THEOREM EvidenceImplementsCorrect == Evidence!Spec => Evidence!ImplementsWriteLock
<1>1. Evidence!Init => Evidence!Promise!Init
  BY DEF Evidence!Init, Evidence!Promise!Init, Evidence!Phase, Evidence!Polling
<1>2. Evidence!TypeOK /\ EvidenceOwned /\ [Evidence!Next]_(Evidence!vars) => [Evidence!Promise!Next]_<<EvidencePhases, EvidenceDied>>
  <2> SUFFICES ASSUME Evidence!TypeOK, EvidenceOwned, [Evidence!Next]_(Evidence!vars) PROVE [Evidence!Promise!Next]_<<EvidencePhases, EvidenceDied>>
    OBVIOUS
  <2>c. ASSUME NEW p \in Procs, Evidence!Start(p) \/ Evidence!Name(p) \/ Evidence!NameFails(p) \/ Evidence!GiveUp(p) \/ Evidence!Leave(p)
        PROVE  EvidenceDied' = EvidenceDied
    BY <2>c, EvidenceCrashCounts DEF Evidence!Step
  <2>0. ASSUME NEW p \in Procs, Evidence!Crash(p) PROVE Evidence!Promise!Next
    <3>1. Evidence!Goto(p, "dead") /\ "dead" \in Evidence!Places /\ EvidenceDied'
      BY <2>0, EvidenceCrashCounts DEF Evidence!Crash, Evidence!Places
    <3>2. Evidence!Phase("dead") = "idle"
      BY <3>1, EvidencePhaseSteps
    <3>3. EvidencePhases' = [EvidencePhases EXCEPT ![p] = "idle"]
      BY <3>1, <3>2, EvidencePhasesMove
    <3> QED BY <3>1, <3>3 DEF Evidence!Promise!Next, Evidence!Promise!Die, EvidencePhases, EvidenceDied
  <2>1. ASSUME NEW p \in Procs, Evidence!Start(p) PROVE Evidence!Promise!Next
    <3>1. Evidence!Goto(p, "try") /\ pc[p] = "idle" /\ "try" \in Evidence!Places /\ "try" \in Evidence!Polling
      BY <2>1 DEF Evidence!Start, Evidence!Places, Evidence!Polling
    <3>2. EvidencePhases' = [EvidencePhases EXCEPT ![p] = "waiting"]
      BY <3>1, EvidencePhasesMove, EvidencePhaseValues
    <3>3. EvidencePhases[p] = "idle"
      BY <3>1, EvidencePhaseValues DEF EvidencePhases
    <3> QED BY <3>2, <3>3, <2>1, <2>c DEF Evidence!Promise!Next, Evidence!Promise!Ask, EvidencePhases, EvidenceDied
  <2>2. ASSUME NEW p \in Procs, Evidence!Name(p) PROVE Evidence!Promise!Next
    <3>1. Evidence!Goto(p, "in") /\ pc[p] = "created" /\ "in" \in Evidence!Places
      BY <2>2 DEF Evidence!Name, Evidence!Places
    <3>3. EvidencePhases' = [EvidencePhases EXCEPT ![p] = "holding"]
      BY <3>1, EvidencePhasesMove, EvidencePhaseValues
    <3>4. EvidencePhases[p] = "waiting"
      BY <3>1, EvidencePhaseValues DEF EvidencePhases
    <3>2. ASSUME ~EvidenceDied PROVE \A q \in Procs : EvidencePhases[q] # "holding"
      <4>0. crashes = 0
        BY <3>2, RegistryLockAssumption DEF EvidenceDied, Evidence!TypeOK
      <4>1. \A q \in Procs \ {p} : pc[q] # "in"
        BY <4>0, <2>2 DEF EvidenceOwned, Evidence!Name
      <4>2. \A q \in Procs : pc[q] # "in" /\ pc[q] \in Evidence!Places
        BY <4>1, <2>2 DEF Evidence!Name, Evidence!TypeOK
      <4> QED BY <4>2, EvidencePhaseSteps DEF EvidencePhases
    <3> QED BY <3>2, <3>3, <3>4, <2>2, <2>c DEF Evidence!Promise!Next, Evidence!Promise!Grant, EvidencePhases, EvidenceDied
  <2>3. ASSUME NEW p \in Procs, Evidence!NameFails(p) \/ Evidence!GiveUp(p) PROVE Evidence!Promise!Next
    <3>1. Evidence!Goto(p, "idle") /\ pc[p] \in Evidence!Polling \cup {"created"} /\ "idle" \in Evidence!Places
      BY <2>3 DEF Evidence!NameFails, Evidence!GiveUp, Evidence!Places, Evidence!Polling
    <3>2. EvidencePhases' = [EvidencePhases EXCEPT ![p] = "idle"]
      BY <3>1, EvidencePhasesMove, EvidencePhaseValues
    <3>3. EvidencePhases[p] = "waiting"
      BY <3>1, EvidencePhaseValues DEF EvidencePhases
    <3> QED BY <3>2, <3>3, <2>3, <2>c DEF Evidence!Promise!Next, Evidence!Promise!GiveUp, EvidencePhases, EvidenceDied
  <2>4. ASSUME NEW p \in Procs, Evidence!Leave(p) PROVE Evidence!Promise!Next
    <3>1. Evidence!Goto(p, "idle") /\ pc[p] = "in" /\ "idle" \in Evidence!Places
      BY <2>4 DEF Evidence!Leave, Evidence!Places
    <3>2. EvidencePhases' = [EvidencePhases EXCEPT ![p] = "idle"]
      BY <3>1, EvidencePhasesMove, EvidencePhaseValues
    <3>3. EvidencePhases[p] = "holding"
      BY <3>1, EvidencePhaseValues DEF EvidencePhases
    <3> QED BY <3>2, <3>3, <2>4, <2>c DEF Evidence!Promise!Next, Evidence!Promise!GiveBack, EvidencePhases, EvidenceDied
  <2>5. ASSUME NEW p \in Procs,
               Evidence!Create(p) \/ Evidence!Collide(p) \/ Evidence!LookAge(p) \/ Evidence!Judge(p) \/ Evidence!Reap(p) \/ Evidence!Retry(p)
        PROVE  EvidencePhases' = EvidencePhases
    <3>1. PICK place \in Evidence!Polling \cup {"created"} : Evidence!Goto(p, place)
      BY <2>5 DEF Evidence!Create, Evidence!Collide, Evidence!LookAge, Evidence!Judge, Evidence!Reap, Evidence!Retry, Evidence!Polling
    <3>2. pc[p] \in Evidence!Polling \cup {"created"} /\ place \in Evidence!Places /\ pc[p] \in Evidence!Places
      BY <2>5 DEF Evidence!Create, Evidence!Collide, Evidence!LookAge, Evidence!Judge, Evidence!Reap, Evidence!Retry, Evidence!Polling, Evidence!Places
    <3>3. Evidence!Phase(place) = Evidence!Phase(pc[p])
      BY <3>2, EvidencePhaseSteps
    <3> QED BY <3>1, <3>2, <3>3, EvidencePhasesStay
  <2>6. ASSUME NEW p \in Procs, Evidence!Expire(p) PROVE EvidencePhases' = EvidencePhases
    BY <2>6 DEF Evidence!Expire, EvidencePhases
  <2>7. CASE Evidence!Age
    BY <2>7 DEF Evidence!Age, EvidencePhases, EvidenceDied
  <2>8. CASE UNCHANGED Evidence!vars
    BY <2>8 DEF Evidence!vars, EvidencePhases, EvidenceDied
  <2>9. CASE \E p \in Procs : Evidence!Start(p) \/ Evidence!Step(p) \/ Evidence!Expire(p)
    BY <2>9, <2>1, <2>2, <2>3, <2>4, <2>5, <2>6, EvidenceCrashCounts DEF Evidence!Step
  <2> QED BY <2>0, <2>7, <2>8, <2>9 DEF Evidence!Next
<1>3. Evidence!Init => EvidenceOwned
  BY DEF Evidence!Init, EvidenceOwned
<1>4. Evidence!Spec => [](Evidence!TypeOK /\ EvidenceOwned)
  BY <1>3, EvidenceTypeCorrect, EvidenceOwnedInductive, PTL DEF Evidence!Spec
<1> QED BY <1>1, <1>2, <1>4, PTL DEF Evidence!ImplementsWriteLock, Evidence!Promise!Spec, Evidence!Promise!vars, Evidence!Spec, EvidencePhases, EvidenceDied

-----------------------------------------------------------------------------
(* The registry lock *)


\* NoFile cannot be taken for the lock file of a process
LEMMA NoFileIsNobodys == \A p \in Procs : NewFile(p) # NoFile /\ NoFile.owner # p
  BY RegistryLockAssumption DEF NoFile, NewFile

\* The lock file, the places in the protocol and the counters keep their shape
THEOREM TypeCorrect == Spec => []TypeOK
<1>1. Init => TypeOK
  BY RegistryLockAssumption DEF Init, TypeOK, Places, NoFile, Nothing
<1>2. TypeOK /\ [Next]_vars => TypeOK'
  <2> SUFFICES ASSUME TypeOK, [Next]_vars PROVE TypeOK'
    OBVIOUS
  <2> USE RegistryLockAssumption DEF TypeOK, Places, Polling, Goto
  <2>1. ASSUME NEW p \in Procs, Start(p) \/ Collide(p) \/ Retry(p) \/ GiveUp(p) \/ Expire(p)
        PROVE  TypeOK'
    BY <2>1 DEF Start, Collide, Retry, GiveUp, Expire
  <2>2. ASSUME NEW p \in Procs, Create(p) PROVE TypeOK'
    BY <2>2 DEF Create, NewFile
  <2>3. ASSUME NEW p \in Procs
        PROVE  Written(p) \in [owner : Procs, named : BOOLEAN] \cup {NoFile}
    BY NoFileIsNobodys DEF Written
  <2>4. ASSUME NEW p \in Procs, Name(p) \/ NameFails(p) PROVE TypeOK'
    BY <2>3, <2>4 DEF Name, NameFails
  <2>5. Read \in [owner : Procs \cup {"nobody"}, current : BOOLEAN]
    BY DEF Read, Nothing, NoFile
  <2>6. ASSUME NEW p \in Procs, Observe(p) PROVE TypeOK'
    BY <2>5, <2>6 DEF Observe
  <2>7. ASSUME NEW p \in Procs
        PROVE  Forget(p) \in [Procs -> [owner : Procs \cup {"nobody"}, current : BOOLEAN]]
    BY DEF Forget, Nothing
  <2>8. ASSUME NEW p \in Procs, Check(p) \/ Recheck(p) PROVE TypeOK'
    BY <2>7, <2>8 DEF Check, Recheck
  <2>9. Outdated \in [Procs -> [owner : Procs \cup {"nobody"}, current : BOOLEAN]]
    BY DEF Outdated
  <2>10. ASSUME NEW p \in Procs, Reap(p) PROVE TypeOK'
    BY <2>9, <2>10 DEF Reap, Unlinks, UnlinkRaises
  <2>11. ASSUME NEW p \in Procs, Leave(p) PROVE TypeOK'
    BY <2>9, <2>11 DEF Leave, Unlinks, UnlinkRaises
  <2>12. ASSUME NEW p \in Procs, Verify(p) PROVE TypeOK'
    BY <2>12 DEF Verify, Inside
  <2>13. ASSUME NEW p \in Procs, Crash(p) PROVE TypeOK'
    BY <2>13 DEF Crash
  <2>14. CASE UNCHANGED vars
    BY <2>14 DEF vars
  <2> QED BY <2>1, <2>2, <2>4, <2>6, <2>8, <2>10, <2>11, <2>12, <2>13, <2>14 DEF Next, Step
<1> QED BY <1>1, <1>2, PTL DEF Spec

-----------------------------------------------------------------------------
(* Exclusion *)

\* While nobody has died nobody is believed dead, so that whoever created the
\* lock file still owns it.
Owned ==
  crashes = 0 =>
    /\ \A p \in Procs : pc[p] \notin {"dead", "recheck", "reap"}
    /\ \A p \in Procs : pc[p] \in {"created", "in", "leaving"} => file.owner = p

LEMMA OwnedInductive == TypeOK /\ Owned /\ [Next]_vars => Owned'
<1> SUFFICES ASSUME TypeOK, Owned, [Next]_vars, crashes' = 0
             PROVE  /\ \A q \in Procs : pc'[q] \notin {"dead", "recheck", "reap"}
                    /\ \A q \in Procs : pc'[q] \in {"created", "in", "leaving"} => file'.owner = q
  BY DEF Owned
<1>0. crashes = 0 /\ ~(\E p \in Procs : Crash(p))
  BY RegistryLockAssumption DEF TypeOK, Next, Step, vars, Start, Create, Collide, Name, NameFails,
     Observe, Check, Recheck, Reap, Retry, GiveUp, Verify, Leave, Crash, Expire
<1>1. ASSUME NEW p \in Procs, pc[p] \in {"created", "in", "leaving"}
      PROVE  file # NoFile /\ file.owner = p
  BY <1>0, <1>1, NoFileIsNobodys DEF Owned
<1> USE <1>0, <1>1 DEF Owned, TypeOK, Goto
<1>2. ASSUME NEW p \in Procs,
             Start(p) \/ Collide(p) \/ Observe(p) \/ Retry(p) \/ GiveUp(p) \/ Expire(p)
      PROVE  /\ \A q \in Procs : pc'[q] \notin {"dead", "recheck", "reap"}
             /\ \A q \in Procs : pc'[q] \in {"created", "in", "leaving"} => file'.owner = q
  BY <1>2 DEF Start, Collide, Observe, Retry, GiveUp, Expire
<1>3. ASSUME NEW p \in Procs, Create(p)
      PROVE  /\ \A q \in Procs : pc'[q] \notin {"dead", "recheck", "reap"}
             /\ \A q \in Procs : pc'[q] \in {"created", "in", "leaving"} => file'.owner = q
  BY <1>3 DEF Create, NewFile
<1>4. ASSUME NEW p \in Procs, Name(p) \/ NameFails(p)
      PROVE  /\ \A q \in Procs : pc'[q] \notin {"dead", "recheck", "reap"}
             /\ \A q \in Procs : pc'[q] \in {"created", "in", "leaving"} => file'.owner = q
  <2>1. file'.owner = p
    BY <1>4 DEF Name, NameFails, Written
  <2>2. \A q \in Procs \ {p} : pc[q] \notin {"created", "in", "leaving"}
    BY <1>4 DEF Name, NameFails
  <2> QED BY <2>1, <2>2, <1>4 DEF Name, NameFails
<1>5. ASSUME NEW p \in Procs, Check(p)
      PROVE  /\ \A q \in Procs : pc'[q] \notin {"dead", "recheck", "reap"}
             /\ \A q \in Procs : pc'[q] \in {"created", "in", "leaving"} => file'.owner = q
  <2>1. ~OwnerDead(seen[p].owner)
    BY DEF OwnerDead
  <2> QED BY <2>1, <1>5 DEF Check
<1>6. ASSUME NEW p \in Procs, Verify(p)
      PROVE  /\ \A q \in Procs : pc'[q] \notin {"dead", "recheck", "reap"}
             /\ \A q \in Procs : pc'[q] \in {"created", "in", "leaving"} => file'.owner = q
  BY <1>6 DEF Verify
<1>7. ASSUME NEW p \in Procs, Leave(p)
      PROVE  /\ \A q \in Procs : pc'[q] \notin {"dead", "recheck", "reap"}
             /\ \A q \in Procs : pc'[q] \in {"created", "in", "leaving"} => file'.owner = q
  <2>1. \A q \in Procs \ {p} : pc[q] \notin {"created", "in", "leaving"}
    BY <1>7 DEF Leave
  <2> QED BY <2>1, <1>7 DEF Leave
<1>8. ASSUME NEW p \in Procs, Recheck(p) \/ Reap(p) PROVE FALSE
  BY <1>8 DEF Recheck, Reap
<1>9. CASE UNCHANGED vars
  BY <1>9 DEF vars
<1> QED BY <1>2, <1>3, <1>4, <1>5, <1>6, <1>7, <1>8, <1>9 DEF Next, Step

LEMMA OwnedExcludes == TypeOK /\ Owned => ExclusionUntilADeath
  BY DEF Owned, ExclusionUntilADeath, Inside

\* Until somebody dies at most one process is inside, whatever its speed
THEOREM ExclusionCorrect == Spec => []ExclusionUntilADeath
<1>1. Init => Owned
  BY DEF Init, Owned
<1> QED BY <1>1, TypeCorrect, OwnedInductive, OwnedExcludes, PTL DEF Spec

-----------------------------------------------------------------------------
(* The release *)

\* Who overlapped a transaction whose lock was intact has lost its own lock file
\* and never gets it back: a lock file that is gone has a token nobody reuses.
Lost == \A p \in silent : pc[p] = "in" /\ file.owner # p

LEMMA LostInductive == TypeOK /\ Lost /\ [Next]_vars => Lost'
<1> SUFFICES ASSUME TypeOK, Lost, [Next]_vars,
                    NEW q \in silent'
             PROVE  pc'[q] = "in" /\ file'.owner # q
  BY DEF Lost
<1> USE DEF Lost, TypeOK, Goto
<1>1. ASSUME NEW p \in Procs,
             Start(p) \/ Collide(p) \/ Observe(p) \/ Check(p) \/ Recheck(p)
               \/ Retry(p) \/ GiveUp(p) \/ Expire(p)
      PROVE  pc'[q] = "in" /\ file'.owner # q
  BY <1>1 DEF Start, Collide, Observe, Check, Recheck, Retry, GiveUp, Expire
<1>2. ASSUME NEW p \in Procs, Create(p) PROVE pc'[q] = "in" /\ file'.owner # q
  BY <1>2 DEF Create, NewFile
<1>3. ASSUME NEW p \in Procs, Name(p) \/ NameFails(p) PROVE pc'[q] = "in" /\ file'.owner # q
  <2>1. Written(p).owner = file.owner
    BY DEF Written
  <2>2. file'.owner = file.owner
    BY <1>3, <2>1 DEF Name, NameFails
  <2>3. q \in silent /\ q # p
    BY <1>3 DEF Name, NameFails
  <2> QED BY <1>3, <2>2, <2>3 DEF Name, NameFails
<1>4. ASSUME NEW p \in Procs, Reap(p) PROVE pc'[q] = "in" /\ file'.owner # q
  BY <1>4, NoFileIsNobodys DEF Reap, Unlinks, UnlinkRaises
<1>5. ASSUME NEW p \in Procs, Leave(p) PROVE pc'[q] = "in" /\ file'.owner # q
  BY <1>5, NoFileIsNobodys DEF Leave, Unlinks, UnlinkRaises
<1>6. ASSUME NEW p \in Procs, Verify(p) PROVE pc'[q] = "in" /\ file'.owner # q
  <2>1. CASE Owns(p)
    BY <2>1, <1>6 DEF Verify, Owns, Inside
  <2>2. CASE ~Owns(p)
    BY <2>2, <1>6 DEF Verify
  <2> QED BY <2>1, <2>2
<1>7. ASSUME NEW p \in Procs, Crash(p) PROVE pc'[q] = "in" /\ file'.owner # q
  BY <1>7 DEF Crash
<1>8. CASE UNCHANGED vars
  BY <1>8 DEF vars
<1> QED BY <1>1, <1>2, <1>3, <1>4, <1>5, <1>6, <1>7, <1>8 DEF Next, Step

\* Of two transactions that overlapped at most one passes its release, for any
\* number of deaths, refused system calls and processes
THEOREM OverlapCorrect == Spec => []OverlapIsReported
<1>1. Init => Lost
  BY DEF Init, Lost
<1>2. Lost => OverlapIsReported
  BY DEF Lost, OverlapIsReported
<1> QED BY <1>1, <1>2, TypeCorrect, LostInductive, PTL DEF Spec

-----------------------------------------------------------------------------
(* Implementation of the promise *)

Phases == [p \in Procs |-> Phase(pc[p])]
Died   == crashes > 0

LEMMA PhaseValues ==
  /\ Phase("idle") = "idle" /\ Phase("error") = "idle"
  /\ Phase("in") = "holding" /\ Phase("leaving") = "holding"
  /\ \A place \in Polling \cup {"created"} : Phase(place) = "waiting"
  BY DEF Phase, Polling

LEMMA PhaseSteps ==
  ASSUME NEW place \in Places
  PROVE  /\ Phase(place) = "idle" <=> place \in {"idle", "error", "dead"}
         /\ Phase(place) = "waiting" <=> place \in Polling \cup {"created"}
         /\ Phase(place) = "holding" <=> place \in {"in", "leaving"}
  BY DEF Phase, Places, Polling

\* Deaths are counted, and only deaths
LEMMA CrashCounts ==
  ASSUME TypeOK, NEW p \in Procs
  PROVE  /\ Crash(p) => Died'
         /\ Start(p) \/ Step(p) \/ Expire(p) => Died' = Died
<1>1. crashes \in Nat
  BY RegistryLockAssumption DEF TypeOK
<1> QED BY <1>1 DEF Crash, Died, Step, Start, Create, Collide, Name, NameFails, Observe, Check, Recheck, Reap, Retry,
       GiveUp, Verify, Leave, Expire

\* A step that moves one process changes one entry of the mapped state
LEMMA PhasesMove ==
  ASSUME TypeOK, NEW p \in Procs, NEW place \in Places, Goto(p, place)
  PROVE  Phases' = [Phases EXCEPT ![p] = Phase(place)]
<1>1. \A q \in Procs : Phases'[q] = IF q = p THEN Phase(place) ELSE Phases[q]
  BY DEF Phases, Goto, TypeOK
<1> QED BY <1>1 DEF Phases

LEMMA PhasesStay ==
  ASSUME TypeOK, NEW p \in Procs, NEW place \in Places, Goto(p, place), Phase(place) = Phase(pc[p])
  PROVE  Phases' = Phases
<1>1. \A q \in Procs : Phases'[q] = Phases[q]
  BY DEF Phases, Goto, TypeOK
<1> QED BY <1>1 DEF Phases

\* Every behaviour of the lock file is one the promise of WriteLock allows, with
\* any number of deaths (ImplementsWriteLock)
THEOREM ImplementsCorrect == Spec => ImplementsWriteLock
<1>1. Init => Promise!Init
  BY DEF Init, Promise!Init, Phase, Polling
<1>2. TypeOK /\ Owned /\ [Next]_vars => [Promise!Next]_<<Phases, Died>>
  <2> SUFFICES ASSUME TypeOK, Owned, [Next]_vars PROVE [Promise!Next]_<<Phases, Died>>
    OBVIOUS
  <2>c. ASSUME NEW p \in Procs, Start(p) \/ Name(p) \/ NameFails(p) \/ GiveUp(p) \/ Leave(p) \/ Verify(p)
        PROVE  Died' = Died
    BY <2>c, CrashCounts DEF Step
  <2>0. ASSUME NEW p \in Procs, Crash(p) PROVE Promise!Next
    <3>1. Goto(p, "dead") /\ "dead" \in Places /\ Died'
      BY <2>0, CrashCounts DEF Crash, Places
    <3>2. Phase("dead") = "idle"
      BY <3>1, PhaseSteps
    <3>3. Phases' = [Phases EXCEPT ![p] = "idle"]
      BY <3>1, <3>2, PhasesMove
    <3> QED BY <3>1, <3>3 DEF Promise!Next, Promise!Die, Phases, Died
  <2>1. ASSUME NEW p \in Procs, Start(p) PROVE Promise!Next
    <3>1. Goto(p, "try") /\ pc[p] \in {"idle", "error"} /\ "try" \in Places /\ "try" \in Polling
      BY <2>1 DEF Start, Places, Polling
    <3>2. Phases' = [Phases EXCEPT ![p] = "waiting"]
      BY <3>1, PhasesMove, PhaseValues
    <3>3. Phases[p] = "idle"
      BY <3>1, PhaseValues DEF Phases
    <3> QED BY <3>2, <3>3, <2>1, <2>c DEF Promise!Next, Promise!Ask, Phases, Died
  <2>2. ASSUME NEW p \in Procs, Name(p) PROVE Promise!Next
    <3>1. Goto(p, "in") /\ pc[p] = "created" /\ "in" \in Places
      BY <2>2 DEF Name, Places
    <3>2. Phases' = [Phases EXCEPT ![p] = "holding"]
      BY <3>1, PhasesMove, PhaseValues
    <3>3. Phases[p] = "waiting"
      BY <3>1, PhaseValues DEF Phases
    <3>4. ASSUME ~Died PROVE \A q \in Procs : Phases[q] # "holding"
      <4>0. crashes = 0
        BY <3>4, RegistryLockAssumption DEF Died, TypeOK
      <4>1. \A q \in Procs : pc[q] \notin {"in", "leaving"} /\ pc[q] \in Places
        BY <4>0, <3>1 DEF Owned, TypeOK
      <4> QED BY <4>1, PhaseSteps DEF Phases
    <3> QED BY <3>2, <3>3, <3>4, <2>2, <2>c DEF Promise!Next, Promise!Grant, Phases, Died
  <2>3. ASSUME NEW p \in Procs, NameFails(p) \/ GiveUp(p) PROVE Promise!Next
    <3>1. Goto(p, "error") /\ pc[p] \in Polling \cup {"created"} /\ "error" \in Places
      BY <2>3 DEF NameFails, GiveUp, Places, Polling
    <3>2. Phases' = [Phases EXCEPT ![p] = "idle"]
      BY <3>1, PhasesMove, PhaseValues
    <3>3. Phases[p] = "waiting"
      BY <3>1, PhaseValues DEF Phases
    <3> QED BY <3>2, <3>3, <2>3, <2>c DEF Promise!Next, Promise!GiveUp, Phases, Died
  <2>4. ASSUME NEW p \in Procs, Verify(p) \/ Leave(p), ~Goto(p, "leaving") PROVE Promise!Next
    <3>1. /\ Goto(p, "error") \/ Goto(p, "idle")
          /\ pc[p] \in {"in", "leaving"}
          /\ "error" \in Places /\ "idle" \in Places
      BY <2>4 DEF Verify, Leave, Places
    <3>2. Phases' = [Phases EXCEPT ![p] = "idle"]
      BY <3>1, PhasesMove, PhaseValues
    <3>3. Phases[p] = "holding"
      BY <3>1, PhaseValues DEF Phases
    <3> QED BY <3>2, <3>3, <2>4, <2>c DEF Promise!Next, Promise!GiveBack, Phases, Died
  <2>5. ASSUME NEW p \in Procs, Verify(p) \/ Leave(p), Goto(p, "leaving") PROVE Phases' = Phases
    <3>1. pc[p] \in {"in", "leaving"} /\ "leaving" \in Places
      BY <2>5 DEF Verify, Leave, Places
    <3>2. Phase("leaving") = Phase(pc[p])
      BY <3>1, PhaseValues
    <3> QED BY <2>5, <3>1, <3>2, PhasesStay
  <2>6. ASSUME NEW p \in Procs,
               Create(p) \/ Collide(p) \/ Observe(p) \/ Check(p) \/ Recheck(p) \/ Reap(p) \/ Retry(p)
        PROVE  Phases' = Phases
    <3>1. PICK place \in Polling \cup {"created"} : Goto(p, place)
      BY <2>6 DEF Create, Collide, Observe, Check, Recheck, Reap, Retry, Polling
    <3>2. pc[p] \in Polling \cup {"created"} /\ place \in Places /\ pc[p] \in Places
      BY <2>6 DEF Create, Collide, Observe, Check, Recheck, Reap, Retry, Polling, Places
    <3>3. Phase(place) = Phase(pc[p])
      BY <3>2, PhaseSteps
    <3> QED BY <3>1, <3>2, <3>3, PhasesStay
  <2>7. ASSUME NEW p \in Procs, Expire(p) PROVE Phases' = Phases
    BY <2>7 DEF Expire, Phases
  <2>8. CASE UNCHANGED vars
    BY <2>8 DEF vars, Phases, Died
  <2>9. CASE \E p \in Procs : Start(p) \/ Step(p) \/ Expire(p)
    BY <2>9, <2>1, <2>2, <2>3, <2>4, <2>5, <2>6, <2>7, CrashCounts DEF Step
  <2> QED BY <2>0, <2>8, <2>9 DEF Next
<1>3. Init => Owned
  BY DEF Init, Owned
<1>4. Spec => [](TypeOK /\ Owned)
  BY <1>3, TypeCorrect, OwnedInductive, PTL DEF Spec
<1> QED BY <1>1, <1>2, <1>4, PTL DEF ImplementsWriteLock, Promise!Spec, Promise!vars, Spec, Phases, Died
==============================================================================
