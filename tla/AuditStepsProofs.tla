--------------------------- MODULE AuditStepsProofs ---------------------------
EXTENDS AuditSteps, FiniteSetTheorems, TLAPS

USE AuditStepsAssumption

LEMMA NoJobOK == JobOK("idle", NoJob)
BY DEF JobOK, Job, NoJob, Pending, Statuses, Loop, Ends, Steps

\* A process that moves on keeps the types if its new state is one
LEMMA GotoType ==
  ASSUME TypeOK, NEW r \in Runners, NEW label \in Labels, NEW j, JobOK(label, j),
         Goto(r, label, j)
  PROVE  /\ pc' \in [Runners -> Labels] /\ job' \in [Runners -> Job]
         /\ \A q \in Runners : JobOK(pc'[q], job'[q])
<1>1. \A q \in Runners : pc'[q] = (IF q = r THEN label ELSE pc[q]) /\ job'[q] = (IF q = r THEN j ELSE job[q])
  BY DEF TypeOK, Goto
<1>2. j \in Job
  BY DEF JobOK
<1> QED BY <1>1, <1>2 DEF TypeOK, Goto

LEMMA ContinueType ==
  ASSUME TypeOK, NEW r \in Runners, NEW j, JobOK("loaded", j), Continue(r, j)
  PROVE  /\ pc' \in [Runners -> Labels] /\ job' \in [Runners -> Job]
         /\ \A q \in Runners : JobOK(pc'[q], job'[q])
<1>1. CASE Goto(r, "save", j)
  <2>1. JobOK("save", j)
    BY DEF JobOK, Loop, Ends
  <2> QED BY <1>1, <2>1, GotoType DEF Labels, Saves
<1>2. ASSUME NEW t \in After(j), Goto(r, FirstStep(j.mode), [j EXCEPT !.at = t, !.good = FALSE])
      PROVE  /\ pc' \in [Runners -> Labels] /\ job' \in [Runners -> Job]
             /\ \A q \in Runners : JobOK(pc'[q], job'[q])
  <2> DEFINE k == [j EXCEPT !.at = t, !.good = FALSE]
  <2>1. j \in Job /\ t \in j.chosen /\ t \in 0..N
    BY DEF JobOK, After, Job, Steps
  <2>2. k \in Job /\ k.mode = j.mode /\ k.chosen = j.chosen /\ k.at = t
    BY <2>1 DEF Job
  <2>3. FirstStep(j.mode) \in Labels /\ JobOK(FirstStep(j.mode), k)
    BY <2>1, <2>2 DEF JobOK, FirstStep, Labels, Loop, Ends
  <2> QED BY <1>2, <2>3, GotoType
<1> QED BY <1>1, <1>2 DEF Continue

LEMMA FailuresFinite ==
  ASSUME log \in Seq(Record), NEW s
  PROVE  /\ IsFiniteSet({i \in 1..Len(log) : /\ log[i].mode = "run" /\ log[i].step = s
                                             /\ log[i].status = "failed"})
         /\ FailedAttempts(s) \in Nat
<1> DEFINE F == {i \in 1..Len(log) : /\ log[i].mode = "run" /\ log[i].step = s
                                     /\ log[i].status = "failed"}
<1>1. IsFiniteSet(1..Len(log))
  BY FS_Interval
<1>2. IsFiniteSet(F)
  BY <1>1, FS_Subset
<1> QED BY <1>2, FS_CardinalityType DEF FailedAttempts

LEMMA EntryType ==
  ASSUME log \in Seq(Record), NEW e \in Record
  PROVE  /\ Append(log, e) \in Seq(Record)
         /\ Len(Append(log, e)) = Len(log) + 1
         /\ Append(log, e)[Len(log) + 1] = e
         /\ \A i \in 1..Len(log) : Append(log, e)[i] = log[i]
OBVIOUS

-----------------------------------------------------------------------------
(* Every step keeps the types *)

LEMMA TypeInit == Init => TypeOK
<1> SUFFICES ASSUME Init PROVE TypeOK
  OBVIOUS
<1>1. plan \in File /\ tmp \in File
  BY DEF Init, NoFile, Pending, File, Statuses
<1>2. NoJob \in Job
  BY NoJobOK DEF JobOK
<1>3. log \in Seq(Record)
  BY DEF Init
<1>4. tries \in [Kinds -> [Steps -> Nat]]
  BY DEF Init
<1>5. pc \in [Runners -> Labels] /\ job \in [Runners -> Job]
  BY <1>2 DEF Init, Labels
<1>6. \A r \in Runners : JobOK(pc[r], job[r])
  BY NoJobOK DEF Init
<1>7. jobs \in 0..MaxJobs /\ crashes \in 0..MaxCrashes
  BY DEF Init
<1>8. product \in Contents /\ past \subseteq Contents /\ refused \subseteq Steps /\ raced \in BOOLEAN
  BY DEF Init
<1> QED BY <1>1, <1>3, <1>4, <1>5, <1>6, <1>7, <1>8 DEF TypeOK

LEMMA LoadType ==
  ASSUME TypeOK, NEW r \in Runners, NEW mode \in {"run", "audit"}, NEW force \in BOOLEAN,
         NEW chosen \in SUBSET Steps, mode = "audit" => chosen = Steps,
         Load(r, mode, force, chosen)
  PROVE  TypeOK'
<1> DEFINE j == [NoJob EXCEPT !.mode = mode, !.force = force, !.chosen = chosen,
                              !.status = plan.status, !.ok = TRUE]
<1>1. j \in Job /\ j.mode = mode /\ j.chosen = chosen
  <2>1. NoJob \in Job /\ plan.status \in [Steps -> Statuses]
    BY NoJobOK DEF JobOK, TypeOK, File
  <2> QED BY <2>1 DEF Job
<1>2. JobOK("loaded", j)
  BY <1>1 DEF JobOK, Loop, Ends
<1>3. "loaded" \in Labels
  BY DEF Labels
<1>4. Goto(r, "loaded", j)
  BY DEF Load
<1> QED BY <1>2, <1>3, <1>4, GotoType DEF Load, TypeOK, world, files

LEMMA TypeStep ==
  ASSUME TypeOK, [Next]_vars
  PROVE  TypeOK'
<1> USE DEF world, files, ghosts
<1>1. ASSUME NEW r \in Runners, StartRun(r) PROVE TypeOK'
  BY <1>1, LoadType DEF StartRun
<1>2. ASSUME NEW r \in Runners, StartAudit(r) PROVE TypeOK'
  BY <1>2, LoadType DEF StartAudit
<1>3. ASSUME NEW r \in Runners, CountAttempts(r) PROVE TypeOK'
  <2> DEFINE j == [job[r] EXCEPT !.counts = [s \in Steps |-> FailedAttempts(s)]]
  <2>1. job[r] \in Job /\ JobOK("loaded", job[r]) /\ job[r].mode = "run"
    BY <1>3 DEF CountAttempts, TypeOK
  <2>2. \A s \in Steps : FailedAttempts(s) \in Nat
    BY FailuresFinite DEF TypeOK
  <2>3. JobOK("loaded", j)
    BY <2>1, <2>2 DEF JobOK, Job, Loop, Ends
  <2> QED BY <1>3, <2>3, ContinueType DEF CountAttempts, TypeOK
<1>4. ASSUME NEW r \in Runners, TakeBaseline(r) PROVE TypeOK'
  <2> DEFINE j == [job[r] EXCEPT !.base = product]
  <2>1. job[r] \in Job /\ JobOK("loaded", job[r])
    BY <1>4 DEF TakeBaseline, TypeOK
  <2>2. JobOK("loaded", j)
    BY <2>1 DEF JobOK, Job, Loop, Ends, TypeOK
  <2> QED BY <1>4, <2>2, ContinueType DEF TakeBaseline, TypeOK
<1>5. ASSUME NEW r \in Runners, Guard(r) PROVE TypeOK'
  <2> DEFINE j == [job[r] EXCEPT !.status[job[r].at] = "failed", !.ok = FALSE]
             e == Entry("audit_guard", job[r].at, "failed", None)
  <2>1. job[r] \in Job /\ JobOK("guard", job[r])
    BY <1>5 DEF Guard, TypeOK
  <2>2. JobOK("gate", job[r])
    BY <2>1 DEF JobOK, Loop, Ends
  <2>3. JobOK("save", j) /\ e \in Record
    BY <2>1 DEF JobOK, Job, Loop, Ends, Statuses, Entry, Record
  <2>4. CASE Goto(r, "gate", job[r]) /\ UNCHANGED log
    BY <1>5, <2>2, <2>4, GotoType DEF Guard, TypeOK, Labels, Loop
  <2>5. CASE Goto(r, "save", j) /\ log' = Append(log, e)
    BY <1>5, <2>3, <2>5, GotoType, EntryType DEF Guard, TypeOK, Labels, Saves
  <2> QED BY <1>5, <2>4, <2>5 DEF Guard
<1>6. ASSUME NEW r \in Runners, Blocked(r) PROVE TypeOK'
  <2> DEFINE j == [job[r] EXCEPT !.status[job[r].at] = "blocked", !.ok = FALSE]
             e == Entry(job[r].mode, job[r].at, "blocked", None)
  <2>1. job[r] \in Job /\ JobOK("gate", job[r])
    BY <1>6 DEF Blocked, TypeOK
  <2>2. JobOK("loaded", j) /\ e \in Record
    BY <2>1 DEF JobOK, Job, Loop, Ends, Statuses, Entry, Record
  <2> QED BY <1>6, <2>2, ContinueType, EntryType DEF Blocked, TypeOK
<1>7. ASSUME NEW r \in Runners, Skip(r) PROVE TypeOK'
  <2> DEFINE j == [job[r] EXCEPT !.ok = FALSE]
  <2>1. job[r] \in Job /\ JobOK("gate", job[r])
    BY <1>7 DEF Skip, TypeOK
  <2>2. JobOK("loaded", j) /\ job[r].at \in Steps
    BY <2>1 DEF JobOK, Job, Loop, Ends
  <2> QED BY <1>7, <2>2, ContinueType DEF Skip, TypeOK
<1>8. ASSUME NEW r \in Runners, BeginStep(r) PROVE TypeOK'
  <2> DEFINE j == [job[r] EXCEPT !.before = product]
  <2>1. job[r] \in Job /\ JobOK("gate", job[r])
    BY <1>8 DEF BeginStep, TypeOK
  <2>2. JobOK("verify", job[r]) /\ JobOK("verify", j)
    BY <2>1 DEF JobOK, Job, Loop, Ends, TypeOK
  <2> QED BY <1>8, <2>2, GotoType DEF BeginStep, TypeOK, Labels, Loop
<1>9. ASSUME NEW r \in Runners, Verify(r) PROVE TypeOK'
  <2>1. PICK good \in BOOLEAN : Goto(r, "outputs", [job[r] EXCEPT !.good = good])
    BY <1>9 DEF Verify, Outcomes
  <2>2. job[r] \in Job /\ JobOK("verify", job[r])
    BY <1>9 DEF Verify, TypeOK
  <2>3. JobOK("outputs", [job[r] EXCEPT !.good = good])
    BY <2>2 DEF JobOK, Job, Loop, Ends
  <2> QED BY <1>9, <2>1, <2>3, GotoType DEF Verify, TypeOK, Labels, Loop
<1>10. ASSUME NEW r \in Runners, CheckOutputs(r) PROVE TypeOK'
  <2>1. PICK good \in BOOLEAN : Goto(r, "record", [job[r] EXCEPT !.good = @ /\ good])
    BY <1>10 DEF CheckOutputs, Outcomes
  <2>2. job[r] \in Job /\ JobOK("outputs", job[r])
    BY <1>10 DEF CheckOutputs, TypeOK
  <2>3. JobOK("record", [job[r] EXCEPT !.good = @ /\ good])
    BY <2>2 DEF JobOK, Job, Loop, Ends
  <2> QED BY <1>10, <2>1, <2>3, GotoType DEF CheckOutputs, TypeOK, Labels, Loop
<1>11. ASSUME NEW r \in Runners, RecordStep(r) PROVE TypeOK'
  <2> DEFINE ok == job[r].good /\ Pure(job[r])
             j == [job[r] EXCEPT !.status[job[r].at] = Verdict(ok), !.ok = @ /\ ok,
                                 !.passed = IF ok THEN @ \cup {job[r].at} ELSE @]
             e == Entry(job[r].mode, job[r].at, Verdict(ok), None)
  <2>1. job[r] \in Job /\ JobOK("record", job[r]) /\ job[r].at \in Steps
    BY <1>11 DEF RecordStep, TypeOK, JobOK, Loop, Job
  <2>2. ok \in BOOLEAN /\ Verdict(ok) \in Statuses
    BY DEF Verdict, Statuses, Pure
  <2>3. j \in Job /\ j.mode = job[r].mode /\ j.chosen = job[r].chosen
    BY <2>1, <2>2 DEF Job
  <2>4. JobOK("loaded", j) /\ e \in Record
    BY <2>1, <2>2, <2>3 DEF JobOK, Job, Loop, Ends, Entry, Record
  <2>5. tries' \in [Kinds -> [Steps -> Nat]]
    <3>1. PICK v : tries' = IF v THEN [tries EXCEPT ![Kind(job[r])][job[r].at] = @ + 1] ELSE tries
      BY <1>11 DEF RecordStep
    <3>2. tries \in [Kinds -> [Steps -> Nat]] /\ Kind(job[r]) \in Kinds
      BY DEF TypeOK, Kind, Kinds
    <3>3. [tries EXCEPT ![Kind(job[r])][job[r].at] = @ + 1] \in [Kinds -> [Steps -> Nat]]
      BY <3>2, <2>1
    <3> QED BY <3>1, <3>2, <3>3
  <2> QED BY <1>11, <2>4, <2>5, ContinueType, EntryType DEF RecordStep, TypeOK
<1>12. ASSUME NEW r \in Runners, OpenTmp(r) PROVE TypeOK'
  <2>1. job[r] \in Job /\ JobOK("save", job[r])
    BY <1>12 DEF OpenTmp, TypeOK
  <2>2. JobOK("write", [job[r] EXCEPT !.fd = "tmp"])
    BY <2>1 DEF JobOK, Job, Loop, Ends
  <2>3. tmp' \in File
    BY <1>12 DEF OpenTmp, NoFile, File, Pending, Statuses
  <2> QED BY <1>12, <2>2, <2>3, GotoType DEF OpenTmp, TypeOK, Labels, Saves
<1>13. ASSUME NEW r \in Runners, WriteTmp(r) PROVE TypeOK'
  <2>1. job[r] \in Job /\ JobOK("write", job[r])
    BY <1>13 DEF WriteTmp, TypeOK
  <2>2. JobOK("replace", [job[r] EXCEPT !.fd = "none"])
    BY <2>1 DEF JobOK, Job, Loop, Ends
  <2>3. \A file : Written(r, file) \subseteq File
    BY <2>1 DEF Written, File, Job
  <2> QED BY <1>13, <2>2, <2>3, GotoType DEF WriteTmp, TypeOK, Labels, Saves
<1>14. ASSUME NEW r \in Runners, ReplacePlan(r) PROVE TypeOK'
  <2>1. \A q \in Runners : Renamed(q) \in Job /\ JobOK(pc[q], Renamed(q))
    <3> SUFFICES ASSUME NEW q \in Runners PROVE Renamed(q) \in Job /\ JobOK(pc[q], Renamed(q))
      OBVIOUS
    <3>1. job[q] \in Job /\ JobOK(pc[q], job[q])
      BY DEF TypeOK
    <3>2. NewName(job[q].fd) \in {"none", "tmp", "plan", "gone"}
      BY <3>1 DEF NewName, Job
    <3>3. Renamed(q) \in Job
      BY <3>1, <3>2 DEF Renamed, Job
    <3> QED BY <3>1, <3>3 DEF Renamed, JobOK, Job
  <2>2. JobOK("replace", Renamed(r)) /\ pc[r] = "replace" /\ Renamed(r).mode = job[r].mode
        /\ job[r].mode \in {"run", "audit"}
    <3>1. pc[r] = "replace" /\ job[r] \in Job /\ JobOK("replace", job[r])
      BY <1>14 DEF ReplacePlan, TypeOK
    <3>2. Renamed(r).mode = job[r].mode /\ job[r].mode \in {"run", "audit"}
      BY <3>1 DEF Renamed, JobOK, Job
    <3> QED BY <2>1, <3>1, <3>2
  <2>3. job[r].mode # "run" => JobOK("final", Renamed(r))
    BY <2>2 DEF JobOK, Ends, Loop
  <2>4. \A q \in Runners : JobOK(pc'[q], job'[q])
    BY <1>14, <2>1, <2>2, <2>3, NoJobOK DEF ReplacePlan, TypeOK
  <2>5. pc' \in [Runners -> Labels] /\ job' \in [Runners -> Job]
    BY <1>14, <2>1, NoJobOK DEF ReplacePlan, TypeOK, Labels, Ends, JobOK
  <2>6. tmp' \in File
    BY <1>14 DEF ReplacePlan, NoFile, File, Pending, Statuses
  <2> QED BY <1>14, <2>4, <2>5, <2>6 DEF ReplacePlan, TypeOK
<1>15. ASSUME NEW r \in Runners, ReplaceFails(r) PROVE TypeOK'
  BY <1>15, NoJobOK, GotoType DEF ReplaceFails, TypeOK, Labels
<1>16. ASSUME NEW r \in Runners, FinalGuard(r) PROVE TypeOK'
  <2> DEFINE j == [job[r] EXCEPT !.before = product, !.ok = @ /\ product = job[r].base]
             e == Entry("audit_guard", 0, "failed", None)
  <2>1. job[r] \in Job /\ JobOK("final", job[r])
    BY <1>16 DEF FinalGuard, TypeOK
  <2>2. e \in Record
    BY DEF Entry, Record, Statuses
  <2>3. JobOK("marker", j)
    <3>1. ASSUME NEW ok \in BOOLEAN
          PROVE  JobOK("marker", [job[r] EXCEPT !.before = product, !.ok = ok])
      BY <2>1 DEF JobOK, Job, Loop, Ends, TypeOK
    <3> QED BY <3>1
  <2> QED BY <1>16, <2>2, <2>3, GotoType, EntryType DEF FinalGuard, TypeOK, Labels, Ends
<1>17. ASSUME NEW r \in Runners, Complete(r) PROVE TypeOK'
  <2> DEFINE e == Entry("audit_complete", 0, Verdict(job[r].ok), job[r].before)
  <2>1. e \in Record
    BY DEF TypeOK, Job, Entry, Record, Verdict, Statuses
  <2> QED BY <1>17, <2>1, NoJobOK, GotoType, EntryType DEF Complete, TypeOK, Labels
<1>18. ASSUME NEW r \in Runners, Kill(r) PROVE TypeOK'
  BY <1>18, NoJobOK, GotoType DEF Kill, TypeOK, Labels
<1>19. CASE ChangeProduct
  BY <1>19 DEF ChangeProduct, TypeOK
<1>20. CASE UNCHANGED vars
  BY <1>20 DEF vars, TypeOK
<1> QED BY <1>1, <1>2, <1>3, <1>4, <1>5, <1>6, <1>7, <1>8, <1>9, <1>10, <1>11, <1>12, <1>13,
           <1>14, <1>15, <1>16, <1>17, <1>18, <1>19, <1>20 DEF Next

\* The variables keep their types and every process fits where it is
THEOREM StepsTypeCorrect == Spec => []TypeOK
<1>1. TypeOK /\ [Next]_vars => TypeOK'
  BY TypeStep
<1> QED BY <1>1, TypeInit, PTL DEF Spec

-----------------------------------------------------------------------------
(* What a step does to the local variables and to the evidence *)

LEMMA GotoEffect ==
  ASSUME TypeOK, NEW r \in Runners, NEW label, NEW j, Goto(r, label, j)
  PROVE  \A q \in Runners : /\ pc'[q] = IF q = r THEN label ELSE pc[q]
                            /\ job'[q] = IF q = r THEN j ELSE job[q]
BY DEF TypeOK, Goto

\* One process is somewhere else, with new local variables
Moved(r, label, k) ==
  /\ k \in Job
  /\ \A q \in Runners : /\ pc'[q] = IF q = r THEN label ELSE pc[q]
                        /\ job'[q] = IF q = r THEN k ELSE job[q]

\* It goes on to its next step, or to the end of the loop
Steered(r, label, k) ==
  /\ label \in {"save", "guard", "gate"}
  /\ label = "save" => After(job[r]) = {} /\ k.at = job[r].at
  /\ label # "save" => /\ label = FirstStep(job[r].mode)
                       /\ k.at \in After(job[r]) /\ \A u \in After(job[r]) : k.at <= u

SameCommand(k, j) == k.mode = j.mode /\ k.force = j.force /\ k.chosen = j.chosen
SameResult(k, j)  == k.status = j.status /\ k.passed = j.passed /\ k.ok = j.ok

LEMMA GotoMoves ==
  ASSUME TypeOK, NEW r \in Runners, NEW label, NEW j \in Job, Goto(r, label, j)
  PROVE  Moved(r, label, j)
BY DEF TypeOK, Goto, Moved

LEMMA ContinueMoves ==
  ASSUME TypeOK, NEW r \in Runners, NEW j \in Job, Continue(r, j),
         j.at = job[r].at, SameCommand(j, job[r])
  PROVE  \E label, k : /\ Moved(r, label, k) /\ Steered(r, label, k)
                       /\ SameCommand(k, j) /\ SameResult(k, j)
                       /\ k.counts = j.counts /\ k.base = j.base /\ k.before = j.before
<1>0. After(j) = After(job[r])
  BY DEF After, SameCommand
<1>1. CASE After(j) = {} /\ Goto(r, "save", j)
  BY <1>0, <1>1, GotoMoves DEF SameCommand, SameResult, Steered
<1>2. ASSUME NEW t \in After(j), \A u \in After(j) : t <= u,
             Goto(r, FirstStep(j.mode), [j EXCEPT !.at = t, !.good = FALSE])
      PROVE  \E label, k : /\ Moved(r, label, k) /\ Steered(r, label, k)
                           /\ SameCommand(k, j) /\ SameResult(k, j)
                           /\ k.counts = j.counts /\ k.base = j.base /\ k.before = j.before
  <2> DEFINE k == [j EXCEPT !.at = t, !.good = FALSE]
  <2>1. t \in 0..N
    BY DEF After, Job, Steps
  <2>2. /\ k \in Job /\ k.at = t /\ SameCommand(k, j) /\ SameResult(k, j)
        /\ k.counts = j.counts /\ k.base = j.base /\ k.before = j.before
    BY <2>1 DEF Job, SameCommand, SameResult
  <2>3. FirstStep(j.mode) \in {"guard", "gate"} /\ FirstStep(j.mode) = FirstStep(job[r].mode)
    BY DEF FirstStep, SameCommand
  <2>4. Moved(r, FirstStep(j.mode), k)
    BY <1>2, <2>2, GotoMoves
  <2>5. Steered(r, FirstStep(j.mode), k)
    BY <1>0, <1>2, <2>2, <2>3 DEF Steered
  <2> QED BY <2>2, <2>4, <2>5
<1> QED BY <1>1, <1>2 DEF Continue

\* The plan is loaded
Loaded(r, mode, force, chosen, k) ==
  /\ Moved(r, "loaded", k)
  /\ k.mode = mode /\ k.force = force /\ k.chosen = chosen
  /\ k.status = plan.status /\ k.passed = {} /\ k.ok = TRUE
  /\ k.counts = NoJob.counts /\ k.at = 0

LEMMA LoadEffect ==
  ASSUME TypeOK, NEW r \in Runners, NEW mode \in {"run", "audit"}, NEW force \in BOOLEAN,
         NEW chosen \in SUBSET Steps, Load(r, mode, force, chosen)
  PROVE  \E k : Loaded(r, mode, force, chosen, k)
<1> DEFINE k == [NoJob EXCEPT !.mode = mode, !.force = force, !.chosen = chosen,
                              !.status = plan.status, !.ok = TRUE]
<1>1. NoJob \in Job /\ plan.status \in [Steps -> Statuses]
  BY NoJobOK DEF JobOK, TypeOK, File
<1>2. k \in Job
  BY <1>1 DEF Job
<1>3. /\ k.mode = mode /\ k.force = force /\ k.chosen = chosen
      /\ k.status = plan.status /\ k.passed = {} /\ k.ok = TRUE
      /\ k.counts = NoJob.counts /\ k.at = 0
  BY DEF NoJob
<1>4. Moved(r, "loaded", k)
  BY <1>2, GotoMoves DEF Load
<1>5. Loaded(r, mode, force, chosen, k)
  BY <1>3, <1>4 DEF Loaded
<1> QED BY <1>5

LEMMA CountAttemptsEffect ==
  ASSUME TypeOK, NEW r \in Runners, CountAttempts(r)
  PROVE  \E label, k : /\ Moved(r, label, k) /\ Steered(r, label, k)
                       /\ SameCommand(k, job[r]) /\ SameResult(k, job[r])
                       /\ k.counts = [s \in Steps |-> FailedAttempts(s)]
<1> DEFINE j == [job[r] EXCEPT !.counts = [s \in Steps |-> FailedAttempts(s)]]
<1>1. job[r] \in Job /\ \A s \in Steps : FailedAttempts(s) \in Nat
  BY FailuresFinite DEF TypeOK
<1>2. /\ j \in Job /\ j.at = job[r].at /\ SameCommand(j, job[r]) /\ SameResult(j, job[r])
      /\ j.counts = [s \in Steps |-> FailedAttempts(s)]
  BY <1>1 DEF Job, SameCommand, SameResult
<1>3. Continue(r, j)
  BY DEF CountAttempts
<1> HIDE DEF j
<1> QED BY <1>2, <1>3, ContinueMoves DEF SameCommand, SameResult

LEMMA TakeBaselineEffect ==
  ASSUME TypeOK, NEW r \in Runners, TakeBaseline(r)
  PROVE  \E label, k : /\ Moved(r, label, k) /\ Steered(r, label, k)
                       /\ SameCommand(k, job[r]) /\ SameResult(k, job[r])
                       /\ k.counts = job[r].counts /\ k.base = product
<1> DEFINE j == [job[r] EXCEPT !.base = product]
<1>1. job[r] \in Job /\ product \in Contents
  BY DEF TypeOK
<1>2. /\ j \in Job /\ j.at = job[r].at /\ SameCommand(j, job[r]) /\ SameResult(j, job[r])
      /\ j.counts = job[r].counts /\ j.base = product
  BY <1>1 DEF Job, SameCommand, SameResult
<1>3. Continue(r, j)
  BY DEF TakeBaseline
<1> HIDE DEF j
<1> QED BY <1>2, <1>3, ContinueMoves DEF SameCommand, SameResult

LEMMA GuardEffect ==
  ASSUME TypeOK, NEW r \in Runners, Guard(r)
  PROVE  \/ /\ product = job[r].base /\ Moved(r, "gate", job[r]) /\ log' = log
         \/ /\ log' = Append(log, Entry("audit_guard", job[r].at, "failed", None))
            /\ \E k : /\ Moved(r, "save", k) /\ SameCommand(k, job[r])
                      /\ k.counts = job[r].counts /\ k.base = job[r].base
                      /\ k.passed = job[r].passed /\ k.ok = FALSE
                      /\ k.status = [job[r].status EXCEPT ![job[r].at] = "failed"]
<1> DEFINE k == [job[r] EXCEPT !.status[job[r].at] = "failed", !.ok = FALSE]
<1>1. job[r] \in Job
  BY DEF TypeOK
<1>2. /\ k \in Job /\ SameCommand(k, job[r]) /\ k.counts = job[r].counts
      /\ k.base = job[r].base /\ k.passed = job[r].passed /\ k.ok = FALSE
      /\ k.status = [job[r].status EXCEPT ![job[r].at] = "failed"]
  BY <1>1 DEF Job, SameCommand, Statuses
<1>3. CASE product = job[r].base
  BY <1>1, <1>3, GotoMoves DEF Guard
<1>4. CASE product # job[r].base
  <2>1. Goto(r, "save", k) /\ log' = Append(log, Entry("audit_guard", job[r].at, "failed", None))
    BY <1>4 DEF Guard
  <2> HIDE DEF k
  <2> QED BY <1>2, <2>1, GotoMoves
<1> QED BY <1>3, <1>4

LEMMA BlockedEffect ==
  ASSUME TypeOK, NEW r \in Runners, Blocked(r)
  PROVE  \E label, k : /\ Moved(r, label, k) /\ Steered(r, label, k)
                       /\ SameCommand(k, job[r])
                       /\ k.counts = job[r].counts /\ k.base = job[r].base
                       /\ k.passed = job[r].passed /\ k.ok = FALSE
                       /\ k.status = [job[r].status EXCEPT ![job[r].at] = "blocked"]
<1> DEFINE j == [job[r] EXCEPT !.status[job[r].at] = "blocked", !.ok = FALSE]
<1>1. job[r] \in Job
  BY DEF TypeOK
<1>2. /\ j \in Job /\ SameCommand(j, job[r]) /\ j.counts = job[r].counts /\ j.at = job[r].at
      /\ j.base = job[r].base /\ j.passed = job[r].passed /\ j.ok = FALSE
      /\ j.status = [job[r].status EXCEPT ![job[r].at] = "blocked"]
  BY <1>1 DEF Job, SameCommand, Statuses
<1>3. Continue(r, j)
  BY DEF Blocked
<1> HIDE DEF j
<1> QED BY <1>2, <1>3, ContinueMoves DEF SameCommand, SameResult

LEMMA SkipEffect ==
  ASSUME TypeOK, NEW r \in Runners, Skip(r)
  PROVE  \E label, k : /\ Moved(r, label, k) /\ Steered(r, label, k)
                       /\ SameCommand(k, job[r])
                       /\ k.counts = job[r].counts /\ k.base = job[r].base
                       /\ k.passed = job[r].passed /\ k.ok = FALSE
                       /\ k.status = job[r].status
<1> DEFINE j == [job[r] EXCEPT !.ok = FALSE]
<1>1. job[r] \in Job
  BY DEF TypeOK
<1>2. /\ j \in Job /\ SameCommand(j, job[r]) /\ j.counts = job[r].counts /\ j.at = job[r].at
      /\ j.base = job[r].base /\ j.passed = job[r].passed /\ j.ok = FALSE
      /\ j.status = job[r].status
  BY <1>1 DEF Job, SameCommand
<1>3. Continue(r, j)
  BY DEF Skip
<1> HIDE DEF j
<1> QED BY <1>2, <1>3, ContinueMoves DEF SameCommand, SameResult

\* Within a step only the outcome and the fingerprint before it change
LEMMA WithinEffect ==
  ASSUME TypeOK, NEW r \in Runners, BeginStep(r) \/ Verify(r) \/ CheckOutputs(r)
  PROVE  \E label, k : /\ Moved(r, label, k)
                       /\ SameCommand(k, job[r]) /\ SameResult(k, job[r])
                       /\ k.counts = job[r].counts /\ k.base = job[r].base /\ k.at = job[r].at
                       /\ \/ /\ BeginStep(r) /\ label = "verify"
                             /\ job[r].mode = "audit" => k.before = product
                          \/ /\ Verify(r) /\ label = "outputs" /\ k.before = job[r].before
                             /\ k.good => product \in Good[job[r].at]
                          \/ /\ CheckOutputs(r) /\ label = "record" /\ k.before = job[r].before
                             /\ k.good => job[r].good /\ product \in Out[job[r].at]
<1>0. job[r] \in Job /\ product \in Contents
  BY DEF TypeOK
<1>1. CASE BeginStep(r)
  <2> DEFINE k == IF job[r].mode = "run" THEN job[r] ELSE [job[r] EXCEPT !.before = product]
  <2>1. /\ k \in Job /\ SameCommand(k, job[r]) /\ SameResult(k, job[r])
        /\ k.counts = job[r].counts /\ k.base = job[r].base /\ k.at = job[r].at
        /\ job[r].mode = "audit" => k.before = product
    BY <1>0 DEF Job, SameCommand, SameResult
  <2>2. Goto(r, "verify", k)
    BY <1>1 DEF BeginStep
  <2> HIDE DEF k
  <2> QED BY <1>1, <2>1, <2>2, GotoMoves
<1>2. CASE Verify(r)
  <2>1. PICK good \in Outcomes(Good[job[r].at]) :
          Goto(r, "outputs", [job[r] EXCEPT !.good = good])
    BY <1>2 DEF Verify
  <2> DEFINE k == [job[r] EXCEPT !.good = good]
  <2>2. good \in BOOLEAN /\ (good => product \in Good[job[r].at])
    BY DEF Outcomes
  <2>3. /\ k \in Job /\ SameCommand(k, job[r]) /\ SameResult(k, job[r]) /\ k.good = good
        /\ k.counts = job[r].counts /\ k.base = job[r].base /\ k.at = job[r].at
        /\ k.before = job[r].before
    BY <1>0, <2>2 DEF Job, SameCommand, SameResult
  <2>4. Goto(r, "outputs", k)
    BY <2>1
  <2> HIDE DEF k
  <2>5. k.good => product \in Good[job[r].at]
    BY <2>2, <2>3
  <2> QED BY <1>2, <2>3, <2>4, <2>5, GotoMoves
<1>3. CASE CheckOutputs(r)
  <2>1. PICK good \in Outcomes(Out[job[r].at]) :
          Goto(r, "record", [job[r] EXCEPT !.good = @ /\ good])
    BY <1>3 DEF CheckOutputs
  <2>2. PICK v \in BOOLEAN : v = (job[r].good /\ good)
    BY DEF Outcomes
  <2> DEFINE k == [job[r] EXCEPT !.good = v]
  <2>3. /\ k \in Job /\ SameCommand(k, job[r]) /\ SameResult(k, job[r]) /\ k.good = v
        /\ k.counts = job[r].counts /\ k.base = job[r].base /\ k.at = job[r].at
        /\ k.before = job[r].before
    BY <1>0 DEF Job, SameCommand, SameResult
  <2>4. Goto(r, "record", k)
    BY <2>1, <2>2
  <2> HIDE DEF k
  <2>5. k.good => job[r].good /\ product \in Out[job[r].at]
    BY <2>2, <2>3 DEF Outcomes
  <2> QED BY <1>3, <2>3, <2>4, <2>5, GotoMoves
<1> QED BY <1>1, <1>2, <1>3

\* The attempt is recorded with its verdict
Recorded(r, ok, label, k) ==
  /\ Moved(r, label, k) /\ Steered(r, label, k) /\ SameCommand(k, job[r])
  /\ k.counts = job[r].counts /\ k.base = job[r].base
  /\ ok <=> job[r].good /\ Pure(job[r])
  /\ k.ok => job[r].ok /\ ok
  /\ k.status = [job[r].status EXCEPT ![job[r].at] = Verdict(ok)]
  /\ k.passed = IF ok THEN job[r].passed \cup {job[r].at} ELSE job[r].passed
  /\ log' = Append(log, Entry(job[r].mode, job[r].at, Verdict(ok), None))
  /\ tries' = IF job[r].mode = "run" /\ ~ok
              THEN [tries EXCEPT ![Kind(job[r])][job[r].at] = @ + 1] ELSE tries

LEMMA RecordEffect ==
  ASSUME TypeOK, NEW r \in Runners, RecordStep(r)
  PROVE  \E ok \in BOOLEAN : \E label, k : Recorded(r, ok, label, k)
<1>0. job[r] \in Job /\ job[r].at \in Steps
  BY DEF RecordStep, TypeOK, JobOK, Loop, Job
<1>1. PICK ok \in BOOLEAN : ok = (job[r].good /\ Pure(job[r]))
  BY DEF Pure
<1>2. PICK all \in BOOLEAN : all = (job[r].ok /\ ok)
  OBVIOUS
<1>3. Verdict(ok) \in Statuses
  BY DEF Verdict, Statuses
<1> DEFINE passed == IF ok THEN job[r].passed \cup {job[r].at} ELSE job[r].passed
           j == [job[r] EXCEPT !.status[job[r].at] = Verdict(ok), !.ok = all, !.passed = passed]
<1>4. passed \in SUBSET Steps
  BY <1>0 DEF Job
<1>5. /\ j \in Job /\ SameCommand(j, job[r]) /\ j.counts = job[r].counts /\ j.at = job[r].at
      /\ j.base = job[r].base /\ j.passed = passed /\ j.ok = all
      /\ j.status = [job[r].status EXCEPT ![job[r].at] = Verdict(ok)]
  <2> HIDE DEF passed
  <2> QED BY <1>0, <1>3, <1>4 DEF Job, SameCommand
<1>6. Continue(r, j)
  BY <1>1, <1>2 DEF RecordStep
<1>7. /\ log' = Append(log, Entry(job[r].mode, job[r].at, Verdict(ok), None))
      /\ tries' = IF job[r].mode = "run" /\ ~ok
                  THEN [tries EXCEPT ![Kind(job[r])][job[r].at] = @ + 1] ELSE tries
  BY <1>1 DEF RecordStep
<1> HIDE DEF j
<1>8. PICK label, k : /\ Moved(r, label, k) /\ Steered(r, label, k)
                      /\ SameCommand(k, j) /\ SameResult(k, j)
                      /\ k.counts = j.counts /\ k.base = j.base
  BY <1>5, <1>6, ContinueMoves
<1>9. /\ SameCommand(k, job[r]) /\ k.counts = job[r].counts /\ k.base = job[r].base
      /\ k.status = [job[r].status EXCEPT ![job[r].at] = Verdict(ok)]
      /\ k.passed = passed
  BY <1>5, <1>8 DEF SameCommand, SameResult
<1>10. k.ok => job[r].ok /\ ok
  BY <1>2, <1>5, <1>8 DEF SameResult
<1>11. Recorded(r, ok, label, k)
  BY <1>1, <1>7, <1>8, <1>9, <1>10 DEF Recorded
<1> QED BY <1>11

LEMMA SaveEffect ==
  ASSUME TypeOK, NEW r \in Runners, OpenTmp(r) \/ WriteTmp(r)
  PROVE  \E label, k : /\ Moved(r, label, k) /\ label \in {"write", "replace"}
                       /\ SameCommand(k, job[r]) /\ SameResult(k, job[r])
                       /\ k.counts = job[r].counts /\ k.base = job[r].base
                       /\ k.at = job[r].at
                       /\ OpenTmp(r) => label = "write" /\ k.fd = "tmp"
<1>0. job[r] \in Job
  BY DEF TypeOK
<1>1. ASSUME NEW label \in {"write", "replace"}, NEW fd \in {"none", "tmp"},
             Goto(r, label, [job[r] EXCEPT !.fd = fd])
      PROVE  \E k : /\ Moved(r, label, k)
                    /\ SameCommand(k, job[r]) /\ SameResult(k, job[r])
                    /\ k.counts = job[r].counts /\ k.base = job[r].base
                    /\ k.at = job[r].at /\ k.fd = fd
  <2> DEFINE k == [job[r] EXCEPT !.fd = fd]
  <2>1. /\ k \in Job /\ SameCommand(k, job[r]) /\ SameResult(k, job[r])
        /\ k.counts = job[r].counts /\ k.base = job[r].base /\ k.at = job[r].at /\ k.fd = fd
    BY <1>0 DEF Job, SameCommand, SameResult
  <2>2. Goto(r, label, k)
    BY <1>1
  <2> HIDE DEF k
  <2> QED BY <2>1, <2>2, GotoMoves
<1>2. CASE OpenTmp(r)
  <2>1. Goto(r, "write", [job[r] EXCEPT !.fd = "tmp"])
    BY <1>2 DEF OpenTmp
  <2> QED BY <1>1, <2>1
<1>3. CASE WriteTmp(r)
  <2>1. Goto(r, "replace", [job[r] EXCEPT !.fd = "none"]) /\ pc[r] = "write"
    BY <1>3 DEF WriteTmp
  <2>2. ~OpenTmp(r)
    BY <2>1 DEF OpenTmp
  <2> QED BY <1>1, <2>1, <2>2
<1> QED BY <1>2, <1>3

LEMMA ReplaceEffect ==
  ASSUME TypeOK, NEW r \in Runners, ReplacePlan(r), NEW q \in Runners
  PROVE  \/ /\ q = r /\ job[r].mode = "run" /\ pc'[q] = "idle" /\ job'[q] = NoJob
         \/ /\ pc'[q] = IF q = r THEN "final" ELSE pc[q]
            /\ q = r => job[r].mode = "audit"
            /\ SameCommand(job'[q], job[q]) /\ SameResult(job'[q], job[q])
            /\ job'[q].counts = job[q].counts /\ job'[q].base = job[q].base
            /\ job'[q].at = job[q].at /\ job'[q].before = job[q].before
            /\ job'[q].good = job[q].good
<1>1. job[q] \in Job /\ job[r].mode \in {"run", "audit"}
  BY DEF TypeOK, ReplacePlan, JobOK, Job
<1>2. /\ SameCommand(Renamed(q), job[q]) /\ SameResult(Renamed(q), job[q])
      /\ Renamed(q).counts = job[q].counts /\ Renamed(q).base = job[q].base
      /\ Renamed(q).at = job[q].at /\ Renamed(q).before = job[q].before
      /\ Renamed(q).good = job[q].good
  BY <1>1 DEF Renamed, Job, SameCommand, SameResult
<1>3. /\ pc'[q] = IF q = r THEN (IF job[r].mode = "run" THEN "idle" ELSE "final") ELSE pc[q]
      /\ job'[q] = IF q = r /\ job[r].mode = "run" THEN NoJob ELSE Renamed(q)
  BY DEF ReplacePlan, TypeOK
<1> QED BY <1>1, <1>2, <1>3

LEMMA FinalEffect ==
  ASSUME TypeOK, NEW r \in Runners, FinalGuard(r)
  PROVE  \E k : /\ Moved(r, "marker", k) /\ SameCommand(k, job[r])
                /\ k.status = job[r].status /\ k.passed = job[r].passed
                /\ k.counts = job[r].counts /\ k.base = job[r].base /\ k.at = job[r].at
                /\ k.before = product
                /\ k.ok => job[r].ok /\ product = job[r].base
<1>0. job[r] \in Job /\ product \in Contents
  BY DEF TypeOK
<1>1. PICK ok \in BOOLEAN : ok = (job[r].ok /\ product = job[r].base)
  OBVIOUS
<1> DEFINE k == [job[r] EXCEPT !.before = product, !.ok = ok]
<1>2. /\ k \in Job /\ SameCommand(k, job[r])
      /\ k.status = job[r].status /\ k.passed = job[r].passed
      /\ k.counts = job[r].counts /\ k.base = job[r].base /\ k.at = job[r].at
      /\ k.before = product /\ k.ok = ok
  BY <1>0 DEF Job, SameCommand
<1>3. Goto(r, "marker", k)
  BY <1>1 DEF FinalGuard
<1> HIDE DEF k
<1>4. k.ok => job[r].ok /\ product = job[r].base
  BY <1>1, <1>2
<1> QED BY <1>2, <1>3, <1>4, GotoMoves

LEMMA QuitEffect ==
  ASSUME TypeOK, NEW r \in Runners, ReplaceFails(r) \/ Complete(r) \/ Kill(r)
  PROVE  Moved(r, "idle", NoJob)
<1>1. NoJob \in Job
  BY NoJobOK DEF JobOK
<1> QED BY <1>1, GotoMoves DEF ReplaceFails, Complete, Kill

-----------------------------------------------------------------------------
(* Refusals: the evidence counts the failed attempts, and nothing else *)

Fails(e, s) == e.mode = "run" /\ e.step = s /\ e.status = "failed"

\* A record adds one to a count if it is a failed attempt, and nothing otherwise
LEMMA FailuresAppend ==
  ASSUME log \in Seq(Record), NEW e \in Record, log' = Append(log, e), NEW s
  PROVE  FailedAttempts(s)' = FailedAttempts(s) + IF Fails(e, s) THEN 1 ELSE 0
<1> DEFINE F == {i \in 1..Len(log) : /\ log[i].mode = "run" /\ log[i].step = s
                                     /\ log[i].status = "failed"}
           G == {i \in 1..Len(log') : /\ log'[i].mode = "run" /\ log'[i].step = s
                                      /\ log'[i].status = "failed"}
<1>1. /\ Len(log') = Len(log) + 1 /\ log'[Len(log) + 1] = e
      /\ \A i \in 1..Len(log) : log'[i] = log[i]
      /\ Len(log) \in Nat
  BY EntryType
<1>2. G = IF Fails(e, s) THEN F \cup {Len(log) + 1} ELSE F
  BY <1>1 DEF Fails
<1>3. Len(log) + 1 \notin F
  BY <1>1
<1>4. IsFiniteSet(F) /\ Cardinality(F) \in Nat
  BY FailuresFinite, FS_CardinalityType
<1>5. Cardinality(G) = Cardinality(F) + IF Fails(e, s) THEN 1 ELSE 0
  <2>1. Cardinality(F \cup {Len(log) + 1}) = Cardinality(F) + 1
    BY <1>3, <1>4, FS_AddElement
  <2>2. CASE Fails(e, s)
    <3>1. G = F \cup {Len(log) + 1}
      BY <1>2, <2>2
    <3> QED BY <2>1, <2>2, <3>1
  <2>3. CASE ~Fails(e, s)
    <3>1. G = F
      BY <1>2, <2>3
    <3> HIDE DEF F, G
    <3> QED BY <1>4, <2>3, <3>1
  <2> QED BY <2>2, <2>3
<1>6. FailedAttempts(s) = Cardinality(F) /\ FailedAttempts(s)' = Cardinality(G)
  BY DEF FailedAttempts
<1> QED BY <1>5, <1>6

\* Only RecordStep counts an attempt, one of the step it is at
LEMMA CountEffect ==
  ASSUME TypeOK, [Next]_vars
  PROVE  \/ /\ \A s \in Steps : FailedAttempts(s)' = FailedAttempts(s)
            /\ tries' = tries
         \/ \E r \in Runners :
              /\ RecordStep(r) /\ job[r].mode = "run"
              /\ \A s \in Steps : FailedAttempts(s)' =
                                    FailedAttempts(s) + IF s = job[r].at THEN 1 ELSE 0
              /\ tries' = [tries EXCEPT ![Kind(job[r])][job[r].at] = @ + 1]
<1> DEFINE Same == (\A s \in Steps : FailedAttempts(s)' = FailedAttempts(s)) /\ tries' = tries
<1> USE DEF world, files, ghosts
<1>0. \A s \in Steps : FailedAttempts(s) \in Nat
  BY FailuresFinite DEF TypeOK
<1>a. log' = log => \A s \in Steps : FailedAttempts(s)' = FailedAttempts(s)
  BY DEF FailedAttempts
<1>b. ASSUME NEW e \in Record, log' = Append(log, e), e.mode # "run" \/ e.status # "failed"
      PROVE  \A s \in Steps : FailedAttempts(s)' = FailedAttempts(s)
  BY <1>b, <1>0, FailuresAppend DEF Fails, TypeOK
<1>1. ASSUME NEW r \in Runners,
             \/ StartRun(r) \/ StartAudit(r) \/ CountAttempts(r) \/ TakeBaseline(r)
             \/ Skip(r) \/ BeginStep(r) \/ Verify(r) \/ CheckOutputs(r)
             \/ OpenTmp(r) \/ WriteTmp(r) \/ ReplacePlan(r) \/ ReplaceFails(r) \/ Kill(r)
      PROVE  Same
  <2>1. log' = log /\ tries' = tries
    BY <1>1 DEF StartRun, StartAudit, Load, CountAttempts, TakeBaseline, Skip, BeginStep, Verify,
                CheckOutputs, OpenTmp, WriteTmp, ReplacePlan, ReplaceFails, Kill
  <2> QED BY <2>1, <1>a
<1>2. ASSUME NEW r \in Runners, Guard(r) PROVE Same
  <2>1. job[r].at \in 0..N
    BY DEF TypeOK, Job
  <2>2. Entry("audit_guard", job[r].at, "failed", None) \in Record
    BY <2>1 DEF Entry, Record, Statuses
  <2> QED BY <1>2, <1>a, <1>b, <2>2 DEF Guard, Entry
<1>3. ASSUME NEW r \in Runners, Blocked(r) PROVE Same
  <2>1. job[r].at \in 0..N /\ job[r].mode \in {"run", "audit"}
    BY <1>3 DEF Blocked, TypeOK, JobOK, Job
  <2>2. Entry(job[r].mode, job[r].at, "blocked", None) \in Record
    BY <2>1 DEF Entry, Record, Statuses
  <2> QED BY <1>3, <1>b, <2>2 DEF Blocked, Entry
<1>4. ASSUME NEW r \in Runners, FinalGuard(r) PROVE Same
  <2>1. Entry("audit_guard", 0, "failed", None) \in Record
    BY DEF Entry, Record, Statuses
  <2> QED BY <1>4, <1>a, <1>b, <2>1 DEF FinalGuard, Entry
<1>5. ASSUME NEW r \in Runners, Complete(r) PROVE Same
  <2>1. Entry("audit_complete", 0, Verdict(job[r].ok), job[r].before) \in Record
    BY DEF TypeOK, Job, Entry, Record, Verdict, Statuses
  <2> QED BY <1>5, <1>b, <2>1 DEF Complete, Entry
<1>6. ASSUME NEW r \in Runners, RecordStep(r)
      PROVE  \/ Same
             \/ /\ RecordStep(r) /\ job[r].mode = "run"
                /\ \A s \in Steps : FailedAttempts(s)' =
                                      FailedAttempts(s) + IF s = job[r].at THEN 1 ELSE 0
                /\ tries' = [tries EXCEPT ![Kind(job[r])][job[r].at] = @ + 1]
  <2> DEFINE ok == job[r].good /\ Pure(job[r])
             e  == Entry(job[r].mode, job[r].at, Verdict(ok), None)
  <2>1. job[r].at \in 0..N /\ job[r].mode \in {"run", "audit"}
    BY <1>6 DEF RecordStep, TypeOK, JobOK, Job
  <2>2. e \in Record /\ log' = Append(log, e)
    BY <1>6, <2>1 DEF RecordStep, Entry, Record, Verdict, Statuses
  <2>3. CASE job[r].mode = "run" /\ ~ok
    <3>1. \A s \in Steps : Fails(e, s) <=> s = job[r].at
      BY <2>3 DEF Fails, Entry, Verdict
    <3>2. \A s \in Steps : FailedAttempts(s)' = FailedAttempts(s) + IF s = job[r].at THEN 1 ELSE 0
      BY <2>2, <3>1, FailuresAppend DEF TypeOK
    <3>3. tries' = [tries EXCEPT ![Kind(job[r])][job[r].at] = @ + 1]
      BY <1>6, <2>3 DEF RecordStep
    <3> QED BY <1>6, <2>3, <3>2, <3>3
  <2>4. CASE ~(job[r].mode = "run" /\ ~ok)
    <3>1. e.mode # "run" \/ e.status # "failed"
      BY <2>4 DEF Entry, Verdict
    <3>2. tries' = tries
      BY <1>6, <2>4 DEF RecordStep
    <3> QED BY <1>b, <2>2, <3>1, <3>2
  <2> QED BY <2>3, <2>4
<1>7. CASE ChangeProduct \/ UNCHANGED vars
  BY <1>7, <1>a DEF ChangeProduct, vars
<1> QED BY <1>1, <1>2, <1>3, <1>4, <1>5, <1>6, <1>7 DEF Next

\* The counts of a run that reads the evidence now
Failures == [s \in Steps |-> FailedAttempts(s)]

LEMMA FailuresType ==
  ASSUME TypeOK
  PROVE  Failures \in [Steps -> Nat]
BY FailuresFinite DEF TypeOK, Failures

LEMMA FailuresStep ==
  ASSUME TypeOK, [Next]_vars
  PROVE  \/ Failures' = Failures /\ tries' = tries
         \/ \E r \in Runners :
              /\ RecordStep(r) /\ job[r].mode = "run"
              /\ \A s \in Steps : Failures'[s] = Failures[s] + IF s = job[r].at THEN 1 ELSE 0
              /\ tries' = [tries EXCEPT ![Kind(job[r])][job[r].at] = @ + 1]
<1>1. \A s \in Steps : Failures[s] = FailedAttempts(s) /\ Failures'[s] = FailedAttempts(s)'
  BY DEF Failures
<1>2. (\A s \in Steps : FailedAttempts(s)' = FailedAttempts(s)) => Failures' = Failures
  BY DEF Failures
<1>3. CASE (\A s \in Steps : FailedAttempts(s)' = FailedAttempts(s)) /\ tries' = tries
  BY <1>2, <1>3
<1>4. ASSUME NEW r \in Runners,
             \A s \in Steps : FailedAttempts(s)' =
                                 FailedAttempts(s) + IF s = job[r].at THEN 1 ELSE 0
      PROVE  \A s \in Steps : Failures'[s] = Failures[s] + IF s = job[r].at THEN 1 ELSE 0
  <2> TAKE s \in Steps
  <2>1. Failures'[s] = FailedAttempts(s)'
    BY <1>1
  <2>2. Failures[s] = FailedAttempts(s)
    BY <1>1
  <2>3. FailedAttempts(s)' = FailedAttempts(s) + IF s = job[r].at THEN 1 ELSE 0
    BY <1>4
  <2> QED BY <2>1, <2>2, <2>3
<1> QED BY <1>3, <1>4, CountEffect

\* The evidence counts exactly the failed attempts, and a process never counts
\* more of them than there are
CountInv ==
  /\ \A s \in Steps : Failures[s] = tries["limited"][s] + tries["forced"][s]
  /\ \A r \in Runners, s \in Steps : job[r].counts[s] <= Failures[s]

LEMMA CountsStep ==
  ASSUME TypeOK, [Next]_vars, NEW r \in Runners
  PROVE  job'[r].counts \in {job[r].counts, [s \in Steps |-> 0], Failures}
<1> DEFINE Zero == [s \in Steps |-> 0]
<1>0. NoJob.counts = Zero
  BY DEF NoJob
<1>1. ASSUME NEW q \in Runners, StartRun(q) \/ StartAudit(q)
      PROVE  job'[r].counts \in {job[r].counts, Zero}
  <2>1. PICK mode \in {"run", "audit"}, force \in BOOLEAN, chosen \in SUBSET Steps :
               Load(q, mode, force, chosen)
    <3>1. {s \in Steps : plan.status[s] # "verified"} \in SUBSET Steps
      OBVIOUS
    <3> QED BY <1>1, <3>1 DEF StartRun, StartAudit
  <2>2. PICK k : Loaded(q, mode, force, chosen, k)
    BY <2>1, LoadEffect
  <2>3. Moved(q, "loaded", k) /\ k.counts = Zero
    BY <2>2, <1>0 DEF Loaded
  <2> QED BY <2>3 DEF Moved
<1>2. ASSUME NEW q \in Runners, CountAttempts(q)
      PROVE  job'[r].counts \in {job[r].counts, Failures}
  <2>1. PICK label, k : Moved(q, label, k) /\ k.counts = Failures
    BY <1>2, CountAttemptsEffect DEF Failures
  <2> QED BY <2>1 DEF Moved
<1>3. ASSUME NEW q \in Runners,
             \/ TakeBaseline(q) \/ Guard(q) \/ Blocked(q) \/ Skip(q)
             \/ BeginStep(q) \/ Verify(q) \/ CheckOutputs(q) \/ RecordStep(q)
             \/ OpenTmp(q) \/ WriteTmp(q) \/ FinalGuard(q)
      PROVE  job'[r].counts = job[r].counts
  <2>1. PICK label, k : Moved(q, label, k) /\ k.counts = job[q].counts
    <3>1. CASE TakeBaseline(q)
      BY <3>1, TakeBaselineEffect
    <3>2. CASE Guard(q)
      BY <3>2, GuardEffect
    <3>3. CASE Blocked(q)
      BY <3>3, BlockedEffect
    <3>4. CASE Skip(q)
      BY <3>4, SkipEffect
    <3>5. CASE BeginStep(q) \/ Verify(q) \/ CheckOutputs(q)
      BY <3>5, WithinEffect
    <3>6. CASE RecordStep(q)
      <4>1. PICK ok \in BOOLEAN : \E label, k : Recorded(q, ok, label, k)
        BY <3>6, RecordEffect
      <4> QED BY <4>1 DEF Recorded
    <3>7. CASE OpenTmp(q) \/ WriteTmp(q)
      BY <3>7, SaveEffect
    <3>8. CASE FinalGuard(q)
      BY <3>8, FinalEffect
    <3> QED BY <1>3, <3>1, <3>2, <3>3, <3>4, <3>5, <3>6, <3>7, <3>8
  <2> QED BY <2>1 DEF Moved
<1>4. ASSUME NEW q \in Runners, ReplacePlan(q)
      PROVE  job'[r].counts \in {job[r].counts, Zero}
  BY <1>4, <1>0, ReplaceEffect
<1>5. ASSUME NEW q \in Runners, ReplaceFails(q) \/ Complete(q) \/ Kill(q)
      PROVE  job'[r].counts \in {job[r].counts, Zero}
  BY <1>5, <1>0, QuitEffect DEF Moved
<1>6. CASE ChangeProduct \/ UNCHANGED vars
  BY <1>6 DEF ChangeProduct, vars
<1> QED BY <1>1, <1>2, <1>3, <1>4, <1>5, <1>6 DEF Next

LEMMA CountInit == Init => CountInv
<1> SUFFICES ASSUME Init PROVE CountInv
  OBVIOUS
<1>1. ASSUME NEW s \in Steps PROVE Failures[s] = 0
  <2>1. {i \in 1..Len(log) : /\ log[i].mode = "run" /\ log[i].step = s
                             /\ log[i].status = "failed"} = {}
    BY DEF Init
  <2>2. FailedAttempts(s) = 0
    BY <2>1, FS_EmptySet DEF FailedAttempts
  <2> QED BY <2>2 DEF Failures
<1>2. \A r \in Runners, s \in Steps : job[r].counts[s] = 0
  BY DEF Init, NoJob
<1>3. \A s \in Steps : tries["limited"][s] = 0 /\ tries["forced"][s] = 0
  BY DEF Init, Kinds
<1> QED BY <1>1, <1>2, <1>3 DEF CountInv

\* Failed attempts are never forgotten
LEMMA TriesGrow ==
  ASSUME TypeOK, [Next]_vars, NEW s \in Steps
  PROVE  /\ Failures[s] \in Nat /\ Failures'[s] \in Nat /\ Failures[s] <= Failures'[s]
         /\ \A f \in Kinds : /\ tries[f][s] \in Nat /\ tries'[f][s] \in Nat
                             /\ tries[f][s] <= tries'[f][s]
         /\ Failures'[s] - Failures[s]
              = (tries'["limited"][s] - tries["limited"][s]) + (tries'["forced"][s] - tries["forced"][s])
<1>1. Failures[s] \in Nat /\ \A f \in Kinds : tries[f][s] \in Nat
  BY FailuresType DEF TypeOK
<1>2. CASE Failures' = Failures /\ tries' = tries
  BY <1>1, <1>2 DEF Kinds
<1>3. ASSUME NEW r \in Runners, RecordStep(r),
             Failures'[s] = Failures[s] + IF s = job[r].at THEN 1 ELSE 0,
             tries' = [tries EXCEPT ![Kind(job[r])][job[r].at] = @ + 1]
      PROVE  /\ Failures'[s] \in Nat /\ Failures[s] <= Failures'[s]
             /\ \A f \in Kinds : tries'[f][s] \in Nat /\ tries[f][s] <= tries'[f][s]
             /\ Failures'[s] - Failures[s]
                  = (tries'["limited"][s] - tries["limited"][s]) + (tries'["forced"][s] - tries["forced"][s])
  <2>1. job[r].at \in Steps /\ Kind(job[r]) \in Kinds
    BY <1>3 DEF RecordStep, TypeOK, JobOK, Loop, Job, Kind, Kinds
  <2>2. \A f \in Kinds : tries'[f][s] = IF f = Kind(job[r]) /\ s = job[r].at
                                          THEN tries[f][s] + 1 ELSE tries[f][s]
    BY <1>3, <2>1 DEF TypeOK
  <2>3. CASE Kind(job[r]) = "forced"
    BY <1>1, <1>3, <2>2, <2>3 DEF Kinds
  <2>4. CASE Kind(job[r]) = "limited"
    BY <1>1, <1>3, <2>2, <2>4 DEF Kinds
  <2> QED BY <2>1, <2>3, <2>4 DEF Kinds
<1> QED BY <1>1, <1>2, <1>3, FailuresStep

LEMMA SumStep ==
  ASSUME NEW a \in Nat, NEW b \in Nat, NEW c \in Nat, NEW x \in Nat, NEW y \in Nat, NEW z \in Nat,
         a = b + c, x - a = (y - b) + (z - c)
  PROVE  x = y + z
OBVIOUS

LEMMA CountStep ==
  ASSUME TypeOK, CountInv, [Next]_vars
  PROVE  CountInv'
<1>1. ASSUME NEW s \in Steps
      PROVE  Failures'[s] = tries'["limited"][s] + tries'["forced"][s]
  <2>1. Failures[s] = tries["limited"][s] + tries["forced"][s]
    BY DEF CountInv
  <2>2. /\ Failures[s] \in Nat /\ Failures'[s] \in Nat
        /\ \A f \in Kinds : tries[f][s] \in Nat /\ tries'[f][s] \in Nat
        /\ Failures'[s] - Failures[s] = (tries'["limited"][s] - tries["limited"][s])
                                        + (tries'["forced"][s] - tries["forced"][s])
    BY TriesGrow
  <2>3. /\ tries["limited"][s] \in Nat /\ tries'["limited"][s] \in Nat
        /\ tries["forced"][s] \in Nat /\ tries'["forced"][s] \in Nat
    BY <2>2 DEF Kinds
  <2> QED BY <2>1, <2>2, <2>3, SumStep
<1>2. ASSUME NEW r \in Runners, NEW s \in Steps
      PROVE  job'[r].counts[s] <= Failures'[s]
  <2>1. Failures[s] \in Nat /\ Failures'[s] \in Nat /\ Failures[s] <= Failures'[s]
    BY TriesGrow
  <2>2. job[r].counts[s] <= Failures[s] /\ job[r].counts[s] \in Nat
    BY DEF CountInv, TypeOK, Job
  <2>3. job'[r].counts[s] \in {job[r].counts[s], 0, Failures[s]}
    BY CountsStep
  <2> QED BY <2>1, <2>2, <2>3
<1> QED BY <1>1, <1>2 DEF CountInv

LEMMA RefusedStep ==
  ASSUME TypeOK, CountInv, RefusedWereTried, [Next]_vars
  PROVE  RefusedWereTried'
<1>0. MaxAttempts \in Nat
  OBVIOUS
<1>2. CASE refused' = refused
  <2> SUFFICES ASSUME NEW s \in refused
               PROVE  tries'["limited"][s] + tries'["forced"][s] >= MaxAttempts
    BY <1>2 DEF RefusedWereTried
  <2>1. s \in Steps /\ tries["limited"][s] + tries["forced"][s] >= MaxAttempts
    BY DEF RefusedWereTried, TypeOK
  <2>2. \A f \in Kinds : /\ tries[f][s] \in Nat /\ tries'[f][s] \in Nat
                         /\ tries[f][s] <= tries'[f][s]
    BY <2>1, TriesGrow
  <2> QED BY <1>0, <2>1, <2>2 DEF Kinds
<1>3. ASSUME NEW r \in Runners, Skip(r) PROVE RefusedWereTried'
  <2>1. /\ job[r].at \in Steps /\ job[r].counts[job[r].at] \in Nat
        /\ job[r].counts[job[r].at] >= MaxAttempts
    BY <1>3 DEF Skip, OverLimit, TypeOK, JobOK, Loop, Job
  <2>2. /\ Failures[job[r].at] \in Nat /\ job[r].counts[job[r].at] <= Failures[job[r].at]
        /\ Failures[job[r].at] = tries["limited"][job[r].at] + tries["forced"][job[r].at]
    BY <2>1, FailuresType DEF CountInv
  <2>3. tries["limited"][job[r].at] + tries["forced"][job[r].at] >= MaxAttempts
    BY <1>0, <2>1, <2>2
  <2>4. tries' = tries /\ refused' = refused \cup {job[r].at}
    BY <1>3 DEF Skip
  <2> QED BY <2>3, <2>4 DEF RefusedWereTried
<1>4. refused' = refused \/ \E r \in Runners : Skip(r)
  BY DEF Next, StartRun, StartAudit, Load, CountAttempts, TakeBaseline, Guard, Blocked, BeginStep,
         Verify, CheckOutputs, RecordStep, OpenTmp, WriteTmp, ReplacePlan, ReplaceFails,
         FinalGuard, Complete, Kill, ChangeProduct, vars, ghosts
<1> QED BY <1>2, <1>3, <1>4

\* A step is refused only after as many failed attempts of runs as the limit:
\* blocked steps, audits and their guards use up nothing
THEOREM RefusedCorrect == Spec => []RefusedWereTried
<1>1. Init => TypeOK /\ CountInv /\ RefusedWereTried
  BY TypeInit, CountInit DEF Init, RefusedWereTried
<1>2. TypeOK /\ CountInv /\ RefusedWereTried /\ [Next]_vars
      => (TypeOK /\ CountInv /\ RefusedWereTried)'
  BY TypeStep, CountStep, RefusedStep
<1> QED BY <1>1, <1>2, PTL DEF Spec

-----------------------------------------------------------------------------
(* Audits: what a verified marker and an accepted proof say of the workspace *)

\* The baseline is, or was, the content.  While it is the content, a check that
\* passed in this step passes on it; every step that is behind passes on it unless
\* the audit has failed; and it is the content the marker will name
SoundAudit(label, j) ==
  /\ j.base \in past \cup {product}
  /\ j.ok => \A s \in Steps : (label \in Loop => s < j.at) => j.base \in Good[s] \cap Out[s]
  /\ label = "outputs" /\ j.good /\ product = j.base => product \in Good[j.at]
  /\ label = "record" /\ j.good /\ product = j.base => product \in Good[j.at] \cap Out[j.at]
  /\ label = "marker" /\ j.ok => j.before = j.base

Underway(label, j) == j.mode = "audit" /\ label # "loaded"

SoundInv ==
  /\ product \notin past
  /\ \A r \in Runners : /\ pc[r] = "loaded" => job[r].at = 0
                        /\ Underway(pc[r], job[r]) => SoundAudit(pc[r], job[r])

\* One process moves in a workspace that does not change
LEMMA SoundMove ==
  ASSUME SoundInv, NEW r \in Runners, NEW label, NEW k, Moved(r, label, k), UNCHANGED world,
         label = "loaded" => k.at = 0, Underway(label, k) => SoundAudit(label, k)
  PROVE  SoundInv'
<1>1. ASSUME NEW q \in Runners
      PROVE  /\ pc'[q] = "loaded" => job'[q].at = 0
             /\ Underway(pc'[q], job'[q]) => SoundAudit(pc'[q], job'[q])
  BY DEF Moved, SoundInv
<1>2. product' = product /\ past' = past
  BY DEF world
<1>3. ASSUME NEW q \in Runners, SoundAudit(pc'[q], job'[q])
      PROVE  SoundAudit(pc[q], job[q])'
  BY <1>2, <1>3 DEF SoundAudit
<1>4. ASSUME NEW q \in Runners
      PROVE  /\ pc'[q] = "loaded" => job'[q].at = 0
             /\ Underway(pc[q], job[q])' => SoundAudit(pc[q], job[q])'
  BY <1>1, <1>3 DEF Underway
<1>5. (product \notin past)'
  BY <1>2 DEF SoundInv
<1> QED BY <1>4, <1>5 DEF SoundInv

LEMMA SoundLoop ==
  ASSUME TypeOK, SoundInv, NEW r \in Runners, NEW label, NEW k, Steered(r, label, k),
         job[r].mode = "audit", job[r].chosen = Steps, SameCommand(k, job[r]),
         k.base \in past \cup {product},
         k.ok => \A s \in Steps : s <= job[r].at => k.base \in Good[s] \cap Out[s]
  PROVE  SoundAudit(label, k)
<1>0. job[r].at \in 0..N
  BY DEF TypeOK, Job
<1>1. label \in {"save", "guard"}
  BY DEF Steered, FirstStep
<1>2. ASSUME NEW s \in Steps, label \in Loop => s < k.at
      PROVE  s <= job[r].at
  <2>1. CASE label = "save"
    <3>1. ~(s > job[r].at)
      BY <2>1 DEF Steered, After
    <3> QED BY <1>0, <3>1 DEF Steps
  <2>2. CASE label = "guard"
    <3>1. k.at \in After(job[r]) /\ \A u \in After(job[r]) : k.at <= u
      BY <2>2 DEF Steered
    <3>2. k.at \in Steps /\ s < k.at
      BY <1>2, <2>2, <3>1 DEF After, Loop
    <3>3. s \notin After(job[r])
      BY <3>1, <3>2 DEF Steps
    <3>4. ~(s > job[r].at)
      BY <3>3 DEF After
    <3> QED BY <1>0, <3>4 DEF Steps
  <2> QED BY <1>1, <2>1, <2>2
<1> QED BY <1>1, <1>2 DEF SoundAudit

LEMMA SoundStep ==
  ASSUME TypeOK, SoundInv, ~Returns, [Next]_vars
  PROVE  SoundInv'
<1> USE DEF Underway
<1>a. ASSUME NEW r \in Runners, job[r].mode = "audit"
      PROVE  job[r].chosen = Steps /\ job[r].at \in 0..N
  BY <1>a DEF TypeOK, JobOK, Job
<1>1. ASSUME NEW r \in Runners, StartRun(r) \/ StartAudit(r) PROVE SoundInv'
  <2>1. PICK mode \in {"run", "audit"}, force \in BOOLEAN, chosen \in SUBSET Steps :
               Load(r, mode, force, chosen)
    <3>1. {s \in Steps : plan.status[s] # "verified"} \in SUBSET Steps
      OBVIOUS
    <3> QED BY <1>1, <3>1 DEF StartRun, StartAudit
  <2>2. PICK k : Loaded(r, mode, force, chosen, k)
    BY <2>1, LoadEffect
  <2> QED BY <2>1, <2>2, SoundMove DEF Loaded, Load
<1>2. ASSUME NEW r \in Runners, CountAttempts(r) PROVE SoundInv'
  <2>1. PICK label, k : Moved(r, label, k) /\ Steered(r, label, k) /\ SameCommand(k, job[r])
    BY <1>2, CountAttemptsEffect
  <2> QED BY <1>2, <2>1, SoundMove DEF CountAttempts, SameCommand, Steered
<1>3. ASSUME NEW r \in Runners, TakeBaseline(r) PROVE SoundInv'
  <2>1. PICK label, k : /\ Moved(r, label, k) /\ Steered(r, label, k)
                        /\ SameCommand(k, job[r]) /\ SameResult(k, job[r]) /\ k.base = product
    BY <1>3, TakeBaselineEffect
  <2>2. job[r].mode = "audit" /\ pc[r] = "loaded" /\ UNCHANGED world
    BY <1>3 DEF TakeBaseline
  <2>a. job[r].at = 0
    BY <2>2 DEF SoundInv
  <2>3. \A s \in Steps : ~(s <= 0)
    BY DEF Steps
  <2>4. SoundAudit(label, k)
    BY <1>a, <2>1, <2>2, <2>a, <2>3, SoundLoop
  <2> QED BY <2>1, <2>2, <2>4, SoundMove DEF Steered
<1>4. ASSUME NEW r \in Runners, Guard(r) PROVE SoundInv'
  <2>1. job[r].mode = "audit" /\ pc[r] = "guard" /\ UNCHANGED world
    BY <1>4 DEF Guard, TypeOK, JobOK
  <2>2. SoundAudit("guard", job[r])
    BY <2>1 DEF SoundInv
  <2>3. CASE Moved(r, "gate", job[r])
    BY <2>1, <2>2, <2>3, SoundMove DEF SoundAudit, Loop
  <2>4. ASSUME NEW k, Moved(r, "save", k), k.base = job[r].base, k.ok = FALSE
        PROVE  SoundInv'
    BY <2>1, <2>2, <2>4, SoundMove DEF SoundAudit
  <2> QED BY <1>4, <2>3, <2>4, GuardEffect
<1>5. ASSUME NEW r \in Runners, Blocked(r) PROVE SoundInv'
  <2>1. PICK label, k : /\ Moved(r, label, k) /\ Steered(r, label, k) /\ SameCommand(k, job[r])
                        /\ k.base = job[r].base /\ k.ok = FALSE
    BY <1>5, BlockedEffect
  <2>2. pc[r] = "gate" /\ UNCHANGED world
    BY <1>5 DEF Blocked
  <2>3. ASSUME job[r].mode = "audit" PROVE SoundAudit(label, k)
    <3>1. k.base \in past \cup {product}
      BY <2>1, <2>2, <2>3 DEF SoundInv, SoundAudit
    <3> QED BY <1>a, <2>1, <2>3, <3>1, SoundLoop
  <2> QED BY <2>1, <2>2, <2>3, SoundMove DEF SameCommand, Steered
<1>6. ASSUME NEW r \in Runners, Skip(r) PROVE SoundInv'
  <2>1. PICK label, k : Moved(r, label, k) /\ Steered(r, label, k) /\ SameCommand(k, job[r])
    BY <1>6, SkipEffect
  <2> QED BY <1>6, <2>1, SoundMove DEF Skip, SameCommand, Steered
<1>7. ASSUME NEW r \in Runners, BeginStep(r) \/ Verify(r) \/ CheckOutputs(r) PROVE SoundInv'
  <2>1. PICK label, k : /\ Moved(r, label, k)
                        /\ SameCommand(k, job[r]) /\ SameResult(k, job[r])
                        /\ k.base = job[r].base /\ k.at = job[r].at
                        /\ \/ /\ BeginStep(r) /\ label = "verify"
                           \/ /\ Verify(r) /\ label = "outputs"
                              /\ k.good => product \in Good[job[r].at]
                           \/ /\ CheckOutputs(r) /\ label = "record"
                              /\ k.good => job[r].good /\ product \in Out[job[r].at]
    BY <1>7, WithinEffect
  <2>2. pc[r] \in {"gate", "verify", "outputs"} /\ UNCHANGED world
    BY <1>7 DEF BeginStep, Verify, CheckOutputs
  <2>3. ASSUME job[r].mode = "audit" PROVE SoundAudit(label, k)
    <3>1. SoundAudit(pc[r], job[r])
      BY <2>2, <2>3 DEF SoundInv
    <3>2. /\ k.base \in past \cup {product}
          /\ k.ok => \A s \in Steps : s < k.at => k.base \in Good[s] \cap Out[s]
      BY <2>1, <2>2, <3>1 DEF SoundAudit, SameResult, Loop
    <3>3. label \in Loop
      BY <2>1 DEF Loop
    <3>4. label = "record" => pc[r] = "outputs"
      BY <2>1 DEF CheckOutputs
    <3> QED BY <2>1, <3>1, <3>2, <3>3, <3>4 DEF SoundAudit
  <2> QED BY <2>1, <2>2, <2>3, SoundMove DEF SameCommand
<1>8. ASSUME NEW r \in Runners, RecordStep(r) PROVE SoundInv'
  <2>0. PICK ok \in BOOLEAN : \E label, k : Recorded(r, ok, label, k)
    BY <1>8, RecordEffect
  <2>1. PICK label, k : Recorded(r, ok, label, k)
    BY <2>0
  <2>2. /\ Moved(r, label, k) /\ Steered(r, label, k) /\ SameCommand(k, job[r])
        /\ k.base = job[r].base
        /\ k.ok => job[r].ok /\ job[r].good /\ Pure(job[r])
    BY <2>1 DEF Recorded
  <2>3. pc[r] = "record" /\ UNCHANGED world
    BY <1>8 DEF RecordStep
  <2>4. ASSUME job[r].mode = "audit" PROVE SoundAudit(label, k)
    <3>1. SoundAudit("record", job[r])
      BY <2>3, <2>4 DEF SoundInv
    <3>a. job[r].base \in past \cup {product}
      BY <3>1, Zenon DEF SoundAudit
    <3>b. job[r].ok => \A s \in Steps : s < job[r].at => job[r].base \in Good[s] \cap Out[s]
      BY <3>1, Zenon DEF SoundAudit
    <3>c. job[r].good /\ product = job[r].base => product \in Good[job[r].at] \cap Out[job[r].at]
      BY <3>1, Zenon DEF SoundAudit
    <3>2. k.base \in past \cup {product}
      BY <2>2, <3>a
    <3>3. ASSUME k.ok, NEW s \in Steps, s <= job[r].at
          PROVE  k.base \in Good[s] \cap Out[s]
      <4>1. CASE s = job[r].at
        BY <2>2, <2>4, <3>c, <3>3, <4>1 DEF Pure
      <4>2. CASE s < job[r].at
        BY <2>2, <3>b, <3>3, <4>2
      <4> QED BY <1>a, <2>4, <3>3, <4>1, <4>2 DEF Steps
    <3> QED BY <1>a, <2>2, <2>4, <3>2, <3>3, SoundLoop
  <2> QED BY <2>2, <2>3, <2>4, SoundMove DEF SameCommand, Steered
<1>9. ASSUME NEW r \in Runners, OpenTmp(r) \/ WriteTmp(r) PROVE SoundInv'
  <2>1. PICK label, k : /\ Moved(r, label, k) /\ label \in {"write", "replace"}
                        /\ SameCommand(k, job[r]) /\ SameResult(k, job[r])
                        /\ k.base = job[r].base
    BY <1>9, SaveEffect
  <2>2. pc[r] \in {"save", "write"} /\ UNCHANGED world
    BY <1>9 DEF OpenTmp, WriteTmp
  <2>3. Underway(label, k) => SoundAudit(label, k)
    BY <2>1, <2>2 DEF SoundInv, SoundAudit, SameCommand, SameResult, Loop
  <2> QED BY <2>1, <2>2, <2>3, SoundMove
<1>10. ASSUME NEW r \in Runners, ReplacePlan(r) PROVE SoundInv'
  <2>1. pc[r] = "replace" /\ UNCHANGED world
    BY <1>10 DEF ReplacePlan
  <2>2. ASSUME NEW q \in Runners
        PROVE  /\ pc'[q] = "loaded" => job'[q].at = 0
               /\ Underway(pc'[q], job'[q]) => SoundAudit(pc'[q], job'[q])
    <3>1. CASE pc'[q] = "idle" /\ job'[q] = NoJob
      BY <3>1 DEF NoJob
    <3>2. ASSUME pc'[q] = IF q = r THEN "final" ELSE pc[q],
                 SameCommand(job'[q], job[q]), SameResult(job'[q], job[q]),
                 job'[q].base = job[q].base, job'[q].at = job[q].at,
                 job'[q].before = job[q].before, job'[q].good = job[q].good
          PROVE  /\ pc'[q] = "loaded" => job'[q].at = 0
                 /\ Underway(pc'[q], job'[q]) => SoundAudit(pc'[q], job'[q])
      <4>1. CASE q = r
        <5>1. ASSUME job[q].mode = "audit" PROVE SoundAudit("final", job'[q])
          <6>1. SoundAudit("replace", job[q])
            BY <2>1, <4>1, <5>1 DEF SoundInv
          <6>2. /\ job[q].base \in past \cup {product}
                /\ job[q].ok => \A s \in Steps : job[q].base \in Good[s] \cap Out[s]
            BY <6>1 DEF SoundAudit, Loop
          <6> QED BY <3>2, <6>2 DEF SoundAudit, SameResult
        <5> QED BY <3>2, <4>1, <5>1 DEF SameCommand
      <4>2. CASE q # r
        BY <3>2, <4>2 DEF SoundInv, SoundAudit, SameCommand, SameResult
      <4> QED BY <4>1, <4>2
    <3> QED BY <1>10, <3>1, <3>2, ReplaceEffect
  <2> QED BY <2>1, <2>2 DEF SoundInv, SoundAudit, world
<1>11. ASSUME NEW r \in Runners, FinalGuard(r) PROVE SoundInv'
  <2>1. PICK k : /\ Moved(r, "marker", k) /\ SameCommand(k, job[r])
                 /\ k.base = job[r].base /\ k.before = product
                 /\ k.ok => job[r].ok /\ product = job[r].base
    BY <1>11, FinalEffect
  <2>2. pc[r] = "final" /\ UNCHANGED world
    BY <1>11 DEF FinalGuard
  <2>3. Underway("marker", k) => SoundAudit("marker", k)
    BY <2>1, <2>2 DEF SoundInv, SoundAudit, SameCommand, Loop
  <2> QED BY <2>1, <2>2, <2>3, SoundMove
<1>12. ASSUME NEW r \in Runners, ReplaceFails(r) \/ Complete(r) \/ Kill(r) PROVE SoundInv'
  <2>1. Moved(r, "idle", NoJob) /\ UNCHANGED world
    BY <1>12, QuitEffect DEF ReplaceFails, Complete, Kill
  <2> QED BY <2>1, SoundMove DEF NoJob
<1>13. CASE ChangeProduct
  <2>1. /\ product' # product /\ product' \notin past /\ past' = past \cup {product}
        /\ pc' = pc /\ job' = job
    BY <1>13 DEF ChangeProduct
  <2>2. ASSUME NEW r \in Runners, Underway(pc[r], job[r])
        PROVE  SoundAudit(pc[r], job[r])'
    <3>1. SoundAudit(pc[r], job[r])
      BY <2>2 DEF SoundInv
    <3>2. job[r].base \in past' /\ product' # job[r].base
      BY <2>1, <3>1 DEF SoundAudit
    <3> QED BY <2>1, <3>1, <3>2 DEF SoundAudit
  <2> QED BY <2>1, <2>2 DEF SoundInv
<1>14. CASE UNCHANGED vars
  BY <1>14 DEF vars, world, SoundInv, SoundAudit
<1> QED BY <1>1, <1>2, <1>3, <1>4, <1>5, <1>6, <1>7, <1>8, <1>9, <1>10, <1>11, <1>12, <1>13, <1>14
        DEF Next

LEMMA SoundInit == Init => SoundInv
BY DEF Init, SoundInv, Underway, NoJob

\* What the marker of an audit that ends says
LEMMA MarkerStep ==
  ASSUME TypeOK, SoundInv, ~Returns, VerifiedMarkerHolds, [Next]_vars
  PROVE  VerifiedMarkerHolds'
<1> DEFINE Holds(e) == e.mode = "audit_complete" /\ e.status = "verified"
                       => \A s \in Steps : e.print \in Good[s] \cap Out[s]
<1>0. log \in Seq(Record) /\ \A i \in 1..Len(log) : Holds(log[i])
  BY DEF TypeOK, VerifiedMarkerHolds
<1>1. ASSUME NEW e, log' = Append(log, e), e.mode = "audit_complete" => Holds(e)
      PROVE  \A i \in 1..Len(log') : Holds(log'[i])
  <2> HIDE DEF Holds
  <2>1. Holds(e)
    BY <1>1 DEF Holds
  <2>2. ASSUME NEW i \in 1..Len(log') PROVE Holds(log'[i])
    <3>1. i \in 1..Len(log) + 1 /\ Len(log) \in Nat
      BY <1>0, <1>1
    <3>2. CASE i \in 1..Len(log)
      BY <1>0, <1>1, <3>2
    <3>3. CASE i = Len(log) + 1
      BY <1>0, <1>1, <2>1, <3>3
    <3> QED BY <3>1, <3>2, <3>3
  <2> QED BY <2>2
<1>2. CASE log' = log
  BY <1>0, <1>2 DEF VerifiedMarkerHolds
<1>3. ASSUME NEW r \in Runners, Guard(r) \/ Blocked(r) \/ RecordStep(r) \/ FinalGuard(r)
      PROVE  \A i \in 1..Len(log') : Holds(log'[i])
  <2>1. job[r].mode \in {"run", "audit"} /\ pc[r] # "idle"
    BY <1>3 DEF Guard, Blocked, RecordStep, FinalGuard, TypeOK, JobOK, Job
  <2>2. CASE log' = log
    BY <1>0, <2>2
  <2>3. ASSUME NEW e, log' = Append(log, e), e.mode # "audit_complete"
        PROVE  \A i \in 1..Len(log') : Holds(log'[i])
    BY <1>1, <2>3
  <2>4. \/ log' = log
        \/ \E e : log' = Append(log, e) /\ e.mode # "audit_complete"
    <3>1. \A mode, s, status, print : Entry(mode, s, status, print).mode = mode
      BY DEF Entry
    <3>2. CASE Guard(r)
      BY <3>1, <3>2 DEF Guard
    <3>3. CASE Blocked(r)
      BY <2>1, <3>1, <3>3 DEF Blocked
    <3>4. CASE RecordStep(r)
      BY <2>1, <3>1, <3>4 DEF RecordStep
    <3>5. CASE FinalGuard(r)
      BY <3>1, <3>5 DEF FinalGuard
    <3> QED BY <1>3, <3>2, <3>3, <3>4, <3>5
  <2> HIDE DEF Holds
  <2> QED BY <2>2, <2>3, <2>4
<1>4. ASSUME NEW r \in Runners, Complete(r)
      PROVE  \A i \in 1..Len(log') : Holds(log'[i])
  <2> DEFINE e == Entry("audit_complete", 0, Verdict(job[r].ok), job[r].before)
  <2>1. pc[r] = "marker" /\ log' = Append(log, e)
    BY <1>4 DEF Complete
  <2>2. job[r].mode = "audit" /\ job[r].ok \in BOOLEAN
    BY <2>1 DEF TypeOK, JobOK, Ends, Job
  <2>3. SoundAudit("marker", job[r])
    BY <2>1, <2>2 DEF SoundInv, Underway
  <2>4. job[r].ok => /\ job[r].before = job[r].base
                     /\ \A s \in Steps : job[r].base \in Good[s] \cap Out[s]
    BY <2>3 DEF SoundAudit, Loop
  <2>5. e.status = "verified" => job[r].ok
    BY <2>2 DEF Entry, Verdict
  <2>6. Holds(e)
    BY <2>4, <2>5 DEF Entry
  <2> HIDE DEF e, Holds
  <2> QED BY <1>1, <2>1, <2>6
<1>5. \/ log' = log
      \/ \E r \in Runners :
           Guard(r) \/ Blocked(r) \/ RecordStep(r) \/ FinalGuard(r) \/ Complete(r)
  BY DEF Next, StartRun, StartAudit, Load, CountAttempts, TakeBaseline, Skip, BeginStep, Verify,
         CheckOutputs, OpenTmp, WriteTmp, ReplacePlan, ReplaceFails, Kill, ChangeProduct, vars
<1>6. \A i \in 1..Len(log') : Holds(log'[i])
  <2>1. CASE log' = log
    BY <1>0, <2>1
  <2> HIDE DEF Holds
  <2> QED BY <1>3, <1>4, <1>5, <2>1
<1> QED BY <1>6 DEF VerifiedMarkerHolds

\* A verified audit: every step passes on the content the marker names, whatever
\* others did to the workspace meanwhile, unless it returned to that content
THEOREM MarkerCorrect == Spec => []VerifiedMarkerHolds
<1> DEFINE Inv == TypeOK /\ (Returns \/ SoundInv) /\ VerifiedMarkerHolds
<1>1. Init => Inv
  BY TypeInit, SoundInit DEF Init, VerifiedMarkerHolds
<1>2. Inv /\ [Next]_vars => Inv'
  <2>1. CASE Returns
    BY <2>1, TypeStep DEF VerifiedMarkerHolds
  <2>2. CASE ~Returns
    BY <2>2, TypeStep, SoundStep, MarkerStep
  <2> QED BY <2>1, <2>2
<1> QED BY <1>1, <1>2, PTL DEF Spec

\* A proof the orchestrator accepts is one of the workspace as it is, for the
\* marker it ends with names that content
THEOREM ProofCorrect == Spec => []AcceptedProofIsSound
<1>1. VerifiedMarkerHolds => AcceptedProofIsSound
  BY DEF VerifiedMarkerHolds, AcceptedProofIsSound, FreshProof, LastMarker
<1> QED BY <1>1, MarkerCorrect, PTL

-----------------------------------------------------------------------------
(* Statuses: no step is called verified, by anybody, without evidence *)

Done == {s \in Steps : \E i \in 1..Len(log) : Proved(s, i)}

StatusBacked(done, status) == \A s \in Steps : status[s] = "verified" => s \in done

\* What a command holds true, and what it needs at the step it is checking
JobBacked(done, label, j) ==
  /\ StatusBacked(done, j.status)
  /\ j.passed \subseteq done
  /\ label \in {"verify", "outputs", "record"} => Deps[j.at] \subseteq done

EvidenceInv ==
  /\ plan.form = "whole" => StatusBacked(Done, plan.status)
  /\ tmp.form = "whole" => StatusBacked(Done, tmp.status)
  /\ \A r \in Runners : JobBacked(Done, pc[r], job[r])

\* The log only grows
LEMMA LogGrows ==
  ASSUME TypeOK, [Next]_vars
  PROVE  /\ Len(log) \in Nat /\ Len(log') \in Nat /\ Len(log) <= Len(log')
         /\ \A i \in 1..Len(log) : log'[i] = log[i]
<1>0. log \in Seq(Record) /\ Len(log) \in Nat
  BY DEF TypeOK
<1>1. log' = log \/ \E e : log' = Append(log, e)
  BY DEF Next, StartRun, StartAudit, Load, CountAttempts, TakeBaseline, Guard, Blocked, Skip,
         BeginStep, Verify, CheckOutputs, RecordStep, OpenTmp, WriteTmp, ReplacePlan, ReplaceFails,
         FinalGuard, Complete, Kill, ChangeProduct, vars
<1>2. log' \in Seq(Record)
  BY TypeStep DEF TypeOK
<1>3. CASE log' = log
  BY <1>0, <1>3
<1>4. ASSUME NEW e, log' = Append(log, e)
      PROVE  Len(log') = Len(log) + 1 /\ \A i \in 1..Len(log) : log'[i] = log[i]
  BY <1>0, <1>4
<1> QED BY <1>0, <1>1, <1>3, <1>4

LEMMA DoneGrows ==
  ASSUME TypeOK, [Next]_vars
  PROVE  Done \subseteq Done'
<1> SUFFICES ASSUME NEW s \in Done PROVE s \in Done'
  OBVIOUS
<1>1. PICK i \in 1..Len(log) : Proved(s, i)
  BY DEF Done
<1>2. i \in 1..Len(log') /\ log'[i] = log[i]
  BY LogGrows
<1>3. Proved(s, i)'
  BY <1>1, <1>2 DEF Proved
<1> QED BY <1>2, <1>3 DEF Done

LEMMA BackedGrows ==
  ASSUME NEW done, NEW more, done \subseteq more
  PROVE  /\ \A status : StatusBacked(done, status) => StatusBacked(more, status)
         /\ \A label, j : JobBacked(done, label, j) => JobBacked(more, label, j)
BY DEF StatusBacked, JobBacked

\* One process moves and leaves the files alone
LEMMA EvidenceMove ==
  ASSUME EvidenceInv, Done \subseteq Done', NEW r \in Runners, NEW label, NEW k,
         Moved(r, label, k), UNCHANGED files, JobBacked(Done', label, k)
  PROVE  EvidenceInv'
<1>1. ASSUME NEW q \in Runners PROVE JobBacked(Done', pc'[q], job'[q])
  BY BackedGrows DEF Moved, EvidenceInv
<1>2. plan' = plan /\ tmp' = tmp
  BY DEF files
<1> QED BY <1>1, <1>2, BackedGrows DEF EvidenceInv

LEMMA EvidenceStep ==
  ASSUME TypeOK, EvidenceInv, [Next]_vars
  PROVE  EvidenceInv'
<1>a. Done \subseteq Done'
  BY DoneGrows
<1>b. ASSUME NEW r \in Runners
      PROVE  /\ job[r] \in Job
             /\ StatusBacked(Done', job[r].status) /\ job[r].passed \subseteq Done'
  BY <1>a DEF EvidenceInv, JobBacked, StatusBacked, TypeOK
\* A process that has no step to check, and holds true what it did
<1>c. ASSUME NEW r \in Runners, NEW label, NEW k, Moved(r, label, k), UNCHANGED files,
             label \notin {"verify", "outputs", "record"},
             k.status = job[r].status, k.passed = job[r].passed
      PROVE  EvidenceInv'
  <2>1. JobBacked(Done', label, k)
    BY <1>b, <1>c DEF JobBacked
  <2> QED BY <1>a, <1>c, <2>1, EvidenceMove
\* One that gives its step a status other than verified
<1>d. ASSUME NEW r \in Runners, NEW label, NEW k, Moved(r, label, k), UNCHANGED files,
             label \notin {"verify", "outputs", "record"}, NEW status, status # "verified",
             k.status = [job[r].status EXCEPT ![job[r].at] = status], k.passed = job[r].passed
      PROVE  EvidenceInv'
  <2>1. StatusBacked(Done', k.status)
    BY <1>b, <1>d DEF StatusBacked, Job
  <2>2. JobBacked(Done', label, k)
    BY <1>b, <1>d, <2>1 DEF JobBacked
  <2> QED BY <1>a, <1>d, <2>2, EvidenceMove
<1>1. ASSUME NEW r \in Runners, StartRun(r) \/ StartAudit(r) PROVE EvidenceInv'
  <2>1. PICK mode \in {"run", "audit"}, force \in BOOLEAN, chosen \in SUBSET Steps :
               Load(r, mode, force, chosen)
    <3>1. {s \in Steps : plan.status[s] # "verified"} \in SUBSET Steps
      OBVIOUS
    <3> QED BY <1>1, <3>1 DEF StartRun, StartAudit
  <2>2. PICK k : Loaded(r, mode, force, chosen, k)
    BY <2>1, LoadEffect
  <2>3. plan.form = "whole" /\ UNCHANGED files
    BY <2>1 DEF Load
  <2>4. StatusBacked(Done', plan.status)
    BY <1>a, <2>3 DEF EvidenceInv, StatusBacked
  <2>5. JobBacked(Done', "loaded", k)
    BY <2>2, <2>4 DEF Loaded, JobBacked
  <2> QED BY <1>a, <2>2, <2>3, <2>5, EvidenceMove DEF Loaded
<1>2. ASSUME NEW r \in Runners, CountAttempts(r) \/ TakeBaseline(r) PROVE EvidenceInv'
  <2>1. PICK label, k : Moved(r, label, k) /\ Steered(r, label, k) /\ SameResult(k, job[r])
    BY <1>2, CountAttemptsEffect, TakeBaselineEffect
  <2>2. UNCHANGED files
    BY <1>2 DEF CountAttempts, TakeBaseline
  <2> QED BY <1>c, <2>1, <2>2 DEF Steered, SameResult
<1>3. ASSUME NEW r \in Runners, Guard(r) PROVE EvidenceInv'
  <2>1. UNCHANGED files
    BY <1>3 DEF Guard
  <2>2. CASE Moved(r, "gate", job[r])
    BY <1>c, <2>1, <2>2
  <2>3. ASSUME NEW k, Moved(r, "save", k), k.passed = job[r].passed,
               k.status = [job[r].status EXCEPT ![job[r].at] = "failed"]
        PROVE  EvidenceInv'
    BY <1>d, <2>1, <2>3
  <2> QED BY <1>3, <2>2, <2>3, GuardEffect
<1>4. ASSUME NEW r \in Runners, Blocked(r) PROVE EvidenceInv'
  <2>1. PICK label, k : /\ Moved(r, label, k) /\ Steered(r, label, k) /\ k.passed = job[r].passed
                        /\ k.status = [job[r].status EXCEPT ![job[r].at] = "blocked"]
    BY <1>4, BlockedEffect
  <2>2. UNCHANGED files
    BY <1>4 DEF Blocked
  <2> QED BY <1>d, <2>1, <2>2 DEF Steered
<1>5. ASSUME NEW r \in Runners, Skip(r) PROVE EvidenceInv'
  <2>1. PICK label, k : /\ Moved(r, label, k) /\ Steered(r, label, k)
                        /\ k.passed = job[r].passed /\ k.status = job[r].status
    BY <1>5, SkipEffect
  <2>2. UNCHANGED files
    BY <1>5 DEF Skip
  <2> QED BY <1>c, <2>1, <2>2 DEF Steered
<1>6. ASSUME NEW r \in Runners, BeginStep(r) \/ Verify(r) \/ CheckOutputs(r) PROVE EvidenceInv'
  <2>1. PICK label, k : /\ Moved(r, label, k) /\ SameResult(k, job[r]) /\ k.at = job[r].at
    BY <1>6, WithinEffect
  <2>2. UNCHANGED files
    BY <1>6 DEF BeginStep, Verify, CheckOutputs
  <2>3. Deps[job[r].at] \subseteq Done
    <3>1. CASE BeginStep(r)
      <4>1. job[r].at \in Steps /\ Prerequisites(job[r])
        BY <3>1 DEF BeginStep, Admitted, TypeOK, JobOK, Loop, Job
      <4>2. Deps[job[r].at] \subseteq Steps
        BY <4>1
      <4>3. StatusBacked(Done, job[r].status) /\ job[r].passed \subseteq Done
        BY DEF EvidenceInv, JobBacked
      <4> QED BY <4>1, <4>2, <4>3 DEF Prerequisites, StatusBacked
    <3>2. CASE Verify(r) \/ CheckOutputs(r)
      BY <3>2 DEF Verify, CheckOutputs, EvidenceInv, JobBacked
    <3> QED BY <1>6, <3>1, <3>2
  <2>4. JobBacked(Done', label, k)
    BY <1>a, <1>b, <2>1, <2>3 DEF JobBacked, SameResult
  <2> QED BY <1>a, <2>1, <2>2, <2>4, EvidenceMove
<1>7. ASSUME NEW r \in Runners, RecordStep(r) PROVE EvidenceInv'
  <2>0. PICK ok \in BOOLEAN : \E label, k : Recorded(r, ok, label, k)
    BY <1>7, RecordEffect
  <2>1. PICK label, k : Recorded(r, ok, label, k)
    BY <2>0
  <2>2. /\ Moved(r, label, k) /\ label \notin {"verify", "outputs", "record"} /\ UNCHANGED files
        /\ k.status = [job[r].status EXCEPT ![job[r].at] = Verdict(ok)]
        /\ k.passed = IF ok THEN job[r].passed \cup {job[r].at} ELSE job[r].passed
    BY <1>7, <2>1 DEF Recorded, Steered, RecordStep
  <2>3. CASE ok
    <3>1. job[r].at \in Steps /\ job[r].mode \in {"run", "audit"}
      BY <1>7 DEF RecordStep, TypeOK, JobOK, Loop, Job
    <3>2. log' = Append(log, Entry(job[r].mode, job[r].at, "verified", None))
      BY <2>1, <2>3 DEF Recorded, Verdict
    <3>3. PICK s \in Steps : s = job[r].at
      BY <3>1
    <3>4. PICK i \in Nat \ {0} : i = Len(log')
      BY <3>2 DEF TypeOK
    <3>a. i \in 1..Len(log') /\ log'[i] = Entry(job[r].mode, s, "verified", None)
      BY <3>2, <3>3, <3>4 DEF TypeOK
    <3>b. Proved(s, i)'
      BY <3>1, <3>a DEF Proved, Entry
    <3>5. job[r].at \in Done'
      BY <3>3, <3>a, <3>b DEF Done
    <3>6. StatusBacked(Done', k.status)
      BY <1>b, <2>2, <3>5 DEF StatusBacked, Job
    <3>7. JobBacked(Done', label, k)
      BY <1>b, <2>2, <2>3, <3>5, <3>6 DEF JobBacked
    <3> QED BY <1>a, <2>2, <3>7, EvidenceMove
  <2>4. CASE ~ok
    BY <1>d, <2>2, <2>4 DEF Verdict
  <2> QED BY <2>3, <2>4
<1>8. ASSUME NEW r \in Runners, OpenTmp(r) \/ WriteTmp(r) PROVE EvidenceInv'
  <2>1. PICK label, k : Moved(r, label, k) /\ label \in {"write", "replace"} /\ SameResult(k, job[r])
    BY <1>8, SaveEffect
  <2>2. JobBacked(Done', label, k)
    BY <1>b, <2>1 DEF JobBacked, SameResult
  <2>3. \A q \in Runners : JobBacked(Done', pc'[q], job'[q])
    BY <1>a, <2>1, <2>2, BackedGrows DEF Moved, EvidenceInv
  <2>4. \A f \in {plan, tmp} : f.form = "whole" => StatusBacked(Done', f.status)
    BY <1>a, BackedGrows DEF EvidenceInv
  <2>5. \A f, g : f \in Written(r, g) => f.status = job[r].status
    BY DEF Written
  <2>6. /\ plan' = plan \/ plan'.status = job[r].status
        /\ tmp' = tmp \/ tmp'.status = job[r].status \/ tmp'.form = "empty"
    BY <1>8, <2>5 DEF OpenTmp, WriteTmp, NoFile, files
  <2> QED BY <1>b, <2>3, <2>4, <2>6 DEF EvidenceInv
<1>9. ASSUME NEW r \in Runners, ReplacePlan(r) PROVE EvidenceInv'
  <2>1. ASSUME NEW q \in Runners PROVE JobBacked(Done', pc'[q], job'[q])
    <3>1. CASE pc'[q] = "idle" /\ job'[q] = NoJob
      BY <3>1 DEF NoJob, Pending, JobBacked, StatusBacked
    <3>2. CASE /\ pc'[q] = IF q = r THEN "final" ELSE pc[q]
               /\ SameResult(job'[q], job[q]) /\ job'[q].at = job[q].at
      <4>1. JobBacked(Done', pc[q], job[q])
        BY <1>a, BackedGrows DEF EvidenceInv
      <4> QED BY <3>2, <4>1 DEF JobBacked, SameResult
    <3> QED BY <1>9, <3>1, <3>2, ReplaceEffect
  <2>2. plan' = tmp /\ tmp'.form = "none"
    BY <1>9 DEF ReplacePlan, NoFile
  <2> QED BY <1>a, <2>1, <2>2, BackedGrows DEF EvidenceInv
<1>10. ASSUME NEW r \in Runners, FinalGuard(r) PROVE EvidenceInv'
  <2>1. PICK k : Moved(r, "marker", k) /\ k.status = job[r].status /\ k.passed = job[r].passed
    BY <1>10, FinalEffect
  <2>2. UNCHANGED files
    BY <1>10 DEF FinalGuard
  <2> QED BY <1>c, <2>1, <2>2
<1>11. ASSUME NEW r \in Runners, ReplaceFails(r) \/ Complete(r) \/ Kill(r) PROVE EvidenceInv'
  <2>1. Moved(r, "idle", NoJob) /\ UNCHANGED files
    BY <1>11, QuitEffect DEF ReplaceFails, Complete, Kill
  <2>2. JobBacked(Done', "idle", NoJob)
    BY DEF NoJob, Pending, JobBacked, StatusBacked
  <2> QED BY <1>a, <2>1, <2>2, EvidenceMove
<1>12. CASE ChangeProduct \/ UNCHANGED vars
  <2>1. UNCHANGED <<plan, tmp, pc, job>> /\ Done' = Done
    BY <1>12 DEF ChangeProduct, vars, files, Done, Proved
  <2> QED BY <2>1 DEF EvidenceInv
<1> QED BY <1>1, <1>2, <1>3, <1>4, <1>5, <1>6, <1>7, <1>8, <1>9, <1>10, <1>11, <1>12 DEF Next

\* The only record that says verified of a step is that of a step that was checked
LEMMA PrerequisiteStep ==
  ASSUME TypeOK, EvidenceInv, VerifiedHadPrerequisites, [Next]_vars
  PROVE  VerifiedHadPrerequisites'
<1> SUFFICES ASSUME NEW i \in 1..Len(log'), NEW s \in Steps, Proved(s, i)', NEW d \in Deps[s]
             PROVE  \E k \in 1..i : Proved(d, k)'
  BY DEF VerifiedHadPrerequisites
<1>0. /\ Len(log) \in Nat /\ Len(log') \in Nat /\ Len(log) <= Len(log')
      /\ \A k \in 1..Len(log) : log'[k] = log[k]
  BY LogGrows
<1>a. ASSUME NEW k \in 1..Len(log), NEW t
      PROVE  Proved(t, k)' <=> Proved(t, k)
  BY <1>0 DEF Proved
<1>1. CASE i \in 1..Len(log)
  <2>1. Proved(s, i)
    BY <1>a, <1>1
  <2>2. PICK k \in 1..i : Proved(d, k)
    BY <1>1, <2>1 DEF VerifiedHadPrerequisites
  <2>3. k \in 1..Len(log)
    BY <1>0, <1>1, <2>2
  <2> QED BY <1>a, <2>2, <2>3
<1>2. CASE i \notin 1..Len(log)
  <2>1. log' # log
    BY <1>2
  <2>2. PICK r \in Runners :
          \E e : /\ log' = Append(log, e)
                 /\ e.mode \in {"run", "audit"} /\ e.status = "verified"
                    => RecordStep(r) /\ e.step = job[r].at
    <3>1. \A mode, n, status, print :
            /\ Entry(mode, n, status, print).mode = mode
            /\ Entry(mode, n, status, print).step = n
            /\ Entry(mode, n, status, print).status = status
      BY DEF Entry
    <3>2. PICK r \in Runners :
            Guard(r) \/ Blocked(r) \/ RecordStep(r) \/ FinalGuard(r) \/ Complete(r)
      BY <2>1 DEF Next, StartRun, StartAudit, Load, CountAttempts, TakeBaseline, Skip, BeginStep,
                  Verify, CheckOutputs, OpenTmp, WriteTmp, ReplacePlan, ReplaceFails, Kill,
                  ChangeProduct, vars
    <3>3. CASE Guard(r)
      BY <2>1, <3>1, <3>3 DEF Guard
    <3>4. CASE Blocked(r)
      <4>1. log' = Append(log, Entry(job[r].mode, job[r].at, "blocked", None))
        BY <3>4 DEF Blocked
      <4>2. Entry(job[r].mode, job[r].at, "blocked", None).status # "verified"
        BY DEF Entry
      <4> QED BY <4>1, <4>2
    <3>5. CASE RecordStep(r)
      <4>1. \E status : log' = Append(log, Entry(job[r].mode, job[r].at, status, None))
        BY <3>5 DEF RecordStep
      <4> QED BY <3>1, <3>5, <4>1
    <3>6. CASE FinalGuard(r)
      BY <2>1, <3>1, <3>6 DEF FinalGuard
    <3>7. CASE Complete(r)
      BY <3>1, <3>7 DEF Complete
    <3> QED BY <3>2, <3>3, <3>4, <3>5, <3>6, <3>7
  <2>a. PICK e : /\ log' = Append(log, e)
                 /\ e.mode \in {"run", "audit"} /\ e.status = "verified"
                    => RecordStep(r) /\ e.step = job[r].at
    BY <2>2
  <2>3. i = Len(log) + 1 /\ log'[i] = e
    BY <1>0, <1>2, <2>a DEF TypeOK
  <2>4. RecordStep(r) /\ s = job[r].at
    BY <2>a, <2>3 DEF Proved
  <2>5. d \in Done
    BY <2>4 DEF RecordStep, EvidenceInv, JobBacked
  <2>6. PICK k \in 1..Len(log) : Proved(d, k)
    BY <2>5 DEF Done
  <2>7. k \in 1..i
    BY <1>0, <2>3, <2>6
  <2> QED BY <1>a, <2>6, <2>7
<1> QED BY <1>1, <1>2

LEMMA EvidenceInit == Init => EvidenceInv /\ VerifiedHadPrerequisites
<1> SUFFICES ASSUME Init PROVE EvidenceInv /\ VerifiedHadPrerequisites
  OBVIOUS
<1>1. Len(log) = 0 /\ \A s \in Steps : Pending[s] = "pending"
  BY DEF Init, Pending
<1>2. VerifiedHadPrerequisites
  BY <1>1 DEF VerifiedHadPrerequisites
<1>3. EvidenceInv
  BY <1>1 DEF Init, EvidenceInv, JobBacked, StatusBacked, NoJob, NoFile
<1> QED BY <1>2, <1>3

LEMMA EvidenceCorrect == Spec => [](TypeOK /\ EvidenceInv /\ VerifiedHadPrerequisites)
<1>1. Init => TypeOK /\ EvidenceInv /\ VerifiedHadPrerequisites
  BY TypeInit, EvidenceInit
<1>2. TypeOK /\ EvidenceInv /\ VerifiedHadPrerequisites /\ [Next]_vars
      => (TypeOK /\ EvidenceInv /\ VerifiedHadPrerequisites)'
  BY TypeStep, EvidenceStep, PrerequisiteStep
<1> QED BY <1>1, <1>2, PTL DEF Spec

\* A plan that calls a step verified has a record of a verification that passed,
\* whichever command saved it last and wherever one was killed
THEOREM StatusCorrect == Spec => []StatusHasEvidence
<1>1. EvidenceInv => StatusHasEvidence
  BY DEF EvidenceInv, StatusBacked, Done, StatusHasEvidence
<1> QED BY <1>1, EvidenceCorrect, PTL

\* A step is recorded as verified only after each step it depends on was
THEOREM PrerequisitesCorrect == Spec => []VerifiedHadPrerequisites
BY EvidenceCorrect, PTL

-----------------------------------------------------------------------------
(* Without a race one command is open, and the file it saves is its own *)

Saving(label, j) ==
  /\ label = "write" => j.fd = "tmp" /\ tmp.form = "empty"
  /\ label = "replace" => tmp.form = "whole"

AloneInv ==
  raced \/ /\ plan.form = "whole"
           /\ \A r, q \in Runners : pc[r] # "idle" /\ pc[q] # "idle" => r = q
           /\ \A r \in Runners : Saving(pc[r], job[r])

\* One process moves while the others are idle
LEMMA AloneMove ==
  ASSUME NEW r \in Runners, NEW label, NEW k, Moved(r, label, k),
         \A q \in Runners \ {r} : pc[q] = "idle", plan'.form = "whole", Saving(label, k)'
  PROVE  AloneInv'
<1>1. \A q \in Runners \ {r} : pc'[q] = "idle"
  BY DEF Moved
<1>2. pc'[r] = label /\ job'[r] = k
  BY DEF Moved
<1>3. ASSUME NEW q \in Runners PROVE Saving(pc[q], job[q])'
  <2>1. CASE q = r
    BY <1>2, <2>1 DEF Saving
  <2>2. CASE q # r
    BY <1>1, <2>2 DEF Saving
  <2> QED BY <2>1, <2>2
<1> QED BY <1>1, <1>3 DEF AloneInv

LEMMA AloneStep ==
  ASSUME TypeOK, AloneInv, [Next]_vars
  PROVE  AloneInv'
<1>a. ASSUME NEW r \in Runners, ~raced, pc[r] # "idle"
      PROVE  /\ \A q \in Runners \ {r} : pc[q] = "idle"
             /\ plan.form = "whole" /\ Saving(pc[r], job[r])
  BY <1>a DEF AloneInv
<1>b. ASSUME NEW r \in Runners, ~raced, pc[r] # "idle", UNCHANGED files,
             NEW label, label \notin {"write", "replace"}, NEW k, Moved(r, label, k)
      PROVE  AloneInv'
  <2>1. plan'.form = "whole" /\ Saving(label, k)'
    BY <1>a, <1>b DEF files, Saving
  <2> QED BY <1>a, <1>b, <2>1, AloneMove
<1>1. ASSUME NEW r \in Runners, StartRun(r) \/ StartAudit(r) PROVE AloneInv'
  <2>1. PICK mode \in {"run", "audit"}, force \in BOOLEAN, chosen \in SUBSET Steps :
               Load(r, mode, force, chosen)
    <3>1. {s \in Steps : plan.status[s] # "verified"} \in SUBSET Steps
      OBVIOUS
    <3> QED BY <1>1, <3>1 DEF StartRun, StartAudit
  <2>2. PICK k : Loaded(r, mode, force, chosen, k)
    BY <2>1, LoadEffect
  <2>3. CASE \E q \in Runners : pc[q] # "idle"
    BY <2>1, <2>3 DEF Load, AloneInv
  <2>4. CASE \A q \in Runners : pc[q] = "idle"
    <3>1. plan'.form = "whole"
      BY <2>1 DEF Load, files
    <3>2. Saving("loaded", k)'
      BY DEF Saving
    <3> QED BY <2>2, <2>4, <3>1, <3>2, AloneMove DEF Loaded
  <2> QED BY <2>3, <2>4
<1>2. ASSUME NEW r \in Runners, ~raced, OpenTmp(r) PROVE AloneInv'
  <2>1. PICK label, k : Moved(r, label, k) /\ label = "write" /\ k.fd = "tmp"
    BY <1>2, SaveEffect
  <2>2. pc[r] # "idle" /\ plan' = plan /\ tmp'.form = "empty"
    BY <1>2 DEF OpenTmp, NoFile
  <2>3. Saving(label, k)'
    BY <2>1, <2>2 DEF Saving
  <2> QED BY <1>2, <1>a, <2>1, <2>2, <2>3, AloneMove
<1>3. ASSUME NEW r \in Runners, ~raced, WriteTmp(r) PROVE AloneInv'
  <2>1. PICK label, k : Moved(r, label, k)
    BY <1>3, SaveEffect
  <2>2. pc[r] = "write" /\ label = "replace"
    BY <1>3, <2>1 DEF WriteTmp, Goto, Moved, TypeOK
  <2>3. /\ \A q \in Runners \ {r} : pc[q] = "idle"
        /\ plan.form = "whole" /\ job[r].fd = "tmp" /\ tmp.form = "empty"
    BY <1>a, <1>3, <2>2 DEF Saving
  <2>4. plan' = plan /\ tmp'.form = "whole"
    BY <1>3, <2>3 DEF WriteTmp, Written
  <2>5. Saving(label, k)'
    BY <2>2, <2>4 DEF Saving
  <2> QED BY <2>1, <2>3, <2>4, <2>5, AloneMove
<1>4. ASSUME NEW r \in Runners, ~raced, ReplacePlan(r) PROVE AloneInv'
  <2>1. /\ pc[r] = "replace" /\ plan' = tmp
        /\ \A q \in Runners : pc'[q] = IF q = r THEN pc'[r] ELSE pc[q]
        /\ pc'[r] \in {"idle", "final"}
    BY <1>4 DEF ReplacePlan, TypeOK
  <2>2. plan'.form = "whole" /\ \A q \in Runners \ {r} : pc'[q] = "idle"
    BY <1>a, <1>4, <2>1 DEF Saving
  <2>3. \A q \in Runners : Saving(pc[q], job[q])'
    BY <2>1, <2>2 DEF Saving
  <2> QED BY <2>2, <2>3 DEF AloneInv
<1>5. ASSUME NEW r \in Runners, ~raced,
             \/ CountAttempts(r) \/ TakeBaseline(r) \/ Guard(r) \/ Blocked(r) \/ Skip(r)
             \/ BeginStep(r) \/ Verify(r) \/ CheckOutputs(r) \/ RecordStep(r)
             \/ ReplaceFails(r) \/ FinalGuard(r) \/ Complete(r) \/ Kill(r)
      PROVE  AloneInv'
  <2>1. pc[r] # "idle" /\ UNCHANGED files
    BY <1>5 DEF CountAttempts, TakeBaseline, Guard, Blocked, Skip, BeginStep, Verify, CheckOutputs,
                RecordStep, ReplaceFails, FinalGuard, Complete, Kill
  <2>2. \E label, k : label \notin {"write", "replace"} /\ Moved(r, label, k)
    <3>1. CASE CountAttempts(r)
      BY <3>1, CountAttemptsEffect DEF Steered
    <3>2. CASE TakeBaseline(r)
      BY <3>2, TakeBaselineEffect DEF Steered
    <3>3. CASE Guard(r)
      BY <3>3, GuardEffect
    <3>4. CASE Blocked(r)
      BY <3>4, BlockedEffect DEF Steered
    <3>5. CASE Skip(r)
      BY <3>5, SkipEffect DEF Steered
    <3>6. CASE BeginStep(r) \/ Verify(r) \/ CheckOutputs(r)
      BY <3>6, WithinEffect
    <3>7. CASE RecordStep(r)
      BY <3>7, RecordEffect DEF Recorded, Steered
    <3>8. CASE FinalGuard(r)
      BY <3>8, FinalEffect
    <3>9. CASE ReplaceFails(r) \/ Complete(r) \/ Kill(r)
      BY <3>9, QuitEffect
    <3> QED BY <1>5, <3>1, <3>2, <3>3, <3>4, <3>5, <3>6, <3>7, <3>8, <3>9
  <2> QED BY <1>5, <1>b, <2>1, <2>2
<1>6. CASE ChangeProduct \/ UNCHANGED vars
  BY <1>6 DEF ChangeProduct, vars, files, ghosts, AloneInv, Saving
<1>7. raced /\ ~(\E r \in Runners : StartRun(r) \/ StartAudit(r)) => raced'
  BY DEF Next, CountAttempts, TakeBaseline, Guard, Blocked, Skip, BeginStep, Verify, CheckOutputs,
         RecordStep, OpenTmp, WriteTmp, ReplacePlan, ReplaceFails, FinalGuard, Complete, Kill,
         ChangeProduct, vars, ghosts
<1> QED BY <1>1, <1>2, <1>3, <1>4, <1>5, <1>6, <1>7 DEF Next, AloneInv

LEMMA AloneInit == Init => AloneInv
BY DEF Init, AloneInv, Saving, NoFile

\* Commands that run one after the other leave a whole plan wherever they are killed
THEOREM WholeCorrect == Spec => []PlanStaysWhole
<1>1. TypeOK /\ AloneInv /\ [Next]_vars => (TypeOK /\ AloneInv)'
  BY TypeStep, AloneStep
<1>2. Init => TypeOK /\ AloneInv
  BY TypeInit, AloneInit
<1>3. AloneInv => PlanStaysWhole
  BY DEF AloneInv, PlanStaysWhole
<1> QED BY <1>1, <1>2, <1>3, PTL DEF Spec
-----------------------------------------------------------------------------
(* Attempts: how often a step may fail, and how often at the same time *)

\* A run that still has step s before it, or is at it, and will not refuse it
CanTry(label, j, s) ==
  /\ label \in Loop /\ j.mode = "run" /\ ~j.force
  /\ s \in j.chosen /\ j.at <= s /\ j.counts[s] < MaxAttempts

MayTry(s) == {r \in Runners : CanTry(pc[r], job[r], s)}

Within == {"verify", "outputs", "record"}

\* A run is in a step that it did not refuse
Unrefused(label, j) == label \in Within /\ j.mode = "run" => ~OverLimit(j)

UnrefusedInv == \A r \in Runners : Unrefused(pc[r], job[r])

\* The failures there are and those that may still come
TryBound(tried, may, race) ==
  IF race THEN tried >= MaxAttempts => tried + may < MaxAttempts + Cardinality(Runners)
          ELSE tried + may <= MaxAttempts

TryInv == \A s \in Steps : TryBound(tries["limited"][s], Cardinality(MayTry(s)), raced)

\* What a step does to those who may try s: nobody is added, except the run that
\* counts the attempts, and the run that fails is removed
NobodyAdded(s) == tries'["limited"][s] = tries["limited"][s] /\ MayTry(s)' \subseteq MayTry(s)
Counted(r, s) ==
  /\ pc[r] = "loaded" /\ tries' = tries /\ raced' = raced
  /\ MayTry(s)' \subseteq MayTry(s) \cup {r}
  /\ r \in MayTry(s)' => Failures[s] < MaxAttempts
Failed(r, s) ==
  /\ r \in MayTry(s) /\ MayTry(s)' \subseteq MayTry(s) \ {r} /\ raced' = raced
  /\ tries'["limited"][s] = tries["limited"][s] + 1

LEMMA MayTryMove ==
  ASSUME NEW r \in Runners, NEW label, NEW k, Moved(r, label, k), NEW s
  PROVE  /\ MayTry(s)' \subseteq MayTry(s) \cup {r}
         /\ r \in MayTry(s)' <=> CanTry(label, k, s)
BY DEF Moved, MayTry, CanTry

\* A process that leaves the loop, or goes on in it, may try nothing new
LEMMA MayTryKept ==
  ASSUME NEW r \in Runners, NEW label, NEW k, Moved(r, label, k), NEW s,
         CanTry(label, k, s) => CanTry(pc[r], job[r], s)
  PROVE  MayTry(s)' \subseteq MayTry(s)
<1>1. CanTry(pc[r], job[r], s) => r \in MayTry(s)
  BY DEF MayTry
<1> QED BY <1>1, MayTryMove

\* The next step of a target comes after the one it is at
LEMMA SteeredOn ==
  ASSUME TypeOK, NEW r \in Runners, NEW label, NEW k, Steered(r, label, k),
         NEW s \in Steps, CanTry(label, k, s)
  PROVE  job[r].at < s /\ job[r].at <= s
<1>1. k.at \in After(job[r]) /\ k.at <= s
  BY DEF CanTry, Loop, Steered
<1>2. job[r].at \in Nat /\ k.at \in Nat /\ job[r].at < k.at
  BY <1>1 DEF After, TypeOK, Job, Steps
<1> QED BY <1>1, <1>2 DEF Steps

LEMMA OneMayTry ==
  ASSUME TypeOK, [Next]_vars, UnrefusedInv, NEW s \in Steps
  PROVE  NobodyAdded(s) \/ \E r \in Runners : Counted(r, s) \/ Failed(r, s)
<1>1. ASSUME NEW r \in Runners, StartRun(r) \/ StartAudit(r) PROVE NobodyAdded(s)
  <2>1. PICK mode \in {"run", "audit"}, force \in BOOLEAN, chosen \in SUBSET Steps :
               Load(r, mode, force, chosen)
    <3>1. {t \in Steps : plan.status[t] # "verified"} \in SUBSET Steps
      OBVIOUS
    <3> QED BY <1>1, <3>1 DEF StartRun, StartAudit
  <2>2. PICK k : Loaded(r, mode, force, chosen, k)
    BY <2>1, LoadEffect
  <2>3. tries' = tries
    BY <2>1 DEF Load
  <2>4. ~CanTry("loaded", k, s) /\ Moved(r, "loaded", k)
    BY <2>2 DEF CanTry, Loop, Loaded
  <2> QED BY <2>3, <2>4, MayTryKept DEF NobodyAdded
<1>2. ASSUME NEW r \in Runners, CountAttempts(r) PROVE Counted(r, s)
  <2>1. PICK label, k : Moved(r, label, k) /\ k.counts = Failures
    BY <1>2, CountAttemptsEffect DEF Failures
  <2>2. pc[r] = "loaded" /\ tries' = tries /\ raced' = raced
    BY <1>2 DEF CountAttempts, ghosts
  <2>3. CanTry(label, k, s) => Failures[s] < MaxAttempts
    BY <2>1 DEF CanTry
  <2> QED BY <2>1, <2>2, <2>3, MayTryMove DEF Counted
<1>3. ASSUME NEW r \in Runners, TakeBaseline(r) \/ Guard(r) PROVE NobodyAdded(s)
  <2>1. job[r].mode = "audit" /\ tries' = tries
    BY <1>3 DEF TakeBaseline, Guard, ghosts, TypeOK, JobOK
  <2>2. PICK label, k : Moved(r, label, k) /\ k.mode = "audit"
    <3>1. CASE TakeBaseline(r)
      BY <2>1, <3>1, TakeBaselineEffect DEF SameCommand
    <3>2. CASE Guard(r)
      <4>1. Moved(r, "gate", job[r]) \/ \E k : Moved(r, "save", k) /\ SameCommand(k, job[r])
        BY <3>2, GuardEffect
      <4> QED BY <2>1, <4>1 DEF SameCommand
    <3> QED BY <1>3, <3>1, <3>2
  <2>3. ~CanTry(label, k, s)
    BY <2>2 DEF CanTry
  <2> QED BY <2>1, <2>2, <2>3, MayTryKept DEF NobodyAdded
<1>4. ASSUME NEW r \in Runners, Blocked(r) \/ Skip(r) PROVE NobodyAdded(s)
  <2>1. pc[r] = "gate" /\ tries' = tries
    BY <1>4 DEF Blocked, Skip, ghosts
  <2>2. PICK label, k : /\ Moved(r, label, k) /\ Steered(r, label, k)
                        /\ SameCommand(k, job[r]) /\ k.counts = job[r].counts
    <3>1. CASE Blocked(r)
      BY <3>1, BlockedEffect
    <3>2. CASE Skip(r)
      BY <3>2, SkipEffect
    <3> QED BY <1>4, <3>1, <3>2
  <2>3. CanTry(label, k, s) => job[r].at <= s
    BY <2>2, SteeredOn
  <2>4. CanTry(label, k, s) => CanTry("gate", job[r], s)
    BY <2>2, <2>3 DEF CanTry, SameCommand, Loop
  <2> QED BY <2>1, <2>2, <2>4, MayTryKept DEF NobodyAdded
<1>5. ASSUME NEW r \in Runners, BeginStep(r) \/ Verify(r) \/ CheckOutputs(r)
      PROVE  NobodyAdded(s)
  <2>1. pc[r] \in Loop /\ tries' = tries
    BY <1>5 DEF BeginStep, Verify, CheckOutputs, ghosts, Loop
  <2>2. PICK label, k : /\ Moved(r, label, k) /\ k.at = job[r].at
                        /\ SameCommand(k, job[r]) /\ k.counts = job[r].counts
    BY <1>5, WithinEffect
  <2>3. CanTry(label, k, s) => CanTry(pc[r], job[r], s)
    BY <2>1, <2>2 DEF CanTry, SameCommand
  <2> QED BY <2>1, <2>2, <2>3, MayTryKept DEF NobodyAdded
<1>6. ASSUME NEW r \in Runners, RecordStep(r) PROVE NobodyAdded(s) \/ Failed(r, s)
  <2>1. /\ pc[r] = "record" /\ raced' = raced /\ job[r] \in Job
        /\ job[r].at \in job[r].chosen /\ job[r].at \in Steps
    BY <1>6 DEF RecordStep, TypeOK, JobOK, Loop, Job
  <2>2. PICK ok \in BOOLEAN : \E label, k : Recorded(r, ok, label, k)
    BY <1>6, RecordEffect
  <2>3. PICK label, k : Recorded(r, ok, label, k)
    BY <2>2
  <2>4. /\ Moved(r, label, k) /\ Steered(r, label, k)
        /\ SameCommand(k, job[r]) /\ k.counts = job[r].counts
        /\ tries' = IF job[r].mode = "run" /\ ~ok
                    THEN [tries EXCEPT ![Kind(job[r])][job[r].at] = @ + 1] ELSE tries
    BY <2>3 DEF Recorded
  <2>5. CanTry(label, k, s) => job[r].at < s /\ job[r].at <= s
    BY <2>4, SteeredOn
  <2>6. CanTry(label, k, s) => CanTry(pc[r], job[r], s)
    BY <2>1, <2>4, <2>5 DEF CanTry, SameCommand, Loop
  <2>7. MayTry(s)' \subseteq MayTry(s)
    BY <2>4, <2>6, MayTryKept
  <2>8. CASE job[r].mode = "run" /\ ~ok /\ ~job[r].force /\ s = job[r].at
    <3>1. tries'["limited"][s] = tries["limited"][s] + 1
      BY <2>1, <2>4, <2>8 DEF TypeOK, Kind, Kinds
    <3>2. ~OverLimit(job[r]) /\ job[r].counts[s] \in Nat
      BY <2>1, <2>8 DEF UnrefusedInv, Unrefused, Within, Job
    <3>3. r \in MayTry(s)
      BY <2>1, <2>8, <3>2 DEF MayTry, CanTry, OverLimit, Loop, Steps
    <3>4. ~CanTry(label, k, s)
      BY <2>5, <2>8 DEF Steps
    <3>5. r \notin MayTry(s)'
      BY <2>4, <3>4, MayTryMove
    <3> QED BY <2>1, <2>7, <3>1, <3>3, <3>5 DEF Failed
  <2>9. CASE ~(job[r].mode = "run" /\ ~ok /\ ~job[r].force /\ s = job[r].at)
    <3>1. tries'["limited"][s] = tries["limited"][s]
      BY <2>1, <2>4, <2>9 DEF TypeOK, Kind, Kinds
    <3> QED BY <2>7, <3>1 DEF NobodyAdded
  <2> QED BY <2>8, <2>9
<1>7. ASSUME NEW r \in Runners,
             \/ OpenTmp(r) \/ WriteTmp(r) \/ FinalGuard(r)
             \/ ReplaceFails(r) \/ Complete(r) \/ Kill(r)
      PROVE  NobodyAdded(s)
  <2>1. tries' = tries
    BY <1>7 DEF OpenTmp, WriteTmp, FinalGuard, ReplaceFails, Complete, Kill, ghosts
  <2>2. PICK label, k : Moved(r, label, k) /\ label \notin Loop
    BY <1>7, SaveEffect, FinalEffect, QuitEffect DEF Loop
  <2>3. ~CanTry(label, k, s)
    BY <2>2 DEF CanTry
  <2> QED BY <2>1, <2>2, <2>3, MayTryKept DEF NobodyAdded
<1>8. ASSUME NEW r \in Runners, ReplacePlan(r) PROVE NobodyAdded(s)
  <2>1. tries' = tries
    BY <1>8 DEF ReplacePlan, ghosts
  <2>2. ASSUME NEW q \in Runners, CanTry(pc'[q], job'[q], s)
        PROVE  CanTry(pc[q], job[q], s)
    <3>1. pc'[q] \in Loop
      BY <2>2 DEF CanTry
    <3>2. /\ pc'[q] = pc[q] /\ SameCommand(job'[q], job[q])
          /\ job'[q].counts = job[q].counts /\ job'[q].at = job[q].at
      BY <1>8, <3>1, ReplaceEffect DEF Loop
    <3> QED BY <2>2, <3>2 DEF CanTry, SameCommand
  <2> QED BY <2>1, <2>2 DEF NobodyAdded, MayTry, CanTry
<1>9. CASE ChangeProduct \/ UNCHANGED vars
  BY <1>9 DEF ChangeProduct, vars, ghosts, NobodyAdded, MayTry, CanTry
<1> QED BY <1>1, <1>2, <1>3, <1>4, <1>5, <1>6, <1>7, <1>8, <1>9 DEF Next

LEMMA UnrefusedStep ==
  ASSUME TypeOK, UnrefusedInv, [Next]_vars
  PROVE  UnrefusedInv'
<1>a. ASSUME NEW r \in Runners, NEW label, NEW k, Moved(r, label, k), Unrefused(label, k)
      PROVE  UnrefusedInv'
  <2>1. ASSUME NEW q \in Runners PROVE Unrefused(pc'[q], job'[q])
    BY <1>a DEF Moved, UnrefusedInv
  <2> QED BY <2>1 DEF UnrefusedInv, Unrefused, OverLimit
<1>b. ASSUME NEW label, NEW k, label \notin Within \/ k.mode = "audit" PROVE Unrefused(label, k)
  BY <1>b DEF Unrefused
<1>1. ASSUME NEW r \in Runners, StartRun(r) \/ StartAudit(r) PROVE UnrefusedInv'
  <2>1. PICK mode \in {"run", "audit"}, force \in BOOLEAN, chosen \in SUBSET Steps :
               Load(r, mode, force, chosen)
    <3>1. {t \in Steps : plan.status[t] # "verified"} \in SUBSET Steps
      OBVIOUS
    <3> QED BY <1>1, <3>1 DEF StartRun, StartAudit
  <2>2. PICK k : Loaded(r, mode, force, chosen, k)
    BY <2>1, LoadEffect
  <2>3. Moved(r, "loaded", k) /\ "loaded" \notin Within
    BY <2>2 DEF Loaded, Within
  <2> QED BY <1>a, <1>b, <2>3
<1>2. ASSUME NEW r \in Runners,
             \/ CountAttempts(r) \/ TakeBaseline(r) \/ Guard(r) \/ Blocked(r) \/ Skip(r)
             \/ RecordStep(r) \/ OpenTmp(r) \/ WriteTmp(r) \/ FinalGuard(r)
             \/ ReplaceFails(r) \/ Complete(r) \/ Kill(r)
      PROVE  UnrefusedInv'
  <2>1. PICK label, k : Moved(r, label, k) /\ label \notin Within
    <3> USE DEF Within
    <3>1. CASE CountAttempts(r)
      BY <3>1, CountAttemptsEffect DEF Steered
    <3>2. CASE TakeBaseline(r)
      BY <3>2, TakeBaselineEffect DEF Steered
    <3>3. CASE Guard(r)
      <4>1. Moved(r, "gate", job[r]) \/ \E k : Moved(r, "save", k)
        BY <3>3, GuardEffect
      <4> QED BY <4>1
    <3>4. CASE Blocked(r)
      BY <3>4, BlockedEffect DEF Steered
    <3>5. CASE Skip(r)
      BY <3>5, SkipEffect DEF Steered
    <3>6. CASE RecordStep(r)
      BY <3>6, RecordEffect DEF Recorded, Steered
    <3>7. CASE OpenTmp(r) \/ WriteTmp(r)
      BY <3>7, SaveEffect
    <3>8. CASE FinalGuard(r)
      BY <3>8, FinalEffect
    <3>9. CASE ReplaceFails(r) \/ Complete(r) \/ Kill(r)
      BY <3>9, QuitEffect
    <3> QED BY <1>2, <3>1, <3>2, <3>3, <3>4, <3>5, <3>6, <3>7, <3>8, <3>9
  <2> QED BY <1>a, <1>b, <2>1
<1>3. ASSUME NEW r \in Runners, BeginStep(r) \/ Verify(r) \/ CheckOutputs(r)
      PROVE  UnrefusedInv'
  <2>1. job[r].mode = "run" => ~OverLimit(job[r])
    BY <1>3 DEF BeginStep, Verify, CheckOutputs, UnrefusedInv, Unrefused, Within
  <2>2. PICK label, k : /\ Moved(r, label, k) /\ k.at = job[r].at
                        /\ SameCommand(k, job[r]) /\ k.counts = job[r].counts
    BY <1>3, WithinEffect
  <2>3. Unrefused(label, k)
    BY <2>1, <2>2 DEF Unrefused, OverLimit, SameCommand
  <2> QED BY <1>a, <2>2, <2>3
<1>4. ASSUME NEW r \in Runners, ReplacePlan(r) PROVE UnrefusedInv'
  <2>1. ASSUME NEW q \in Runners, pc'[q] \in Within, job'[q].mode = "run"
        PROVE  ~OverLimit(job'[q])
    <3>1. /\ pc'[q] = pc[q] /\ SameCommand(job'[q], job[q])
          /\ job'[q].counts = job[q].counts /\ job'[q].at = job[q].at
      BY <1>4, <2>1, ReplaceEffect DEF Within
    <3>2. ~OverLimit(job[q])
      BY <2>1, <3>1 DEF UnrefusedInv, Unrefused, SameCommand
    <3> QED BY <3>1, <3>2 DEF OverLimit, SameCommand
  <2> QED BY <2>1 DEF UnrefusedInv, Unrefused, OverLimit
<1>5. CASE ChangeProduct \/ UNCHANGED vars
  BY <1>5 DEF ChangeProduct, vars, UnrefusedInv, Unrefused, OverLimit
<1> QED BY <1>1, <1>2, <1>3, <1>4, <1>5 DEF Next

LEMMA MayTryFinite ==
  ASSUME NEW s
  PROVE  /\ IsFiniteSet(MayTry(s)) /\ Cardinality(MayTry(s)) \in Nat
         /\ Cardinality(Runners) \in Nat
<1>1. MayTry(s) \subseteq Runners /\ IsFiniteSet(Runners)
  BY AuditStepsAssumption DEF MayTry
<1> QED BY <1>1, FS_Subset, FS_CardinalityType

\* Whoever counts the attempts without a race is the only one who may try
LEMMA CountedAlone ==
  ASSUME TypeOK, AloneInv, ~raced, NEW s, NEW r \in Runners, Counted(r, s)
  PROVE  MayTry(s)' \subseteq {r}
<1>1. \A q \in Runners : pc[q] = "idle" \/ q = r
  BY DEF AloneInv, Counted
<1>2. \A q \in Runners : pc[q] \notin Loop
  BY <1>1 DEF Counted, Loop
<1>3. MayTry(s) = {}
  BY <1>2 DEF MayTry, CanTry
<1> QED BY <1>3 DEF Counted

\* The arithmetic of the bound
LEMMA BoundKept ==
  ASSUME NEW t \in Nat, NEW m \in Nat, NEW n \in Nat, n <= m,
         NEW race \in BOOLEAN, NEW then \in BOOLEAN,
         race => then, then => race \/ Cardinality(Runners) > 0,
         Cardinality(Runners) \in Nat, TryBound(t, m, race)
  PROVE  TryBound(t, n, then)
BY AuditStepsAssumption DEF TryBound

LEMMA BoundCounted ==
  ASSUME NEW t \in Nat, NEW n \in Nat, t < MaxAttempts,
         NEW race \in BOOLEAN, ~race => n <= 1
  PROVE  TryBound(t, n, race)
BY AuditStepsAssumption DEF TryBound

LEMMA BoundFailed ==
  ASSUME NEW t \in Nat, NEW m \in Nat, NEW n \in Nat, n <= m - 1, m <= Cardinality(Runners),
         NEW race \in BOOLEAN, Cardinality(Runners) \in Nat, TryBound(t, m, race)
  PROVE  TryBound(t + 1, n, race)
BY AuditStepsAssumption DEF TryBound

LEMMA TryStep ==
  ASSUME TypeOK, CountInv, AloneInv, UnrefusedInv, TryInv, [Next]_vars
  PROVE  TryInv'
<1> SUFFICES ASSUME NEW s \in Steps
             PROVE  TryBound(tries'["limited"][s], Cardinality(MayTry(s)'), raced')
  BY DEF TryInv
<1> DEFINE t == tries["limited"][s]
           u == tries'["limited"][s]
           m == Cardinality(MayTry(s))
           n == Cardinality(MayTry(s)')
           c == Cardinality(Runners)
<1>1. /\ m \in Nat /\ c \in Nat /\ MaxAttempts \in Nat \ {0}
      /\ IsFiniteSet(MayTry(s)) /\ IsFiniteSet(Runners)
  BY MayTryFinite, AuditStepsAssumption
<1>2. MayTry(s)' \subseteq Runners
  BY DEF MayTry
<1>3. n \in Nat /\ n <= c
  BY <1>1, <1>2, FS_Subset, FS_CardinalityType
<1>4. /\ t \in Nat /\ u \in Nat
      /\ t <= Failures[s] /\ Failures[s] \in Nat
  BY TriesGrow DEF CountInv, Kinds
<1>5. TryBound(t, m, raced) /\ raced \in BOOLEAN
  BY DEF TryInv, TypeOK
<1>6. raced' = raced \/ (raced' = TRUE /\ Runners # {})
  <2>1. ASSUME NEW r \in Runners, StartRun(r) \/ StartAudit(r)
        PROVE  raced' = (raced \/ \E q \in Runners : pc[q] # "idle")
    BY <2>1 DEF StartRun, StartAudit, Load
  <2>2. (\E r \in Runners : StartRun(r) \/ StartAudit(r)) \/ raced' = raced
    BY DEF Next, CountAttempts, TakeBaseline, Guard, Blocked, Skip, BeginStep, Verify, CheckOutputs,
           RecordStep, OpenTmp, WriteTmp, ReplacePlan, ReplaceFails, FinalGuard, Complete, Kill,
           ChangeProduct, vars, ghosts
  <2> QED BY <1>5, <2>1, <2>2
<1>7. Runners # {} => c > 0
  BY <1>1, FS_EmptySet
<1>r. /\ raced' \in BOOLEAN /\ (raced => raced')
      /\ raced' => raced \/ Cardinality(Runners) > 0
  <2>1. raced' \in BOOLEAN
    BY TypeStep DEF TypeOK
  <2>2. CASE raced' = raced
    BY <2>1, <2>2
  <2>3. CASE raced' = TRUE /\ Runners # {}
    BY <1>7, <2>3
  <2> QED BY <1>6, <2>2, <2>3
<1>8. CASE NobodyAdded(s)
  <2>1. u = t /\ n <= m
    BY <1>1, <1>8, FS_Subset DEF NobodyAdded
  <2> HIDE DEF t, u, m, n
  <2>2. TryBound(t, n, raced')
    BY <1>1, <1>3, <1>4, <1>5, <1>r, <2>1, BoundKept
  <2> QED BY <2>1, <2>2 DEF u, n
<1>9. ASSUME NEW r \in Runners, Counted(r, s)
      PROVE  TryBound(u, n, raced')
  <2>1. u = t /\ raced' = raced
    BY <1>9 DEF Counted
  <2>2. CASE r \notin MayTry(s)'
    <3>1. MayTry(s)' \subseteq MayTry(s)
      BY <1>9, <2>2 DEF Counted
    <3>2. n <= m
      BY <1>1, <3>1, FS_Subset
    <3> HIDE DEF t, u, m, n
    <3>3. TryBound(t, n, raced')
      BY <1>1, <1>3, <1>4, <1>5, <1>r, <3>2, BoundKept
    <3> QED BY <2>1, <3>3 DEF u, n
  <2>3. CASE r \in MayTry(s)'
    <3>1. Failures[s] < MaxAttempts
      BY <1>9, <2>3 DEF Counted
    <3>2. ~raced => n <= 1
      <4> SUFFICES ASSUME ~raced PROVE n <= 1
        OBVIOUS
      <4>1. MayTry(s)' \subseteq {r}
        BY <1>9, CountedAlone
      <4>2. IsFiniteSet({r}) /\ Cardinality({r}) = 1
        BY FS_Singleton
      <4> QED BY <4>1, <4>2, FS_Subset
    <3> HIDE DEF t, u, m, n
    <3>3. t < MaxAttempts
      BY <1>1, <1>4, <3>1
    <3>4. TryBound(t, n, raced)
      BY <1>3, <1>4, <1>5, <3>2, <3>3, BoundCounted
    <3> QED BY <2>1, <3>4 DEF u, n
  <2> QED BY <2>2, <2>3
<1>10. ASSUME NEW r \in Runners, Failed(r, s)
       PROVE  TryBound(u, n, raced')
  <2>1. u = t + 1 /\ raced' = raced /\ r \in MayTry(s)
    BY <1>10 DEF Failed
  <2>2. n <= m - 1
    <3>1. MayTry(s)' \subseteq MayTry(s) \ {r}
      BY <1>10 DEF Failed
    <3>2. /\ Cardinality(MayTry(s) \ {r}) = m - 1
          /\ IsFiniteSet(MayTry(s) \ {r})
      BY <1>1, <2>1, FS_RemoveElement
    <3> QED BY <3>1, <3>2, FS_Subset
  <2>3. m <= c
    BY <1>1, FS_Subset DEF MayTry
  <2> HIDE DEF t, u, m, n
  <2>4. TryBound(t + 1, n, raced)
    BY <1>1, <1>3, <1>4, <1>5, <2>2, <2>3, BoundFailed
  <2> QED BY <2>1, <2>4 DEF u, n
<1> QED BY <1>8, <1>9, <1>10, OneMayTry

LEMMA TryInit == Init => UnrefusedInv /\ TryInv
<1> SUFFICES ASSUME Init PROVE UnrefusedInv /\ TryInv
  OBVIOUS
<1>1. \A r \in Runners : pc[r] = "idle"
  BY DEF Init
<1>2. ASSUME NEW s \in Steps PROVE Cardinality(MayTry(s)) = 0 /\ tries["limited"][s] = 0
  <2>1. MayTry(s) = {}
    BY <1>1 DEF MayTry, CanTry, Loop
  <2> QED BY <2>1, FS_EmptySet DEF Init, Kinds
<1>3. ~raced /\ MaxAttempts \in Nat
  BY AuditStepsAssumption DEF Init
<1> QED BY <1>1, <1>2, <1>3 DEF TryInv, TryBound, UnrefusedInv, Unrefused, Within

\* A step fails at most as often as the limit if commands run one after the other;
\* commands at the same time may each let it fail once more, and no more than that
THEOREM AttemptsCorrect == Spec => []AttemptsBounded
<1> DEFINE Inv == TypeOK /\ CountInv /\ AloneInv /\ UnrefusedInv /\ TryInv
<1>1. Init => Inv
  BY TypeInit, CountInit, AloneInit, TryInit
<1>2. Inv /\ [Next]_vars => Inv'
  BY TypeStep, CountStep, AloneStep, UnrefusedStep, TryStep
<1>3. Inv => AttemptsBounded
  <2> SUFFICES ASSUME TypeOK, TryInv, NEW s \in Steps
               PROVE  tries["limited"][s] <= IF raced THEN MaxAttempts + Cardinality(Runners) - 1
                                                      ELSE MaxAttempts
    BY DEF AttemptsBounded
  <2>1. /\ tries["limited"][s] \in Nat /\ Cardinality(MayTry(s)) \in Nat
        /\ Cardinality(Runners) \in Nat /\ MaxAttempts \in Nat
    BY MayTryFinite, AuditStepsAssumption DEF TypeOK, Kinds
  <2>2. TryBound(tries["limited"][s], Cardinality(MayTry(s)), raced)
    BY DEF TryInv
  <2> QED BY <2>1, <2>2 DEF TryBound
<1> HIDE DEF Inv
<1> QED BY <1>1, <1>2, <1>3, PTL DEF Spec
=============================================================================
