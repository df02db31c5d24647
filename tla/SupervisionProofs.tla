--------------------------- MODULE SupervisionProofs ---------------------------
(***************************************************************************)
(* Proofs about Supervision for any number of daemons and commands, any    *)
(* workspace and any changes to it.                                        *)
(***************************************************************************)
EXTENDS Supervision, TLAPS, FiniteSetTheorems, WellFoundedInduction, SequenceTheorems

-----------------------------------------------------------------------------
(* The shape of the processes; what a daemon has seen may be anything *)

DaemonPlaces == Ended \cup Starting \cup Working \cup Leaving

DaemonRecord(seen) ==
  [at : DaemonPlaces, profile : Profiles, told : BOOLEAN, seen : seen]

CommandRecord(pids) ==
  [kind : {"none", "start", "stop"},
   at : {"none", "configured", "unlinking", "unmarking", "spawning", "marking", "awaiting", "killed"},
   profile : Profiles, pid : pids]

\* A start that has passed its check and has not yet spawned
Passed(c) == command[c].at \in {"unlinking", "unmarking", "spawning"}

Shape ==
  /\ \E seen : daemon \in [Daemons -> DaemonRecord(seen)]
  /\ \E pids : command \in [Slots -> CommandRecord(pids)]
  /\ \A c \in Slots : Passed(c) \/ command[c].at = "configured" => command[c].kind = "start"

\* One daemon moves, and only that one
DaemonMoves(d, place) ==
  /\ \E seen : daemon' \in [Daemons -> DaemonRecord(seen)]
  /\ daemon'[d].at = place
  /\ \A e \in Daemons \ {d} : daemon'[e] = daemon[e]

LEMMA DaemonAtMoves ==
  ASSUME Shape, NEW d \in Daemons, NEW place \in DaemonPlaces, DaemonAt(d, place)
  PROVE  DaemonMoves(d, place)
<1>1. PICK seen : daemon \in [Daemons -> DaemonRecord(seen)]
  BY DEF Shape
<1>2. daemon' \in [Daemons -> DaemonRecord(seen \cup {"none"})]
  BY <1>1 DEF DaemonAt, DaemonRecord, Process, DaemonPlaces, Ended, Profiles
<1>3. daemon'[d].at = place /\ \A e \in Daemons \ {d} : daemon'[e] = daemon[e]
  BY <1>1 DEF DaemonAt, DaemonRecord, Process
<1> QED BY <1>2, <1>3 DEF DaemonMoves

LEMMA JudgeMoves ==
  ASSUME Shape, NEW d \in Daemons, NEW from, NEW to \in DaemonPlaces, Judge(d, from, to)
  PROVE  DaemonMoves(d, to)
<1>1. PICK seen : daemon \in [Daemons -> DaemonRecord(seen)]
  BY DEF Shape
<1> DEFINE v == Verdict(ws, Assessed, daemon[d].profile)
<1>2. daemon' = [daemon EXCEPT ![d].at = to, ![d].seen = v]
  BY DEF Judge
<1> HIDE DEF v
<1>3. daemon' \in [Daemons -> DaemonRecord(seen \cup {v})]
  BY <1>1, <1>2 DEF DaemonRecord
<1>4. daemon'[d].at = to /\ \A e \in Daemons \ {d} : daemon'[e] = daemon[e]
  BY <1>1, <1>2 DEF DaemonRecord
<1> QED BY <1>3, <1>4 DEF DaemonMoves

LEMMA WriteMoves ==
  ASSUME Shape, NEW d \in Daemons, NEW from, NEW to \in DaemonPlaces, WriteAssessment(d, from, to)
  PROVE  DaemonMoves(d, to)
<1>1. PICK seen : daemon \in [Daemons -> DaemonRecord(seen)]
  BY DEF Shape
<1>2. daemon' \in [Daemons -> DaemonRecord(seen \cup {"none"})]
  BY <1>1 DEF WriteAssessment, DaemonRecord
<1>3. daemon'[d].at = to /\ \A e \in Daemons \ {d} : daemon'[e] = daemon[e]
  BY <1>1 DEF WriteAssessment, DaemonRecord
<1> QED BY <1>2, <1>3 DEF DaemonMoves

\* One command moves, and only that one
CommandMoves(c, place) ==
  /\ \E pids : command' \in [Slots -> CommandRecord(pids)]
  /\ command'[c].at = place
  /\ place # "none" => command'[c].kind = command[c].kind
  /\ \A b \in Slots \ {c} : command'[b] = command[b]

LEMMA CommandAtMoves ==
  ASSUME Shape, NEW c \in Slots, 
         NEW place \in {"none", "unlinking", "unmarking", "spawning", "awaiting", "killed"},
         CommandAt(c, place)
  PROVE  CommandMoves(c, place)
<1>1. PICK pids : command \in [Slots -> CommandRecord(pids)]
  BY DEF Shape
<1>2. command' \in [Slots -> CommandRecord(pids \cup {0})]
  BY <1>1 DEF CommandAt, CommandRecord, Idle, Profiles
<1>3. /\ command'[c].at = place
      /\ place # "none" => command'[c].kind = command[c].kind
      /\ \A b \in Slots \ {c} : command'[b] = command[b]
  BY <1>1 DEF CommandAt, CommandRecord, Idle
<1> QED BY <1>2, <1>3 DEF CommandMoves

\* A command that begins is a start before its check, or a stop
LEMMA BeginMoves ==
  ASSUME Shape, NEW c \in Slots, NEW profile \in Profiles, NEW pid,
         NEW kind \in {"start", "stop"}, NEW place \in {"configured", "marking"},
         Begin(c, kind, place, profile, pid)
  PROVE  /\ \E pids : command' \in [Slots -> CommandRecord(pids)]
         /\ command'[c].at = place /\ command'[c].kind = kind
         /\ \A b \in Slots \ {c} : command'[b] = command[b]
<1>1. PICK pids : command \in [Slots -> CommandRecord(pids)]
  BY DEF Shape
<1>2. command' \in [Slots -> CommandRecord(pids \cup {pid})]
  BY <1>1 DEF Begin, CommandRecord
<1> QED BY <1>1, <1>2 DEF Begin, CommandRecord

LEMMA ShapeOfDaemonMove ==
  ASSUME Shape, NEW d \in Daemons, NEW place, DaemonMoves(d, place), UNCHANGED command
  PROVE  Shape'
BY DEF Shape, DaemonMoves, Passed

LEMMA ShapeOfCommandMove ==
  ASSUME Shape, NEW c \in Slots, NEW place, CommandMoves(c, place), UNCHANGED daemon,
         place \in {"unlinking", "unmarking", "spawning"} => Passed(c) \/ command[c].at = "configured",
         place # "configured"
  PROVE  Shape'
BY DEF Shape, CommandMoves, Passed

-----------------------------------------------------------------------------
(* One daemon, and the state file names it *)

Announced == Working \cup Leaving

Names(d) == [phase |-> "running", pid |-> d]

\* As long as no two starts overlapped: a start that has passed its check is the only one
\* and nothing lives, at most one daemon lives, and from its announcement on it is named
Sole ==
  ~overlapped =>
    /\ \A c \in Slots : Passed(c) => Living = {} /\ \A b \in Slots \ {c} : ~Passed(b)
    /\ \A d \in Living : Living = {d}
    /\ \A d \in Living : daemon[d].at \in Announced => state = Names(d)

LEMMA DaemonKeepsSole ==
  ASSUME Shape, Sole, NEW d \in Daemons, Alive(d), NEW place \in DaemonPlaces, DaemonMoves(d, place),
         UNCHANGED <<command, overlapped>>,
         place \in Announced => \/ state' = Names(d)
                                \/ state' = state /\ daemon[d].at \in Announced
  PROVE  Shape' /\ Sole'
<1>1. Shape'
  BY ShapeOfDaemonMove
<1>2. ASSUME ~overlapped'
      PROVE  /\ \A c \in Slots : Passed(c)' => Living' = {} /\ \A b \in Slots \ {c} : ~Passed(b)'
             /\ \A e \in Living' : Living' = {e}
             /\ \A e \in Living' : daemon'[e].at \in Announced => state' = Names(e)
  <2>1. ~overlapped /\ d \in Living
    BY <1>2 DEF Living
  <2>2. Living = {d} /\ \A c \in Slots : ~Passed(c)
    BY <2>1 DEF Sole
  <2>3. Living' \subseteq {d}
    BY <2>2 DEF DaemonMoves, Living, Alive
  <2>4. \A c \in Slots : ~Passed(c)'
    BY <2>2 DEF Passed
  <2>5. daemon'[d].at = place
    BY DEF DaemonMoves
  <2>6. ASSUME NEW e \in Living', daemon'[e].at \in Announced PROVE state' = Names(e)
    <3>1. e = d
      BY <2>3
    <3>2. CASE state' = Names(d)
      BY <3>1, <3>2
    <3>3. CASE state' = state /\ daemon[d].at \in Announced
      BY <3>1, <3>3, <2>1 DEF Sole, Names
    <3> QED BY <3>1, <3>2, <3>3, <2>5, <2>6
  <2> QED BY <2>3, <2>4, <2>6
<1> QED BY <1>1, <1>2 DEF Sole

LEMMA DaemonStepKeeps ==
  ASSUME Shape, Sole, NEW d \in Daemons, DaemonStep(d)
  PROVE  Shape' /\ Sole'
<1> USE DEF DaemonPlaces, Announced, Ended, Starting, Working, Leaving, Alive
<1>1. CASE Look(d)
  <2>1. PICK place \in {"dead", "clearing"} : DaemonAt(d, place)
    BY <1>1 DEF Look
  <2> QED BY <1>1, <2>1, DaemonAtMoves, DaemonKeepsSole DEF Look
<1>2. CASE ClearOldMarker(d)
  BY <1>2, DaemonAtMoves, DaemonKeepsSole DEF ClearOldMarker
<1>3. CASE Publish(d)
  BY <1>3, DaemonAtMoves, DaemonKeepsSole DEF Publish, WriteState
<1>4. CASE JudgeFirst(d)
  BY <1>4, JudgeMoves, DaemonKeepsSole DEF JudgeFirst, Judge
<1>5. CASE WriteFirst(d)
  BY <1>5, WriteMoves, DaemonKeepsSole DEF WriteFirst, WriteAssessment
<1>6. CASE Announce(d)
  BY <1>6, DaemonAtMoves, DaemonKeepsSole DEF Announce, WriteState, Names
<1>7. CASE Poll(d)
  <2>1. PICK place \in {"leaving", "assessing"} : DaemonAt(d, place)
    BY <1>7 DEF Poll
  <2> QED BY <1>7, <2>1, DaemonAtMoves, DaemonKeepsSole DEF Poll
<1>8. CASE JudgeAgain(d)
  BY <1>8, JudgeMoves, DaemonKeepsSole DEF JudgeAgain, Judge
<1>9. CASE WriteAgain(d)
  BY <1>9, WriteMoves, DaemonKeepsSole DEF WriteAgain, WriteAssessment
<1>10. CASE Beat(d)
  BY <1>10, DaemonAtMoves, DaemonKeepsSole DEF Beat, WriteState, Names
<1>11. CASE Wait(d)
  <2>1. PICK place \in {"leaving", "looping"} : DaemonAt(d, place)
    BY <1>11 DEF Wait
  <2> QED BY <1>11, <2>1, DaemonAtMoves, DaemonKeepsSole DEF Wait
<1>12. CASE RemoveMarker(d)
  BY <1>12, DaemonAtMoves, DaemonKeepsSole DEF RemoveMarker
<1>13. CASE JudgeLast(d)
  BY <1>13, JudgeMoves, DaemonKeepsSole DEF JudgeLast, Judge
<1>14. CASE WriteLast(d)
  BY <1>14, WriteMoves, DaemonKeepsSole DEF WriteLast, WriteAssessment
<1>15. CASE Close(d)
  BY <1>15, DaemonAtMoves, DaemonKeepsSole DEF Close, WriteState
<1> QED BY <1>1, <1>2, <1>3, <1>4, <1>5, <1>6, <1>7, <1>8, <1>9, <1>10, <1>11, <1>12, <1>13, <1>14, <1>15 DEF DaemonStep

\* Only the check of a start lets another one pass
LEMMA CommandKeepsSole ==
  ASSUME Shape, Sole, NEW c \in Slots, NEW place, CommandMoves(c, place), place # "configured",
         UNCHANGED <<daemon, overlapped>>,
         place \in {"unlinking", "unmarking", "spawning"} => Passed(c),
         state' = state \/ Passed(c)
  PROVE  Shape' /\ Sole'
<1>1. Shape'
  BY ShapeOfCommandMove
<1>2. Living' = Living
  BY DEF Living, Alive
<1>3. \A b \in Slots : Passed(b)' => Passed(b)
  BY DEF CommandMoves, Passed
<1>4. CASE state' = state
  BY <1>1, <1>2, <1>3, <1>4 DEF Sole, Names
<1>5. CASE Passed(c)
  BY <1>1, <1>2, <1>3, <1>5 DEF Sole
<1> QED BY <1>4, <1>5

LEMMA StartCheckKeeps ==
  ASSUME Shape, Sole, NEW c \in Slots, StartCheck(c)
  PROVE  Shape' /\ Sole'
<1>1. PICK place \in {"none", "unlinking"} :
        CommandAt(c, place) /\ (Supervised <=> place = "none")
  BY DEF StartCheck
<1>2. CommandMoves(c, place)
  BY <1>1, CommandAtMoves
<1>3. Shape' /\ Living' = Living /\ state' = state /\ daemon' = daemon
  BY <1>2, ShapeOfCommandMove DEF StartCheck, Living, Alive
<1>4. CASE place = "none" /\ ~overlapped'
  <2>1. ~overlapped
    BY <1>4 DEF StartCheck
  <2>2. \A b \in Slots : Passed(b)' => Passed(b)
    BY <1>2, <1>4 DEF CommandMoves, Passed
  <2> QED BY <1>3, <2>1, <2>2 DEF Sole, Names
<1>5. CASE place = "unlinking" /\ ~overlapped'
  <2>1. ~overlapped /\ ~Unfinished /\ ~Supervised
    BY <1>1, <1>5 DEF StartCheck
  <2>2. \A b \in Slots : ~Passed(b)
    BY <2>1 DEF Unfinished, Passed, Shape
  <2>3. Living = {}
    <3> SUFFICES ASSUME NEW d \in Living PROVE FALSE
      OBVIOUS
    <3>1. daemon[d].at \in Announced
      BY <2>1 DEF Unfinished, Living, Alive, Shape, DaemonRecord, DaemonPlaces, Announced
    <3>2. state = Names(d)
      BY <3>1, <2>1 DEF Sole
    <3> QED BY <3>2, <2>1 DEF Supervised, Names, Living
  <2>4. \A b \in Slots \ {c} : ~Passed(b)'
    BY <1>2, <2>2 DEF CommandMoves, Passed
  <2> QED BY <1>3, <2>2, <2>3, <2>4 DEF Sole, Passed
<1> QED BY <1>3, <1>4, <1>5 DEF Sole

LEMMA SpawnKeeps ==
  ASSUME Shape, Sole, NEW c \in Slots, Spawn(c)
  PROVE  Shape' /\ Sole'
<1> DEFINE n == NextPid
<1>1. /\ n \in Daemons /\ command[c].at = "spawning" /\ CommandAt(c, "none")
      /\ daemon' = [daemon EXCEPT ![n] = Process("spawned", command[c].profile)]
      /\ UNCHANGED <<state, overlapped>>
  BY DEF Spawn
<1> HIDE DEF n
<1>2. CommandMoves(c, "none")
  BY <1>1, CommandAtMoves
<1>3. PICK seen : daemon \in [Daemons -> DaemonRecord(seen)]
  BY DEF Shape
<1>4. command[c].profile \in Profiles
  BY DEF Shape, CommandRecord
<1>5. daemon' \in [Daemons -> DaemonRecord(seen \cup {"none"})]
  BY <1>1, <1>3, <1>4 DEF DaemonRecord, Process, DaemonPlaces, Starting
<1>6. Shape'
  BY <1>2, <1>5 DEF Shape, CommandMoves, Passed
<1>7. daemon'[n].at = "spawned" /\ \A e \in Daemons \ {n} : daemon'[e] = daemon[e]
  BY <1>1, <1>3 DEF Process
<1>8. ASSUME ~overlapped' PROVE Sole'
  <2>1. Living = {} /\ \A b \in Slots \ {c} : ~Passed(b)
    BY <1>1, <1>8 DEF Sole, Passed
  <2>2. Living' = {n}
    BY <1>1, <1>7, <2>1 DEF Living, Alive, Ended
  <2>3. \A b \in Slots : ~Passed(b)'
    BY <1>2, <2>1 DEF CommandMoves, Passed
  <2>4. daemon'[n].at \notin Announced
    BY <1>7 DEF Announced, Working, Leaving
  <2> QED BY <2>2, <2>3, <2>4 DEF Sole
<1> QED BY <1>6, <1>8 DEF Sole

LEMMA BeginKeeps ==
  ASSUME Shape, Sole, NEW c \in Slots, StartBegin(c) \/ StopBegin(c)
  PROVE  Shape' /\ Sole'
<1>1. PICK kind \in {"start", "stop"}, place \in {"configured", "marking"}, profile \in Profiles, pid \in {0, state.pid} :
        Begin(c, kind, place, profile, pid) /\ (place = "configured" <=> kind = "start")
  BY DEF StartBegin, StopBegin, Profiles
<1>2. UNCHANGED <<state, daemon, overlapped>>
  BY DEF StartBegin, StopBegin
<1>3. /\ \E pids : command' \in [Slots -> CommandRecord(pids)]
      /\ command'[c].at = place /\ command'[c].kind = kind
      /\ \A b \in Slots \ {c} : command'[b] = command[b]
  BY <1>1, BeginMoves
<1>4. Shape' /\ \A b \in Slots : Passed(b)' => Passed(b)
  BY <1>1, <1>2, <1>3 DEF Shape, Passed
<1> QED BY <1>2, <1>4 DEF Sole, Living, Alive, Names

LEMMA AwaitKeeps ==
  ASSUME Shape, Sole, NEW c \in Slots, Await(c)
  PROVE  Shape' /\ Sole'
<1>1. CommandMoves(c, "none") /\ UNCHANGED <<state, overlapped>>
  BY CommandAtMoves DEF Await
<1>2. PICK seen : daemon \in [Daemons -> DaemonRecord(seen)]
  BY DEF Shape
<1>3. daemon' \in [Daemons -> DaemonRecord(seen)] /\ \A d \in Daemons : daemon'[d].at = daemon[d].at
  <2> DEFINE p == command[c].pid
  <2>1. CASE Alive(p)
    <3>1. p \in Daemons /\ daemon' = [daemon EXCEPT ![p].told = TRUE]
      BY <2>1 DEF Await, Alive
    <3> HIDE DEF p
    <3> QED BY <3>1, <1>2 DEF DaemonRecord
  <2>2. CASE ~Alive(p)
    BY <2>2, <1>2 DEF Await
  <2> QED BY <2>1, <2>2
<1>4. Living' = Living /\ \A b \in Slots : Passed(b)' => Passed(b)
  BY <1>1, <1>3 DEF Living, Alive, CommandMoves, Passed
<1>5. Shape'
  BY <1>1, <1>3 DEF Shape, CommandMoves, Passed
<1> QED BY <1>1, <1>3, <1>4, <1>5 DEF Sole, Living

LEMMA CommandStepKeeps ==
  ASSUME Shape, Sole, NEW c \in Slots, StartStep(c) \/ StopStep(c) \/ KillCommand(c)
  PROVE  Shape' /\ Sole'
<1>1. CASE UnlinkState(c)
  BY <1>1, CommandAtMoves, CommandKeepsSole DEF UnlinkState, Passed
<1>2. CASE UnlinkMarker(c)
  BY <1>2, CommandAtMoves, CommandKeepsSole DEF UnlinkMarker, Passed
<1>3. CASE Mark(c)
  BY <1>3, CommandAtMoves, CommandKeepsSole DEF Mark
<1>4. CASE KillCommand(c)
  BY <1>4, CommandAtMoves, CommandKeepsSole DEF KillCommand, Dies
<1> QED BY <1>1, <1>2, <1>3, <1>4, StartCheckKeeps, SpawnKeeps, AwaitKeeps DEF StartStep, StopStep

\* Unless two starts overlap, at most one daemon lives and the state file names it from its
\* announcement on: for any number of daemons and commands, and wherever they are killed
THEOREM SoleCorrect == Spec => []SoleDaemonIsNamed
<1>1. Init => Shape /\ Sole
  <2> SUFFICES ASSUME Init PROVE Shape /\ Sole
    OBVIOUS
  <2>1. daemon \in [Daemons -> DaemonRecord({"none"})] /\ command \in [Slots -> CommandRecord({0})]
    BY DEF Init, Process, Idle, DaemonRecord, CommandRecord, DaemonPlaces, Ended, Profiles
  <2>2. Living = {} /\ \A c \in Slots : ~Passed(c) /\ command[c].at # "configured"
    BY DEF Init, Process, Idle, Living, Alive, Ended, Passed
  <2> QED BY <2>1, <2>2 DEF Shape, Sole
<1>2. Shape /\ Sole /\ [Next]_vars => Shape' /\ Sole'
  <2> SUFFICES ASSUME Shape, Sole, [Next]_vars PROVE Shape' /\ Sole'
    OBVIOUS
  <2>1. ASSUME NEW d \in Daemons, KillDaemon(d) PROVE Shape' /\ Sole'
    BY <2>1, DaemonAtMoves, DaemonKeepsSole
       DEF KillDaemon, Dies, DaemonPlaces, Ended, Announced, Working, Leaving
  <2>2. ASSUME NEW d \in Daemons, WriteFails(d) PROVE Shape' /\ Sole'
    BY <2>2, DaemonAtMoves, DaemonKeepsSole
       DEF WriteFails, Dies, DaemonPlaces, Alive, Ended, Announced, Working, Leaving
  <2>3. CASE UNCHANGED <<state, daemon, command, overlapped>>
    BY <2>3 DEF Shape, Sole, Passed, Living, Alive, Names
  <2> QED BY <2>1, <2>2, <2>3, DaemonStepKeeps, BeginKeeps, CommandStepKeeps DEF Next, Edit, vars
<1>3. Shape /\ Sole => SoleDaemonIsNamed
  <2> SUFFICES ASSUME Sole, ~overlapped
               PROVE  /\ Cardinality(Living) <= 1
                      /\ \A d \in Living : daemon[d].at \in Working \cup Leaving => state = [phase |-> "running", pid |-> d]
    BY DEF SoleDaemonIsNamed
  <2>1. CASE Living = {}
    BY <2>1, FS_EmptySet
  <2>2. CASE \E d \in Living : Living = {d}
    <3>1. PICK d \in Living : Living = {d}
      BY <2>2
    <3>2. Cardinality(Living) = 1
      BY <3>1, FS_Singleton
    <3>3. \A e \in Living : daemon[e].at \in Working \cup Leaving => state = [phase |-> "running", pid |-> e]
      BY DEF Sole, Announced, Names
    <3> QED BY <3>2, <3>3
  <2> QED BY <2>1, <2>2 DEF Sole
<1> QED BY <1>1, <1>2, <1>3, PTL DEF Spec

-----------------------------------------------------------------------------
(* The workspace stays one, whatever is changed in it *)

LEMMA PlanChanged ==
  ASSUME NEW w, IsWorkspace(w), NEW n \in DOMAIN w.plans, NEW field, NEW value,
         [w.plans[n] EXCEPT ![field] = value] \in Plans
  PROVE  IsWorkspace([w EXCEPT !.plans[n][field] = value])
<1> DEFINE plans == [w.plans EXCEPT ![n][field] = value]
<1>1. w.plans \in [DOMAIN w.plans -> Plans]
  BY DEF IsWorkspace
<1>2. plans \in [DOMAIN w.plans -> Plans]
  BY <1>1
<1>3. DOMAIN plans = DOMAIN w.plans
  OBVIOUS
<1>4. [w EXCEPT !.plans[n][field] = value] = [w EXCEPT !.plans = plans]
  OBVIOUS
<1> HIDE DEF plans
<1> QED BY <1>2, <1>3, <1>4 DEF IsWorkspace

LEMMA ChangedIsWorkspace ==
  ASSUME NEW w, IsWorkspace(w), NEW fact \in Facts, NEW v \in Changed(w, fact)
  PROVE  IsWorkspace(v)
<1>1. CASE fact \in SharedFacts
  <2>1. v = [w EXCEPT ![fact] = ~w[fact]]
    BY <1>1 DEF Changed, SharedFacts, PlanFacts
  <2> QED BY <1>1, <2>1 DEF SharedFacts, IsWorkspace
<1>2. CASE fact \in PlanFacts
  <2>1. PICK n \in DOMAIN w.plans : v = [w EXCEPT !.plans[n][fact] = ~w.plans[n][fact]]
    BY <1>2 DEF Changed, PlanFacts, SharedFacts
  <2>2. w.plans[n] \in Plans
    BY DEF IsWorkspace
  <2>3. [w.plans[n] EXCEPT ![fact] = ~w.plans[n][fact]] \in Plans
    BY <1>2, <2>2 DEF PlanFacts, Plans
  <2> QED BY <2>1, <2>3, PlanChanged
<1>3. CASE fact = "request"
  BY <1>3 DEF Changed, SharedFacts, PlanFacts, IsWorkspace
<1>4. CASE fact = "sealedFor"
  <2>1. PICK n \in DOMAIN w.plans, s \in Profiles \cup {"none"} : v = [w EXCEPT !.plans[n]["sealedFor"] = s]
    BY <1>4 DEF Changed, SharedFacts, PlanFacts
  <2>2. w.plans[n] \in Plans
    BY DEF IsWorkspace
  <2>3. [w.plans[n] EXCEPT !["sealedFor"] = s] \in Plans
    BY <2>2 DEF Plans
  <2> QED BY <2>1, <2>3, PlanChanged
<1>5. CASE fact = "traffic"
  <2>1. PICK n \in DOMAIN w.plans, t \in {"none", "ok", "bad"} : v = [w EXCEPT !.plans[n]["traffic"] = t]
    BY <1>5 DEF Changed, SharedFacts, PlanFacts
  <2>2. w.plans[n] \in Plans
    BY DEF IsWorkspace
  <2>3. [w.plans[n] EXCEPT !["traffic"] = t] \in Plans
    BY <2>2 DEF Plans
  <2> QED BY <2>1, <2>3, PlanChanged
<1>6. CASE fact = "plans"
  <2>1. PICK n \in DOMAIN w.plans : v = [w EXCEPT !.plans = Restrict(w.plans, (DOMAIN w.plans) \ {n})]
    BY <1>6 DEF Changed, SharedFacts, PlanFacts
  <2> QED BY <2>1 DEF IsWorkspace, Restrict
<1> QED BY <1>1, <1>2, <1>3, <1>4, <1>5, <1>6 DEF Facts, Others

Typed == IsWorkspace(ws) /\ left.facts \subseteq Facts

\* Whoever does what, the workspace is one
LEMMA StaysWorkspace ==
  ASSUME Typed, [Next]_vars
  PROVE  Typed'
<1> USE DEF Typed
<1>1. CASE Edit
  <2>1. left'.facts = left.facts
    BY <1>1 DEF Edit
  <2>2. PICK fact \in Facts : ws' \in Changed(ws, fact)
    BY <1>1 DEF Edit
  <2> QED BY <2>1, <2>2, ChangedIsWorkspace
<1>2. ASSUME NEW c \in Slots, StartBegin(c) PROVE Typed'
  BY <1>2 DEF StartBegin, Begin, IsWorkspace
<1>3. ASSUME NEW c \in Slots, StopBegin(c) \/ KillCommand(c) PROVE Typed'
  <2>1. CASE StopBegin(c)
    BY <2>1 DEF StopBegin, Begin
  <2>2. CASE KillCommand(c)
    BY <2>2 DEF KillCommand, Dies
  <2> QED BY <1>3, <2>1, <2>2
<1>4. ASSUME NEW d \in Daemons, KillDaemon(d) \/ WriteFails(d) PROVE Typed'
  <2>1. CASE KillDaemon(d)
    BY <2>1 DEF KillDaemon, Dies
  <2>2. CASE WriteFails(d)
    BY <2>2 DEF WriteFails, Dies
  <2> QED BY <1>4, <2>1, <2>2
<1>5. ASSUME NEW c \in Slots, StartStep(c) \/ StopStep(c) PROVE UNCHANGED <<ws, left>>
  BY <1>5 DEF StartStep, StopStep, StartCheck, UnlinkState, UnlinkMarker, Spawn, Mark, Await
<1>6. ASSUME NEW d \in Daemons, DaemonStep(d) PROVE UNCHANGED <<ws, left>>
  BY <1>6 DEF DaemonStep, Look, ClearOldMarker, Publish, JudgeFirst, WriteFirst, Announce, Poll, JudgeAgain,
     WriteAgain, Beat, Wait, RemoveMarker, JudgeLast, WriteLast, Close, WriteState, Judge, WriteAssessment
<1>7. CASE UNCHANGED vars
  BY <1>7 DEF vars
<1> QED BY <1>1, <1>2, <1>3, <1>4, <1>5, <1>6, <1>7 DEF Next

-----------------------------------------------------------------------------
(* The gate of one plan *)

\* None of the built-in rules is triggered
Clean(w, p, profile) ==
  /\ w.configValid /\ ~PolicyErrors(w) /\ ~w.secret /\ w.registry
  /\ ~p.failing /\ ~p.pending /\ p.tools
  /\ SealOk(p, profile) /\ EvidenceValid(w)

Custom(w, p, profile) == \E rule \in w.rules : Hits(w, p, profile, rule)

LEMMA Priority ==
  ASSUME NEW levels \in SUBSET (0..5)
  PROVE  /\ ResolvePriority(levels) \in {"PASS", "FAIL", "UNKNOWN"}
         /\ ResolvePriority(levels) = "PASS" <=> levels = {}
         /\ ResolvePriority(levels) = "UNKNOWN" => levels \cap (0..3) = {}
<1>1. CASE levels = {}
  <2>1. ResolvePriority(levels) = "PASS"
    BY <1>1, Zenon DEF ResolvePriority
  <2> QED BY <1>1, <2>1
<1>2. CASE levels # {}
  <2>1. \E x \in levels : \A y \in levels : x <= y
    <3> SUFFICES ASSUME \A x \in levels : \E y \in levels : y < x PROVE FALSE
      OBVIOUS
    <3>1. \A x \in levels : x \in 0..5
      OBVIOUS
    <3>2. 0 \notin levels
      BY <3>1
    <3>3. 1 \notin levels
      BY <3>1, <3>2
    <3>4. 2 \notin levels
      BY <3>1, <3>2, <3>3
    <3>5. 3 \notin levels
      BY <3>1, <3>2, <3>3, <3>4
    <3>6. 4 \notin levels
      BY <3>1, <3>2, <3>3, <3>4, <3>5
    <3>7. 5 \notin levels
      BY <3>1, <3>2, <3>3, <3>4, <3>5, <3>6
    <3>8. PICK x \in levels : TRUE
      BY <1>2
    <3>9. x \in 0..5 /\ x # 0 /\ x # 1 /\ x # 2 /\ x # 3 /\ x # 4 /\ x # 5
      BY <3>1, <3>2, <3>3, <3>4, <3>5, <3>6, <3>7, <3>8
    <3> QED BY <3>9
  <2> DEFINE m == Min(levels)
  <2>2. m \in levels /\ \A y \in levels : m <= y
    BY <2>1 DEF Min
  <2>3. ResolvePriority(levels) = CASE m <= 3 -> "FAIL" [] m = 4 -> "UNKNOWN" [] m = 5 -> "FAIL"
    BY <1>2, Zenon DEF ResolvePriority
  <2> HIDE DEF m
  <2>4. m \in 0..5
    BY <2>2
  <2>5. ResolvePriority(levels) = IF m = 4 THEN "UNKNOWN" ELSE "FAIL"
    BY <2>3, <2>4
  <2> QED BY <1>2, <2>2, <2>4, <2>5
<1> QED BY <1>1, <1>2

LEMMA BuiltInRules ==
  ASSUME NEW w, IsWorkspace(w), NEW p \in Plans, NEW profile \in Profiles
  PROVE  /\ \A b \in BuiltIn(w, p, profile) : b.level \in 1..3
         /\ (\E b \in BuiltIn(w, p, profile) : b.hit) <=> ~Clean(w, p, profile)
<1> DEFINE Rule(level, hit) == [level |-> level, hit |-> hit]
<1>1. BuiltIn(w, p, profile) =
        {Rule(1, ~w.configValid), Rule(1, PolicyErrors(w)), Rule(2, p.failing), Rule(2, p.pending),
         Rule(1, ~SealOk(p, profile)), Rule(3, w.secret), Rule(2, ~EvidenceValid(w)),
         Rule(2, ~w.registry), Rule(2, ~p.tools)}
  BY DEF BuiltIn
<1>2. \A level, hit : Rule(level, hit).level = level /\ Rule(level, hit).hit = hit
  OBVIOUS
<1> HIDE DEF Rule
<1>3. \A b \in BuiltIn(w, p, profile) : b.level \in 1..3
  BY <1>1, <1>2
<1>4. (\E b \in BuiltIn(w, p, profile) : b.hit)
        <=> \/ ~w.configValid \/ PolicyErrors(w) \/ p.failing \/ p.pending \/ ~SealOk(p, profile)
            \/ w.secret \/ ~EvidenceValid(w) \/ ~w.registry \/ ~p.tools
  <2>1. (\E b \in BuiltIn(w, p, profile) : b.hit)
          <=> \/ Rule(1, ~w.configValid).hit \/ Rule(1, PolicyErrors(w)).hit \/ Rule(2, p.failing).hit
              \/ Rule(2, p.pending).hit \/ Rule(1, ~SealOk(p, profile)).hit \/ Rule(3, w.secret).hit
              \/ Rule(2, ~EvidenceValid(w)).hit \/ Rule(2, ~w.registry).hit \/ Rule(2, ~p.tools).hit
    BY <1>1, Zenon
  <2>2. /\ Rule(1, ~w.configValid).hit <=> ~w.configValid
        /\ Rule(1, PolicyErrors(w)).hit <=> PolicyErrors(w)
        /\ Rule(2, p.failing).hit <=> p.failing
        /\ Rule(2, p.pending).hit <=> p.pending
        /\ Rule(1, ~SealOk(p, profile)).hit <=> ~SealOk(p, profile)
        /\ Rule(3, w.secret).hit <=> w.secret
        /\ Rule(2, ~EvidenceValid(w)).hit <=> ~EvidenceValid(w)
        /\ Rule(2, ~w.registry).hit <=> ~w.registry
        /\ Rule(2, ~p.tools).hit <=> ~p.tools
    BY Zenon DEF Rule
  <2> QED BY <2>1, <2>2, Zenon
<1> QED BY <1>3, <1>4, Zenon DEF Clean

LEMMA TriggeredRules ==
  ASSUME NEW w, IsWorkspace(w), NEW p \in Plans, NEW profile \in Profiles
  PROVE  /\ Triggered(w, p, profile) \in SUBSET (0..5)
         /\ Triggered(w, p, profile) = {} <=> Clean(w, p, profile) /\ ~Custom(w, p, profile)
         /\ Triggered(w, p, profile) \cap (0..3) = {} => Clean(w, p, profile)
<1> DEFINE built == {r.level : r \in {b \in BuiltIn(w, p, profile) : b.hit}}
           custom == {r.level : r \in {c \in w.rules : Hits(w, p, profile, c)}}
<1>1. Triggered(w, p, profile) = built \cup custom
  BY DEF Triggered
<1>2. built \subseteq 1..3 /\ (built = {} <=> Clean(w, p, profile))
  <2>1. \A b \in BuiltIn(w, p, profile) : b.level \in 1..3
    BY BuiltInRules
  <2>2. built = {} <=> ~ \E b \in BuiltIn(w, p, profile) : b.hit
    BY Zenon
  <2>3. (\E b \in BuiltIn(w, p, profile) : b.hit) <=> ~Clean(w, p, profile)
    BY BuiltInRules, Zenon
  <2> QED BY <2>1, <2>2, <2>3, Zenon
<1>3. custom \subseteq 0..5 /\ (custom = {} <=> ~Custom(w, p, profile))
  <2>1. \A c \in w.rules : c.level \in 0..5
    BY DEF IsWorkspace, Rules
  <2>2. custom = {} <=> ~ \E c \in w.rules : Hits(w, p, profile, c)
    BY Zenon
  <2>3. custom \subseteq 0..5
    BY <2>1
  <2> QED BY <2>2, <2>3, Zenon DEF Custom
<1> HIDE DEF built, custom
<1>4. built \subseteq 0..3
  BY <1>2
<1> QED BY <1>1, <1>2, <1>3, <1>4

\* What the gate has to find of one plan that loads
PlanAccepted(w, p, profile) ==
  /\ Clean(w, p, profile)
  /\ w.keyed /\ p.passes /\ p.proof /\ p.traffic # "bad"

PlanObjection(w, p, profile) ==
  Custom(w, p, profile) \/ (profile = "strict" /\ p.severe)

LEMMA GateIs ==
  ASSUME NEW w, IsWorkspace(w), NEW p \in Plans, NEW profile \in Profiles
  PROVE  /\ Gate(w, p, profile) \in {"PASS", "FAIL", "UNKNOWN"}
         /\ Gate(w, p, profile) = "PASS" <=> PlanAccepted(w, p, profile) /\ ~PlanObjection(w, p, profile)
         /\ Gate(w, p, profile) = "UNKNOWN" => PlanAccepted(w, p, profile) /\ PlanObjection(w, p, profile)
<1> DEFINE policy == ResolvePriority(Triggered(w, p, profile))
<1>1. /\ policy \in {"PASS", "FAIL", "UNKNOWN"}
      /\ policy = "PASS" <=> Clean(w, p, profile) /\ ~Custom(w, p, profile)
      /\ policy = "UNKNOWN" => Clean(w, p, profile)
  BY Priority, TriggeredRules
<1>2. Gate(w, p, profile) =
        IF p.pending \/ ~Deterministic(w, p, profile) \/ policy = "FAIL" \/ ~SealOk(p, profile) \/ p.traffic = "bad"
        THEN "FAIL"
        ELSE IF policy = "UNKNOWN" \/ (profile = "strict" /\ p.severe) THEN "UNKNOWN" ELSE "PASS"
  BY DEF Gate
<1> HIDE DEF policy
<1> QED BY <1>1, <1>2 DEF PlanAccepted, PlanObjection, Clean, Deterministic

-----------------------------------------------------------------------------
(* The way of a task *)

\* Induction, for a set of numbers
LEMMA AllNumbers ==
  ASSUME NEW S, 0 \in S, \A n \in Nat : n \in S => n + 1 \in S
  PROVE  Nat \subseteq S
<1> DEFINE T == Nat \ S
           R == OpToRel(<, Nat)
<1> SUFFICES ASSUME T # {} PROVE FALSE
  OBVIOUS
<1>1. IsWellFoundedOn(R, Nat)
  BY NatLessThanWellFounded
<1>2. \A x, y \in Nat : x < y => <<x, y>> \in R
  BY DEF OpToRel
<1> HIDE DEF R
<1>3. \E x \in T : \A y \in T : ~ (<<y, x>> \in R)
  <2>1. T \subseteq Nat
    OBVIOUS
  <2> HIDE DEF T
  <2> QED BY <1>1, <2>1, WFMin
<1>4. PICK x \in T : \A y \in T : ~ (<<y, x>> \in R)
  BY <1>3
<1>5. x \in Nat /\ x # 0 /\ x - 1 \in Nat /\ x - 1 < x /\ x - 1 + 1 = x
  BY <1>4
<1>6. x - 1 \in S
  BY <1>2, <1>4, <1>5
<1>7. x - 1 + 1 \in S
  BY <1>5, <1>6
<1> QED BY <1>4, <1>5, <1>7

\* A path that only takes allowed transitions arrives where it says
LEMMA WalkArrives ==
  ASSUME NEW path, NEW n \in Nat, n > 0, Len(path) = n,
         path[1] \in Transitions["new"],
         \A i \in 1..(n - 1) : path[i + 1] \in Transitions[path[i]]
  PROVE  Walk(path) = path[n]
<1> DEFINE Eq(f) == f = [i \in 0..n |-> IF i = 0 THEN "new" ELSE Transition(f[i - 1], path[i])]
           at == CHOOSE f : Eq(f)
           g == [i \in 0..n |-> IF i = 0 THEN "new" ELSE path[i]]
<1>1. g[0] = "new" /\ \A i \in 1..n : g[i] = path[i]
  OBVIOUS
<1>2. \A i \in 1..n : Transition(g[i - 1], path[i]) = path[i]
  <2> SUFFICES ASSUME NEW i \in 1..n PROVE path[i] \in Transitions[g[i - 1]]
    BY DEF Transition
  <2>1. CASE i = 1
    BY <1>1, <2>1
  <2>2. CASE i # 1
    <3>1. i - 1 \in 1..(n - 1) /\ i - 1 \in 1..n /\ (i - 1) + 1 = i
      BY <2>2
    <3>2. path[(i - 1) + 1] \in Transitions[path[i - 1]]
      BY <3>1
    <3> QED BY <1>1, <3>1, <3>2
  <2> QED BY <2>1, <2>2
<1>3. Eq(g)
  BY <1>1, <1>2
<1>4. Eq(at)
  BY <1>3
<1>5. Walk(path) = at[n]
  BY DEF Walk
<1> HIDE DEF at, g
<1> DEFINE S == {i \in Nat : i <= n => at[i] = g[i]}
<1>6. 0 \in S
  BY <1>3, <1>4
<1>7. ASSUME NEW i \in Nat, i \in S PROVE i + 1 \in S
  <2>1. CASE i + 1 <= n
    <3>1. i + 1 \in 0..n /\ i + 1 # 0 /\ i + 1 - 1 = i /\ at[i] = g[i]
      BY <1>7, <2>1
    <3>2. at[i + 1] = Transition(at[i], path[i + 1]) /\ g[i + 1] = Transition(g[i], path[i + 1])
      BY <3>1, <1>3, <1>4
    <3> QED BY <3>1, <3>2
  <2> QED BY <2>1
<1>8. Nat \subseteq S
  <2> HIDE DEF S
  <2> QED BY <1>6, <1>7, AllNumbers
<1> QED BY <1>1, <1>5, <1>8

Stages ==
  {"discovered", "analyzing", "requirements_ready", "plan_proposed", "plan_review", "revision_required",
   "plan_approved", "sealed", "implementing", "verifying", "final_audit", "passed", "unknown", "failed"}

LEMMA Joined ==
  ASSUME NEW s \in Seq(Stages), NEW t \in Seq(Stages)
  PROVE  /\ s \o t \in Seq(Stages)
         /\ Len(s \o t) = Len(s) + Len(t)
         /\ \A i \in 1..Len(s) : (s \o t)[i] = s[i]
         /\ \A i \in 1..Len(t) : (s \o t)[Len(s) + i] = t[i]
<1> DEFINE st == s \o t
<1>1. /\ st \in Seq(Stages)
      /\ Len(st) = Len(s) + Len(t)
      /\ \A i \in 1..Len(s) + Len(t) : st[i] = IF i <= Len(s) THEN s[i] ELSE t[i - Len(s)]
  BY ConcatProperties, Zenon
<1> HIDE DEF st
<1>2. ASSUME NEW i \in 1..Len(s) PROVE st[i] = s[i]
  BY <1>1
<1>3. ASSUME NEW i \in 1..Len(t) PROVE st[Len(s) + i] = t[i]
  <2> DEFINE j == Len(s) + i
  <2>1. j \in 1..(Len(s) + Len(t)) /\ ~(j <= Len(s)) /\ j - Len(s) = i
    OBVIOUS
  <2> HIDE DEF j
  <2>2. st[j] = t[j - Len(s)]
    BY <2>1, <1>1
  <2> QED BY <2>1, <2>2 DEF j
<1> QED BY <1>1, <1>2, <1>3 DEF st

\* The proposal of a plan is always the first part of the way
LEMMA Proposed ==
  ASSUME NEW n \in Nat, n > 0, NEW rest \in Seq(Stages), Len(rest) = n,
         rest[1] \in Transitions["plan_review"],
         \A i \in 1..(n - 1) : rest[i + 1] \in Transitions[rest[i]]
  PROVE  Walk(Proposal \o rest) = rest[n]
<1> DEFINE path == Proposal \o rest
<1>1. /\ Len(path) = n + 5
      /\ path[1] = "discovered" /\ path[2] = "analyzing" /\ path[3] = "requirements_ready"
      /\ path[4] = "plan_proposed" /\ path[5] = "plan_review"
      /\ \A i \in 1..n : path[5 + i] = rest[i]
  <2>1. Proposal \in Seq(Stages) /\ Len(Proposal) = 5
    BY DEF Proposal, Stages
  <2> HIDE DEF Proposal
  <2>2. /\ Len(path) = Len(Proposal) + Len(rest)
        /\ \A i \in 1..Len(Proposal) : path[i] = Proposal[i]
        /\ \A i \in 1..Len(rest) : path[Len(Proposal) + i] = rest[i]
    BY <2>1, Joined, Zenon
  <2> HIDE DEF path
  <2>3. /\ Len(path) = 5 + n
        /\ \A i \in 1..5 : path[i] = Proposal[i]
        /\ \A i \in 1..n : path[5 + i] = rest[i]
    BY <2>1, <2>2
  <2>4. Len(path) = n + 5 /\ \A i \in 1..n : path[5 + i] = rest[i]
    BY <2>3
  <2>5. /\ path[1] = "discovered" /\ path[2] = "analyzing" /\ path[3] = "requirements_ready"
        /\ path[4] = "plan_proposed" /\ path[5] = "plan_review"
    BY <2>3 DEF Proposal
  <2> QED BY <2>4, <2>5
<1> HIDE DEF path
<1>2. path[1] \in Transitions["new"]
  BY <1>1 DEF Transitions
<1>3. path[2] \in Transitions[path[1]] /\ path[3] \in Transitions[path[2]]
  BY <1>1 DEF Transitions
<1>4. path[4] \in Transitions[path[3]] /\ path[5] \in Transitions[path[4]]
  BY <1>1 DEF Transitions
<1>5. ASSUME NEW i \in 1..(n + 5 - 1) PROVE path[i + 1] \in Transitions[path[i]]
  <2>1. CASE i \in {1, 2}
    BY <1>3, <2>1
  <2>2. CASE i \in {3, 4}
    BY <1>4, <2>2
  <2>3. CASE i = 5
    <3>1. path[6] = rest[1]
      BY <1>1
    <3> QED BY <1>1, <2>3, <3>1
  <2>4. CASE i > 5
    <3> DEFINE j == i - 5
    <3>1. j \in 1..(n - 1) /\ j \in 1..n /\ j + 1 \in 1..n /\ i = 5 + j /\ i + 1 = 5 + (j + 1)
      BY <2>4
    <3> HIDE DEF j
    <3>2. path[5 + j] = rest[j] /\ path[5 + (j + 1)] = rest[j + 1]
      BY <1>1, <3>1
    <3> QED BY <3>1, <3>2
  <2> QED BY <2>1, <2>2, <2>3, <2>4
<1>6. n \in 1..n /\ n + 5 \in Nat /\ n + 5 > 0
  OBVIOUS
<1>7. Walk(path) = path[n + 5]
  BY <1>1, <1>2, <1>5, <1>6, WalkArrives
<1>8. path[n + 5] = rest[n]
  <2>1. path[5 + n] = rest[n]
    BY <1>1, <1>6
  <2> QED BY <2>1
<1> QED BY <1>7, <1>8 DEF path

LEMMA Sealed ==
  ASSUME NEW end \in {"passed", "unknown", "failed"}
  PROVE  Walk(Proposal \o (<<"plan_approved", "sealed", "implementing", "verifying", "final_audit">> \o <<end>>)) = end
<1> DEFINE way == <<"plan_approved", "sealed", "implementing", "verifying", "final_audit">>
           rest == way \o <<end>>
<1>1. /\ rest \in Seq(Stages) /\ Len(rest) = 6
      /\ \A i \in 1..5 : rest[i] = way[i]
      /\ rest[6] = end
  <2>1. way \in Seq(Stages) /\ Len(way) = 5
    BY DEF Stages
  <2>2. <<end>> \in Seq(Stages) /\ Len(<<end>>) = 1 /\ <<end>>[1] = end
    BY DEF Stages
  <2> HIDE DEF way
  <2>3. /\ rest \in Seq(Stages) /\ Len(rest) = Len(way) + Len(<<end>>)
        /\ \A i \in 1..Len(way) : rest[i] = way[i]
        /\ \A i \in 1..Len(<<end>>) : rest[Len(way) + i] = <<end>>[i]
    BY <2>1, <2>2, Joined, Zenon
  <2> HIDE DEF rest
  <2> QED BY <2>1, <2>2, <2>3
<1> HIDE DEF rest
<1>2. /\ rest[1] = "plan_approved" /\ rest[2] = "sealed" /\ rest[3] = "implementing"
      /\ rest[4] = "verifying" /\ rest[5] = "final_audit"
  BY <1>1
<1>3. rest[1] \in Transitions["plan_review"] /\ rest[2] \in Transitions[rest[1]]
  BY <1>2 DEF Transitions
<1>4. rest[3] \in Transitions[rest[2]] /\ rest[4] \in Transitions[rest[3]]
  BY <1>2 DEF Transitions
<1>5. rest[5] \in Transitions[rest[4]] /\ rest[6] \in Transitions[rest[5]]
  BY <1>1, <1>2 DEF Transitions
<1>6. ASSUME NEW i \in 1..(6 - 1) PROVE rest[i + 1] \in Transitions[rest[i]]
  <2>1. i \in {1, 2, 3, 4, 5}
    OBVIOUS
  <2> QED BY <1>3, <1>4, <1>5, <2>1
<1>7. 6 \in Nat /\ 6 > 0
  OBVIOUS
<1>8. Walk(Proposal \o rest) = rest[6]
  BY <1>1, <1>3, <1>6, <1>7, Proposed, Zenon
<1> QED BY <1>1, <1>8 DEF rest

LEMMA Unsealed ==
  /\ Walk(Proposal \o <<"revision_required">>) = "revision_required"
  /\ Walk(Proposal \o <<"plan_approved">>) = "plan_approved"
  /\ Walk(Proposal \o <<"plan_approved", "sealed", "implementing">>) = "implementing"
<1>1. ASSUME NEW to \in {"revision_required", "plan_approved"}
      PROVE  Walk(Proposal \o <<to>>) = to
  <2> DEFINE rest == <<to>>
  <2>1. rest \in Seq(Stages) /\ Len(rest) = 1 /\ rest[1] = to
    BY DEF Stages
  <2>2. rest[1] \in Transitions["plan_review"]
    BY DEF Transitions
  <2> HIDE DEF rest
  <2>3. \A i \in 1..(1 - 1) : rest[i + 1] \in Transitions[rest[i]]
    OBVIOUS
  <2>4. Walk(Proposal \o rest) = rest[1]
    BY <2>1, <2>2, <2>3, Proposed
  <2> QED BY <2>1, <2>4 DEF rest
<1>2. Walk(Proposal \o <<"plan_approved", "sealed", "implementing">>) = "implementing"
  <2> DEFINE rest == <<"plan_approved", "sealed", "implementing">>
  <2>1. rest \in Seq(Stages) /\ Len(rest) = 3 /\ rest[3] = "implementing"
    BY DEF Stages
  <2>2. rest[1] \in Transitions["plan_review"]
    BY DEF Transitions
  <2>3. rest[2] \in Transitions[rest[1]] /\ rest[3] \in Transitions[rest[2]]
    BY DEF Transitions
  <2> HIDE DEF rest
  <2>4. ASSUME NEW i \in 1..(3 - 1) PROVE rest[i + 1] \in Transitions[rest[i]]
    <3>1. i \in {1, 2}
      OBVIOUS
    <3> QED BY <2>3, <3>1
  <2>5. 3 \in Nat /\ 3 > 0
    OBVIOUS
  <2>6. Walk(Proposal \o rest) = rest[3]
    BY <2>1, <2>2, <2>4, <2>5, Proposed, Zenon
  <2> QED BY <2>1, <2>6 DEF rest
<1> QED BY <1>1, <1>2

\* The lifecycle of a plan that loads ends where its gate does
LEMMA LifecycleEnds ==
  ASSUME NEW w, IsWorkspace(w), NEW p \in Plans, NEW profile \in Profiles
  PROVE  /\ Lifecycle(w, p, profile) = "passed"  <=> Gate(w, p, profile) = "PASS"
         /\ Lifecycle(w, p, profile) = "unknown" <=> Gate(w, p, profile) = "UNKNOWN"
<1> DEFINE outcome == Gate(w, p, profile)
           path == Path(w, p, profile)
           end == IF outcome = "PASS" /\ p.proof THEN <<"passed">>
                  ELSE IF outcome = "UNKNOWN" THEN <<"unknown">>
                  ELSE IF outcome = "FAIL" THEN <<"failed">> ELSE <<>>
           way == <<"plan_approved", "sealed", "implementing", "verifying", "final_audit">>
           rest == IF ~p.passes THEN <<"revision_required">>
                   ELSE IF ~SealOk(p, profile) THEN <<"plan_approved">>
                   ELSE IF p.pending THEN <<"plan_approved", "sealed", "implementing">>
                   ELSE way \o end
<1>1. /\ outcome \in {"PASS", "FAIL", "UNKNOWN"}
      /\ outcome # "FAIL" => p.passes /\ SealOk(p, profile) /\ ~p.pending /\ p.proof
  BY GateIs DEF PlanAccepted, Clean
<1>2. Lifecycle(w, p, profile) = Walk(Proposal \o rest)
  BY Zenon DEF Lifecycle, Path
<1> HIDE DEF outcome, end
<1>3. CASE ~p.passes
  <2>1. rest = <<"revision_required">>
    BY <1>3
  <2> QED BY <1>1, <1>2, <1>3, <2>1, Unsealed DEF outcome
<1>4. CASE p.passes /\ ~SealOk(p, profile)
  <2>1. rest = <<"plan_approved">>
    BY <1>4
  <2> QED BY <1>1, <1>2, <1>4, <2>1, Unsealed DEF outcome
<1>5. CASE p.passes /\ SealOk(p, profile) /\ p.pending
  <2>1. rest = <<"plan_approved", "sealed", "implementing">>
    BY <1>5
  <2> QED BY <1>1, <1>2, <1>5, <2>1, Unsealed DEF outcome
<1>6. CASE p.passes /\ SealOk(p, profile) /\ ~p.pending
  <2>1. rest = way \o end
    BY <1>6
  <2>2. Lifecycle(w, p, profile) = Walk(Proposal \o (way \o end))
    BY <1>2, <2>1
  <2>3. \/ outcome = "PASS" /\ end = <<"passed">>
        \/ outcome = "UNKNOWN" /\ end = <<"unknown">>
        \/ outcome = "FAIL" /\ end = <<"failed">>
    BY <1>1 DEF end
  <2>4. \A e \in {"passed", "unknown", "failed"} : Walk(Proposal \o (way \o <<e>>)) = e
    BY Sealed
  <2> HIDE DEF way
  <2>5. \/ outcome = "PASS" /\ Lifecycle(w, p, profile) = "passed"
        \/ outcome = "UNKNOWN" /\ Lifecycle(w, p, profile) = "unknown"
        \/ outcome = "FAIL" /\ Lifecycle(w, p, profile) = "failed"
    BY <2>2, <2>3, <2>4
  <2> QED BY <2>5 DEF outcome
<1> QED BY <1>3, <1>4, <1>5, <1>6

-----------------------------------------------------------------------------
(* The verdict *)

LEMMA AcceptedIs ==
  ASSUME NEW w, IsWorkspace(w), DOMAIN w.plans # {}, NEW profile \in Profiles
  PROVE  Accepted(w, profile)
           <=> \A n \in DOMAIN w.plans : w.plans[n].loads /\ PlanAccepted(w, w.plans[n], profile)
<1>1. PolicyErrors(w) <=> \/ w.request # "valid" \/ ~w.aligned \/ ~w.policyValid
                          \/ \E n \in DOMAIN w.plans : ~w.plans[n].loads
  BY DEF PolicyErrors
<1>2. PICK one \in DOMAIN w.plans : TRUE
  OBVIOUS
<1> DEFINE Shared == /\ w.request = "valid" /\ w.aligned /\ w.configValid /\ w.policyValid
                     /\ w.chain /\ w.anchored /\ w.keyed /\ w.registry /\ ~w.secret
           Own(p) == /\ p.loads /\ p.passes /\ p.proof /\ p.tools
                     /\ p.monotonic /\ p.sealedFor = profile
                     /\ ~p.pending /\ ~p.failing
                     /\ p.traffic # "bad"
<1>3. Accepted(w, profile) <=> Shared /\ \A n \in DOMAIN w.plans : Own(w.plans[n])
  BY Zenon DEF Accepted
<1>4. ASSUME NEW p, \A n \in DOMAIN w.plans : w.plans[n].loads
      PROVE  p.loads /\ PlanAccepted(w, p, profile) <=> Shared /\ Own(p)
  BY <1>1, <1>4 DEF PlanAccepted, Clean, SealOk, EvidenceValid
<1>5. Accepted(w, profile) => \A n \in DOMAIN w.plans : w.plans[n].loads
  BY <1>3
<1> HIDE DEF Shared, Own
<1>6. CASE \A n \in DOMAIN w.plans : w.plans[n].loads
  BY <1>2, <1>3, <1>4, <1>6
<1> QED BY <1>5, <1>6

LEMMA ObjectionIs ==
  ASSUME NEW w, NEW profile
  PROVE  Objection(w, profile) <=> \E n \in DOMAIN w.plans : PlanObjection(w, w.plans[n], profile)
BY DEF Objection, PlanObjection, Custom

LEMMA PlanOutcomeIs ==
  ASSUME NEW w, IsWorkspace(w), NEW p \in Plans, NEW profile \in Profiles
  PROVE  LET outcome  == PlanOutcome(w, p, profile)
             accepted == p.loads /\ PlanAccepted(w, p, profile)
         IN  /\ outcome \in {"PASS", "FAIL", "UNKNOWN"}
             /\ outcome = "PASS" <=> accepted /\ ~PlanObjection(w, p, profile)
             /\ outcome = "UNKNOWN" => accepted /\ PlanObjection(w, p, profile)
BY GateIs DEF PlanOutcome

\* One plan that fails is enough for FAIL and one that is open for UNKNOWN
LEMMA VerdictIs ==
  ASSUME NEW w, IsWorkspace(w), NEW profile \in Profiles, NEW assessed
  PROVE  LET outcome == Verdict(w, assessed, profile)
             some    == DOMAIN w.plans # {}
         IN  /\ outcome \in Outcomes
             /\ outcome = "PASS" <=> ~w.raises /\ some /\ Accepted(w, profile) /\ ~Objection(w, profile)
             /\ outcome = "UNKNOWN" => w.raises \/ (Accepted(w, profile) /\ Objection(w, profile))
             /\ outcome = "NO_PLAN" => ~some /\ w.request = "absent" /\ ~w.trace /\ ~assessed
<1> DEFINE Of(n) == PlanOutcome(w, w.plans[n], profile)
           outcomes == {Of(n) : n \in DOMAIN w.plans}
           Good(n) == w.plans[n].loads /\ PlanAccepted(w, w.plans[n], profile)
           Open(n) == PlanObjection(w, w.plans[n], profile)
           outcome == Verdict(w, assessed, profile)
<1>1. outcome = IF w.raises THEN "UNKNOWN"
                ELSE IF outcomes = {} THEN IF w.request # "absent" \/ w.trace \/ assessed THEN "FAIL" ELSE "NO_PLAN"
                ELSE IF "FAIL" \in outcomes THEN "FAIL"
                ELSE IF "UNKNOWN" \in outcomes THEN "UNKNOWN" ELSE "PASS"
  BY Zenon DEF Verdict
<1>2. \A n \in DOMAIN w.plans : /\ Of(n) \in {"PASS", "FAIL", "UNKNOWN"}
                                /\ Of(n) = "PASS" <=> Good(n) /\ ~Open(n)
                                /\ Of(n) = "UNKNOWN" => Good(n) /\ Open(n)
  BY PlanOutcomeIs DEF IsWorkspace
<1>3. DOMAIN w.plans # {} => (Accepted(w, profile) <=> \A n \in DOMAIN w.plans : Good(n))
  BY AcceptedIs
<1>4. Objection(w, profile) <=> \E n \in DOMAIN w.plans : Open(n)
  BY ObjectionIs
<1> HIDE DEF outcome, Of, Good, Open
<1>5. outcomes = {} <=> DOMAIN w.plans = {}
  OBVIOUS
<1>6. outcome \in Outcomes
  BY <1>1, Zenon DEF Outcomes
<1>7. outcome = "NO_PLAN" => DOMAIN w.plans = {} /\ w.request = "absent" /\ ~w.trace /\ ~assessed
  BY <1>1, <1>5
<1>8. outcome = "PASS" <=> ~w.raises /\ DOMAIN w.plans # {} /\ \A n \in DOMAIN w.plans : Of(n) = "PASS"
  BY <1>1, <1>2, <1>5
<1>9. outcome = "UNKNOWN" /\ ~w.raises
        => /\ DOMAIN w.plans # {}
           /\ \A n \in DOMAIN w.plans : Of(n) # "FAIL"
           /\ \E n \in DOMAIN w.plans : Of(n) = "UNKNOWN"
  BY <1>1, <1>2, <1>5
<1>10. outcome = "PASS" <=> ~w.raises /\ DOMAIN w.plans # {} /\ Accepted(w, profile) /\ ~Objection(w, profile)
  BY <1>2, <1>3, <1>4, <1>8
<1>11. outcome = "UNKNOWN" => w.raises \/ (Accepted(w, profile) /\ Objection(w, profile))
  BY <1>2, <1>3, <1>4, <1>9
<1> QED BY <1>6, <1>7, <1>10, <1>11 DEF outcome

\* Whatever the workspace is and whoever changes it: PASS means that everything was found and
\* nothing objected, and neither UNKNOWN nor the Stop hook nor the lifecycle says more than that
THEOREM VerdictCorrect == Spec => []VerdictIsEarned
<1>1. Init => Typed
  BY StartsAssumption DEF Init, Typed
<1>2. Typed /\ [Next]_vars => Typed'
  BY StaysWorkspace
<1>3. Typed => VerdictIsEarned
  <2> SUFFICES ASSUME IsWorkspace(ws), NEW profile \in Profiles
               PROVE  LET outcome == Verdict(ws, Assessed, profile)
                          some    == DOMAIN ws.plans # {}
                      IN  /\ outcome = "PASS" <=> ~ws.raises /\ some /\ Accepted(ws, profile) /\ ~Objection(ws, profile)
                          /\ outcome = "UNKNOWN" => ws.raises \/ (Accepted(ws, profile) /\ Objection(ws, profile))
                          /\ HookLets(outcome) /\ some => Accepted(ws, profile)
                          /\ HookLets(outcome) /\ ~some => ws.request = "absent" /\ ~ws.trace
                          /\ \A n \in DOMAIN ws.plans :
                               LET end == Lifecycle(ws, ws.plans[n], profile)
                               IN  ws.plans[n].loads =>
                                     /\ end = "passed"  <=> Gate(ws, ws.plans[n], profile) = "PASS"
                                     /\ end = "unknown" <=> Gate(ws, ws.plans[n], profile) = "UNKNOWN"
    BY DEF VerdictIsEarned, Typed
  <2> DEFINE outcome == Verdict(ws, Assessed, profile)
             some == DOMAIN ws.plans # {}
  <2>1. /\ outcome \in Outcomes
        /\ outcome = "PASS" <=> ~ws.raises /\ some /\ Accepted(ws, profile) /\ ~Objection(ws, profile)
        /\ outcome = "UNKNOWN" => ws.raises \/ (Accepted(ws, profile) /\ Objection(ws, profile))
        /\ outcome = "NO_PLAN" => ~some /\ ws.request = "absent" /\ ~ws.trace
    BY VerdictIs
  <2> HIDE DEF outcome
  <2>2. \A n \in DOMAIN ws.plans :
          /\ Lifecycle(ws, ws.plans[n], profile) = "passed"  <=> Gate(ws, ws.plans[n], profile) = "PASS"
          /\ Lifecycle(ws, ws.plans[n], profile) = "unknown" <=> Gate(ws, ws.plans[n], profile) = "UNKNOWN"
    BY LifecycleEnds DEF IsWorkspace
  <2>3. /\ HookLets(outcome) /\ some => Accepted(ws, profile)
        /\ HookLets(outcome) /\ ~some => ws.request = "absent" /\ ~ws.trace
    BY <2>1 DEF HookLets
  <2> QED BY <2>1, <2>2, <2>3, Zenon DEF outcome
<1> QED BY <1>1, <1>2, <1>3, PTL DEF Spec
=============================================================================
