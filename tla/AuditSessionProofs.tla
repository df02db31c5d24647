-------------------------- MODULE AuditSessionProofs --------------------------
(***************************************************************************)
(* What AgentRegistry promises, and what a final audit session promises on *)
(* top of it, for any agents, files, sessions and killed processes.        *)
(*                                                                         *)
(* The registry's promises speak of live agents, but liveness is given     *)
(* back by a late heartbeat; so the invariants below do without it.  An    *)
(* agent that timed out is lapsed until its next command about files,      *)
(* which makes the sweep harmless for the others.                          *)
(*                                                                         *)
(* A freeze of a session that is not over cannot be judged dead, so no     *)
(* command is admitted and no other session enters while it is in place.   *)
(* It may be unlinked by a cleanup that judged an earlier freeze.  Then it *)
(* never comes back, and the session finds it missing: a session that was  *)
(* disturbed, or that somebody else's freeze overlapped, has lost its own. *)
(***************************************************************************)
EXTENDS AuditSession, TLAPS

-----------------------------------------------------------------------------
(* The registry *)

\* Only agents that timed out are swept, and they are lapsed
SweptLapsed ==
  /\ txn.todo \subseteq timedOut
  /\ timedOut \subseteq lapsed

\* What a command will report once it is finished is what it recorded
AnswerIsRecorded ==
  txn.kind \in {"join", "leave", "ownership"} =>
    entry[txn.agent].owns = told[txn.agent].files

\* What was reported is what is recorded, of agents that did not lapse
ReportIsRecorded ==
  \A a \in Agents : a \notin lapsed /\ told[a].sure => entry[a].owns = told[a].files

\* A shared file was reported to one of its owners unless one of them lapsed or
\* did not look for conflicts
Reported(a, b, f) ==
  \/ a \in lapsed \/ b \in lapsed
  \/ ~told[a].asked \/ ~told[b].asked
  \/ f \in warned[a] \cup warned[b]

SharedIsReported ==
  \A a, b \in Agents : \A f \in entry[a].owns \cap entry[b].owns :
    a # b => Reported(a, b, f)

IInv == TypeOK /\ SweptLapsed /\ AnswerIsRecorded /\ ReportIsRecorded /\ SharedIsReported

-----------------------------------------------------------------------------
(* The effect of a recorded transaction *)

USE AgentRegistryAssumption

LEMMA TypeInit ==
  ASSUME RegistryInit, gone \subseteq Auditors,
         freeze \in [owner : Auditors, named : BOOLEAN] \cup {NoFreeze}
  PROVE  TypeOK
<1>1. Absent \in Entries
  BY DEF Absent, Entries
<1>2. entry \in [Agents -> Entries] /\ \A a \in Agents : entry[a].owns = {}
  BY <1>1 DEF RegistryInit, Absent
<1>3. told \in [Agents -> [sure : BOOLEAN, asked : BOOLEAN, files : SUBSET Files]]
  BY DEF RegistryInit
<1>4. crashes \in 0..MaxCrashes
  BY DEF RegistryInit
<1> QED BY <1>2, <1>3, <1>4 DEF RegistryInit, TypeOK, NoTxn

LEMMA TypeStep ==
  ASSUME TypeOK, [Next]_registryVars
  PROVE  TypeOK'
<1> USE DEF TypeOK, Entries, Kinds
<1>1. ASSUME NEW a \in Agents, Mutate(a) PROVE TypeOK'
  <2>1. CASE Join(a)
    BY <2>1 DEF Join, Admitted, Record, Asks, NoFreeze
  <2>2. CASE Leave(a)
    BY <2>2 DEF Leave, Admitted, Record, Asks, NoFreeze, Absent
  <2>3. CASE Heartbeat(a)
    <3>1. Revived(a) \in Entries /\ Revived(a).state = "active"
      BY DEF Revived
    <3> QED BY <2>3, <3>1 DEF Heartbeat, Admitted, Record, NoFreeze, agentView
  <2>4. CASE UpdateOwnership(a)
    BY <2>4 DEF UpdateOwnership, Admitted, Record, Asks, NoFreeze
  <2>5. CASE Claim(a)
    <3>1. \A files \in SUBSET Files : Conflicts(a, files) \subseteq Files
      BY DEF Conflicts
    <3> QED BY <2>5, <3>1 DEF Claim, Admitted, Record, Asks, NoFreeze
  <2> QED BY <1>1, <2>1, <2>2, <2>3, <2>4, <2>5 DEF Mutate
<1>2. ASSUME NEW a \in Agents, SweepRecord(a) PROVE TypeOK'
  BY <1>2 DEF SweepRecord, Released, Sweep, agentView
<1>3. ASSUME NEW a \in Agents, JudgeFreeze(a) \/ UnlinkFreeze(a) PROVE TypeOK'
  BY <1>3 DEF JudgeFreeze, UnlinkFreeze, NoFreeze, agentView
<1>4. ASSUME NEW a \in Agents, TimeOut(a) PROVE TypeOK'
  BY <1>4 DEF TimeOut
<1>5. ASSUME Refused PROVE TypeOK'
  BY <1>5 DEF Refused, Admitted, NoFreeze, agentView
<1>6. ASSUME Finish PROVE TypeOK'
  <2>1. told' \in [Agents -> [sure : BOOLEAN, asked : BOOLEAN, files : SUBSET Files]]
    <3>1. CASE txn.kind = "heartbeat"
      BY <1>6, <3>1 DEF Finish
    <3>2. CASE txn.kind # "heartbeat"
      <4>1. told' = [told EXCEPT ![txn.agent].sure = TRUE]
        BY <1>6, <3>2 DEF Finish
      <4>2. \A b \in Agents : told'[b] \in [sure : BOOLEAN, asked : BOOLEAN, files : SUBSET Files]
        <5> TAKE b \in Agents
        <5>1. told[b] \in [sure : BOOLEAN, asked : BOOLEAN, files : SUBSET Files]
          OBVIOUS
        <5>2. told'[b] = IF b = txn.agent THEN [told[b] EXCEPT !.sure = TRUE] ELSE told[b]
          BY <4>1
        <5> HIDE DEF TypeOK
        <5> QED BY <5>1, <5>2
      <4>3. told' = [b \in Agents |-> told'[b]]
        BY <4>1
      <4> QED BY <4>2, <4>3
    <3> QED BY <3>1, <3>2
  <2>2. txn' \in [kind : Kinds \cup {"none", "sweep", "enter"},
                  agent : Agents \cup Auditors \cup {"nobody"}, todo : SUBSET Agents]
    BY <1>6 DEF Finish, NoTxn
  <2> QED BY <1>6, <2>1, <2>2 DEF Finish
<1>7. ASSUME StartSweep PROVE TypeOK'
  BY <1>7 DEF StartSweep, Sweep, StaleAgents, agentView
<1>8. ASSUME SweepHead PROVE TypeOK'
  BY <1>8 DEF SweepHead, NoTxn, agentView
<1>9. ASSUME Kill \/ KillTorn PROVE TypeOK'
  <2>0. crashes \in 0..MaxCrashes /\ crashes < MaxCrashes /\ crashes' = crashes + 1
    BY <1>9 DEF Kill, KillTorn
  <2>1. crashes' \in 0..MaxCrashes
    BY <2>0
  <2>2. CASE Kill
    BY <2>1, <2>2 DEF Kill, NoTxn, agentView
  <2>3. CASE KillTorn
    BY <2>1, <2>3 DEF KillTorn, Admitted, NoFreeze, agentView
  <2> QED BY <1>9, <2>2, <2>3
<1>10. ASSUME UNCHANGED registryVars PROVE TypeOK'
  BY <1>10 DEF registryVars, agentView
<1> QED BY <1>1, <1>2, <1>3, <1>4, <1>5, <1>6, <1>7, <1>8, <1>9, <1>10 DEF Next

-----------------------------------------------------------------------------
(* The invariant *)

LEMMA InvInit == Init => IInv
<1> SUFFICES ASSUME Init PROVE IInv
  OBVIOUS
<1>1. TypeOK
  <2>1. freeze \in [owner : Auditors, named : BOOLEAN] \cup {NoFreeze}
    BY DEF Init
  <2> QED BY <2>1, TypeInit DEF Init
<1>2. \A a \in Agents : entry[a].owns = {} /\ told[a].files = {}
  BY DEF Init, RegistryInit, Absent
<1>3. txn.kind = "none" /\ txn.todo = {} /\ timedOut = {}
  BY DEF Init, RegistryInit, NoTxn
<1> QED BY <1>1, <1>2, <1>3 DEF IInv, SweptLapsed, AnswerIsRecorded, ReportIsRecorded, SharedIsReported

\* A command about files: what it asks for is what it records, and each file it
\* shares with an owner that did not lapse is either reported or refused
LEMMA AskStep ==
  ASSUME IInv, NEW a \in Agents, NEW files \in SUBSET Files, NEW conflicts \in SUBSET Files,
         NEW asked \in BOOLEAN,
         NEW kind \in {"join", "leave", "ownership"}, NEW e \in Entries,
         e.owns = files, Admitted, Record(a, kind, e), Asks(a, files, asked, conflicts),
         asked => \A b \in Agents \ {a} : \A f \in files \cap entry[b].owns :
                         b \in lapsed \/ f \in conflicts
  PROVE  SweptLapsed' /\ AnswerIsRecorded' /\ ReportIsRecorded' /\ SharedIsReported'
<1> USE DEF IInv, TypeOK
<1>1. /\ entry' = [entry EXCEPT ![a] = e]
      /\ told' = [told EXCEPT ![a] = [sure |-> FALSE, asked |-> asked, files |-> files]]
      /\ warned' = [warned EXCEPT ![a] = conflicts]
      /\ lapsed' = lapsed \ {a} /\ timedOut' = timedOut \ {a}
      /\ txn' = [kind |-> kind, agent |-> a, todo |-> {}]
  BY DEF Record, Asks
<1>2. /\ entry'[a].owns = files /\ told'[a].files = files /\ ~told'[a].sure
      /\ told'[a].asked = asked /\ warned'[a] = conflicts
  BY <1>1
<1>3. \A b \in Agents \ {a} : entry'[b] = entry[b] /\ told'[b] = told[b] /\ warned'[b] = warned[b]
  BY <1>1
<1>4. SweptLapsed' /\ AnswerIsRecorded'
  BY <1>1, <1>2 DEF SweptLapsed, AnswerIsRecorded
<1>5. ReportIsRecorded'
  BY <1>1, <1>2, <1>3 DEF ReportIsRecorded
<1>6. SharedIsReported'
  <2> SUFFICES ASSUME NEW b \in Agents, NEW c \in Agents,
                      NEW f \in entry'[b].owns \cap entry'[c].owns, b # c
               PROVE  Reported(b, c, f)'
    BY DEF SharedIsReported
  <2>1. CASE b = a
    BY <1>1, <1>2, <1>3, <2>1 DEF Reported
  <2>2. CASE c = a
    BY <1>1, <1>2, <1>3, <2>2 DEF Reported
  <2>3. CASE b # a /\ c # a
    BY <1>1, <1>3, <2>3 DEF Reported, SharedIsReported
  <2> QED BY <2>1, <2>2, <2>3
<1> QED BY <1>4, <1>5, <1>6

LEMMA InvStep ==
  ASSUME IInv, [Next]_registryVars
  PROVE  IInv'
<1>t. TypeOK'
  BY TypeStep DEF IInv
<1> DEFINE Rest == SweptLapsed /\ AnswerIsRecorded /\ ReportIsRecorded /\ SharedIsReported
<1> SUFFICES Rest'
  BY <1>t DEF IInv
<1>1. ASSUME NEW a \in Agents, Mutate(a) PROVE Rest'
  <2>1. CASE Join(a)
    <3> PICK files \in IF Unchecked THEN SUBSET Files ELSE {{}} :
             /\ Admitted
             /\ Record(a, "join", [state |-> "active", owns |-> files])
             /\ Asks(a, files, FALSE, {})
      BY <2>1 DEF Join
    <3>1. files \in SUBSET Files
      OBVIOUS
    <3>2. [state |-> "active", owns |-> files] \in Entries
      BY <3>1 DEF Entries
    <3> QED BY <3>1, <3>2, AskStep
  <2>2. CASE Leave(a)
    <3>1. Absent \in Entries /\ Absent.owns = {}
      BY DEF Absent, Entries
    <3> QED BY <2>2, <3>1, AskStep DEF Leave
  <2>3. CASE Heartbeat(a)
    <3>1. entry' = [entry EXCEPT ![a] = Revived(a)] /\ Revived(a).owns = entry[a].owns
      BY <2>3 DEF Heartbeat, Record, Revived, IInv, TypeOK, Entries
    <3>2. \A b \in Agents : entry'[b].owns = entry[b].owns
      BY <3>1 DEF IInv, TypeOK
    <3>3. /\ UNCHANGED <<told, warned, lapsed>>
          /\ timedOut' = timedOut \ {a}
          /\ txn'.kind = "heartbeat" /\ txn'.todo = {}
      BY <2>3 DEF Heartbeat, Record, agentView
    <3> QED BY <3>2, <3>3 DEF IInv, SweptLapsed, AnswerIsRecorded, ReportIsRecorded,
                SharedIsReported, Reported
  <2>4. CASE UpdateOwnership(a)
    <3> PICK files \in SUBSET Files :
             /\ Unchecked
             /\ Admitted
             /\ Record(a, "ownership", [state |-> "active", owns |-> files])
             /\ Asks(a, files, FALSE, {})
      BY <2>4 DEF UpdateOwnership
    <3>1. [state |-> "active", owns |-> files] \in Entries
      BY DEF Entries
    <3> QED BY <3>1, AskStep
  <2>5. CASE Claim(a)
    <3> PICK files \in SUBSET Files, mode \in Modes :
             /\ Admitted
             /\ mode = "strict" => Conflicts(a, files) = {}
             /\ Record(a, "ownership", [state |-> "active", owns |-> files])
             /\ Asks(a, files, TRUE, IF mode = "strict" THEN {} ELSE Conflicts(a, files))
      BY <2>5 DEF Claim
    <3>0. Asks(a, files, TRUE, Conflicts(a, files))
      BY DEF Asks
    <3>1. [state |-> "active", owns |-> files] \in Entries
      BY DEF Entries
    <3>2. Conflicts(a, files) \in SUBSET Files
      BY DEF Conflicts
    <3>3. ASSUME NEW b \in Agents \ {a}, NEW f \in files \cap entry[b].owns
          PROVE  b \in lapsed \/ f \in Conflicts(a, files)
      <4>1. CASE Live(b)
        BY <4>1 DEF Conflicts
      <4>2. CASE ~Live(b)
        BY <4>2 DEF Live, IInv, TypeOK, SweptLapsed
      <4> QED BY <4>1, <4>2
    <3> QED BY <3>0, <3>1, <3>2, <3>3, AskStep
  <2> QED BY <1>1, <2>1, <2>2, <2>3, <2>4, <2>5 DEF Mutate
<1>2. ASSUME NEW a \in Agents, SweepRecord(a) PROVE Rest'
  <2>1. /\ entry' = [entry EXCEPT ![a] = Released(a)]
        /\ UNCHANGED <<timedOut, told, warned, lapsed>>
        /\ txn'.kind = "sweep" /\ txn'.todo \subseteq txn.todo
        /\ a \in timedOut /\ a \in lapsed
    BY <1>2 DEF SweepRecord, Sweep, agentView, IInv, SweptLapsed
  <2>2. entry'[a].owns = {} /\ \A b \in Agents \ {a} : entry'[b] = entry[b]
    BY <2>1 DEF Released, IInv, TypeOK
  <2> QED BY <2>1, <2>2 DEF IInv, SweptLapsed, AnswerIsRecorded, ReportIsRecorded,
              SharedIsReported, Reported
<1>3. ASSUME NEW a \in Agents, JudgeFreeze(a) \/ UnlinkFreeze(a) PROVE Rest'
  BY <1>3 DEF JudgeFreeze, UnlinkFreeze, agentView, IInv, SweptLapsed, AnswerIsRecorded,
              ReportIsRecorded, SharedIsReported, Reported
<1>4. ASSUME NEW a \in Agents, TimeOut(a) PROVE Rest'
  BY <1>4 DEF TimeOut, IInv, SweptLapsed, AnswerIsRecorded, ReportIsRecorded,
              SharedIsReported, Reported
<1>5. ASSUME Refused \/ KillTorn PROVE Rest'
  BY <1>5 DEF Refused, KillTorn, agentView, IInv, SweptLapsed, AnswerIsRecorded,
              ReportIsRecorded, SharedIsReported, Reported
<1>6. ASSUME Finish PROVE Rest'
  <2>1. UNCHANGED <<entry, timedOut, warned, lapsed>> /\ txn'.kind = "none" /\ txn'.todo = {}
    BY <1>6 DEF Finish, NoTxn
  <2>2. \A b \in Agents : told'[b].files = told[b].files /\ told'[b].asked = told[b].asked
    BY <1>6 DEF Finish, IInv, TypeOK
  <2>3. \A b \in Agents : told'[b].sure => told[b].sure \/ entry[b].owns = told[b].files
    BY <1>6 DEF Finish, IInv, TypeOK, AnswerIsRecorded, Kinds
  <2> QED BY <2>1, <2>2, <2>3 DEF IInv, SweptLapsed, AnswerIsRecorded, ReportIsRecorded,
              SharedIsReported, Reported
<1>7. ASSUME StartSweep PROVE Rest'
  BY <1>7 DEF StartSweep, Sweep, StaleAgents, agentView, IInv, SweptLapsed, AnswerIsRecorded,
              ReportIsRecorded, SharedIsReported, Reported
<1>8. ASSUME SweepHead \/ Kill PROVE Rest'
  <2>1. UNCHANGED <<entry, timedOut, told, warned, lapsed>> /\ (txn' = txn \/ txn' = NoTxn)
    BY <1>8 DEF SweepHead, Kill, agentView
  <2> QED BY <2>1 DEF NoTxn, IInv, SweptLapsed, AnswerIsRecorded,
              ReportIsRecorded, SharedIsReported, Reported
<1>9. ASSUME UNCHANGED registryVars PROVE Rest'
  BY <1>9 DEF registryVars, agentView, IInv, SweptLapsed, AnswerIsRecorded,
              ReportIsRecorded, SharedIsReported, Reported
<1> QED BY <1>1, <1>2, <1>3, <1>4, <1>5, <1>6, <1>7, <1>8, <1>9 DEF Next

LEMMA Invariant == Spec => []IInv
  BY InvInit, InvStep, PTL DEF Spec

-----------------------------------------------------------------------------
(* The theorems *)

\* The registry, its freeze and its transactions keep their shape, and only
\* active agents own files (TypeOK)
THEOREM TypeCorrect == Spec => []TypeOK
<1>1. IInv => TypeOK
  BY DEF IInv
<1> QED BY <1>1, Invariant, PTL

\* Nobody takes, releases or sweeps the files of an agent that keeps beating,
\* whichever commands are killed (LiveOwnersKeepTheirFiles)
THEOREM OwnersCorrect == Spec => []LiveOwnersKeepTheirFiles
<1>1. IInv => LiveOwnersKeepTheirFiles
  BY DEF IInv, ReportIsRecorded, LiveOwnersKeepTheirFiles
<1> QED BY <1>1, Invariant, PTL

\* A file with two live owners was reported to one of them, or one came back
\* after a time out or did not look; a strict claim is refused where it would have to be warned
\* (SharingIsReported)
THEOREM SharingCorrect == Spec => []SharingIsReported
<1>1. IInv => SharingIsReported
  BY DEF IInv, SharedIsReported, Reported, SharingIsReported
<1> QED BY <1>1, Invariant, PTL

\* What a killed command left half done stays refused (KilledRecordStaysRefused)
THEOREM RefusalCorrect == Spec => KilledRecordStaysRefused
<1>1. ASSUME [Next]_registryVars, ahead, txn = NoTxn
      PROVE  ahead' /\ txn' = NoTxn /\ entry' = entry
  <2> USE <1>1 DEF NoTxn
  <2>1. ASSUME NEW a \in Agents, Mutate(a) PROVE FALSE
    BY <2>1 DEF Mutate, Join, Leave, Heartbeat, UpdateOwnership, Claim, Record
  <2>2. ASSUME NEW a \in Agents,
               SweepRecord(a) \/ JudgeFreeze(a) \/ UnlinkFreeze(a) \/ TimeOut(a)
        PROVE  ahead' /\ txn' = NoTxn /\ entry' = entry
    BY <2>2 DEF SweepRecord, JudgeFreeze, UnlinkFreeze, TimeOut
  <2>3. CASE Refused \/ Finish \/ StartSweep \/ SweepHead \/ Kill \/ KillTorn
    BY <2>3 DEF Refused, Finish, StartSweep, SweepHead, Kill, KillTorn, Kinds
  <2>4. CASE UNCHANGED registryVars
    BY <2>4 DEF registryVars
  <2> QED BY <2>1, <2>2, <2>3, <2>4 DEF Next
<1> QED BY <1>1, PTL DEF Spec, KilledRecordStaysRefused

-----------------------------------------------------------------------------
(* Sessions *)

\* The session has lost its freeze, and can no longer end well
LostFreeze(s) ==
  /\ spc[s] \in Open \cup {"lost", "failed", "dead"}
  /\ spc[s] \in Open => freeze.owner # s

LosersLost == \A s \in disturbed \cup overlapped : LostFreeze(s)

SessionInv == SessionTypeOK /\ FrozenIsQuiet /\ LosersLost

-----------------------------------------------------------------------------
(* Lemmas *)

USE AgentRegistryAssumption

LEMMA SessionInitInv == SessionInit => SessionInv
<1> SUFFICES ASSUME SessionInit PROVE SessionInv
  OBVIOUS
<1>1. TypeOK
  <2>1. gone \subseteq Auditors /\ freeze \in [owner : Auditors, named : BOOLEAN] \cup {NoFreeze}
    BY DEF SessionInit
  <2> QED BY <2>1, TypeInit DEF SessionInit
<1>2. SessionTypeOK
  BY <1>1 DEF SessionInit, SessionTypeOK, Phases, Ended
<1>3. FrozenIsQuiet
  BY DEF SessionInit, NoFreeze, FrozenIsQuiet
<1>4. LosersLost
  BY DEF SessionInit, LosersLost
<1> QED BY <1>2, <1>3, <1>4 DEF SessionInv

\* A session that is not over has a freeze that is not dead
LEMMA FreezeOfTheLiving ==
  ASSUME SessionTypeOK, NEW s \in Auditors, spc[s] \notin Ended, freeze.owner = s
  PROVE  FreezeActive
BY DEF SessionTypeOK, FreezeActive, FreezeDead, NoFreeze

\* A step of the registry that lets a freeze be or removes it keeps the shape
LEMMA RegistryEffect ==
  ASSUME SessionTypeOK, [Next]_registryVars, UNCHANGED <<spc, product, base, sound, overlapped>>,
         disturbed' \in SUBSET Auditors,
         gone' = gone, freeze' \in {freeze, NoFreeze}
  PROVE  SessionTypeOK'
BY TypeStep DEF SessionTypeOK

\* A command is admitted only where there is no freeze or a dead one
LEMMA AgentEffect ==
  ASSUME AgentStep
  PROVE  [Next]_registryVars /\ gone' = gone /\ freeze' = NoFreeze /\ ~FreezeActive
BY DEF AgentStep, Mutate, Join, Leave, Heartbeat, UpdateOwnership, Claim, Admitted, Record, Next

\* Nothing else makes an agent live
LEMMA OtherEffect ==
  ASSUME TypeOK, RegistryStep
  PROVE  /\ [Next]_registryVars
         /\ gone' = gone
         /\ freeze' \in {freeze, NoFreeze}
         /\ \A a \in Agents : Live(a)' => Live(a)
<1>1. [Next]_registryVars
  BY DEF RegistryStep, Next
<1>2. ASSUME NEW a \in Agents, SweepRecord(a) \/ JudgeFreeze(a) \/ UnlinkFreeze(a) \/ TimeOut(a)
      PROVE  /\ gone' = gone /\ freeze' \in {freeze, NoFreeze}
             /\ \A b \in Agents : Live(b)' => Live(b)
  BY <1>2 DEF SweepRecord, JudgeFreeze, UnlinkFreeze, TimeOut, Released, Live, TypeOK
<1>3. ASSUME Refused \/ Finish \/ StartSweep \/ SweepHead \/ KillTorn \/ Kill
      PROVE  /\ gone' = gone /\ freeze' \in {freeze, NoFreeze}
             /\ \A b \in Agents : Live(b)' => Live(b)
  BY <1>3 DEF Refused, Admitted, Finish, StartSweep, SweepHead, KillTorn, Kill, Live
<1> QED BY <1>1, <1>2, <1>3 DEF RegistryStep

-----------------------------------------------------------------------------
(* The shape of sessions *)

LEMMA SessionTypeStep ==
  ASSUME SessionTypeOK, [SessionNext]_vars
  PROVE  SessionTypeOK'
<1> USE DEF SessionTypeOK, TypeOK, Step, registryIdle, Phases, Open, Ended
<1>1. ASSUME NEW s \in Auditors, Enter(s) PROVE SessionTypeOK'
  BY <1>1 DEF Enter, agentView
<1>2. ASSUME NEW s \in Auditors, EnterRefused(s) PROVE SessionTypeOK'
  BY <1>2 DEF EnterRefused, agentView
<1>3. ASSUME NEW s \in Auditors, NameFreeze(s) PROVE SessionTypeOK'
  BY <1>3 DEF NameFreeze, agentView, NoTxn, NoFreeze
<1>4. ASSUME NEW s \in Auditors, Fingerprint(s) PROVE SessionTypeOK'
  BY <1>4 DEF Fingerprint, agentView
<1>5. ASSUME NEW s \in Auditors, CheckFreeze(s) PROVE SessionTypeOK'
  BY <1>5 DEF CheckFreeze, agentView, Opened
<1>6. ASSUME NEW s \in Auditors, Compare(s) PROVE SessionTypeOK'
  BY <1>6 DEF Compare, agentView
<1>7. ASSUME NEW s \in Auditors, Close(s) PROVE SessionTypeOK'
  BY <1>7 DEF Close, agentView
<1>8. ASSUME NEW s \in Auditors, CloseLost(s) PROVE SessionTypeOK'
  BY <1>8 DEF CloseLost, agentView
<1>9. ASSUME NEW s \in Auditors, KillAuditor(s) PROVE SessionTypeOK'
  BY <1>9 DEF KillAuditor, agentView, NoTxn
<1>10. CASE AgentStep
  BY <1>10, AgentEffect, RegistryEffect DEF AgentStep, Opened
<1>11. CASE RegistryStep
  BY <1>11, OtherEffect, RegistryEffect DEF RegistryStep, sessionVars
<1>12. CASE ChangeProduct
  BY <1>12 DEF ChangeProduct, registryVars, agentView
<1>13. CASE UNCHANGED vars
  BY <1>13 DEF vars, registryVars, sessionVars, agentView
<1> QED BY <1>1, <1>2, <1>3, <1>4, <1>5, <1>6, <1>7, <1>8, <1>9, <1>10, <1>11, <1>12, <1>13
        DEF SessionNext

-----------------------------------------------------------------------------
(* Quiescence and loss of the freeze *)

\* A step of a session that is not its entry moves that session only, and at
\* most removes or completes the freeze that is there
Moves(s) ==
  /\ \A t \in Auditors \ {s} : spc'[t] = spc[t]
  /\ spc[s] \notin Ended
  /\ freeze'.owner \in {freeze.owner, "nobody"}
  /\ UNCHANGED <<entry, timedOut, disturbed>>

LEMMA SessionMoves ==
  ASSUME SessionTypeOK, NEW s \in Auditors,
         \/ EnterRefused(s) \/ NameFreeze(s) \/ Fingerprint(s) \/ CheckFreeze(s)
         \/ Compare(s) \/ Close(s) \/ CloseLost(s) \/ KillAuditor(s)
  PROVE  Moves(s)
<1> USE DEF SessionTypeOK, Moves, Step, registryIdle, Open, Ended
<1>1. CASE EnterRefused(s)
  BY <1>1 DEF EnterRefused, NoFreeze
<1>2. CASE NameFreeze(s)
  BY <1>2 DEF NameFreeze, TypeOK, NoFreeze
<1>3. CASE Fingerprint(s) \/ CheckFreeze(s) \/ Compare(s)
  BY <1>3 DEF Fingerprint, CheckFreeze, Compare
<1>4. CASE Close(s) \/ CloseLost(s)
  BY <1>4 DEF Close, CloseLost, NoFreeze
<1>5. CASE KillAuditor(s)
  BY <1>5 DEF KillAuditor
<1> QED BY <1>1, <1>2, <1>3, <1>4, <1>5

LEMMA QuietStep ==
  ASSUME SessionInv, [SessionNext]_vars
  PROVE  FrozenIsQuiet'
<1> USE DEF SessionInv
<1> SUFFICES ASSUME NEW s \in Auditors, spc'[s] \notin Ended, freeze'.owner = s,
                    NEW a \in Agents
             PROVE  ~Live(a)'
  BY DEF FrozenIsQuiet
<1>0. s # "nobody"
  OBVIOUS
<1>1. ASSUME NEW t \in Auditors, Enter(t) PROVE ~Live(a)'
  BY <1>1 DEF Enter, Quiescent, registryIdle, Live
<1>2. ASSUME NEW t \in Auditors, Moves(t) PROVE ~Live(a)'
  <2>1. spc[s] \notin Ended /\ freeze.owner = s
    BY <1>0, <1>2 DEF Moves
  <2> QED BY <1>2, <2>1 DEF Moves, FrozenIsQuiet, Live
<1>3. CASE AgentStep
  BY <1>0, <1>3, AgentEffect DEF NoFreeze
<1>4. CASE RegistryStep
  <2>1. freeze.owner = s /\ spc[s] \notin Ended
    BY <1>0, <1>4, OtherEffect DEF NoFreeze, SessionTypeOK, RegistryStep, sessionVars
  <2>2. ~Live(a)
    BY <2>1 DEF FrozenIsQuiet
  <2> QED BY <1>4, <2>2, OtherEffect DEF SessionTypeOK
<1>5. CASE ChangeProduct \/ UNCHANGED vars
  BY <1>5 DEF ChangeProduct, vars, sessionVars, registryVars, FrozenIsQuiet, Live
<1> QED BY <1>1, <1>2, <1>3, <1>4, <1>5, SessionMoves DEF SessionNext

LEMMA LossStep ==
  ASSUME SessionInv, [SessionNext]_vars
  PROVE  LosersLost'
<1> USE DEF SessionInv
<1> SUFFICES ASSUME NEW s \in disturbed' \cup overlapped' PROVE LostFreeze(s)'
  BY DEF LosersLost
<1>0. s \in Auditors /\ s # "nobody"
  BY SessionTypeStep DEF SessionTypeOK
<1>1. ASSUME NEW t \in Auditors, Enter(t) PROVE LostFreeze(s)'
  BY <1>0, <1>1 DEF Enter, LosersLost, LostFreeze, Step, Open, SessionTypeOK
<1>2. ASSUME NEW t \in Auditors, Moves(t), s \in disturbed \cup overlapped, s # t
      PROVE  LostFreeze(s)'
  BY <1>0, <1>2 DEF Moves, LosersLost, LostFreeze
<1>3. ASSUME NEW t \in Auditors, t \in disturbed \cup overlapped,
             \/ EnterRefused(t) \/ NameFreeze(t) \/ Fingerprint(t) \/ CheckFreeze(t)
             \/ Compare(t) \/ Close(t) \/ CloseLost(t) \/ KillAuditor(t)
      PROVE  LostFreeze(t)'
  <2> USE DEF LosersLost, LostFreeze, Open, Step, SessionTypeOK
  <2>1. CASE EnterRefused(t) \/ Compare(t) \/ Close(t)
    BY <1>3, <2>1 DEF EnterRefused, Compare, Close
  <2>2. CASE NameFreeze(t) \/ Fingerprint(t)
    BY <1>3, <2>2 DEF NameFreeze, Fingerprint
  <2>3. CASE CheckFreeze(t)
    BY <1>3, <2>3 DEF CheckFreeze, HasFreeze
  <2>4. CASE CloseLost(t) \/ KillAuditor(t)
    BY <1>3, <2>4 DEF CloseLost, KillAuditor
  <2> QED BY <1>3, <2>1, <2>2, <2>3, <2>4
<1>4. ASSUME NEW t \in Auditors, CheckFreeze(t), s \notin disturbed \cup overlapped
      PROVE  LostFreeze(s)'
  <2>1. s \in Opened \ {t} /\ freeze.owner = t /\ freeze' = freeze /\ spc'[s] = spc[s]
    BY <1>0, <1>4 DEF CheckFreeze, HasFreeze, Step, SessionTypeOK
  <2> QED BY <2>1 DEF LostFreeze, Opened
<1>5. ASSUME NEW t \in Auditors, s \notin disturbed \cup overlapped,
             \/ EnterRefused(t) \/ NameFreeze(t) \/ Fingerprint(t)
             \/ Compare(t) \/ Close(t) \/ CloseLost(t) \/ KillAuditor(t)
      PROVE  FALSE
  BY <1>5 DEF EnterRefused, NameFreeze, Fingerprint, Compare, Close, CloseLost, KillAuditor
<1>6. CASE AgentStep
  BY <1>0, <1>6, AgentEffect DEF AgentStep, LosersLost, LostFreeze, Opened, NoFreeze
<1>7. CASE RegistryStep
  BY <1>0, <1>7, OtherEffect DEF RegistryStep, sessionVars, LosersLost, LostFreeze, NoFreeze,
     SessionTypeOK
<1>8. CASE ChangeProduct \/ UNCHANGED vars
  BY <1>8 DEF ChangeProduct, vars, sessionVars, registryVars, LosersLost, LostFreeze
<1> QED BY <1>1, <1>2, <1>3, <1>4, <1>5, <1>6, <1>7, <1>8, SessionMoves DEF SessionNext

LEMMA SessionInvariant == SessionSpec => []SessionInv
<1>1. SessionInv /\ [SessionNext]_vars => SessionInv'
  BY SessionTypeStep, QuietStep, LossStep DEF SessionInv
<1> QED BY <1>1, SessionInitInv, PTL DEF SessionSpec

-----------------------------------------------------------------------------
(* The theorems *)

\* Registry, freeze and sessions keep their shape (SessionTypeOK)
THEOREM SessionTypeCorrect == SessionSpec => []SessionTypeOK
<1>1. SessionInv => SessionTypeOK
  BY DEF SessionInv
<1> QED BY <1>1, SessionInvariant, PTL

\* As long as a session has its freeze no agent is live (FrozenIsQuiet)
THEOREM QuietCorrect == SessionSpec => []FrozenIsQuiet
<1>1. SessionInv => FrozenIsQuiet
  BY DEF SessionInv
<1> QED BY <1>1, SessionInvariant, PTL

\* No agent changed the registry under a session that ends without an error
\* (PassedSessionWasQuiet)
THEOREM PassedCorrect == SessionSpec => []PassedSessionWasQuiet
<1>1. SessionInv => PassedSessionWasQuiet
  BY DEF SessionInv, LosersLost, LostFreeze, PassedSessionWasQuiet, Open
<1> QED BY <1>1, SessionInvariant, PTL

\* Of two sessions open at the same time at most one ends without an error
\* (OverlappingSessionsDoNotPass)
THEOREM OverlapCorrect == SessionSpec => []OverlappingSessionsDoNotPass
<1>1. SessionInv => OverlappingSessionsDoNotPass
  BY DEF SessionInv, LosersLost, LostFreeze, OverlappingSessionsDoNotPass, Open
<1> QED BY <1>1, SessionInvariant, PTL
=============================================================================
