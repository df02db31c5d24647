----------------------------- MODULE ApprovalProofs -----------------------------
(***************************************************************************)
(* What holds of the approval of a plan, for every number of processes,    *)
(* plans, requests, edits and crashes.  First the data: check_monotonic is *)
(* a preorder, and what is aligned with a request stays aligned under it.  *)
(* Then Approval: who writes which file, the types, and one invariant for  *)
(* each of its properties:                                                 *)
(*   Kept          the evidence outlives its signing                       *)
(*   SealOK        a seal is of a plan and passes its own check            *)
(*   Authentic     what a process may write once a workspace is signed     *)
(*   ApprovedOK    what the seal and what has run stand for                *)
(*   UndisputedOK  how far an undisturbed integrity init has come          *)
(***************************************************************************)
EXTENDS Approval, TLAPS, FiniteSetTheorems, SequenceTheorems

\* A JSON list
IsList(s) == \E S : s \in Seq(S)

\* The parts of a plan that are lists are lists
StepWellFormed(step) ==
  /\ IsList(step.verify) /\ IsList(Parents(step)) /\ IsList(step.requires) /\ IsList(step.covers)
  /\ \A name \in DOMAIN OutputMap(step) : IsList(OutputMap(step)[name].checks)

WellFormed(doc) ==
  /\ \A i \in DOMAIN doc.steps : StepWellFormed(doc.steps[i])
  /\ IsList(doc.steps)
  /\ doc.reqs # Undeclared => IsList(doc.reqs)
  /\ IsList(doc.tools)

Positions(list, x) == {i \in DOMAIN list : list[i] = x}

-----------------------------------------------------------------------------
(* Multisets *)

\* The positions of a list are numbered from 1 to its length
LEMMA ListDomain ==
  ASSUME NEW list, IsList(list)
  PROVE  Len(list) \in Nat /\ DOMAIN list = 1..Len(list)
<1>1. PICK S : list \in Seq(S)  BY DEF IsList
<1> QED  BY <1>1

\* A count is a number, and it is positive for the members of the list
LEMMA CountType ==
  ASSUME NEW list, IsList(list), NEW x
  PROVE  /\ Count(list, x) \in Nat
         /\ x \in ToSet(list) <=> Count(list, x) > 0
<1>1. IsFiniteSet(Positions(list, x))
  <2>1. PICK n \in Nat : DOMAIN list = 1..n  BY ListDomain
  <2>2. IsFiniteSet(1..n)  BY <2>1, FS_Interval
  <2>3. Positions(list, x) \subseteq 1..n  BY <2>1 DEF Positions
  <2> QED  BY <2>2, <2>3, FS_Subset
<1>2. Count(list, x) = Cardinality(Positions(list, x))  BY DEF Count, Positions
<1>3. Count(list, x) \in Nat  BY <1>1, <1>2, FS_CardinalityType
<1>4. Count(list, x) = 0 <=> Positions(list, x) = {}  BY <1>1, <1>2, FS_EmptySet
<1>5. x \in ToSet(list) <=> Positions(list, x) # {}  BY DEF ToSet, Positions
<1> QED  BY <1>3, <1>4, <1>5

LEMMA ContainsReflexive ==
  ASSUME NEW a, IsList(a)
  PROVE  MultisetContains(a, a)
BY CountType DEF MultisetContains

LEMMA ContainsTransitive ==
  ASSUME NEW a, NEW b, NEW c, IsList(a), IsList(b), IsList(c),
         MultisetContains(a, b), MultisetContains(b, c)
  PROVE  MultisetContains(a, c)
<1> SUFFICES ASSUME NEW x \in ToSet(a) PROVE Count(a, x) <= Count(c, x)  BY DEF MultisetContains
<1>1. Count(a, x) \in Nat /\ Count(b, x) \in Nat /\ Count(c, x) \in Nat  BY CountType
<1>2. Count(a, x) > 0 /\ Count(a, x) <= Count(b, x)  BY CountType DEF MultisetContains
<1>3. x \in ToSet(b)  BY <1>1, <1>2, CountType
<1>4. Count(b, x) <= Count(c, x)  BY <1>3 DEF MultisetContains
<1> QED  BY <1>1, <1>2, <1>4

\* What a list contains, a list that contains it contains as well
LEMMA ContainsMembers ==
  ASSUME NEW a, NEW b, IsList(a), IsList(b), MultisetContains(a, b)
  PROVE  ToSet(a) \subseteq ToSet(b)
<1> SUFFICES ASSUME NEW x \in ToSet(a) PROVE x \in ToSet(b)  OBVIOUS
<1>1. Count(a, x) \in Nat /\ Count(b, x) \in Nat  BY CountType
<1>2. Count(a, x) > 0 /\ Count(a, x) <= Count(b, x)  BY CountType DEF MultisetContains
<1> QED  BY <1>1, <1>2, CountType

LEMMA SameReflexive ==
  ASSUME NEW a, IsList(a)
  PROVE  SameMultiset(a, a)
BY ContainsReflexive DEF SameMultiset

LEMMA SameTransitive ==
  ASSUME NEW a, NEW b, NEW c, IsList(a), IsList(b), IsList(c), SameMultiset(a, b), SameMultiset(b, c)
  PROVE  SameMultiset(a, c)
BY ContainsTransitive DEF SameMultiset

-----------------------------------------------------------------------------
(* Steps and plans *)

LEMMA StepReflexive ==
  ASSUME NEW s, StepWellFormed(s)
  PROVE  StepKept(s, s)
<1>1. \A name \in DOMAIN OutputMap(s) : OutputKept(OutputMap(s)[name], OutputMap(s)[name])
  BY ContainsReflexive DEF OutputKept, StepWellFormed
<1>2. /\ MultisetContains(s.verify, s.verify) /\ MultisetContains(Parents(s), Parents(s))
      /\ MultisetContains(s.requires, s.requires) /\ SameMultiset(s.covers, s.covers)
  BY ContainsReflexive, SameReflexive DEF StepWellFormed
<1> QED  BY <1>1, <1>2 DEF StepKept

LEMMA StepTransitive ==
  ASSUME NEW s, NEW t, NEW u, StepWellFormed(s), StepWellFormed(t), StepWellFormed(u),
         StepKept(s, t), StepKept(t, u)
  PROVE  StepKept(s, u)
<1>1. s.id = u.id /\ s.title = u.title  BY DEF StepKept
<1>2. MultisetContains(s.verify, u.verify)
  <2>1. MultisetContains(s.verify, t.verify) /\ MultisetContains(t.verify, u.verify)  BY DEF StepKept
  <2> QED  BY <2>1, ContainsTransitive DEF StepWellFormed
<1>3. MultisetContains(Parents(s), Parents(u))
  <2>1. MultisetContains(Parents(s), Parents(t)) /\ MultisetContains(Parents(t), Parents(u))  BY DEF StepKept
  <2> QED  BY <2>1, ContainsTransitive DEF StepWellFormed
<1>4. MultisetContains(s.requires, u.requires)
  <2>1. MultisetContains(s.requires, t.requires) /\ MultisetContains(t.requires, u.requires)  BY DEF StepKept
  <2> QED  BY <2>1, ContainsTransitive DEF StepWellFormed
<1>5. SameMultiset(s.covers, u.covers)
  <2>1. SameMultiset(s.covers, t.covers) /\ SameMultiset(t.covers, u.covers)  BY DEF StepKept
  <2> QED  BY <2>1, SameTransitive DEF StepWellFormed
<1>6. DOMAIN OutputMap(s) = DOMAIN OutputMap(t) /\ DOMAIN OutputMap(t) = DOMAIN OutputMap(u)
  BY DEF StepKept
<1>7. ASSUME NEW name \in DOMAIN OutputMap(s)
      PROVE  OutputKept(OutputMap(s)[name], OutputMap(u)[name])
  <2> DEFINE a == OutputMap(s)[name]
             b == OutputMap(t)[name]
             c == OutputMap(u)[name]
  <2>1. OutputKept(a, b) /\ OutputKept(b, c)  BY <1>6, <1>7 DEF StepKept
  <2>2. IsList(a.checks) /\ IsList(b.checks) /\ IsList(c.checks)  BY <1>6, <1>7 DEF StepWellFormed
  <2>3. MultisetContains(a.checks, c.checks)
    <3>1. MultisetContains(a.checks, b.checks) /\ MultisetContains(b.checks, c.checks)
      BY <2>1 DEF OutputKept
    <3> HIDE DEF a, b, c
    <3> QED  BY <2>2, <3>1, ContainsTransitive
  <2> QED  BY <2>1, <2>3 DEF OutputKept
<1> QED  BY <1>1, <1>2, <1>3, <1>4, <1>5, <1>6, <1>7 DEF StepKept

\* A plan that is not edited meets its seal: sealing.py, check_monotonic
THEOREM MonotonicReflexive ==
  ASSUME NEW doc, WellFormed(doc)
  PROVE  CheckMonotonic(doc, doc)
<1>1. \A i \in DOMAIN doc.steps : StepKept(doc.steps[i], doc.steps[i])
  BY StepReflexive DEF WellFormed
<1>2. RequirementsKept(doc.reqs, doc.reqs)  BY SameReflexive DEF RequirementsKept, WellFormed
<1>3. SameMultiset(doc.tools, doc.tools)  BY SameReflexive DEF WellFormed
<1> QED  BY <1>1, <1>2, <1>3 DEF CheckMonotonic

\* check_monotonic of sealing.py is transitive. The commands compare the plan with its seal and
\* not with what it was before the last edit: that accepts whatever edit by edit would be accepted
THEOREM MonotonicTransitive ==
  ASSUME NEW a, NEW b, NEW c, WellFormed(a), WellFormed(b), WellFormed(c),
         CheckMonotonic(a, b), CheckMonotonic(b, c)
  PROVE  CheckMonotonic(a, c)
<1>1. Len(a.steps) = Len(c.steps) /\ DOMAIN a.steps = DOMAIN b.steps /\ DOMAIN b.steps = DOMAIN c.steps
  <2>1. Len(a.steps) = Len(b.steps) /\ Len(b.steps) = Len(c.steps)  BY DEF CheckMonotonic
  <2>2. IsList(a.steps) /\ IsList(b.steps) /\ IsList(c.steps)  BY DEF WellFormed
  <2> QED  BY <2>1, <2>2, ListDomain
<1>2. ASSUME NEW i \in DOMAIN a.steps
      PROVE  StepKept(a.steps[i], c.steps[i])
  <2>1. StepKept(a.steps[i], b.steps[i]) /\ StepKept(b.steps[i], c.steps[i])
    BY <1>1 DEF CheckMonotonic
  <2>2. StepWellFormed(a.steps[i]) /\ StepWellFormed(b.steps[i]) /\ StepWellFormed(c.steps[i])
    BY <1>1 DEF WellFormed
  <2> QED  BY <2>1, <2>2, StepTransitive
<1>3. RequirementsKept(a.reqs, c.reqs)
  <2>1. RequirementsKept(a.reqs, b.reqs) /\ RequirementsKept(b.reqs, c.reqs)  BY DEF CheckMonotonic
  <2>2. CASE Undeclared \in {a.reqs, b.reqs, c.reqs}  BY <2>1, <2>2 DEF RequirementsKept
  <2>3. CASE Undeclared \notin {a.reqs, b.reqs, c.reqs}
    <3>1. SameMultiset(a.reqs, b.reqs) /\ SameMultiset(b.reqs, c.reqs)
      BY <2>1, <2>3 DEF RequirementsKept
    <3>2. IsList(a.reqs) /\ IsList(b.reqs) /\ IsList(c.reqs)  BY <2>3 DEF WellFormed
    <3>3. SameMultiset(a.reqs, c.reqs)  BY <3>1, <3>2, SameTransitive
    <3> QED  BY <2>3, <3>3 DEF RequirementsKept
  <2> QED  BY <2>2, <2>3
<1>4. SameMultiset(a.tools, c.tools)
  <2>1. SameMultiset(a.tools, b.tools) /\ SameMultiset(b.tools, c.tools)  BY DEF CheckMonotonic
  <2>2. IsList(a.tools) /\ IsList(b.tools) /\ IsList(c.tools)  BY DEF WellFormed
  <2> QED  BY <2>1, <2>2, SameTransitive
<1>5. a.task = c.task /\ TrafficScope(a.traffic) = TrafficScope(c.traffic)  BY DEF CheckMonotonic
<1> QED  BY <1>1, <1>2, <1>3, <1>4, <1>5 DEF CheckMonotonic

-----------------------------------------------------------------------------
(* Alignment *)

\* The steps of one plan that cover a requirement
Covering(doc, req) == CoveringSteps({doc}, req)

\* An amended plan states every requirement that its predecessor states
LEMMA StatesKept ==
  ASSUME NEW before, NEW now, NEW req, WellFormed(before), WellFormed(now),
         CheckMonotonic(before, now), States(before, req)
  PROVE  States(now, req)
<1>1. PICK item \in DeclaredRequirements(before) :
        item.id = req.id /\ item.description = req.description /\ item.priority = req.priority
  BY DEF States
<1>2. before.reqs # Undeclared /\ item \in ToSet(before.reqs)  BY <1>1 DEF DeclaredRequirements
<1>3. RequirementsKept(before.reqs, now.reqs)  BY DEF CheckMonotonic
<1>4. now.reqs # Undeclared /\ SameMultiset(before.reqs, now.reqs)
  BY <1>2, <1>3 DEF RequirementsKept
<1>5. IsList(before.reqs) /\ IsList(now.reqs)  BY <1>2, <1>4 DEF WellFormed
<1>6. item \in ToSet(now.reqs)  BY <1>2, <1>4, <1>5, ContainsMembers DEF SameMultiset
<1>7. item \in DeclaredRequirements(now)  BY <1>4, <1>6 DEF DeclaredRequirements
<1> QED  BY <1>1, <1>7 DEF States

\* What covers a requirement still covers it after an amendment, with the checks it had
LEMMA CoverKept ==
  ASSUME NEW before, NEW now, NEW req, WellFormed(before), WellFormed(now),
         CheckMonotonic(before, now), NEW step \in Covering(before, req)
  PROVE  \E kept \in Covering(now, req) : ToSet(step.verify) \subseteq ToSet(kept.verify)
<1>1. States(before, req) /\ step \in ToSet(before.steps) /\ req.id \in ToSet(step.covers)
  BY DEF Covering, CoveringSteps
<1>2. PICK i \in DOMAIN before.steps : step = before.steps[i]  BY <1>1 DEF ToSet
<1>3. i \in DOMAIN now.steps
  <2>1. Len(before.steps) = Len(now.steps)  BY DEF CheckMonotonic
  <2>2. IsList(before.steps) /\ IsList(now.steps)  BY DEF WellFormed
  <2> QED  BY <1>2, <2>1, <2>2, ListDomain
<1> DEFINE kept == now.steps[i]
<1>4. StepKept(step, kept)  BY <1>2 DEF CheckMonotonic
<1>5. StepWellFormed(step) /\ StepWellFormed(kept)  BY <1>2, <1>3 DEF WellFormed
<1>6. kept \in ToSet(now.steps)  BY <1>3 DEF ToSet
<1> HIDE DEF kept
<1>7. IsList(step.verify) /\ IsList(kept.verify) /\ IsList(step.covers) /\ IsList(kept.covers)
  BY <1>5 DEF StepWellFormed
<1>8. MultisetContains(step.verify, kept.verify) /\ MultisetContains(step.covers, kept.covers)
  BY <1>4 DEF StepKept, SameMultiset
<1>9. ToSet(step.verify) \subseteq ToSet(kept.verify)  BY <1>7, <1>8, ContainsMembers
<1>10. ToSet(step.covers) \subseteq ToSet(kept.covers)  BY <1>7, <1>8, ContainsMembers
<1>11. States(now, req)  BY <1>1, StatesKept
<1>12. kept \in Covering(now, req)  BY <1>1, <1>6, <1>10, <1>11 DEF Covering, CoveringSteps
<1> QED  BY <1>9, <1>12

\* A plan that serves the request serves it after every amendment that check_monotonic accepts:
\* request_contract.py, analyze_request_alignment
THEOREM AlignmentSurvivesAmendment ==
  ASSUME NEW before, NEW now, NEW wanted, WellFormed(before), WellFormed(now),
         CheckMonotonic(before, now), Aligned({before}, wanted)
  PROVE  Aligned({now}, wanted)
<1> DEFINE checksOf(doc, req) == UNION {ToSet(step.verify) : step \in Covering(doc, req)}
<1>1. wanted # <<>>  BY DEF Aligned, Covering
<1>2. \A req : \A step \in Covering(before, req) :
        \E kept \in Covering(now, req) : ToSet(step.verify) \subseteq ToSet(kept.verify)
  BY CoverKept
<1>3. ASSUME NEW i \in DOMAIN wanted
      PROVE  /\ States(now, wanted[i])
             /\ wanted[i].priority \in {"must", "should"} =>
                  /\ Covering(now, wanted[i]) # {}
                  /\ wanted[i].checks \subseteq checksOf(now, wanted[i])
  <2> DEFINE req == wanted[i]
  <2>1. States(before, req)  BY DEF Aligned, Covering
  <2>2. States(now, req)  BY <2>1, StatesKept
  <2>3. ASSUME req.priority \in {"must", "should"}
        PROVE  /\ Covering(now, req) # {}
               /\ req.checks \subseteq checksOf(now, req)
    <3>1. Covering(before, req) # {} /\ req.checks \subseteq checksOf(before, req)
      BY <2>3 DEF Aligned, Covering
    <3>2. Covering(now, req) # {}  BY <1>2, <3>1
    <3>3. ASSUME NEW check \in req.checks PROVE check \in checksOf(now, req)
      <4>1. PICK step \in Covering(before, req) : check \in ToSet(step.verify)  BY <3>1, <3>3
      <4>2. PICK kept \in Covering(now, req) : ToSet(step.verify) \subseteq ToSet(kept.verify)
        BY <1>2
      <4> QED  BY <4>1, <4>2
    <3> QED  BY <3>2, <3>3
  <2> QED  BY <2>2, <2>3
<1> QED  BY <1>1, <1>3 DEF Aligned, Covering
-----------------------------------------------------------------------------
(* Who changes what *)

\* The steps that leave the files of the approval, of the evidence and of integrity as they are
Looks(s) ==
  \/ StartRequest(s) \/ StartVerify(s) \/ VerifyLoad(s) \/ VerifyCheck(s) \/ StartMigrate(s) \/ MigrateOne(s)
  \/ SaveOpen(s) \/ StartCompile(s) \/ CompileOpen(s) \/ StartRun(s) \/ StartAudit(s) \/ AuditLoad(s)
  \/ ReadSeal(s) \/ Execute(s) \/ AppendOpen(s) \/ StartIntegrity(s) \/ ReadPair(s) \/ ReadLog(s) \/ SignSealOpen(s) \/ Crash(s)

LEMMA LooksOnly ==
  ASSUME NEW s \in Slots, Looks(s)
  PROVE  UNCHANGED <<plan, config, request, activation, seal, log, head, appended, exposed, registry, marker,
                     straddled, reported>>
<1> USE DEF approvalFiles, planFiles, evidence, integrity
<1>1. CASE StartRequest(s) \/ StartVerify(s) \/ VerifyLoad(s) \/ VerifyCheck(s) \/ StartMigrate(s) \/ MigrateOne(s)
  BY <1>1 DEF StartRequest, StartVerify, VerifyLoad, VerifyCheck, StartMigrate, MigrateOne
<1>2. CASE SaveOpen(s) \/ StartCompile(s) \/ CompileOpen(s) \/ StartRun(s) \/ StartAudit(s) \/ AuditLoad(s)
  BY <1>2 DEF SaveOpen, StartCompile, CompileOpen, StartRun, StartAudit, AuditLoad
<1>3. CASE ReadSeal(s) \/ Execute(s) \/ AppendOpen(s) \/ StartIntegrity(s) \/ ReadPair(s) \/ ReadLog(s)
  BY <1>3 DEF ReadSeal, Execute, AppendOpen, StartIntegrity, ReadPair, ReadLog
<1>4. CASE SignSealOpen(s) \/ Crash(s)
  BY <1>4 DEF SignSealOpen, Crash
<1> QED BY <1>1, <1>2, <1>3, <1>4 DEF Looks

LEMMA WhoWritesPlan ==
  ASSUME [Next]_vars
  PROVE  \/ UNCHANGED <<plan, config>>
         \/ EditPlan \/ EditConfig
         \/ \E s \in Slots : CompileReplace(s) \/ StorePlan(s)
<1> USE DEF approvalFiles, planFiles, evidence, integrity, counters
<1>1. CASE UNCHANGED vars
  BY <1>1 DEF vars
<1>2. ASSUME NEW s \in Slots, Looks(s) PROVE UNCHANGED <<plan, config>>
  BY <1>2, LooksOnly
<1>3. ASSUME NEW s \in Slots, WriteRequest(s) \/ WriteActivation(s) \/ SaveReplace(s) \/ SignRequest(s) \/ SignActivation(s) \/ SignSealReplace(s)
      PROVE  UNCHANGED <<plan, config>>
  BY <1>3 DEF WriteRequest, WriteActivation, SaveReplace, SignRequest, SignActivation, SignSealReplace
<1>4. ASSUME NEW s \in Slots, AppendWrite(s) \/ ReplaceLog(s) \/ WriteHead(s)
      PROVE  UNCHANGED <<plan, config>>
  BY <1>4 DEF AppendWrite, ReplaceLog, WriteHead
<1>5. ASSUME NEW s \in Slots, SignRegistry(s) \/ WriteMarker(s) \/ CheckStatus(s)
      PROVE  UNCHANGED <<plan, config>>
  BY <1>5 DEF SignRegistry, WriteMarker, CheckStatus
<1>6. CASE Withdraw
  BY <1>6 DEF Withdraw
<1> QED BY <1>1, <1>2, <1>3, <1>4, <1>5, <1>6 DEF Next, Command, Looks

LEMMA WhoWritesApproval ==
  ASSUME [Next]_vars
  PROVE  \/ UNCHANGED <<request, activation, seal>>
         \/ Withdraw
         \/ \E s \in Slots : \/ WriteRequest(s) \/ WriteActivation(s) \/ SaveReplace(s)
                             \/ SignRequest(s) \/ SignActivation(s) \/ SignSealReplace(s)
<1> USE DEF approvalFiles, planFiles, evidence, integrity, counters
<1>1. CASE UNCHANGED vars
  BY <1>1 DEF vars
<1>2. ASSUME NEW s \in Slots, Looks(s) PROVE UNCHANGED <<request, activation, seal>>
  BY <1>2, LooksOnly
<1>3. ASSUME NEW s \in Slots, CompileReplace(s) \/ StorePlan(s)
      PROVE  UNCHANGED <<request, activation, seal>>
  BY <1>3 DEF CompileReplace, StorePlan
<1>4. ASSUME NEW s \in Slots, AppendWrite(s) \/ ReplaceLog(s) \/ WriteHead(s)
      PROVE  UNCHANGED <<request, activation, seal>>
  BY <1>4 DEF AppendWrite, ReplaceLog, WriteHead
<1>5. ASSUME NEW s \in Slots, SignRegistry(s) \/ WriteMarker(s) \/ CheckStatus(s)
      PROVE  UNCHANGED <<request, activation, seal>>
  BY <1>5 DEF SignRegistry, WriteMarker, CheckStatus
<1>6. CASE EditPlan \/ EditConfig
  BY <1>6 DEF EditPlan, EditConfig
<1> QED BY <1>1, <1>2, <1>3, <1>4, <1>5, <1>6 DEF Next, Command, Looks

LEMMA WhoWritesEvidence ==
  ASSUME [Next]_vars
  PROVE  \/ UNCHANGED <<log, head, appended, exposed>>
         \/ \E s \in Slots : AppendWrite(s) \/ ReplaceLog(s) \/ WriteHead(s)
<1> USE DEF approvalFiles, planFiles, evidence, integrity, counters
<1>1. CASE UNCHANGED vars
  BY <1>1 DEF vars
<1>2. ASSUME NEW s \in Slots, Looks(s) PROVE UNCHANGED <<log, head, appended, exposed>>
  BY <1>2, LooksOnly
<1>3. ASSUME NEW s \in Slots, CompileReplace(s) \/ StorePlan(s)
      PROVE  UNCHANGED <<log, head, appended, exposed>>
  BY <1>3 DEF CompileReplace, StorePlan
<1>4. ASSUME NEW s \in Slots, WriteRequest(s) \/ WriteActivation(s) \/ SaveReplace(s) \/ SignRequest(s) \/ SignActivation(s) \/ SignSealReplace(s)
      PROVE  UNCHANGED <<log, head, appended, exposed>>
  BY <1>4 DEF WriteRequest, WriteActivation, SaveReplace, SignRequest, SignActivation, SignSealReplace
<1>5. ASSUME NEW s \in Slots, SignRegistry(s) \/ WriteMarker(s) \/ CheckStatus(s)
      PROVE  UNCHANGED <<log, head, appended, exposed>>
  BY <1>5 DEF SignRegistry, WriteMarker, CheckStatus
<1>6. CASE EditPlan \/ EditConfig \/ Withdraw
  BY <1>6 DEF EditPlan, EditConfig, Withdraw
<1> QED BY <1>1, <1>2, <1>3, <1>4, <1>5, <1>6 DEF Next, Command, Looks

LEMMA WhoWritesIntegrity ==
  ASSUME [Next]_vars
  PROVE  \/ UNCHANGED <<registry, marker, straddled, reported>>
         \/ \E s \in Slots : SignRegistry(s) \/ WriteMarker(s) \/ CheckStatus(s)
<1> USE DEF approvalFiles, planFiles, evidence, integrity, counters
<1>1. CASE UNCHANGED vars
  BY <1>1 DEF vars
<1>2. ASSUME NEW s \in Slots, Looks(s) PROVE UNCHANGED <<registry, marker, straddled, reported>>
  BY <1>2, LooksOnly
<1>3. ASSUME NEW s \in Slots, CompileReplace(s) \/ StorePlan(s)
      PROVE  UNCHANGED <<registry, marker, straddled, reported>>
  BY <1>3 DEF CompileReplace, StorePlan
<1>4. ASSUME NEW s \in Slots, WriteRequest(s) \/ WriteActivation(s) \/ SaveReplace(s) \/ SignRequest(s) \/ SignActivation(s) \/ SignSealReplace(s)
      PROVE  UNCHANGED <<registry, marker, straddled, reported>>
  BY <1>4 DEF WriteRequest, WriteActivation, SaveReplace, SignRequest, SignActivation, SignSealReplace
<1>5. ASSUME NEW s \in Slots, AppendWrite(s) \/ ReplaceLog(s) \/ WriteHead(s)
      PROVE  UNCHANGED <<registry, marker, straddled, reported>>
  BY <1>5 DEF AppendWrite, ReplaceLog, WriteHead
<1>6. CASE EditPlan \/ EditConfig \/ Withdraw
  BY <1>6 DEF EditPlan, EditConfig, Withdraw
<1> QED BY <1>1, <1>2, <1>3, <1>4, <1>5, <1>6 DEF Next, Command, Looks

\* A process that does not move stays where it is with what it holds
LEMMA WhoMoves ==
  ASSUME TypeOK, [Next]_vars
  PROVE  \/ UNCHANGED <<pc, job>>
         \/ \E s \in Slots : Command(s) /\ \A t \in Slots \ {s} : pc'[t] = pc[t] /\ job'[t] = job[t]
<1>1. CASE UNCHANGED vars
  BY <1>1 DEF vars
<1>2. CASE EditPlan \/ EditConfig \/ Withdraw
  BY <1>2 DEF EditPlan, EditConfig, Withdraw
<1>3. ASSUME NEW s \in Slots, Command(s)
      PROVE  \A t \in Slots \ {s} : pc'[t] = pc[t] /\ job'[t] = job[t]
  <2>1. DOMAIN pc = Slots /\ DOMAIN job = Slots
    BY DEF TypeOK
  <2>2. \E label, j : Goes(s, label, j)
    BY <1>3 DEF Command, Begins, Ends, InitFails,
      StartRequest, WriteRequest, WriteActivation, StartVerify, VerifyLoad, VerifyCheck, StartMigrate, MigrateOne,
      SaveOpen, SaveReplace, StartCompile, CompileOpen, CompileReplace, StartRun, StartAudit, AuditLoad, ReadSeal, Execute,
      AppendOpen, AppendWrite, StorePlan, StartIntegrity, ReadPair, SignRequest, SignActivation, ReadLog, ReplaceLog, WriteHead,
      SignRegistry, SignSealOpen, SignSealReplace, WriteMarker, CheckStatus, Crash
  <2> QED BY <2>1, <2>2 DEF Goes
<1> QED BY <1>1, <1>2, <1>3 DEF Next

-----------------------------------------------------------------------------
(* Types *)

FilesOK ==
  /\ plan \in Versions \cup {None} /\ config \in Configs
  /\ request \in RequestFiles \cup {None} /\ activation \in ActivationFiles \cup {None}
  /\ seal \in Seals \cup LegacySeals \cup {None}

JobsOK == pc \in [Slots -> Labels] /\ job \in [Slots -> Jobs] /\ \A s \in Slots : Fits(pc[s], job[s])

\* What a job of a process consists of
LEMMA JobParts ==
  ASSUME TypeOK, NEW s \in Slots
  PROVE  /\ job[s] \in Jobs /\ Fits(pc[s], job[s])
         /\ job[s].key \in BOOLEAN /\ job[s].log \in Seq(Records)
BY DEF TypeOK, Jobs

LEMMA SignedFiles ==
  ASSUME NEW key \in BOOLEAN
  PROVE  /\ \A f \in Seals : Signed(f, key) \in Seals
         /\ \A f \in Seals \cup LegacySeals : Signed(f, key) \in Seals \cup LegacySeals
         /\ \A f \in RequestFiles : Signed(f, key) \in RequestFiles
         /\ \A f \in ActivationFiles : Signed(f, key) \in ActivationFiles
         /\ \A f \in Records : Signed(f, key) \in Records
<1>1. \A f \in Seals : Signed(f, key) \in Seals
  BY DEF Signed, Seals
<1>2. \A f \in LegacySeals : Signed(f, key) \in LegacySeals
  BY DEF Signed, LegacySeals
<1>3. \A f \in RequestFiles : Signed(f, key) \in RequestFiles
  BY DEF Signed, RequestFiles
<1>4. \A f \in ActivationFiles : Signed(f, key) \in ActivationFiles
  BY DEF Signed, ActivationFiles
<1>5. \A f \in Records : Signed(f, key) \in Records
  BY DEF Signed, Records
<1> QED BY <1>1, <1>2, <1>3, <1>4, <1>5

LEMMA ListParts ==
  ASSUME NEW S, NEW l \in Seq(S)
  PROVE  Len(l) \in Nat /\ DOMAIN l = 1..Len(l) /\ \A i \in DOMAIN l : l[i] \in S
OBVIOUS

\* A list written out
LEMMA ListOf ==
  ASSUME NEW S, NEW n \in Nat, NEW l, l = [i \in 1..n |-> l[i]], \A i \in 1..n : l[i] \in S
  PROVE  l \in Seq(S) /\ Len(l) = n
<1>1. l \in [1..n -> S]
  OBVIOUS
<1> QED BY <1>1

LEMMA SignedLogParts ==
  ASSUME NEW l \in Seq(Records)
  PROVE  /\ SignedLog(l) \in Seq(Records) /\ DOMAIN SignedLog(l) = DOMAIN l /\ Len(SignedLog(l)) = Len(l)
         /\ \A i \in DOMAIN l : SignedLog(l)[i] = Signed(l[i], TRUE)
<1>1. Len(l) \in Nat /\ DOMAIN l = 1..Len(l) /\ \A i \in 1..Len(l) : l[i] \in Records
  BY ListParts
<1>2. \A i \in 1..Len(l) : Signed(l[i], TRUE) \in Records
  BY <1>1, SignedFiles
<1>3. SignedLog(l) = [i \in 1..Len(l) |-> Signed(l[i], TRUE)]
  BY <1>1 DEF SignedLog
<1>4. SignedLog(l) \in Seq(Records) /\ Len(SignedLog(l)) = Len(l)
  <2> DEFINE k == SignedLog(l)
  <2>1. k = [i \in 1..Len(l) |-> k[i]] /\ \A i \in 1..Len(l) : k[i] \in Records
    BY <1>2, <1>3
  <2> HIDE DEF k
  <2>2. k \in Seq(Records) /\ Len(k) = Len(l)
    BY <1>1, <2>1, ListOf
  <2> QED BY <2>2 DEF k
<1> QED BY <1>1, <1>3, <1>4

LEMMA FilesStep ==
  ASSUME TypeOK, [Next]_vars
  PROVE  FilesOK'
<1>1. FilesOK
  BY DEF TypeOK, FilesOK
<1>2. plan' \in Versions \cup {None} /\ config' \in Configs
  <2>1. ASSUME NEW s \in Slots, CompileReplace(s) PROVE plan' \in Versions /\ config' = config
    BY <2>1, JobParts, VersionsAreClosed DEF CompileReplace, Fits
  <2>2. ASSUME NEW s \in Slots, StorePlan(s) PROVE plan' \in Versions /\ config' = config
    BY <2>2, JobParts, VersionsAreClosed DEF StorePlan, Fits
  <2>3. EditPlan => plan' \in Versions /\ config' = config
    BY VersionsAreClosed DEF EditPlan
  <2>4. EditConfig => config' \in Configs /\ plan' = plan
    BY DEF EditConfig
  <2> QED BY <1>1, <2>1, <2>2, <2>3, <2>4, WhoWritesPlan DEF FilesOK
<1>3. /\ request' \in RequestFiles \cup {None} /\ activation' \in ActivationFiles \cup {None}
      /\ seal' \in Seals \cup LegacySeals \cup {None}
  <2>1. ASSUME NEW s \in Slots, WriteRequest(s) PROVE request' \in RequestFiles /\ UNCHANGED <<activation, seal>>
    BY <2>1, JobParts DEF WriteRequest, Fits, Digests, RequestFiles
  <2>2. ASSUME NEW s \in Slots, WriteActivation(s) PROVE activation' \in ActivationFiles /\ UNCHANGED <<request, seal>>
    BY <2>2, JobParts DEF WriteActivation, Fits, ActivationFiles
  <2>3. ASSUME NEW s \in Slots, SaveReplace(s) PROVE seal' \in Seals /\ UNCHANGED <<request, activation>>
    <3>1. job[s].file \in Seals /\ job[s].key \in BOOLEAN
      BY <2>3, JobParts DEF SaveReplace, Fits
    <3> QED BY <2>3, <3>1, SignedFiles DEF SaveReplace
  <2>4. ASSUME NEW s \in Slots, SignSealReplace(s) PROVE seal' \in Seals \cup LegacySeals /\ UNCHANGED <<request, activation>>
    <3>1. job[s].file \in Seals \cup LegacySeals
      BY <2>4, JobParts DEF SignSealReplace, Fits
    <3> QED BY <2>4, <3>1, SignedFiles DEF SignSealReplace
  <2>5. ASSUME NEW s \in Slots, SignRequest(s) PROVE request' \in RequestFiles /\ UNCHANGED <<activation, seal>>
    <3>1. job[s].file.request \in RequestFiles
      BY <2>5, JobParts DEF SignRequest, Fits, PairFiles
    <3> QED BY <2>5, <3>1, SignedFiles DEF SignRequest
  <2>6. ASSUME NEW s \in Slots, SignActivation(s) PROVE activation' \in ActivationFiles /\ UNCHANGED <<request, seal>>
    <3>1. job[s].file.activation \in ActivationFiles
      BY <2>6, JobParts DEF SignActivation, Fits, PairFiles
    <3> QED BY <2>6, <3>1, SignedFiles DEF SignActivation
  <2>7. Withdraw => request' = None /\ activation' = None /\ seal' = None
    BY DEF Withdraw
  <2> QED BY <1>1, <2>1, <2>2, <2>3, <2>4, <2>5, <2>6, <2>7, WhoWritesApproval DEF FilesOK
<1> QED BY <1>2, <1>3 DEF FilesOK

LEMMA JobsMove ==
  ASSUME TypeOK, NEW s \in Slots, NEW label \in Labels, NEW j \in Jobs, Fits(label, j), Goes(s, label, j)
  PROVE  JobsOK'
BY DEF TypeOK, JobsOK, Goes

LEMMA NoJobType == NoJob \in Jobs
<1>1. <<>> \in Seq(Records)
  OBVIOUS
<1> QED BY <1>1 DEF NoJob, Jobs

LEMMA JobsEnd ==
  ASSUME TypeOK, NEW s \in Slots, Ends(s)
  PROVE  JobsOK'
<1>1. "idle" \in Labels /\ Fits("idle", NoJob)
  BY DEF Labels, Fits
<1> QED BY <1>1, NoJobType, JobsMove DEF Ends

\* A process that goes on with the job it has
LEMMA JobsSame ==
  ASSUME TypeOK, NEW s \in Slots, NEW label \in Labels, Fits(label, job[s]), Goes(s, label, job[s])
  PROVE  JobsOK'
BY JobParts, JobsMove

LEMMA DigestTypes ==
  ASSUME TypeOK
  PROVE  /\ request # None => Digest(request) \in Digests
         /\ \A key \in BOOLEAN : EnvironmentContract(key) \in Environments
         /\ \A p \in Versions, env \in Environments : SealPlan(p, env) \in Seals
         /\ plan # None => plan \in Versions
         /\ \A p \in Versions : PlanHash(p) \in Contracts
<1>1. request # None => Digest(request) \in Digests
  BY DEF TypeOK, Digest, Digests, RequestFiles
<1>2. ASSUME NEW key \in BOOLEAN PROVE EnvironmentContract(key) \in Environments
  <2>1. config \in Configs /\ (RequestValid(key) => request # None)
    BY DEF TypeOK, RequestValid
  <2> QED BY <1>1, <2>1 DEF EnvironmentContract, Environments
<1>3. \A p \in Versions : PlanHash(p) \in Contracts
  BY DEF Contracts
<1>4. \A p \in Versions : ContractPlan(p) \in Contracts
  BY <1>3 DEF PlanHash
<1>5. \A p \in Versions, env \in Environments : SealPlan(p, env) \in Seals
  BY <1>3, <1>4 DEF SealPlan, Seals
<1>6. plan # None => plan \in Versions
  BY DEF TypeOK
<1> QED BY <1>1, <1>2, <1>3, <1>5, <1>6

LEMMA JobsStart ==
  ASSUME TypeOK, NEW s \in Slots,
         StartRequest(s) \/ StartVerify(s) \/ StartMigrate(s) \/ StartCompile(s) \/ StartRun(s) \/ StartAudit(s)
           \/ StartIntegrity(s)
  PROVE  JobsOK'
<1> USE NoJobType DEF Begins
<1>1. ASSUME NEW label \in {"pair", "read", "migrate", "audit"}, NEW key \in BOOLEAN,
             Goes(s, label, [NoJob EXCEPT !.key = key])
      PROVE  JobsOK'
  <2>1. [NoJob EXCEPT !.key = key] \in Jobs
    BY DEF Jobs
  <2>2. label \in Labels /\ Fits(label, [NoJob EXCEPT !.key = key])
    BY DEF Labels, Fits
  <2> QED BY <1>1, <2>1, <2>2, JobsMove
<1>2. CASE StartMigrate(s) \/ StartAudit(s)
  BY <1>1, <1>2 DEF StartMigrate, StartAudit
<1>3. CASE StartIntegrity(s)
  BY <1>1, <1>3 DEF StartIntegrity
<1>4. CASE StartRequest(s)
  <2>1. PICK key \in BOOLEAN, reqs \in Requests, stamp \in {None} \cup Contracts :
          Goes(s, "request", [NoJob EXCEPT !.key = key, !.file = [reqs |-> reqs, stamp |-> stamp]])
    BY <1>4, DigestTypes DEF StartRequest
  <2> DEFINE j == [NoJob EXCEPT !.key = key, !.file = [reqs |-> reqs, stamp |-> stamp]]
  <2>2. [reqs |-> reqs, stamp |-> stamp] \in Digests
    BY DEF Digests
  <2>3. j \in Jobs /\ j.file = [reqs |-> reqs, stamp |-> stamp]
    BY <2>2 DEF Jobs
  <2>4. "request" \in Labels /\ Fits("request", j)
    BY <2>2, <2>3 DEF Labels, Fits
  <2> QED BY <2>1, <2>3, <2>4, JobsMove
<1>5. CASE StartVerify(s)
  <2>1. PICK key \in BOOLEAN : Goes(s, "verify", [NoJob EXCEPT !.key = key, !.env = EnvironmentContract(key)])
    BY <1>5 DEF StartVerify
  <2> DEFINE j == [NoJob EXCEPT !.key = key, !.env = EnvironmentContract(key)]
  <2>2. EnvironmentContract(key) \in Environments
    BY DigestTypes
  <2>3. j \in Jobs /\ j.env = EnvironmentContract(key)
    BY <2>2 DEF Jobs
  <2>4. "verify" \in Labels /\ Fits("verify", j)
    BY <2>2, <2>3 DEF Labels, Fits
  <2> QED BY <2>1, <2>3, <2>4, JobsMove
<1>6. CASE StartCompile(s)
  <2> DEFINE j == [NoJob EXCEPT !.plan = plan]
  <2>1. plan \in Versions /\ Goes(s, "compile", j)
    BY <1>6 DEF StartCompile, TypeOK
  <2>2. j \in Jobs /\ j.plan = plan
    BY <2>1 DEF Jobs
  <2>3. "compile" \in Labels /\ Fits("compile", j)
    BY <2>1, <2>2 DEF Labels, Fits
  <2> QED BY <2>1, <2>2, <2>3, JobsMove
<1>7. CASE StartRun(s)
  <2>1. PICK key \in BOOLEAN : Goes(s, "trust", [NoJob EXCEPT !.key = key, !.plan = plan])
    BY <1>7 DEF StartRun
  <2> DEFINE j == [NoJob EXCEPT !.key = key, !.plan = plan]
  <2>2. plan \in Versions
    BY <1>7 DEF StartRun, TypeOK
  <2>3. j \in Jobs /\ j.plan = plan
    BY <2>2 DEF Jobs
  <2>4. "trust" \in Labels /\ Fits("trust", j)
    BY <2>2, <2>3 DEF Labels, Fits
  <2> QED BY <2>1, <2>3, <2>4, JobsMove
<1> QED BY <1>2, <1>3, <1>4, <1>5, <1>6, <1>7

\* A seal that is trusted has the current format
LEMMA TrustedSeal ==
  ASSUME TypeOK, NEW key, NEW p, SealTrusted(key, p)
  PROVE  seal \in Seals /\ seal.version = 4 /\ seal.hash = PlanHash(p)
<1>1. seal # None /\ seal.version >= 4 /\ seal.hash = PlanHash(p)
  BY DEF SealTrusted
<1>2. seal \in Seals \/ seal \in LegacySeals
  BY <1>1 DEF TypeOK
<1>3. seal \in LegacySeals => seal.version = 3
  BY DEF LegacySeals
<1>4. seal \in Seals => seal.version = 4
  BY DEF Seals
<1> QED BY <1>1, <1>2, <1>3, <1>4

LEMMA JobsProceed ==
  ASSUME TypeOK, NEW s \in Slots,
         VerifyLoad(s) \/ VerifyCheck(s) \/ MigrateOne(s) \/ AuditLoad(s) \/ ReadSeal(s) \/ ReadPair(s)
           \/ ReadLog(s) \/ ReplaceLog(s) \/ SignSealOpen(s)
  PROVE  JobsOK'
<1> DEFINE j == job[s]
<1>1. j \in Jobs /\ Fits(pc[s], j)
  BY JobParts
<1>2. ASSUME NEW label \in {"check", "trust"}, plan # None, Goes(s, label, [j EXCEPT !.plan = plan]),
             label = "check" => j.env \in Environments
      PROVE  JobsOK'
  <2> DEFINE k == [j EXCEPT !.plan = plan]
  <2>1. plan \in Versions
    BY <1>2 DEF TypeOK
  <2>2. k \in Jobs /\ k.plan = plan /\ k.env = j.env
    BY <1>1, <2>1 DEF Jobs
  <2>3. label \in Labels /\ Fits(label, k)
    BY <1>2, <2>1, <2>2 DEF Labels, Fits
  <2> QED BY <1>2, <2>2, <2>3, JobsMove
<1>3. ASSUME NEW label \in {"save", "sign request", "sealed"}, NEW file, Goes(s, label, [j EXCEPT !.file = file]),
             label = "save" => file \in Seals, label = "sign request" => file \in PairFiles,
             label = "sealed" => file \in Seals \cup LegacySeals
      PROVE  JobsOK'
  <2> DEFINE k == [j EXCEPT !.file = file]
  <2>1. k \in Jobs /\ k.file = file
    BY <1>1, <1>3 DEF Jobs
  <2>2. label \in Labels /\ Fits(label, k)
    BY <1>3, <2>1 DEF Labels, Fits
  <2> QED BY <1>3, <2>1, <2>2, JobsMove
<1>4. ASSUME NEW label \in {"log", "head"}, NEW l \in Seq(Records), Goes(s, label, [j EXCEPT !.log = l])
      PROVE  JobsOK'
  <2> DEFINE k == [j EXCEPT !.log = l]
  <2>1. k \in Jobs
    BY <1>1 DEF Jobs
  <2>2. label \in Labels /\ Fits(label, k)
    BY DEF Labels, Fits
  <2> QED BY <1>4, <2>1, <2>2, JobsMove
<1>5. CASE VerifyLoad(s)
  <2>1. pc[s] = "verify" => j.env \in Environments
    BY <1>1 DEF Fits
  <2> QED BY <1>2, <1>5, <2>1, JobsEnd DEF VerifyLoad
<1>6. CASE AuditLoad(s)
  BY <1>2, <1>6, JobsEnd DEF AuditLoad
<1>7. CASE VerifyCheck(s)
  <2>1. SealPlan(j.plan, j.env) \in Seals
    BY <1>1, <1>7, DigestTypes DEF VerifyCheck, Fits
  <2> QED BY <1>3, <1>7, <2>1, JobsEnd DEF VerifyCheck
<1>8. CASE MigrateOne(s)
  <2>1. plan # None => SealPlan(plan, EnvironmentContract(j.key)) \in Seals
    BY JobParts, DigestTypes
  <2> QED BY <1>3, <1>8, <2>1, JobsEnd DEF MigrateOne
<1>9. CASE ReadPair(s)
  <2>1. PairMatches => [request |-> request, activation |-> activation] \in PairFiles
    BY DEF PairMatches, PairFiles, TypeOK
  <2> QED BY <1>3, <1>9, <2>1, JobsEnd DEF ReadPair, InitFails
<1>10. CASE ReadLog(s)
  <2>1. CASE Readable(log)
    <3>1. SignedLog(log) \in Seq(Records)
      BY SignedLogParts DEF TypeOK
    <3>2. Goes(s, "log", [j EXCEPT !.log = SignedLog(log)])
      BY <1>10, <2>1 DEF ReadLog
    <3> QED BY <1>4, <3>1, <3>2
  <2>2. CASE ~Readable(log)
    BY <1>10, <2>2, JobsEnd DEF ReadLog, InitFails
  <2> QED BY <2>1, <2>2
<1>11. CASE ReplaceLog(s)
  <2>1. <<>> \in Seq(Records) /\ Goes(s, "head", [j EXCEPT !.log = <<>>])
    BY <1>11 DEF ReplaceLog
  <2> QED BY <1>4, <2>1
<1>12. CASE SignSealOpen(s)
  <2>1. ASSUME Goes(s, "marker", j) PROVE JobsOK'
    <3>1. "marker" \in Labels /\ Fits("marker", j)
      BY DEF Labels, Fits
    <3> QED BY <2>1, <3>1, JobsSame
  <2>2. seal # None => seal \in Seals \cup LegacySeals
    BY DEF TypeOK
  <2> QED BY <1>3, <1>12, <2>1, <2>2, JobsEnd DEF SignSealOpen, InitFails
<1>13. CASE ReadSeal(s)
  <2>1. CASE SealTrusted(j.key, j.plan)
    <3> DEFINE k == [j EXCEPT !.env = seal.env, !.approval = generation]
    <3>1. seal.env \in Environments
      BY <2>1, TrustedSeal DEF Seals
    <3>2. k \in Jobs /\ k.env = seal.env /\ k.plan = j.plan
      BY <1>1, <3>1 DEF Jobs, TypeOK
    <3>3. "bind" \in Labels /\ Fits("bind", k)
      BY <1>1, <1>13, <3>1, <3>2 DEF Labels, Fits, ReadSeal
    <3>4. Goes(s, "bind", k)
      BY <1>13, <2>1 DEF ReadSeal
    <3> QED BY <3>2, <3>3, <3>4, JobsMove
  <2>2. CASE ~SealTrusted(j.key, j.plan)
    BY <1>13, <2>2, JobsEnd DEF ReadSeal
  <2> QED BY <2>1, <2>2
<1> QED BY <1>5, <1>6, <1>7, <1>8, <1>9, <1>10, <1>11, <1>12, <1>13

LEMMA JobsGoOn ==
  ASSUME TypeOK, NEW s \in Slots,
         WriteRequest(s) \/ SaveOpen(s) \/ CompileOpen(s) \/ Execute(s) \/ AppendOpen(s) \/ AppendWrite(s)
           \/ SignRequest(s) \/ SignActivation(s) \/ WriteHead(s) \/ SignRegistry(s) \/ SignSealReplace(s)
           \/ WriteMarker(s)
  PROVE  JobsOK'
<1>1. Fits(pc[s], job[s])
  BY JobParts
<1>2. ASSUME NEW label \in Labels, Fits(label, job[s]), Goes(s, label, job[s]) PROVE JobsOK'
  BY <1>2, JobsSame
<1>3. \A label : label \in {"activation", "replace", "compiled", "record", "append", "store", "sign activation", "read",
                        "registry", "sign seal", "marker", "status"} => label \in Labels
  BY DEF Labels
<1>4. CASE WriteRequest(s)
  BY <1>1, <1>2, <1>3, <1>4 DEF WriteRequest, Fits
<1>5. CASE SaveOpen(s)
  BY <1>1, <1>2, <1>3, <1>5, JobsEnd DEF SaveOpen, Fits
<1>6. CASE CompileOpen(s)
  BY <1>1, <1>2, <1>3, <1>6, JobsEnd DEF CompileOpen, Fits
<1>7. CASE Execute(s)
  BY <1>1, <1>2, <1>3, <1>7, JobsEnd DEF Execute, Fits
<1>8. CASE AppendOpen(s)
  BY <1>1, <1>2, <1>3, <1>8, JobsEnd DEF AppendOpen, Fits
<1>9. CASE AppendWrite(s)
  BY <1>1, <1>2, <1>3, <1>9 DEF AppendWrite, Fits
<1>10. CASE SignRequest(s)
  BY <1>1, <1>2, <1>3, <1>10 DEF SignRequest, Fits
<1>11. CASE SignActivation(s) \/ WriteHead(s) \/ SignRegistry(s)
  BY <1>2, <1>3, <1>11 DEF SignActivation, WriteHead, SignRegistry, Fits
<1>12. CASE SignSealReplace(s) \/ WriteMarker(s)
  BY <1>2, <1>3, <1>12 DEF SignSealReplace, WriteMarker, Fits
<1> QED BY <1>4, <1>5, <1>6, <1>7, <1>8, <1>9, <1>10, <1>11, <1>12

LEMMA JobsStep ==
  ASSUME TypeOK, [Next]_vars
  PROVE  JobsOK'
<1>1. CASE UNCHANGED <<pc, job>>
  BY <1>1 DEF TypeOK, JobsOK
<1>2. ASSUME NEW s \in Slots, Command(s) PROVE JobsOK'
  <2>1. CASE WriteActivation(s) \/ SaveReplace(s) \/ CompileReplace(s) \/ StorePlan(s) \/ CheckStatus(s) \/ Crash(s)
    BY <2>1, JobsEnd DEF WriteActivation, SaveReplace, CompileReplace, StorePlan, CheckStatus, Crash, InitFails
  <2> QED BY <1>2, <2>1, JobsStart, JobsProceed, JobsGoOn DEF Command
<1> QED BY <1>1, <1>2, WhoMoves

\* What the log and its checkpoint consist of
LEMMA TailTypes ==
  ASSUME NEW l \in Seq(Records)
  PROVE  TailOf(l) \in Nat /\ HeadOf(l) \in Heads
<1>1. Len(l) \in Nat /\ DOMAIN l = 1..Len(l) /\ \A i \in DOMAIN l : l[i] \in Records
  BY ListParts
<1>2. l # <<>> => Len(l) \in DOMAIN l
  <2>1. l # <<>> => Len(l) # 0
    OBVIOUS
  <2> QED BY <1>1, <2>1
<1>3. TailOf(l) \in Nat
  BY <1>1, <1>2 DEF TailOf, Last, Records
<1> QED BY <1>1, <1>3 DEF HeadOf, Heads

LEMMA AppendParts ==
  ASSUME NEW l \in Seq(Records), NEW r \in Records
  PROVE  /\ Append(l, r) \in Seq(Records) /\ Append(l, r) # <<>>
         /\ Len(Append(l, r)) = Len(l) + 1 /\ DOMAIN Append(l, r) = 1..(Len(l) + 1)
         /\ Append(l, r)[Len(l) + 1] = r
         /\ \A i \in DOMAIN l : Append(l, r)[i] = l[i]
OBVIOUS

LEMMA PreviousType ==
  ASSUME TypeOK
  PROVE  Previous \in Nat
<1>1. TailOf(log) \in Nat
  BY TailTypes DEF TypeOK
<1>2. Lags => head.tail \in Nat
  BY DEF Lags, TypeOK, Heads
<1> QED BY <1>1, <1>2 DEF Previous

\* An append adds one record of a new id
LEMMA AppendAdds ==
  ASSUME TypeOK, NEW s \in Slots, AppendWrite(s)
  PROVE  \E id \in Nat, r \in Records :
           /\ r.id = id /\ r.prev = Previous /\ r.signed = job[s].key
           /\ log' = Append(log, r)
           /\ appended' = appended \cup {id}
           /\ exposed' = exposed \cup IF Replacing THEN {id} ELSE {}
           /\ head' = IF ~job[s].key THEN head
                      ELSE [tail |-> id, count |-> IF Lags \/ head = None THEN Len(log) + 1 ELSE head.count + 1]
<1> DEFINE id == Cardinality(appended) + 1
           r  == [id |-> id, prev |-> Previous, signed |-> job[s].key]
<1>1. id \in Nat
  BY FS_CardinalityType DEF TypeOK
<1>2. r \in Records /\ r.id = id /\ r.prev = Previous /\ r.signed = job[s].key
  BY <1>1, PreviousType, JobParts DEF Records
<1> QED BY <1>1, <1>2 DEF AppendWrite

EvidenceOK ==
  /\ log \in Seq(Records) /\ head \in Heads \cup {None}
  /\ appended \subseteq Nat /\ IsFiniteSet(appended) /\ exposed \subseteq Nat

LEMMA EvidenceStep ==
  ASSUME TypeOK, [Next]_vars
  PROVE  EvidenceOK'
<1>1. EvidenceOK
  BY DEF TypeOK, EvidenceOK
<1>2. ASSUME NEW s \in Slots, AppendWrite(s) PROVE EvidenceOK'
  <2>1. PICK id \in Nat, r \in Records :
           /\ log' = Append(log, r)
           /\ appended' = appended \cup {id}
           /\ exposed' = exposed \cup IF Replacing THEN {id} ELSE {}
           /\ head' = IF ~job[s].key THEN head
                      ELSE [tail |-> id, count |-> IF Lags \/ head = None THEN Len(log) + 1 ELSE head.count + 1]
    BY <1>2, AppendAdds
  <2>2. log' \in Seq(Records)
    BY <1>1, <2>1, AppendParts DEF EvidenceOK
  <2>3. head' \in Heads \cup {None}
    <3>1. Len(log) + 1 \in Nat
      BY <1>1 DEF EvidenceOK
    <3>2. head # None => head.count + 1 \in Nat
      BY <1>1 DEF EvidenceOK, Heads
    <3>3. \A n \in Nat : [tail |-> id, count |-> n] \in Heads
      BY DEF Heads
    <3> QED BY <1>1, <2>1, <3>1, <3>2, <3>3 DEF EvidenceOK
  <2>4. IsFiniteSet(appended')
    BY <1>1, <2>1, FS_AddElement DEF EvidenceOK
  <2> QED BY <1>1, <2>1, <2>2, <2>3, <2>4 DEF EvidenceOK
<1>3. ASSUME NEW s \in Slots, ReplaceLog(s) PROVE EvidenceOK'
  BY <1>1, <1>3, JobParts DEF ReplaceLog, EvidenceOK
<1>4. ASSUME NEW s \in Slots, WriteHead(s) PROVE EvidenceOK'
  <2>1. HeadOf(log) \in Heads
    BY <1>1, TailTypes DEF EvidenceOK
  <2> QED BY <1>1, <1>4, <2>1 DEF WriteHead, EvidenceOK
<1>5. CASE UNCHANGED <<log, head, appended, exposed>>
  BY <1>1, <1>5 DEF EvidenceOK
<1> QED BY <1>2, <1>3, <1>4, <1>5, WhoWritesEvidence

FlagsOK ==
  /\ sealTmp \in BOOLEAN /\ planTmp \in BOOLEAN /\ registry \in BOOLEAN /\ marker \in BOOLEAN
  /\ straddled \in BOOLEAN /\ reported \in BOOLEAN /\ disturbed \in BOOLEAN /\ beside \in BOOLEAN

CountersOK == commands \in Nat /\ edits \in Nat /\ crashes \in Nat /\ generation \in Nat

HistoryOK ==
  /\ ran \subseteq [contract : Contracts, generation : Nat, digest : Digests \cup {None}]
  /\ failures \subseteq SUBSET {"leftover", "unsealed", "pair"}

LEMMA HistoryStep ==
  ASSUME TypeOK, [Next]_vars
  PROVE  FlagsOK' /\ CountersOK' /\ HistoryOK'
<1>1. FlagsOK /\ CountersOK /\ HistoryOK
  BY DEF TypeOK, FlagsOK, CountersOK, HistoryOK
<1> DEFINE Files   == sealTmp' \in BOOLEAN /\ planTmp' \in BOOLEAN /\ registry' \in BOOLEAN /\ marker' \in BOOLEAN
           Flags   == straddled' \in BOOLEAN /\ reported' \in BOOLEAN
           Numbers == CountersOK'
           Sets    == HistoryOK'
           Good    == Files /\ Flags /\ Numbers /\ Sets
<1>2. CASE UNCHANGED vars
  BY <1>1, <1>2 DEF vars, approvalFiles, planFiles, integrity, counters, FlagsOK, CountersOK, HistoryOK
<1>3. CASE Next
  <2> USE DEF approvalFiles, planFiles, integrity, counters, FlagsOK, CountersOK, HistoryOK
  <2>1. ASSUME NEW s \in Slots,
               StartRequest(s) \/ StartVerify(s) \/ StartMigrate(s) \/ StartCompile(s) \/ StartRun(s) \/ StartAudit(s)
                 \/ StartIntegrity(s)
        PROVE  Good
    <3>1. commands' = commands + 1 /\ UNCHANGED <<approvalFiles, planFiles, integrity, counters, ran>>
      BY <2>1 DEF Begins, StartRequest, StartVerify, StartMigrate, StartCompile, StartRun, StartAudit, StartIntegrity
    <3> QED BY <1>1, <3>1
  <2>2. ASSUME NEW s \in Slots,
               VerifyLoad(s) \/ VerifyCheck(s) \/ MigrateOne(s) \/ AuditLoad(s) \/ ReadSeal(s) \/ AppendOpen(s)
        PROVE  Good
    BY <1>1, <2>2 DEF VerifyLoad, VerifyCheck, MigrateOne, AuditLoad, ReadSeal, AppendOpen
  <2>3. ASSUME NEW s \in Slots,
               WriteRequest(s) \/ WriteActivation(s) \/ SaveOpen(s) \/ SaveReplace(s) \/ CompileOpen(s) \/ CompileReplace(s)
                 \/ StorePlan(s)
        PROVE  Good
    BY <1>1, <2>3 DEF WriteRequest, WriteActivation, SaveOpen, SaveReplace, CompileOpen, CompileReplace, StorePlan
  <2>4. ASSUME NEW s \in Slots, AppendWrite(s) \/ ReplaceLog(s) \/ WriteHead(s) PROVE Good
    BY <1>1, <2>4 DEF AppendWrite, ReplaceLog, WriteHead
  <2>5. ASSUME NEW s \in Slots,
               SignRequest(s) \/ SignActivation(s) \/ SignRegistry(s) \/ SignSealReplace(s) \/ WriteMarker(s)
        PROVE  Good
    BY <1>1, <2>5 DEF SignRequest, SignActivation, SignRegistry, SignSealReplace, WriteMarker
  <2>6. ASSUME NEW s \in Slots, ReadPair(s) \/ ReadLog(s) \/ SignSealOpen(s) \/ CheckStatus(s) PROVE Good
    <3>1. Obstacles \in SUBSET {"leftover", "unsealed", "pair"}
      BY DEF Obstacles
    <3> QED BY <1>1, <2>6, <3>1 DEF ReadPair, ReadLog, SignSealOpen, CheckStatus, InitFails
  <2>7. ASSUME NEW s \in Slots, Execute(s) PROVE Good
    <3>1. UNCHANGED ran \/ ran' = ran \cup {Execution(job[s])}
      BY <2>7 DEF Execute
    <3>2. Execution(job[s]) \in [contract : Contracts, generation : Nat, digest : Digests \cup {None}]
      <4>1. PlanHash(job[s].plan) \in Contracts
        BY <2>7, JobParts, DigestTypes DEF Execute, Fits
      <4>2. job[s].approval \in Nat
        BY JobParts DEF Jobs
      <4>3. request # None => Digest(request) \in Digests
        BY DigestTypes
      <4> QED BY <4>1, <4>2, <4>3 DEF Execution
    <3>3. HistoryOK'
      BY <1>1, <2>7, <3>1, <3>2 DEF Execute
    <3> QED BY <1>1, <2>7, <3>3 DEF Execute
  <2>8. ASSUME NEW s \in Slots, Crash(s) PROVE Good
    BY <1>1, <2>8 DEF Crash
  <2>9. ASSUME EditPlan \/ EditConfig \/ Withdraw PROVE Good
    <3>1. /\ UNCHANGED <<sealTmp, planTmp, integrity, ran, crashes, commands>>
          /\ edits' \in Nat /\ generation' \in Nat
      BY <1>1, <2>9 DEF EditPlan, EditConfig, Withdraw
    <3> QED BY <1>1, <3>1
  <2>10. disturbed' \in BOOLEAN /\ beside' \in BOOLEAN
    BY <1>3 DEF Next
  <2> HIDE DEF Good, Files, Flags, Numbers, Sets
  <2>11. Good
    BY <1>3, <2>1, <2>2, <2>3, <2>4, <2>5, <2>6, <2>7, <2>8, <2>9 DEF Next, Command
  <2> QED BY <2>10, <2>11 DEF Good, Files, Flags, Numbers, Sets
<1> QED BY <1>2, <1>3

LEMMA TypeParts == TypeOK <=> FilesOK /\ JobsOK /\ EvidenceOK /\ FlagsOK /\ CountersOK /\ HistoryOK
BY DEF TypeOK, FilesOK, JobsOK, EvidenceOK, FlagsOK, CountersOK, HistoryOK

LEMMA TypeInit ==
  ASSUME Init
  PROVE  TypeOK
<1>1. PICK w \in Starts :
        /\ plan = w.plan /\ config = w.config
        /\ request = w.request /\ activation = w.activation /\ seal = w.seal
        /\ log = w.log /\ head = w.head
        /\ registry = w.signed /\ marker = w.signed /\ reported = w.signed
  BY DEF Init
<1>2. SoundStart(w)
  BY StartsAreSound
<1>3. FilesOK
  BY <1>1, <1>2 DEF FilesOK, SoundStart
<1>4. JobsOK
  <2>1. "idle" \in Labels /\ Fits("idle", NoJob)
    BY DEF Labels, Fits
  <2> QED BY <2>1, NoJobType DEF Init, JobsOK
<1>5. EvidenceOK
  <2>1. log \in Seq(Records)
    BY <1>1, <1>2 DEF SoundStart
  <2>2. head \in Heads \cup {None}
    <3>1. head = HeadOf(log) \/ head = None
      BY <1>1, <1>2 DEF SoundStart
    <3> QED BY <2>1, <3>1, TailTypes
  <2>3. Len(log) \in Nat /\ DOMAIN log = 1..Len(log) /\ \A i \in DOMAIN log : log[i] \in Records
    BY <2>1, ListParts
  <2>4. appended = {log[i].id : i \in DOMAIN log} /\ exposed = {}
    BY DEF Init
  <2>5. IsFiniteSet(appended)
    <3> DEFINE f == [i \in DOMAIN log |-> log[i].id]
    <3>1. IsFiniteSet(DOMAIN log)
      BY <2>3, FS_Interval
    <3>2. f \in Surjection(DOMAIN log, appended)
      BY <2>4 DEF Surjection
    <3> QED BY <3>1, <3>2, FS_Surjection
  <2> QED BY <2>1, <2>2, <2>3, <2>4, <2>5 DEF EvidenceOK, Records
<1>6. FlagsOK /\ CountersOK /\ HistoryOK
  BY <1>1, <1>2 DEF Init, SoundStart, FlagsOK, CountersOK, HistoryOK
<1> QED BY <1>3, <1>4, <1>5, <1>6, TypeParts

LEMMA TypeStep ==
  ASSUME TypeOK, [Next]_vars
  PROVE  TypeOK'
<1>1. FilesOK' /\ JobsOK' /\ EvidenceOK' /\ FlagsOK' /\ CountersOK' /\ HistoryOK'
  BY FilesStep, JobsStep, EvidenceStep, HistoryStep
<1> QED BY <1>1 DEF TypeOK, FilesOK, JobsOK, EvidenceOK, FlagsOK, CountersOK, HistoryOK

\* Every file of the approval holds what its writers may write, and every process holds what
\* its place needs: a plan to execute, a seal to write, a pair to sign. No step of
\* supervisor/cli.py, sealing.py, integrity.py and request_contract.py uses a value that an
\* earlier step has not read, from whichever workspace they start.
THEOREM ApprovalTypes == Spec => []TypeOK
<1>1. Init => TypeOK
  BY TypeInit
<1>2. TypeOK /\ [Next]_vars => TypeOK'
  BY TypeStep
<1> QED BY <1>1, <1>2, PTL DEF Spec

-----------------------------------------------------------------------------
(* Where a step leads *)

Leads(s) ==
  /\ StartRequest(s) => pc'[s] = "request"
  /\ WriteRequest(s) => pc'[s] = "activation"
  /\ StartVerify(s) => pc'[s] = "verify"
  /\ VerifyLoad(s) => pc'[s] \in {"check", "idle"}
  /\ VerifyCheck(s) \/ MigrateOne(s) => pc'[s] \in {"save", "idle"}
  /\ StartMigrate(s) => pc'[s] = "migrate"
  /\ SaveOpen(s) => pc'[s] \in {"replace", "idle"}
  /\ StartCompile(s) => pc'[s] = "compile"
  /\ CompileOpen(s) => pc'[s] \in {"compiled", "idle"}
  /\ StartRun(s) => pc'[s] = "trust"
  /\ StartAudit(s) => pc'[s] = "audit"
  /\ AuditLoad(s) => pc'[s] \in {"trust", "idle"}
  /\ ReadSeal(s) => pc'[s] \in {"bind", "idle"}
  /\ Execute(s) => pc'[s] \in {"record", "idle"}
  /\ AppendOpen(s) => pc'[s] \in {"append", "idle"}
  /\ AppendWrite(s) => pc'[s] = "store"
  /\ StartIntegrity(s) => pc'[s] \in {"pair", "read"}
  /\ ReadPair(s) => pc'[s] \in {"sign request", "idle"}
  /\ SignRequest(s) => pc'[s] = "sign activation"
  /\ SignActivation(s) => pc'[s] = "read"
  /\ ReadLog(s) => pc'[s] \in {"log", "idle"}
  /\ ReplaceLog(s) => pc'[s] = "head"
  /\ WriteHead(s) => pc'[s] = "registry"
  /\ SignRegistry(s) => pc'[s] = "sign seal"
  /\ SignSealOpen(s) => pc'[s] \in {"marker", "sealed", "idle"}
  /\ SignSealReplace(s) => pc'[s] = "marker"
  /\ WriteMarker(s) => pc'[s] = "status"
  /\ WriteActivation(s) \/ SaveReplace(s) \/ CompileReplace(s) \/ StorePlan(s) \/ CheckStatus(s) \/ Crash(s) =>
       pc'[s] = "idle"

LEMMA StepsLead ==
  ASSUME TypeOK, NEW s \in Slots
  PROVE  Leads(s)
<1> USE DEF Begins, Ends, InitFails
<1>1. \A label, j : Goes(s, label, j) => pc'[s] = label
  BY DEF TypeOK, Goes
<1>2. /\ StartRequest(s) => pc'[s] = "request"
      /\ WriteRequest(s) => pc'[s] = "activation"
      /\ StartVerify(s) => pc'[s] = "verify"
      /\ VerifyLoad(s) => pc'[s] \in {"check", "idle"}
      /\ VerifyCheck(s) \/ MigrateOne(s) => pc'[s] \in {"save", "idle"}
      /\ StartMigrate(s) => pc'[s] = "migrate"
      /\ SaveOpen(s) => pc'[s] \in {"replace", "idle"}
  BY <1>1 DEF StartRequest, WriteRequest, StartVerify, VerifyLoad, VerifyCheck, MigrateOne, StartMigrate, SaveOpen
<1>3. /\ StartCompile(s) => pc'[s] = "compile"
      /\ CompileOpen(s) => pc'[s] \in {"compiled", "idle"}
      /\ StartRun(s) => pc'[s] = "trust"
      /\ StartAudit(s) => pc'[s] = "audit"
      /\ AuditLoad(s) => pc'[s] \in {"trust", "idle"}
      /\ ReadSeal(s) => pc'[s] \in {"bind", "idle"}
      /\ Execute(s) => pc'[s] \in {"record", "idle"}
      /\ AppendOpen(s) => pc'[s] \in {"append", "idle"}
      /\ AppendWrite(s) => pc'[s] = "store"
  BY <1>1 DEF StartCompile, CompileOpen, StartRun, StartAudit, AuditLoad, ReadSeal, Execute, AppendOpen,
              AppendWrite
<1>4. /\ StartIntegrity(s) => pc'[s] \in {"pair", "read"}
      /\ ReadPair(s) => pc'[s] \in {"sign request", "idle"}
      /\ SignRequest(s) => pc'[s] = "sign activation"
      /\ SignActivation(s) => pc'[s] = "read"
      /\ ReadLog(s) => pc'[s] \in {"log", "idle"}
      /\ ReplaceLog(s) => pc'[s] = "head"
      /\ WriteHead(s) => pc'[s] = "registry"
  BY <1>1 DEF StartIntegrity, ReadPair, SignRequest, SignActivation, ReadLog, ReplaceLog, WriteHead
<1>5. /\ SignRegistry(s) => pc'[s] = "sign seal"
      /\ SignSealOpen(s) => pc'[s] \in {"marker", "sealed", "idle"}
      /\ SignSealReplace(s) => pc'[s] = "marker"
      /\ WriteMarker(s) => pc'[s] = "status"
  BY <1>1 DEF SignRegistry, SignSealOpen, SignSealReplace, WriteMarker
<1>6. WriteActivation(s) \/ SaveReplace(s) \/ CompileReplace(s) \/ StorePlan(s) \/ CheckStatus(s) \/ Crash(s) =>
       pc'[s] = "idle"
  BY <1>1 DEF WriteActivation, SaveReplace, CompileReplace, StorePlan, CheckStatus, Crash
<1> QED BY <1>2, <1>3, <1>4, <1>5, <1>6 DEF Leads

\* Which step a process has taken that is at a place now
Arrives(s) ==
  /\ pc'[s] = "verify" => StartVerify(s)
  /\ pc'[s] = "check" => VerifyLoad(s)
  /\ pc'[s] = "migrate" => StartMigrate(s)
  /\ pc'[s] = "save" => VerifyCheck(s) \/ MigrateOne(s)
  /\ pc'[s] = "replace" => SaveOpen(s)
  /\ pc'[s] = "trust" => StartRun(s) \/ AuditLoad(s)
  /\ pc'[s] = "bind" => ReadSeal(s)
  /\ pc'[s] = "record" => Execute(s)
  /\ pc'[s] = "append" => AppendOpen(s)
  /\ pc'[s] = "pair" => StartIntegrity(s)
  /\ pc'[s] = "sign request" => ReadPair(s)
  /\ pc'[s] = "sign activation" => SignRequest(s)
  /\ pc'[s] = "read" => StartIntegrity(s) \/ SignActivation(s)
  /\ pc'[s] = "log" => ReadLog(s)
  /\ pc'[s] = "head" => ReplaceLog(s)
  /\ pc'[s] = "registry" => WriteHead(s)
  /\ pc'[s] = "sign seal" => SignRegistry(s)
  /\ pc'[s] = "sealed" => SignSealOpen(s)
  /\ pc'[s] = "marker" => SignSealOpen(s) \/ SignSealReplace(s)
  /\ pc'[s] = "status" => WriteMarker(s)

LEMMA StepsArrive ==
  ASSUME TypeOK, NEW s \in Slots, Command(s)
  PROVE  Arrives(s)
BY StepsLead DEF Leads, Arrives, Command

-----------------------------------------------------------------------------
(* The evidence *)

IdsOf(l) == {l[i].id : i \in DOMAIN l}

\* What is not exposed is in the log and in every log that is about to replace it
Kept ==
  /\ appended \ exposed \subseteq IdsOf(log)
  /\ \A s \in Slots : pc[s] = "log" => appended \ exposed \subseteq IdsOf(job[s].log)

LEMMA KeptInit ==
  ASSUME Init
  PROVE  Kept
BY DEF Init, Kept, IdsOf

LEMMA SignedIds ==
  ASSUME NEW l \in Seq(Records)
  PROVE  IdsOf(SignedLog(l)) = IdsOf(l)
<1>1. \A i \in DOMAIN l : l[i] \in Records
  BY ListParts
<1>2. \A r \in Records : Signed(r, TRUE).id = r.id
  BY DEF Signed, Records
<1>3. DOMAIN SignedLog(l) = DOMAIN l /\ \A i \in DOMAIN l : SignedLog(l)[i].id = l[i].id
  BY <1>1, <1>2, SignedLogParts
<1> QED BY <1>3 DEF IdsOf

LEMMA KeptStep ==
  ASSUME TypeOK, Kept, [Next]_vars
  PROVE  Kept'
<1>1. CASE UNCHANGED <<pc, job>>
  <2>1. UNCHANGED <<log, head, appended, exposed>>
    BY <1>1, WhoWritesEvidence, StepsLead DEF Leads, AppendWrite, ReplaceLog, WriteHead
  <2> QED BY <1>1, <2>1 DEF Kept
<1>2. ASSUME NEW s \in Slots, Command(s), \A t \in Slots \ {s} : pc'[t] = pc[t] /\ job'[t] = job[t]
      PROVE  Kept'
  <2>1. Leads(s) /\ Arrives(s)
    BY <1>2, StepsLead, StepsArrive
  <2>2. CASE UNCHANGED <<log, appended, exposed>>
    <3>1. ASSUME pc'[s] = "log" PROVE IdsOf(job'[s].log) = IdsOf(log)
      <4>1. ReadLog(s)
        BY <2>1, <3>1 DEF Arrives
      <4>2. job'[s].log = SignedLog(log)
        <5>1. Goes(s, "log", [job[s] EXCEPT !.log = SignedLog(log)])
          BY <2>1, <3>1, <4>1 DEF ReadLog, InitFails, Ends, Goes, TypeOK
        <5> QED BY <5>1, JobParts DEF Goes, TypeOK, Jobs
      <4> QED BY <4>2, SignedIds DEF TypeOK
    <3> QED BY <1>2, <2>2, <3>1 DEF Kept
  <2>3. CASE AppendWrite(s)
    <3>1. PICK id \in Nat, r \in Records :
            /\ r.id = id /\ log' = Append(log, r) /\ appended' = appended \cup {id}
            /\ exposed' = exposed \cup IF Replacing THEN {id} ELSE {}
      BY <2>3, AppendAdds
    <3>2. IdsOf(log) \cup {id} \subseteq IdsOf(log')
      <4>1. log \in Seq(Records)
        BY DEF TypeOK
      <4>2. DOMAIN log = 1..Len(log) /\ Len(log) \in Nat
        BY <4>1, ListParts
      <4>3. DOMAIN log' = 1..(Len(log) + 1) /\ log'[Len(log) + 1] = r /\ \A i \in DOMAIN log : log'[i] = log[i]
        BY <3>1, <4>1, AppendParts
      <4>4. DOMAIN log \subseteq DOMAIN log' /\ Len(log) + 1 \in DOMAIN log'
        BY <4>2, <4>3
      <4> QED BY <3>1, <4>3, <4>4 DEF IdsOf
    <3>3. pc'[s] # "log"
      BY <2>1, <2>3 DEF Leads
    <3>4. (\E t \in Slots : pc[t] = "log") => appended' \ exposed' \subseteq appended \ exposed
      BY <3>1 DEF Replacing
    <3>5. \A t \in Slots : pc'[t] = "log" => pc[t] = "log" /\ job'[t] = job[t]
      BY <1>2, <3>3
    <3>6. appended' \ exposed' \subseteq (appended \ exposed) \cup {id}
      BY <3>1
    <3> QED BY <3>2, <3>4, <3>5, <3>6 DEF Kept
  <2>4. CASE ReplaceLog(s)
    <3>1. pc[s] = "log" /\ log' = job[s].log /\ UNCHANGED <<appended, exposed>> /\ pc'[s] # "log"
      BY <2>1, <2>4 DEF ReplaceLog, Leads
    <3> QED BY <1>2, <3>1 DEF Kept
  <2>5. CASE WriteHead(s)
    BY <2>2, <2>5 DEF WriteHead
  <2>6. ASSUME NEW t \in Slots, AppendWrite(t) \/ ReplaceLog(t) \/ WriteHead(t) PROVE t = s
    BY <1>2, <2>6, StepsLead DEF Leads, AppendWrite, ReplaceLog, WriteHead
  <2> QED BY <2>2, <2>3, <2>4, <2>5, <2>6, WhoWritesEvidence
<1> QED BY <1>1, <1>2, WhoMoves

\* Signing the evidence loses no record that was written before it or after it, whatever
\* it was interrupted by: _sign_jsonl of supervisor/integrity.py beside append_evidence of
\* scripts/audit_check.py
THEOREM SigningLosesNoRecord == Spec => []EvidenceSurvives
<1>1. Init => TypeOK /\ Kept
  BY TypeInit, KeptInit
<1>2. TypeOK /\ Kept /\ [Next]_vars => (TypeOK /\ Kept)'
  BY TypeStep, KeptStep
<1>3. Kept => EvidenceSurvives
  BY DEF Kept, IdsOf, EvidenceSurvives
<1> QED BY <1>1, <1>2, <1>3, PTL DEF Spec

-----------------------------------------------------------------------------
(* What a seal is of *)

\* GraphValid looks at the ids and the dependencies only
LEMMA GraphOfParts ==
  ASSUME NEW a, NEW b, DOMAIN a = DOMAIN b, Len(a) = Len(b),
         \A i \in DOMAIN a : a[i].id = b[i].id /\ a[i].deps = b[i].deps
  PROVE  GraphValid(a) <=> GraphValid(b)
<1>1. Ids(a) = Ids(b)
  BY DEF Ids
<1>2. \A i \in DOMAIN a : Parents(a[i]) = Parents(b[i])
  BY DEF Parents
<1>3. StepIndexed(a) <=> StepIndexed(b)
  BY <1>1 DEF StepIndexed
<1> QED BY <1>1, <1>2, <1>3 DEF GraphValid

\* A plan that is read from a seal has the digest of the plan that was sealed
LEMMA ContractOfContract ==
  ASSUME NEW p \in Versions
  PROVE  PlanHash(ContractPlan(p)) = PlanHash(p)
<1> DEFINE q == ContractPlan(p)
           valid == GraphValid(p.steps)
           deps(step) == IF valid THEN Parents(step) ELSE step.deps
<1>1. DOMAIN p = {"task", "reqs", "tools", "traffic", "steps"} /\ p.steps \in Seq(ToSet(p.steps))
  BY VersionsAreClosed DEF IsPlan
<1>2. q.steps = [i \in DOMAIN p.steps |-> ContractStep(p.steps[i], deps(p.steps[i]))]
  BY <1>1 DEF ContractPlan
<1>3. \A i \in DOMAIN q.steps : q.steps[i].deps = deps(p.steps[i]) /\ q.steps[i].id = p.steps[i].id
  BY <1>2 DEF ContractStep
<1>4. DOMAIN q.steps = DOMAIN p.steps
  BY <1>2
<1>5. \A i \in DOMAIN q.steps : q.steps[i] = ContractStep(q.steps[i], q.steps[i].deps)
  <2>1. \A step, d : ContractStep(ContractStep(step, d), ContractStep(step, d).deps) = ContractStep(step, d)
    BY DEF ContractStep
  <2>2. \A i \in DOMAIN q.steps : q.steps[i] = ContractStep(p.steps[i], deps(p.steps[i]))
    BY <1>2
  <2> HIDE DEF q, deps
  <2> QED BY <2>1, <2>2
<1>6. \A i \in DOMAIN q.steps : q.steps[i].deps = IF GraphValid(q.steps) THEN Parents(q.steps[i]) ELSE q.steps[i].deps
  <2>1. CASE valid
    BY <1>3, <1>4, <2>1 DEF Parents
  <2>2. CASE ~valid
    <3>1. Len(q.steps) = Len(p.steps)
      <4>1. Len(p.steps) \in Nat /\ DOMAIN p.steps = 1..Len(p.steps)
        BY <1>1
      <4>2. q.steps = [i \in 1..Len(p.steps) |-> q.steps[i]] /\ \A i \in 1..Len(p.steps) : q.steps[i] \in {q.steps[k] : k \in DOMAIN q.steps}
        BY <1>2, <1>4, <4>1
      <4> HIDE DEF q
      <4> QED BY <4>1, <4>2, ListOf
    <3>2. \A i \in DOMAIN q.steps : q.steps[i].id = p.steps[i].id /\ q.steps[i].deps = p.steps[i].deps
      BY <1>3, <1>4, <2>2
    <3> HIDE DEF q
    <3>3. ~GraphValid(q.steps)
      BY <1>4, <2>2, <3>1, <3>2, GraphOfParts
    <3> QED BY <3>3
  <2> QED BY <2>1, <2>2
<1>7. ContractPlan(q).steps = q.steps
  <2>1. DOMAIN q = DOMAIN p
    BY DEF ContractPlan
  <2> HIDE DEF q
  <2>2. ContractPlan(q).steps =
          [i \in DOMAIN q.steps |-> ContractStep(q.steps[i], IF GraphValid(q.steps) THEN Parents(q.steps[i]) ELSE q.steps[i].deps)]
    BY <1>1, <2>1 DEF ContractPlan
  <2>3. ContractPlan(q).steps = [i \in DOMAIN q.steps |-> q.steps[i]]
    BY <1>5, <1>6, <2>2
  <2>4. q.steps = [i \in DOMAIN q.steps |-> q.steps[i]]
    BY <1>2, <1>4
  <2> QED BY <2>3, <2>4
<1>8. ContractPlan(q) = [x \in DOMAIN q |-> IF x = "steps" THEN ContractPlan(q).steps ELSE q[x]]
  <2>1. DOMAIN q = DOMAIN p
    BY DEF ContractPlan
  <2> HIDE DEF q
  <2> QED BY <1>1, <2>1 DEF ContractPlan
<1>9. q = [x \in DOMAIN q |-> q[x]]
  BY DEF ContractPlan
<1>10. ContractPlan(q) = q
  <2> HIDE DEF q
  <2> QED BY <1>7, <1>8, <1>9
<1> QED BY <1>10 DEF PlanHash

\* A seal, also one that is about to be written, is of a plan and passes its own check
SealOK ==
  /\ plan = None => seal = None /\ \A s \in Slots : ~Sealing(s)
  /\ seal # None => SelfConsistent(seal)
  /\ \A s \in Slots : pc[s] \in {"save", "replace", "sealed"} => SelfConsistent(job[s].file)

LEMMA SealPlanConsistent ==
  ASSUME NEW p \in Versions, NEW env
  PROVE  SelfConsistent(SealPlan(p, env))
<1>1. SealPlan(p, env).plan = ContractPlan(p) /\ SealPlan(p, env).hash = PlanHash(p) /\ SealPlan(p, env).version = 4
  BY DEF SealPlan
<1> QED BY <1>1, ContractOfContract DEF SelfConsistent

\* The MAC is not part of what is compared
LEMMA SignedKeeps ==
  ASSUME NEW file \in Seals \cup LegacySeals, NEW key \in BOOLEAN
  PROVE  /\ Signed(file, key).signed = key
         /\ Signed(file, key).version = file.version /\ Signed(file, key).hash = file.hash
         /\ Signed(file, key).plan = file.plan /\ Signed(file, key).env = file.env
         /\ SelfConsistent(Signed(file, key)) <=> SelfConsistent(file)
<1>1. /\ Signed(file, key).signed = key
      /\ Signed(file, key).version = file.version /\ Signed(file, key).hash = file.hash
      /\ Signed(file, key).plan = file.plan /\ Signed(file, key).env = file.env
  BY DEF Signed, Seals, LegacySeals
<1> QED BY <1>1 DEF SelfConsistent

\* A plan that is there stays there
LEMMA PlanStays ==
  ASSUME TypeOK, [Next]_vars
  PROVE  plan' = None => plan = None
<1>1. \A s \in Slots : CompileReplace(s) \/ StorePlan(s) => plan' # None
  BY JobParts, VersionsAreClosed, NoneIsNoFile DEF CompileReplace, StorePlan, Fits
<1>2. EditPlan => plan' # None
  BY VersionsAreClosed, NoneIsNoFile DEF EditPlan
<1>3. EditConfig => plan' = plan
  BY DEF EditConfig
<1> QED BY <1>1, <1>2, <1>3, WhoWritesPlan

\* Which steps give a seal to whom
LEMMA WhoWritesSeal ==
  ASSUME TypeOK, [Next]_vars
  PROVE  \/ seal' = seal
         \/ seal' = None
         \/ \E s \in Slots : \/ SaveReplace(s) /\ seal' = Signed(job[s].file, job[s].key) /\ job[s].file \in Seals
                             \/ SignSealReplace(s) /\ seal' = Signed(job[s].file, TRUE)
                                /\ job[s].file \in Seals \cup LegacySeals
<1>1. ASSUME NEW s \in Slots, SaveReplace(s) PROVE seal' = Signed(job[s].file, job[s].key) /\ job[s].file \in Seals
  BY <1>1, JobParts DEF SaveReplace, Fits
<1>2. ASSUME NEW s \in Slots, SignSealReplace(s)
      PROVE  seal' = Signed(job[s].file, TRUE) /\ job[s].file \in Seals \cup LegacySeals
  BY <1>2, JobParts DEF SignSealReplace, Fits
<1>3. ASSUME NEW s \in Slots, WriteRequest(s) \/ WriteActivation(s) \/ SignRequest(s) \/ SignActivation(s)
      PROVE  seal' = seal
  BY <1>3 DEF WriteRequest, WriteActivation, SignRequest, SignActivation
<1>4. Withdraw => seal' = None
  BY DEF Withdraw
<1> QED BY <1>1, <1>2, <1>3, <1>4, WhoWritesApproval

\* What a process holds after a step that gives it a seal to write
LEMMA NewFile ==
  ASSUME TypeOK, NEW s \in Slots, Command(s), pc'[s] \in {"save", "replace", "sealed"}
  PROVE  \/ VerifyCheck(s) /\ job'[s].file = SealPlan(job[s].plan, job[s].env)
            /\ job[s].plan \in Versions /\ SealLoads(job[s].key) /\ (seal # None => Resealable(job[s]))
         \/ MigrateOne(s) /\ job'[s].file = SealPlan(plan, EnvironmentContract(job[s].key))
            /\ plan # None /\ seal # None /\ seal.version = 3 /\ EnvironmentContract(job[s].key).request # None
         \/ SaveOpen(s) /\ job'[s] = job[s] /\ pc[s] = "save" /\ KeyUsable(job[s].key)
         \/ SignSealOpen(s) /\ job'[s].file = seal /\ seal # None
<1>1. Leads(s) /\ Arrives(s) /\ job[s] \in Jobs /\ DOMAIN job = Slots /\ DOMAIN pc = Slots
  BY StepsLead, StepsArrive, JobParts DEF TypeOK
<1>2. \A label, file : Goes(s, label, [job[s] EXCEPT !.file = file]) => job'[s].file = file
  BY <1>1 DEF Goes, Jobs
<1>3. \A j : Ends(s) => pc'[s] = "idle"
  BY <1>1 DEF Ends, Goes
<1>4. CASE pc'[s] = "save"
  <2>1. CASE VerifyCheck(s)
    <3>1. job[s].plan \in Versions
      BY <2>1, JobParts DEF VerifyCheck, Fits
    <3> QED BY <1>2, <1>3, <1>4, <2>1, <3>1 DEF VerifyCheck
  <2>2. CASE MigrateOne(s)
    BY <1>2, <1>3, <1>4, <2>2 DEF MigrateOne
  <2> QED BY <1>1, <1>4, <2>1, <2>2 DEF Arrives
<1>5. CASE pc'[s] = "replace"
  <2>1. SaveOpen(s)
    BY <1>1, <1>5 DEF Arrives
  <2> QED BY <1>1, <1>3, <1>5, <2>1 DEF SaveOpen, Goes
<1>6. CASE pc'[s] = "sealed"
  <2>1. SignSealOpen(s)
    BY <1>1, <1>6 DEF Arrives
  <2>2. Goes(s, "marker", job[s]) => pc'[s] = "marker"
    BY <1>1 DEF Goes
  <2> QED BY <1>2, <1>3, <1>6, <2>1, <2>2 DEF SignSealOpen, InitFails
<1> QED BY <1>4, <1>5, <1>6

LEMMA SealInit ==
  ASSUME Init
  PROVE  SealOK
<1>1. PICK w \in Starts : plan = w.plan /\ seal = w.seal
  BY DEF Init
<1>2. SoundStart(w)
  BY StartsAreSound
<1> QED BY <1>1, <1>2 DEF Init, SealOK, SoundStart, Sealing

LEMMA SealStep ==
  ASSUME TypeOK, SealOK, [Next]_vars
  PROVE  SealOK'
<1>1. seal' # None => SelfConsistent(seal')
  <2>1. ASSUME NEW s \in Slots, SaveReplace(s), seal' = Signed(job[s].file, job[s].key), job[s].file \in Seals
        PROVE  SelfConsistent(seal')
    <3>1. pc[s] = "replace"
      BY <2>1 DEF SaveReplace
    <3> QED BY <2>1, <3>1, JobParts, SignedKeeps DEF SealOK
  <2>2. ASSUME NEW s \in Slots, SignSealReplace(s), seal' = Signed(job[s].file, TRUE),
               job[s].file \in Seals \cup LegacySeals
        PROVE  SelfConsistent(seal')
    <3>1. pc[s] = "sealed"
      BY <2>2 DEF SignSealReplace
    <3> QED BY <2>2, <3>1, SignedKeeps DEF SealOK
  <2> QED BY <2>1, <2>2, WhoWritesSeal DEF SealOK
<1>2. ASSUME NEW s \in Slots, pc'[s] \in {"save", "replace", "sealed"}
      PROVE  SelfConsistent(job'[s].file)
  <2>1. CASE pc'[s] = pc[s] /\ job'[s] = job[s]
    BY <1>2, <2>1 DEF SealOK
  <2>2. CASE Command(s)
    <3>1. \A p \in Versions : \A env : SelfConsistent(SealPlan(p, env))
      BY SealPlanConsistent
    <3>2. plan # None => plan \in Versions
      BY DEF TypeOK
    <3> QED BY <1>2, <2>2, <3>1, <3>2, NewFile DEF SealOK
  <2> QED BY <2>1, <2>2, WhoMoves
<1>3. ASSUME plan' = None PROVE seal' = None /\ \A s \in Slots : ~Sealing(s)'
  <2>1. plan = None
    BY <1>3, PlanStays
  <2>2. seal = None /\ \A s \in Slots : ~Sealing(s)
    BY <2>1 DEF SealOK
  <2>3. seal' = None
    BY <2>2, WhoWritesSeal DEF Sealing, SaveReplace, SignSealReplace
  <2>4. ASSUME NEW s \in Slots, Sealing(s)' PROVE FALSE
    <3>1. CASE pc'[s] = pc[s] /\ job'[s] = job[s]
      BY <2>2, <2>4, <3>1 DEF Sealing
    <3>2. CASE Command(s)
      <4>1. Arrives(s)
        BY <3>2, StepsArrive
      <4>2. ~StartVerify(s) /\ ~StartMigrate(s)
        BY <2>1 DEF StartVerify, StartMigrate
      <4>3. ~VerifyLoad(s)
        BY <2>2 DEF VerifyLoad, Sealing
      <4>4. CASE pc'[s] \in {"save", "replace", "sealed"}
        BY <2>1, <2>2, <3>2, <4>4, NewFile DEF Sealing, VerifyCheck, MigrateOne, SaveOpen
      <4> QED BY <2>4, <4>1, <4>2, <4>3, <4>4 DEF Sealing, Arrives
    <3> QED BY <3>1, <3>2, WhoMoves
  <2> QED BY <2>3, <2>4
<1> QED BY <1>1, <1>2, <1>3 DEF SealOK, SelfConsistent

-----------------------------------------------------------------------------
(* The authenticated workspace *)

AllSigned(l) == \A i \in DOMAIN l : l[i].signed

\* A record that names the last one continues the chain
LEMMA ChainGrows ==
  ASSUME NEW l \in Seq(Records), Chained(l), NEW r \in Records, r.prev = TailOf(l)
  PROVE  /\ Chained(Append(l, r))
         /\ HeadOf(Append(l, r)) = [count |-> Len(l) + 1, tail |-> r.id]
         /\ AllSigned(l) /\ r.signed => AllSigned(Append(l, r))
<1> DEFINE k == Append(l, r)
           n == Len(l)
<1>1. n \in Nat /\ DOMAIN l = 1..n
  BY ListParts
<1>2. /\ k # <<>> /\ Len(k) = n + 1 /\ DOMAIN k = 1..(n + 1) /\ k[n + 1] = r
      /\ \A i \in DOMAIN l : k[i] = l[i]
  BY AppendParts
<1>3. TailOf(l) = IF n = 0 THEN 0 ELSE l[n].id
  <2>1. l = <<>> <=> n = 0
    OBVIOUS
  <2> QED BY <2>1 DEF TailOf, Last
<1> HIDE DEF k, n
<1>4. HeadOf(k) = [count |-> n + 1, tail |-> r.id]
  BY <1>2 DEF HeadOf, TailOf, Last
<1>5. ASSUME NEW i \in DOMAIN k PROVE k[i].prev = IF i = 1 THEN 0 ELSE k[i - 1].id
  <2>1. CASE i = n + 1
    <3>1. k[i].prev = TailOf(l)
      BY <1>2, <2>1
    <3>2. n # 0 => n \in DOMAIN l /\ k[n] = l[n]
      BY <1>1, <1>2
    <3>3. (i = 1 <=> n = 0) /\ i - 1 = n
      BY <1>1, <2>1
    <3> QED BY <1>3, <3>1, <3>2, <3>3
  <2>2. CASE i \in DOMAIN l
    <3>1. l[i].prev = IF i = 1 THEN 0 ELSE l[i - 1].id
      BY <2>2 DEF Chained
    <3>2. i # 1 => i - 1 \in DOMAIN l
      BY <1>1, <2>2
    <3> QED BY <1>2, <2>2, <3>1, <3>2
  <2> QED BY <1>1, <1>2, <2>1, <2>2
<1>6. Chained(k)
  BY <1>5 DEF Chained
<1>7. ASSUME AllSigned(l), r.signed, NEW i \in DOMAIN k PROVE k[i].signed
  <2>1. i \in DOMAIN l \/ i = n + 1
    BY <1>1, <1>2
  <2> QED BY <1>2, <1>7, <2>1 DEF AllSigned
<1> QED BY <1>4, <1>6, <1>7 DEF k, n, AllSigned

\* An append to a log that its checkpoint agrees with, by a process that signs if the
\* checkpoint is there, leaves a log that the checkpoint agrees with
LEMMA AppendKeepsChain ==
  ASSUME TypeOK, NEW s \in Slots, AppendWrite(s), Chained(log), head \in {None, HeadOf(log)},
         head # None => job[s].key
  PROVE  /\ Chained(log')
         /\ head' = IF job[s].key THEN HeadOf(log') ELSE None
         /\ AllSigned(log) /\ job[s].key => AllSigned(log')
<1>1. PICK id \in Nat, r \in Records :
           /\ r.id = id /\ r.prev = Previous /\ r.signed = job[s].key
           /\ log' = Append(log, r)
           /\ head' = IF ~job[s].key THEN head
                      ELSE [tail |-> id, count |-> IF Lags \/ head = None THEN Len(log) + 1 ELSE head.count + 1]
  BY AppendAdds
<1>2. ~Lags /\ (head # None => head.count = Len(log))
  BY DEF Lags, HeadOf
<1>3. Previous = TailOf(log)
  BY <1>2 DEF Previous
<1>4. log \in Seq(Records)
  BY DEF TypeOK
<1>5. Chained(log') /\ HeadOf(log') = [count |-> Len(log) + 1, tail |-> id] /\ (AllSigned(log) /\ r.signed => AllSigned(log'))
  BY <1>1, <1>3, <1>4, ChainGrows
<1> QED BY <1>1, <1>2, <1>5

\* Once a workspace is authenticated, and nothing was open when the marker was written, a
\* process that is about to write a seal or a record has the key, and no process signs
Authentic ==
  /\ reported => marker
  /\ marker /\ ~straddled => \A s \in Slots :
       /\ pc[s] \in {"replace", "append"} => job[s].key
       /\ Signing(s) => pc[s] = "status"
  /\ reported /\ ~straddled =>
       /\ Chained(log) /\ AllSigned(log) /\ head = HeadOf(log) /\ registry
       /\ seal # None => seal.signed

LEMMA AuthenticInit ==
  ASSUME Init
  PROVE  Authentic
<1>1. PICK w \in Starts : /\ seal = w.seal /\ log = w.log /\ head = w.head
                          /\ registry = w.signed /\ marker = w.signed /\ reported = w.signed
  BY DEF Init
<1>2. SoundStart(w)
  BY StartsAreSound
<1>3. \A s \in Slots : pc[s] = "idle"
  BY DEF Init
<1> QED BY <1>1, <1>2, <1>3 DEF Authentic, SoundStart, AllSigned, Signing

LEMMA AuthenticStep ==
  ASSUME TypeOK, SealOK, Authentic, [Next]_vars
  PROVE  Authentic'
<1>1. ASSUME NEW s \in Slots, WriteMarker(s)
      PROVE  /\ marker' /\ pc[s] = "marker" /\ pc'[s] = "status" /\ UNCHANGED <<log, head, registry, reported, seal>>
             /\ straddled' = (straddled \/ \E t \in Slots \ {s} : pc[t] # "idle")
             /\ \A t \in Slots \ {s} : pc'[t] = pc[t]
  <2>1. pc[s] = "marker" /\ pc'[s] = "status"
    BY <1>1, StepsLead DEF Leads, WriteMarker
  <2>2. \A t \in Slots \ {s} : pc'[t] = pc[t]
    BY <1>1 DEF WriteMarker, Goes, TypeOK
  <2> QED BY <1>1, <2>1, <2>2 DEF WriteMarker, approvalFiles, evidence
<1>2. ASSUME NEW s \in Slots, CheckStatus(s)
      PROVE  /\ UNCHANGED <<log, head, registry, marker, straddled, seal>>
             /\ reported' = reported \/ Authenticated
  BY <1>2 DEF CheckStatus, approvalFiles, evidence
<1>3. ASSUME NEW s \in Slots, SignRegistry(s)
      PROVE  UNCHANGED <<log, head, marker, straddled, reported, seal>> /\ registry'
  BY <1>3 DEF SignRegistry, approvalFiles, evidence
<1>4. reported' => marker'
  <2>1. Authenticated => marker
    BY DEF Authenticated, ChainValid, KeyUsable
  <2> QED BY <1>1, <1>2, <1>3, <2>1, WhoWritesIntegrity DEF Authentic
<1>5. ASSUME marker', ~straddled', NEW s \in Slots
      PROVE  (pc'[s] \in {"replace", "append"} => job'[s].key) /\ (Signing(s)' => pc'[s] = "status")
  <2>1. CASE \E t \in Slots : WriteMarker(t)
    <3>1. PICK t \in Slots : WriteMarker(t)
      BY <2>1
    <3>2. s # t => pc'[s] = "idle"
      BY <1>1, <1>5, <3>1
    <3>3. pc'[t] = "status"
      BY <1>1, <3>1
    <3> QED BY <3>2, <3>3 DEF Signing
  <2>2. CASE ~\E t \in Slots : WriteMarker(t)
    <3>1. marker /\ ~straddled
      BY <1>2, <1>3, <1>5, <2>2, WhoWritesIntegrity
    <3>2. (pc[s] \in {"replace", "append"} => job[s].key) /\ (Signing(s) => pc[s] = "status")
      BY <3>1 DEF Authentic
    <3>3. CASE pc'[s] = pc[s] /\ job'[s] = job[s]
      BY <3>2, <3>3 DEF Signing
    <3>4. CASE Command(s)
      <4>1. Arrives(s) /\ job[s].key \in BOOLEAN
        BY <3>4, StepsArrive, JobParts
      <4>2. pc'[s] = "replace" => job'[s] = job[s] /\ KeyUsable(job[s].key)
        BY <4>1 DEF Arrives, SaveOpen, Ends, Goes, TypeOK
      <4>3. pc'[s] = "append" => job'[s] = job[s] /\ KeyUsable(job[s].key)
        BY <4>1 DEF Arrives, AppendOpen, Ends, Goes, TypeOK
      <4>4. pc'[s] \in {"replace", "append"} => job'[s].key
        BY <3>1, <4>1, <4>2, <4>3 DEF KeyUsable
      <4>5. Signing(s)' => pc'[s] = "status"
        <5>1. ~StartIntegrity(s)
          BY <3>1 DEF StartIntegrity
        <5>2. /\ ~ReadPair(s) /\ ~SignRequest(s) /\ ~SignActivation(s) /\ ~ReadLog(s) /\ ~ReplaceLog(s) /\ ~WriteHead(s)
              /\ ~SignRegistry(s) /\ ~SignSealOpen(s) /\ ~SignSealReplace(s)
          BY <3>2 DEF Signing, ReadPair, SignRequest, SignActivation, ReadLog, ReplaceLog, WriteHead,
                      SignRegistry, SignSealOpen, SignSealReplace
        <5> QED BY <4>1, <5>1, <5>2 DEF Arrives, Signing
      <4> QED BY <4>4, <4>5
    <3> QED BY <3>3, <3>4, WhoMoves
  <2> QED BY <2>1, <2>2
<1>6. ASSUME reported', ~straddled'
      PROVE  /\ Chained(log') /\ AllSigned(log') /\ head' = HeadOf(log') /\ registry'
             /\ seal' # None => seal'.signed
  <2> DEFINE Good == Chained(log) /\ AllSigned(log) /\ head = HeadOf(log) /\ registry /\ (seal # None => seal.signed)
  <2>1. CASE \E t \in Slots : CheckStatus(t)
    <3>1. Authenticated => Good
      <4>1. seal # None => plan # None
        BY DEF SealOK
      <4> QED BY <4>1 DEF Authenticated, ChainValid, SealLoads, SignedBy, AllSigned
    <3>2. reported /\ ~straddled => Good
      BY DEF Authentic
    <3>3. Good
      BY <1>2, <1>6, <2>1, <3>1, <3>2
    <3>4. Good'
      BY <1>2, <2>1, <3>3 DEF Chained, AllSigned, HeadOf, TailOf
    <3> QED BY <3>4
  <2>2. CASE ~\E t \in Slots : CheckStatus(t)
    <3>1. reported /\ ~straddled
      BY <1>1, <1>3, <1>6, <2>2, WhoWritesIntegrity
    <3>2. Good /\ marker
      BY <3>1 DEF Authentic
    <3>3. \A s \in Slots : (pc[s] \in {"replace", "append"} => job[s].key) /\ (Signing(s) => pc[s] = "status")
      BY <3>1, <3>2 DEF Authentic
    <3>4. registry'
      BY <1>1, <1>3, <2>2, <3>2, WhoWritesIntegrity
    <3>5. seal' # None => seal'.signed
      <4>1. ASSUME NEW s \in Slots, SaveReplace(s) PROVE job[s].key
        BY <3>3, <4>1 DEF SaveReplace
      <4>2. \A s \in Slots : ~SignSealReplace(s)
        BY <3>3 DEF SignSealReplace, Signing
      <4> QED BY <3>2, <4>1, <4>2, WhoWritesSeal, SignedKeeps
    <3>6. Chained(log') /\ AllSigned(log') /\ head' = HeadOf(log')
      <4>1. \A s \in Slots : ~ReplaceLog(s) /\ ~WriteHead(s)
        BY <3>3 DEF ReplaceLog, WriteHead, Signing
      <4>2. ASSUME NEW s \in Slots, AppendWrite(s) PROVE Chained(log') /\ AllSigned(log') /\ head' = HeadOf(log')
        <5>1. job[s].key
          BY <3>3, <4>2 DEF AppendWrite
        <5> QED BY <3>2, <4>2, <5>1, AppendKeepsChain
      <4>3. CASE UNCHANGED <<log, head>>
        BY <3>2, <4>3
      <4> QED BY <4>1, <4>2, <4>3, WhoWritesEvidence
    <3> QED BY <3>4, <3>5, <3>6
  <2> QED BY <2>1, <2>2
<1> QED BY <1>4, <1>5, <1>6 DEF Authentic, AllSigned, Chained, HeadOf, TailOf

\* A workspace that integrity init has reported as authenticated stays so for those who
\* hold the key, unless a command was open when the marker was written: integrity_status of
\* supervisor/integrity.py after every other command
THEOREM AuthenticationHolds == Spec => []AuthenticatedStays
<1>1. Init => TypeOK /\ SealOK /\ Authentic
  BY TypeInit, SealInit, AuthenticInit
<1>2. TypeOK /\ SealOK /\ Authentic /\ [Next]_vars => (TypeOK /\ SealOK /\ Authentic)'
  BY TypeStep, SealStep, AuthenticStep
<1>3. TypeOK /\ SealOK /\ Authentic => AuthenticatedStays
  <2> SUFFICES ASSUME TypeOK, SealOK, Authentic PROVE AuthenticatedStays
    OBVIOUS
  <2>1. \A key \in BOOLEAN : \A file : SignedBy(key, file) <=> file.signed = key
    BY DEF SignedBy
  <2>2. \A i \in DOMAIN log : log[i].signed \in BOOLEAN
    <3>1. \A i \in DOMAIN log : log[i] \in Records
      BY ListParts DEF TypeOK
    <3> QED BY <3>1 DEF Records
  <2>3. seal # None => seal.signed \in BOOLEAN
    <3>1. seal # None => seal \in Seals \/ seal \in LegacySeals
      BY DEF TypeOK
    <3>2. \A file \in Seals : file.signed \in BOOLEAN
      BY DEF Seals
    <3>3. \A file \in LegacySeals : file.signed \in BOOLEAN
      BY DEF LegacySeals
    <3> QED BY <3>1, <3>2, <3>3
  <2>4. marker \in BOOLEAN
    BY DEF TypeOK
  <2>5. reported => KeyUsable(TRUE)
    BY <2>4 DEF Authentic, KeyUsable
  <2>6. seal # None => SelfConsistent(seal)
    BY DEF SealOK
  <2> QED BY <2>1, <2>2, <2>3, <2>5, <2>6 DEF Authentic, AuthenticatedStays, ChainValid, SealLoads, AllSigned
<1> QED BY <1>1, <1>2, <1>3, PTL DEF Spec

-----------------------------------------------------------------------------
(* The approval *)

\* Alignment looks at the requirements, the coverage and the checks only
LEMMA AlignedParts ==
  ASSUME NEW p, NEW q, NEW reqs, p.reqs = q.reqs, DOMAIN p.steps = DOMAIN q.steps,
         \A i \in DOMAIN p.steps : p.steps[i].verify = q.steps[i].verify /\ p.steps[i].covers = q.steps[i].covers
  PROVE  Aligned({p}, reqs) => Aligned({q}, reqs)
<1>1. \A req : States(p, req) <=> States(q, req)
  BY DEF States, DeclaredRequirements
<1>2. \A x, req, step : step \in CoveringSteps({x}, req) <=>
        States(x, req) /\ (\E i \in DOMAIN x.steps : step = x.steps[i]) /\ req.id \in ToSet(step.covers)
  BY DEF CoveringSteps, ToSet
<1>3. ASSUME NEW req, NEW step \in CoveringSteps({p}, req)
      PROVE  \E kept \in CoveringSteps({q}, req) : kept.verify = step.verify
  <2>1. PICK i \in DOMAIN p.steps : step = p.steps[i]
    BY <1>3 DEF CoveringSteps, ToSet
  <2>2. States(p, req) /\ req.id \in ToSet(step.covers)
    BY <1>2, <1>3
  <2>3. q.steps[i] \in CoveringSteps({q}, req)
    BY <1>1, <1>2, <2>1, <2>2
  <2> QED BY <2>1, <2>3
<1>4. ASSUME Aligned({p}, reqs), NEW i \in DOMAIN reqs
      PROVE  /\ States(q, reqs[i])
             /\ reqs[i].priority \in {"must", "should"} =>
                  /\ CoveringSteps({q}, reqs[i]) # {}
                  /\ reqs[i].checks \subseteq UNION {ToSet(step.verify) : step \in CoveringSteps({q}, reqs[i])}
  <2> DEFINE req == reqs[i]
  <2>1. /\ States(p, req)
        /\ req.priority \in {"must", "should"} =>
             /\ CoveringSteps({p}, req) # {}
             /\ req.checks \subseteq UNION {ToSet(step.verify) : step \in CoveringSteps({p}, req)}
    BY <1>4 DEF Aligned
  <2> HIDE DEF req
  <2>2. UNION {ToSet(step.verify) : step \in CoveringSteps({p}, req)}
          \subseteq UNION {ToSet(step.verify) : step \in CoveringSteps({q}, req)}
    BY <1>3
  <2>3. CoveringSteps({p}, req) # {} => CoveringSteps({q}, req) # {}
    BY <1>3
  <2>4. States(q, req)
    BY <1>1, <2>1
  <2> QED BY <2>1, <2>2, <2>3, <2>4 DEF req
<1> QED BY <1>4 DEF Aligned

\* A plan meets a request exactly if its contract does
LEMMA AlignedByContract ==
  ASSUME NEW p \in Versions, NEW reqs
  PROVE  Aligned({p}, reqs) <=> Aligned({PlanHash(p)}, reqs)
<1> DEFINE q == PlanHash(p)
<1>1. DOMAIN p = {"task", "reqs", "tools", "traffic", "steps"}
  BY VersionsAreClosed DEF IsPlan
<1>2. p.reqs = q.reqs /\ DOMAIN p.steps = DOMAIN q.steps
  BY <1>1 DEF PlanHash, ContractPlan
<1>3. \A i \in DOMAIN p.steps : p.steps[i].verify = q.steps[i].verify /\ p.steps[i].covers = q.steps[i].covers
  <2>1. \A step, deps : ContractStep(step, deps).verify = step.verify /\ ContractStep(step, deps).covers = step.covers
    BY DEF ContractStep
  <2>2. \A i \in DOMAIN p.steps : \E deps : q.steps[i] = ContractStep(p.steps[i], deps)
    BY <1>1 DEF PlanHash, ContractPlan
  <2> HIDE DEF q
  <2> QED BY <2>1, <2>2
<1> HIDE DEF q
<1>4. Aligned({p}, reqs) => Aligned({q}, reqs)
  BY <1>2, <1>3, AlignedParts
<1>5. Aligned({q}, reqs) => Aligned({p}, reqs)
  BY <1>2, <1>3, AlignedParts
<1> QED BY <1>4, <1>5 DEF q

Meets(hash, digest) == digest # None => Aligned({hash}, digest.reqs)

\* A seal, written or about to be, is of a contract that meets the request in it
SealMeets(file) == file.version = 4 => Meets(file.hash, file.env.request)

\* What an undisturbed sealing command has read is still there
Sealed(s) ==
  /\ pc[s] \in {"verify", "check", "migrate", "save", "replace"} =>
       request # None /\ Aligned({plan}, request.reqs)
  /\ pc[s] \in {"verify", "check"} => job[s].env.request = Digest(request)
  /\ pc[s] = "check" => PlanHash(job[s].plan) = PlanHash(plan)
  /\ pc[s] \in {"save", "replace"} => job[s].file.env.request = Digest(request) /\ job[s].file.hash = PlanHash(plan)
  /\ pc[s] \in {"save", "replace", "sealed"} /\ seal # None /\ seal.version = 4 =>
       job[s].file.version = 4 /\ job[s].file.hash = seal.hash
  /\ pc[s] = "sealed" => SealMeets(job[s].file)

\* What has been executed, and what may be once the request is read, under which approval
Grant(contract, approval) == [contract |-> contract, generation |-> approval]

Granted ==
  {Grant(e.contract, e.generation) : e \in ran}
    \cup {Grant(PlanHash(job[s].plan), job[s].approval) : s \in {t \in Slots : pc[t] = "bind"}}

\* The seal that a process has read met the request in it
Bound(s) == pc[s] = "bind" => Meets(PlanHash(job[s].plan), job[s].env.request)

\* What the seal stands for
Standing ==
  /\ seal # None => SealMeets(seal)
  /\ \A g \in Granted : g.generation = generation => seal # None /\ seal.version = 4 /\ seal.hash = g.contract

\* What has been executed or will be
Executed ==
  /\ \A g, h \in Granted : g.generation = h.generation => g.contract = h.contract
  /\ \A e \in ran : Meets(e.contract, e.digest)
  /\ \A s \in Slots : Bound(s)

ApprovedOK ==
  /\ \A g \in Granted : g.generation \in Nat /\ g.generation <= generation
  /\ \A e \in ran : e.digest # None /\ e.digest.stamp # None => e.contract = e.digest.stamp
  /\ ~disturbed => Standing /\ Executed /\ \A s \in Slots : Sealed(s)

LEMMA ApprovedInit ==
  ASSUME Init
  PROVE  ApprovedOK
<1>1. PICK w \in Starts : seal = w.seal
  BY DEF Init
<1>2. SoundStart(w)
  BY StartsAreSound
<1>3. seal # None => SealMeets(seal)
  BY <1>1, <1>2 DEF SoundStart, SealMeets, Meets
<1>4. Granted = {} /\ ran = {} /\ \A s \in Slots : pc[s] = "idle"
  BY DEF Init, Granted
<1> QED BY <1>3, <1>4 DEF ApprovedOK, Standing, Executed, Bound, Sealed

\* An undisturbed sealing command is the only one, and its plan and its request stay
LEMMA Undisturbed ==
  ASSUME TypeOK, SealOK, NEW s \in Slots, Sealing(s), ~Disturbs
  PROVE  /\ request' = request
         /\ plan # None /\ plan' # None /\ PlanHash(plan') = PlanHash(plan)
         /\ \A t \in Slots \ {s} : ~Sealing(t)
<1>1. ~ContractChanges /\ request' = request /\ \A t \in Slots \ {s} : ~Sealing(t)
  BY DEF Disturbs
<1>2. plan # None
  BY DEF SealOK
<1> QED BY <1>1, <1>2 DEF ContractChanges

\* Which steps withdraw an approval, and which execute
LEMMA WhoExecutes ==
  ASSUME TypeOK, [Next]_vars
  PROVE  \/ UNCHANGED <<ran, generation>>
         \/ Withdraw
         \/ \E s \in Slots : Execute(s)
<1>1. CASE UNCHANGED vars
  BY <1>1 DEF vars, counters
<1> USE DEF counters
<1>2. ASSUME NEW s \in Slots,
             StartRequest(s) \/ StartVerify(s) \/ StartMigrate(s) \/ StartCompile(s) \/ StartRun(s) \/ StartAudit(s)
               \/ StartIntegrity(s) \/ Crash(s)
      PROVE  UNCHANGED <<ran, generation>>
  BY <1>2 DEF StartRequest, StartVerify, StartMigrate, StartCompile, StartRun, StartAudit, StartIntegrity, Crash
<1>3. ASSUME NEW s \in Slots,
             VerifyLoad(s) \/ VerifyCheck(s) \/ MigrateOne(s) \/ AuditLoad(s) \/ ReadSeal(s) \/ AppendOpen(s) \/ AppendWrite(s)
               \/ WriteRequest(s) \/ WriteActivation(s) \/ SaveOpen(s) \/ SaveReplace(s)
      PROVE  UNCHANGED <<ran, generation>>
  BY <1>3 DEF VerifyLoad, VerifyCheck, MigrateOne, AuditLoad, ReadSeal, AppendOpen, AppendWrite, WriteRequest,
              WriteActivation, SaveOpen, SaveReplace
<1>4. ASSUME NEW s \in Slots,
             CompileOpen(s) \/ CompileReplace(s) \/ StorePlan(s) \/ ReadPair(s) \/ SignRequest(s) \/ SignActivation(s)
               \/ ReadLog(s) \/ ReplaceLog(s)
      PROVE  UNCHANGED <<ran, generation>>
  BY <1>4 DEF CompileOpen, CompileReplace, StorePlan, ReadPair, SignRequest, SignActivation, ReadLog, ReplaceLog
<1>5. ASSUME NEW s \in Slots,
             WriteHead(s) \/ SignRegistry(s) \/ SignSealOpen(s) \/ SignSealReplace(s) \/ WriteMarker(s) \/ CheckStatus(s)
      PROVE  UNCHANGED <<ran, generation>>
  BY <1>5 DEF WriteHead, SignRegistry, SignSealOpen, SignSealReplace, WriteMarker, CheckStatus
<1>6. CASE EditPlan \/ EditConfig
  BY <1>6 DEF EditPlan, EditConfig
<1> QED BY <1>1, <1>2, <1>3, <1>4, <1>5, <1>6 DEF Next, Command

\* A sealing command that does not move: nothing else moves what it has read
LEMMA SealedStays ==
  ASSUME TypeOK, SealOK, [Next]_vars, ~Disturbs, NEW s \in Slots, Sealed(s), pc'[s] = pc[s], job'[s] = job[s]
  PROVE  Sealed(s)'
<1>1. CASE ~Sealing(s)
  BY <1>1 DEF Sealing, Sealed
<1>2. CASE Sealing(s)
  <2>1. /\ request' = request
        /\ plan # None /\ plan' # None /\ PlanHash(plan') = PlanHash(plan)
        /\ \A t \in Slots \ {s} : ~Sealing(t)
    BY <1>2, Undisturbed
  <2>2. seal' = seal \/ seal' = None
    <3>1. ~SaveReplace(s) /\ ~SignSealReplace(s)
      BY <1>2, StepsLead DEF Sealing, Leads
    <3>2. \A t \in Slots \ {s} : ~SaveReplace(t) /\ ~SignSealReplace(t)
      BY <2>1 DEF Sealing, SaveReplace, SignSealReplace
    <3> QED BY <3>1, <3>2, WhoWritesSeal
  <2>3. plan \in Versions /\ plan' \in Versions
    BY <2>1, TypeStep DEF TypeOK
  <2>4. request # None => (Aligned({plan}, request.reqs) => Aligned({plan'}, request.reqs))
    BY <2>1, <2>3, AlignedByContract
  <2>5. Digest(request') = Digest(request)
    BY <2>1
  <2> QED BY <2>1, <2>2, <2>4, <2>5 DEF Sealed, SealMeets, Meets
<1> QED BY <1>1, <1>2

\* What stands behind the gate of plan verify and of the migration
LEMMA GateMeets ==
  ASSUME NEW key, RequestGate(key), plan # None
  PROVE  /\ request # None /\ Aligned({plan}, request.reqs)
         /\ EnvironmentContract(key).request = Digest(request)
<1>1. RequestValid(key) /\ Aligned({plan} \ {None}, request.reqs)
  BY DEF RequestGate
<1>2. {plan} \ {None} = {plan}
  OBVIOUS
<1> QED BY <1>1, <1>2 DEF RequestValid, EnvironmentContract

\* A sealing command that moves
LEMMA SealedMoves ==
  ASSUME TypeOK, SealOK, Standing, NEW s \in Slots, Command(s), Sealed(s)
  PROVE  Sealed(s)'
<1>1. Leads(s) /\ Arrives(s) /\ job[s] \in Jobs /\ DOMAIN job = Slots /\ DOMAIN pc = Slots
  BY StepsLead, StepsArrive, JobParts DEF TypeOK
<1>2. pc'[s] = "verify" => Sealed(s)'
  <2> SUFFICES ASSUME pc'[s] = "verify" PROVE Sealed(s)'
    OBVIOUS
  <2>1. StartVerify(s)
    BY <1>1 DEF Arrives
  <2>2. PICK key \in BOOLEAN :
          plan # None /\ RequestGate(key) /\ Goes(s, "verify", [NoJob EXCEPT !.key = key, !.env = EnvironmentContract(key)])
    BY <2>1 DEF StartVerify, Begins
  <2>3. job'[s].env = EnvironmentContract(key)
    BY <1>1, <2>2 DEF Goes, NoJob
  <2>4. UNCHANGED <<plan, request, seal>>
    BY <2>1, LooksOnly DEF Looks
  <2> QED BY <2>2, <2>3, <2>4, GateMeets DEF Sealed, Digest
<1>3. pc'[s] = "check" => Sealed(s)'
  <2> SUFFICES ASSUME pc'[s] = "check" PROVE Sealed(s)'
    OBVIOUS
  <2>1. VerifyLoad(s)
    BY <1>1 DEF Arrives
  <2>2. Goes(s, "check", [job[s] EXCEPT !.plan = plan]) /\ pc[s] = "verify"
    BY <1>1, <2>1 DEF VerifyLoad, Ends, Goes
  <2>3. job'[s].env = job[s].env /\ job'[s].plan = plan
    BY <1>1, <2>2 DEF Goes, Jobs
  <2>4. UNCHANGED <<plan, request, seal>>
    BY <2>1, LooksOnly DEF Looks
  <2> QED BY <2>2, <2>3, <2>4 DEF Sealed, Digest
<1>4. pc'[s] = "migrate" => Sealed(s)'
  <2> SUFFICES ASSUME pc'[s] = "migrate" PROVE Sealed(s)'
    OBVIOUS
  <2>1. StartMigrate(s)
    BY <1>1 DEF Arrives
  <2>2. \E key \in BOOLEAN : plan # None /\ RequestGate(key)
    BY <2>1 DEF StartMigrate
  <2>3. UNCHANGED <<plan, request, seal>>
    BY <2>1, LooksOnly DEF Looks
  <2> QED BY <2>2, <2>3, GateMeets DEF Sealed
<1>5. pc'[s] \in {"save", "replace", "sealed"} => Sealed(s)'
  <2> SUFFICES ASSUME pc'[s] \in {"save", "replace", "sealed"} PROVE Sealed(s)'
    OBVIOUS
  <2>1. ASSUME VerifyCheck(s), job'[s].file = SealPlan(job[s].plan, job[s].env), job[s].plan \in Versions,
               seal # None => Resealable(job[s])
        PROVE  Sealed(s)'
    <3>1. UNCHANGED <<plan, request, seal>> /\ pc[s] = "check" /\ pc'[s] = "save"
      BY <1>1, <2>1, LooksOnly DEF Looks, Leads, VerifyCheck
    <3>2. /\ job'[s].file.hash = PlanHash(job[s].plan) /\ job'[s].file.env = job[s].env
          /\ job'[s].file.version = 4
      BY <2>1 DEF SealPlan
    <3>3. seal # None => seal.hash = PlanHash(job[s].plan)
      BY <2>1 DEF Resealable
    <3> QED BY <3>1, <3>2, <3>3 DEF Sealed, Digest
  <2>2. ASSUME MigrateOne(s), job'[s].file = SealPlan(plan, EnvironmentContract(job[s].key)),
               seal.version = 3, EnvironmentContract(job[s].key).request # None
        PROVE  Sealed(s)'
    <3>1. UNCHANGED <<plan, request, seal>> /\ pc[s] = "migrate" /\ pc'[s] = "save"
      BY <1>1, <2>2, LooksOnly DEF Looks, Leads, MigrateOne
    <3>2. /\ job'[s].file.hash = PlanHash(plan) /\ job'[s].file.env = EnvironmentContract(job[s].key)
          /\ job'[s].file.version = 4
      BY <2>2 DEF SealPlan
    <3>3. EnvironmentContract(job[s].key).request = Digest(request)
      BY <2>2 DEF EnvironmentContract
    <3> QED BY <2>2, <3>1, <3>2, <3>3 DEF Sealed, Digest
  <2>3. ASSUME SaveOpen(s), job'[s] = job[s], pc[s] = "save"
        PROVE  Sealed(s)'
    <3>1. UNCHANGED <<plan, request, seal>> /\ pc'[s] = "replace"
      BY <1>1, <2>3, LooksOnly DEF Looks, Leads
    <3> QED BY <2>3, <3>1 DEF Sealed, Digest
  <2>4. ASSUME SignSealOpen(s), job'[s].file = seal, seal # None
        PROVE  Sealed(s)'
    <3>1. UNCHANGED <<plan, request, seal>> /\ pc'[s] = "sealed"
      BY <1>1, <2>4, LooksOnly DEF Looks, Leads
    <3>2. SealMeets(seal)
      BY <2>4 DEF Standing
    <3> QED BY <2>4, <3>1, <3>2 DEF Sealed, SealMeets
  <2> QED BY <2>1, <2>2, <2>3, <2>4, NewFile
<1>6. pc'[s] \notin {"verify", "check", "migrate", "save", "replace", "sealed"} => Sealed(s)'
  BY DEF Sealed
<1> QED BY <1>2, <1>3, <1>4, <1>5, <1>6

\* What grants: a process that reads the seal, of the contract in it
Grants(s) ==
  /\ ReadSeal(s) /\ SealTrusted(job[s].key, job[s].plan)
  /\ job'[s].plan = job[s].plan /\ job'[s].env = seal.env
  /\ Granted' \subseteq Granted \cup {Grant(PlanHash(job[s].plan), generation)}

LEMMA WhoGrants ==
  ASSUME TypeOK, [Next]_vars
  PROVE  \/ /\ Granted' \subseteq Granted
            /\ \A s \in Slots : pc'[s] = "bind" => pc[s] = "bind" /\ job'[s] = job[s]
         \/ \E s \in Slots :
              /\ Grants(s)
              /\ \A t \in Slots \ {s} : pc'[t] = "bind" => pc[t] = "bind" /\ job'[t] = job[t]
<1>1. \A s \in Slots : Execute(s) => pc[s] = "bind" /\ pc'[s] # "bind" /\ ran' \subseteq ran \cup {Execution(job[s])}
  BY StepsLead DEF Leads, Execute
<1>2. \A s \in Slots : Execution(job[s]).contract = PlanHash(job[s].plan) /\ Execution(job[s]).generation = job[s].approval
  BY DEF Execution
<1>3. {Grant(e.contract, e.generation) : e \in ran'} \subseteq Granted
  <2>1. CASE ran' = ran
    BY <2>1 DEF Granted
  <2>2. CASE \E s \in Slots : Execute(s)
    BY <1>1, <1>2, <2>2 DEF Granted
  <2> QED BY <2>1, <2>2, WhoExecutes DEF Withdraw
<1>4. CASE UNCHANGED <<pc, job>>
  BY <1>3, <1>4 DEF Granted
<1>5. ASSUME NEW s \in Slots, Command(s), \A t \in Slots \ {s} : pc'[t] = pc[t] /\ job'[t] = job[t]
      PROVE  \/ /\ Granted' \subseteq Granted
                /\ \A t \in Slots : pc'[t] = "bind" => pc[t] = "bind" /\ job'[t] = job[t]
             \/ /\ Grants(s)
                /\ \A t \in Slots \ {s} : pc'[t] = "bind" => pc[t] = "bind" /\ job'[t] = job[t]
  <2>1. CASE pc'[s] # "bind"
    BY <1>3, <1>5, <2>1 DEF Granted
  <2>2. CASE pc'[s] = "bind"
    <3>1. ReadSeal(s) /\ Leads(s) /\ job[s] \in Jobs /\ DOMAIN job = Slots /\ DOMAIN pc = Slots
      BY <1>5, <2>2, StepsArrive, StepsLead, JobParts DEF Arrives, TypeOK
    <3>2. SealTrusted(job[s].key, job[s].plan) /\ Goes(s, "bind", [job[s] EXCEPT !.env = seal.env, !.approval = generation])
      BY <2>2, <3>1 DEF ReadSeal, Ends, Goes
    <3>3. job'[s].plan = job[s].plan /\ job'[s].env = seal.env /\ job'[s].approval = generation
      BY <3>1, <3>2 DEF Goes, Jobs
    <3>4. Granted' \subseteq Granted \cup {Grant(PlanHash(job[s].plan), generation)}
      BY <1>3, <1>5, <3>3 DEF Granted
    <3> QED BY <1>5, <3>1, <3>2, <3>3, <3>4 DEF Grants
  <2> QED BY <2>1, <2>2
<1> QED BY <1>4, <1>5, WhoMoves

\* What runs meets the request that is read last, since that is the one in the seal
LEMMA RunMeets ==
  ASSUME TypeOK, [Next]_vars, Standing, Executed
  PROVE  /\ \A e \in ran' : Meets(e.contract, e.digest)
         /\ \A s \in Slots : Bound(s)'
<1>1. \A e \in ran' : Meets(e.contract, e.digest)
  <2>1. ASSUME NEW s \in Slots, Execute(s), ran' # ran
        PROVE  ran' = ran \cup {Execution(job[s])} /\ Meets(Execution(job[s]).contract, Execution(job[s]).digest)
    <3>1. /\ pc[s] = "bind" /\ ran' = ran \cup {Execution(job[s])}
          /\ RequestBound(job[s].env.request, job[s].plan)
      BY <2>1 DEF Execute
    <3>2. Meets(PlanHash(job[s].plan), job[s].env.request)
      BY <3>1 DEF Executed, Bound
    <3>3. Execution(job[s]).contract = PlanHash(job[s].plan) /\ Execution(job[s]).digest = job[s].env.request
      BY <3>1 DEF Execution, RequestBound
    <3> QED BY <3>1, <3>2, <3>3
  <2>2. ran' = ran => \A e \in ran' : Meets(e.contract, e.digest)
    BY DEF Executed
  <2> QED BY <2>1, <2>2, WhoExecutes DEF Executed, Withdraw
<1>2. ASSUME NEW s \in Slots PROVE Bound(s)'
  <2>1. CASE pc'[s] = "bind" => pc[s] = "bind" /\ job'[s] = job[s]
    BY <2>1 DEF Executed, Bound, Meets
  <2>2. CASE Grants(s)
    <3>1. /\ seal \in Seals /\ seal.version = 4 /\ seal.hash = PlanHash(job[s].plan)
          /\ job'[s].plan = job[s].plan /\ job'[s].env = seal.env
      BY <2>2, TrustedSeal DEF Grants
    <3>2. SealMeets(seal)
      BY <3>1, NoneIsNoFile DEF Standing
    <3> QED BY <3>1, <3>2 DEF Bound, SealMeets, Meets
  <2> QED BY <2>1, <2>2, WhoGrants
<1> QED BY <1>1, <1>2

LEMMA StandingStep ==
  ASSUME TypeOK, SealOK, ApprovedOK, ~disturbed, Next
  PROVE  Standing' /\ Executed'
<1>1. Standing /\ Executed /\ \A s \in Slots : Sealed(s)
  BY DEF ApprovedOK
<1>2. [Next]_vars
  OBVIOUS
<1>3. (\A e \in ran : Meets(e.contract, e.digest))' /\ \A s \in Slots : Bound(s)'
  BY <1>1, <1>2, RunMeets DEF Meets
<1>4. CASE \E s \in Slots : Grants(s)
  <2>1. PICK s \in Slots : Grants(s)
    BY <1>4
  <2> DEFINE new == Grant(PlanHash(job[s].plan), generation)
  <2>2. UNCHANGED <<seal, generation>>
    BY <2>1, LooksOnly DEF Looks, Grants, ReadSeal, counters
  <2>3. seal # None /\ seal.version = 4 /\ seal.hash = new.contract /\ new.generation = generation
    BY <2>1, TrustedSeal, NoneIsNoFile DEF Grants, Grant
  <2>4. Granted' \subseteq Granted \cup {new}
    BY <2>1 DEF Grants
  <2> HIDE DEF new
  <2>5. Standing'
    BY <1>1, <2>2, <2>3, <2>4 DEF Standing, SealMeets, Meets
  <2>6. \A g \in Granted : g.generation = new.generation => g.contract = new.contract
    BY <1>1, <2>3 DEF Standing
  <2>7. (\A g, h \in Granted : g.generation = h.generation => g.contract = h.contract)'
    BY <1>1, <2>4, <2>6 DEF Executed
  <2> QED BY <1>3, <2>5, <2>7 DEF Executed
<1>5. ASSUME Granted' \subseteq Granted PROVE Executed'
  BY <1>1, <1>3, <1>5 DEF Executed
<1>6. CASE Granted' \subseteq Granted /\ Withdraw
  <2>1. seal' = None /\ generation' = generation + 1
    BY <1>6 DEF Withdraw
  <2>2. \A g \in Granted : g.generation # generation + 1
    <3>1. generation \in Nat /\ \A g \in Granted : g.generation \in Nat /\ g.generation <= generation
      BY DEF TypeOK, ApprovedOK
    <3> QED BY <3>1
  <2> QED BY <1>5, <1>6, <2>1, <2>2 DEF Standing, SealMeets
<1>7. ASSUME Granted' \subseteq Granted, generation' = generation, ~Withdraw PROVE Standing' /\ Executed'
  <2>2. ASSUME NEW s \in Slots, NEW key \in BOOLEAN, pc[s] \in {"replace", "sealed"},
               job[s].file \in Seals \cup LegacySeals, seal' = Signed(job[s].file, key),
               SealMeets(job[s].file)
        PROVE  Standing'
    <3> DEFINE file == job[s].file
    <3>1. seal'.version = file.version /\ seal'.hash = file.hash /\ seal'.env = file.env /\ seal' # None
      <4>1. Signed(file, key) \in Seals \cup LegacySeals
        BY <2>2, SignedFiles
      <4> QED BY <2>2, <4>1, SignedKeeps, NoneIsNoFile
    <3>2. seal # None /\ seal.version = 4 => file.version = 4 /\ file.hash = seal.hash
      BY <1>1, <2>2 DEF Sealed
    <3>3. SealMeets(seal')
      BY <2>2, <3>1 DEF SealMeets
    <3> HIDE DEF file
    <3> QED BY <1>1, <1>7, <3>1, <3>2, <3>3 DEF Standing, SealMeets, Meets
  <2>3. ASSUME NEW s \in Slots, SaveReplace(s), seal' = Signed(job[s].file, job[s].key), job[s].file \in Seals
        PROVE  Standing'
    <3>1. pc[s] = "replace" /\ job[s].key \in BOOLEAN
      BY <2>3, JobParts DEF SaveReplace
    <3>2. /\ request # None /\ Aligned({plan}, request.reqs)
          /\ job[s].file.env.request = Digest(request) /\ job[s].file.hash = PlanHash(plan)
      BY <1>1, <3>1 DEF Sealed
    <3>3. plan \in Versions
      BY <3>1 DEF SealOK, Sealing, TypeOK
    <3>4. Aligned({PlanHash(plan)}, Digest(request).reqs)
      BY <3>2, <3>3, AlignedByContract DEF Digest
    <3>5. SealMeets(job[s].file)
      BY <3>2, <3>4 DEF SealMeets, Meets
    <3> QED BY <2>2, <2>3, <3>1, <3>5
  <2>4. ASSUME NEW s \in Slots, SignSealReplace(s), seal' = Signed(job[s].file, TRUE),
               job[s].file \in Seals \cup LegacySeals
        PROVE  Standing'
    <3>1. pc[s] = "sealed"
      BY <2>4 DEF SignSealReplace
    <3>2. SealMeets(job[s].file)
      BY <1>1, <3>1 DEF Sealed
    <3> QED BY <2>2, <2>4, <3>1, <3>2
  <2>5. ASSUME seal' = seal PROVE Standing'
    BY <1>1, <1>7, <2>5 DEF Standing, SealMeets, Meets
  <2>6. ASSUME seal' = None, seal' # seal PROVE FALSE
    <3>1. \E s \in Slots : SaveReplace(s) \/ SignSealReplace(s)
      BY <1>2, <1>7, <2>6, WhoWritesApproval DEF WriteRequest, WriteActivation, SignRequest, SignActivation
    <3>2. \A s \in Slots : SaveReplace(s) => job[s].file \in Seals /\ job[s].key \in BOOLEAN /\ seal' = Signed(job[s].file, job[s].key)
      BY JobParts DEF SaveReplace, Fits
    <3>3. \A s \in Slots : SignSealReplace(s) => job[s].file \in Seals \cup LegacySeals /\ seal' = Signed(job[s].file, TRUE)
      BY JobParts DEF SignSealReplace, Fits
    <3> QED BY <2>6, <3>1, <3>2, <3>3, SignedFiles, NoneIsNoFile
  <2> QED BY <1>2, <1>5, <1>7, <2>3, <2>4, <2>5, <2>6, WhoWritesSeal
<1>8. generation' = generation \/ Withdraw
  BY <1>2, WhoExecutes DEF Execute, counters
<1> QED BY <1>2, <1>4, <1>6, <1>7, <1>8, WhoGrants

LEMMA ApprovedStep ==
  ASSUME TypeOK, SealOK, ApprovedOK, [Next]_vars
  PROVE  ApprovedOK'
<1>1. CASE UNCHANGED vars
  <2>1. UNCHANGED <<ran, generation, disturbed, pc, job, seal, request, plan>>
    BY <1>1 DEF vars, counters, approvalFiles, planFiles
  <2>2. Granted' = Granted
    BY <2>1 DEF Granted
  <2> QED BY <2>1, <2>2 DEF ApprovedOK, Standing, Executed, Bound, Sealed, SealMeets, Meets, Digest
<1>2. CASE Next
  <2>1. (\A g \in Granted : g.generation \in Nat /\ g.generation <= generation)'
    <3>1. generation \in Nat /\ \A g \in Granted : g.generation \in Nat /\ g.generation <= generation
      BY DEF TypeOK, ApprovedOK
    <3>2. generation' \in {generation, generation + 1}
      BY WhoExecutes DEF Withdraw, Execute, counters
    <3>3. \A g \in Granted' : g \in Granted \/ g.generation = generation
      BY WhoGrants DEF Grants, Grant
    <3> QED BY <3>1, <3>2, <3>3
  <2>2. (\A e \in ran : e.digest # None /\ e.digest.stamp # None => e.contract = e.digest.stamp)'
    <3>1. ASSUME NEW s \in Slots, Execute(s), ran' # ran
          PROVE  /\ ran' = ran \cup {Execution(job[s])}
                 /\ LET e == Execution(job[s]) IN e.digest # None /\ e.digest.stamp # None => e.contract = e.digest.stamp
      <4>1. RequestBound(job[s].env.request, job[s].plan) /\ ran' = ran \cup {Execution(job[s])}
        BY <3>1 DEF Execute
      <4>2. request # None => request.stamp \in {None, PlanHash(job[s].plan)}
        BY <4>1 DEF RequestBound
      <4> QED BY <4>1, <4>2 DEF Execution, Digest
    <3>2. Withdraw => ran' = ran
      BY DEF Withdraw
    <3> QED BY <3>1, <3>2, WhoExecutes DEF ApprovedOK
  <2>3. ASSUME ~disturbed' PROVE Standing' /\ Executed' /\ \A s \in Slots : Sealed(s)'
    <3>1. ~disturbed /\ ~Disturbs
      BY <1>2, <2>3 DEF Next
    <3>2. Standing /\ Executed /\ \A s \in Slots : Sealed(s)
      BY <3>1 DEF ApprovedOK
    <3>3. Standing' /\ Executed'
      BY <1>2, <3>1, StandingStep
    <3>4. ASSUME NEW s \in Slots PROVE Sealed(s)'
      <4>1. CASE pc'[s] = pc[s] /\ job'[s] = job[s]
        BY <3>1, <3>2, <4>1, SealedStays
      <4>2. CASE Command(s)
        BY <3>2, <4>2, SealedMoves
      <4> QED BY <4>1, <4>2, WhoMoves
    <3> QED BY <3>3, <3>4
  <2> QED BY <2>1, <2>2, <2>3 DEF ApprovedOK
<1> QED BY <1>1, <1>2

LEMMA ApprovedInvariant == Spec => [](TypeOK /\ SealOK /\ ApprovedOK)
<1>1. Init => TypeOK /\ SealOK /\ ApprovedOK
  BY TypeInit, SealInit, ApprovedInit
<1>2. TypeOK /\ SealOK /\ ApprovedOK /\ [Next]_vars => (TypeOK /\ SealOK /\ ApprovedOK)'
  BY TypeStep, SealStep, ApprovedStep
<1> QED BY <1>1, <1>2, PTL DEF Spec

\* One approval executes one contract: require_plan_trust of supervisor/cli.py behind every
\* order of request init, plan verify, migration, compilation, integrity init, run, audit,
\* edits and crashes. A request that was made for a plan lets nothing else run, whatever is
\* done beside it.
THEOREM OneApprovalOneContract == Spec => []OneContractPerApproval
<1>1. ApprovedOK => OneContractPerApproval
  <2> SUFFICES ASSUME ApprovedOK PROVE OneContractPerApproval
    OBVIOUS
  <2>1. \A e \in ran : Grant(e.contract, e.generation) \in Granted
    BY DEF Granted
  <2>2. ASSUME ~disturbed, NEW e \in ran, NEW f \in ran, e.generation = f.generation PROVE e.contract = f.contract
    BY <2>1, <2>2 DEF ApprovedOK, Executed, Grant
  <2> QED BY <2>2 DEF ApprovedOK, OneContractPerApproval
<1> QED BY <1>1, ApprovedInvariant, PTL

\* What is executed meets the request it is executed under, though require_plan_trust does
\* not compare the two: the seal stands for the gate of plan verify
THEOREM TrustMeetsRequest == Spec => []ExecutedMeetsRequest
<1>1. ApprovedOK => ExecutedMeetsRequest
  BY DEF ApprovedOK, Executed, Meets, ExecutedMeetsRequest
<1> QED BY <1>1, ApprovedInvariant, PTL

-----------------------------------------------------------------------------
(* The initialisation *)

FromRead     == {"read", "log", "head", "registry", "sign seal", "sealed", "marker", "status"}
FromHead     == FromRead \ {"read", "log"}
FromRegistry == FromHead \ {"head"}
FromSeal     == FromRegistry \ {"registry"}

PairSigned == PairPresent => PairMatches /\ request.signed /\ activation.signed

\* What an integrity init that nothing stands beside has done so far
Progress(s) ==
  /\ pc[s] = "pair" => PairPresent
  /\ pc[s] = "sign request" => PairMatches /\ job[s].file = [request |-> request, activation |-> activation]
  /\ pc[s] = "sign activation" => PairMatches /\ request.signed /\ job[s].file.activation = activation
  /\ pc[s] \in FromRead => PairSigned
  /\ pc[s] = "log" => job[s].log = SignedLog(log)
  /\ pc[s] \in FromHead => AllSigned(log)
  /\ pc[s] \in FromRegistry => head = HeadOf(log)
  /\ pc[s] \in FromSeal => registry
  /\ pc[s] = "sealed" => seal # None /\ job[s].file = seal
  /\ pc[s] \in {"marker", "status"} => (seal # None => seal.signed)
  /\ pc[s] = "status" => marker

\* The chain holds and its checkpoint is of it, and no failure has been without a reason
ChainOK ==
  /\ Chained(log)
  /\ head \in {None, HeadOf(log)} /\ (marker => head # None)
  /\ {} \notin failures

\* A process that may append a record signs it exactly if there is a checkpoint
Appends(s) == pc[s] \in {"trust", "bind", "record", "append"} => job[s].key = marker /\ (~marker => head = None)

UndisputedOK == ~beside => ChainOK /\ \A s \in Slots : Progress(s) /\ Appends(s)

LEMMA UndisputedInit ==
  ASSUME Init
  PROVE  UndisputedOK
<1>1. PICK w \in Starts : log = w.log /\ head = w.head /\ marker = w.signed
  BY DEF Init
<1>2. SoundStart(w)
  BY StartsAreSound
<1>3. HeadOf(log) # None
  BY <1>1, <1>2, TailTypes, NoneIsNoFile DEF SoundStart
<1>4. \A s \in Slots : pc[s] = "idle"
  BY DEF Init
<1>5. ChainOK
  BY <1>1, <1>2, <1>3 DEF Init, ChainOK, SoundStart
<1>6. \A s \in Slots : Progress(s) /\ Appends(s)
  BY <1>4 DEF Progress, Appends, FromRead, FromHead, FromRegistry, FromSeal
<1> QED BY <1>5, <1>6 DEF UndisputedOK

\* The MAC is not part of the chain
LEMMA SignedChain ==
  ASSUME NEW l \in Seq(Records)
  PROVE  /\ AllSigned(SignedLog(l)) /\ HeadOf(SignedLog(l)) = HeadOf(l)
         /\ Chained(l) => Chained(SignedLog(l))
<1> DEFINE k == SignedLog(l)
<1>1. Len(l) \in Nat /\ DOMAIN l = 1..Len(l) /\ \A i \in DOMAIN l : l[i] \in Records
  BY ListParts
<1>2. \A r \in Records : Signed(r, TRUE).id = r.id /\ Signed(r, TRUE).prev = r.prev /\ Signed(r, TRUE).signed = TRUE
  BY DEF Signed, Records
<1>3. DOMAIN k = DOMAIN l /\ Len(k) = Len(l) /\ k \in Seq(Records)
  BY SignedLogParts
<1>4. \A i \in DOMAIN l : k[i].id = l[i].id /\ k[i].prev = l[i].prev /\ k[i].signed
  BY <1>1, <1>2, SignedLogParts
<1> HIDE DEF k
<1>5. k = <<>> <=> l = <<>>
  BY <1>3
<1>6. l # <<>> => Len(l) \in DOMAIN l
  <2>1. l # <<>> => Len(l) # 0
    OBVIOUS
  <2> QED BY <1>1, <2>1
<1>7. HeadOf(k) = HeadOf(l)
  BY <1>3, <1>4, <1>5, <1>6 DEF HeadOf, TailOf, Last
<1>8. AllSigned(k)
  BY <1>3, <1>4 DEF AllSigned
<1>9. ASSUME Chained(l), NEW i \in DOMAIN k PROVE k[i].prev = IF i = 1 THEN 0 ELSE k[i - 1].id
  <2>1. i \in DOMAIN l /\ (i # 1 => i - 1 \in DOMAIN l)
    BY <1>1, <1>3, <1>9
  <2>2. l[i].prev = IF i = 1 THEN 0 ELSE l[i - 1].id
    BY <1>9, <2>1 DEF Chained
  <2> QED BY <1>4, <2>1, <2>2
<1>10. Chained(l) => Chained(k)
  BY <1>9 DEF Chained
<1> QED BY <1>7, <1>8, <1>10 DEF k

\* What the signing of the pair leaves as it was
LEMMA SignedPair ==
  ASSUME NEW r \in RequestFiles, NEW a \in ActivationFiles
  PROVE  /\ Signed(r, TRUE).signed /\ Digest(Signed(r, TRUE)) = Digest(r) /\ Signed(r, TRUE) # None
         /\ Signed(a, TRUE).signed /\ Signed(a, TRUE).digest = a.digest /\ Signed(a, TRUE) # None
<1>1. Signed(r, TRUE) \in RequestFiles /\ Signed(a, TRUE) \in ActivationFiles
  BY SignedFiles
<1>2. Signed(r, TRUE).signed /\ Signed(r, TRUE).reqs = r.reqs /\ Signed(r, TRUE).stamp = r.stamp
  BY DEF Signed, RequestFiles
<1>3. Signed(a, TRUE).signed /\ Signed(a, TRUE).digest = a.digest
  BY DEF Signed, ActivationFiles
<1> QED BY <1>1, <1>2, <1>3, NoneIsNoFile DEF Digest

\* integrity_status refuses only what init was told to look for
LEMMA StatusHolds ==
  ASSUME TypeOK, SealOK, ChainOK, NEW s \in Slots, Progress(s), pc[s] = "status", Obstacles = {}
  PROVE  Authenticated
<1>1. /\ PairSigned /\ AllSigned(log) /\ head = HeadOf(log) /\ registry /\ marker
      /\ seal # None => seal.signed
  BY DEF Progress, FromRead, FromHead, FromRegistry, FromSeal
<1>2. KeyUsable(TRUE)
  BY <1>1 DEF KeyUsable, TypeOK
<1>3. \A i \in DOMAIN log : SignedBy(TRUE, log[i])
  <2>1. \A i \in DOMAIN log : log[i] \in Records
    BY ListParts DEF TypeOK
  <2> QED BY <1>1, <2>1 DEF AllSigned, SignedBy, Records
<1>4. request # None \/ activation # None => RequestValid(TRUE)
  <2>1. request # None => (request.signed => request.signed = TRUE)
    BY DEF TypeOK, RequestFiles
  <2>2. activation # None => (activation.signed => activation.signed = TRUE)
    BY DEF TypeOK, ActivationFiles
  <2> QED BY <1>1, <2>1, <2>2 DEF PairSigned, PairPresent, PairMatches, RequestValid, SignedBy
<1>5. plan # None => seal # None
  <2>1. "unsealed" \notin Obstacles
    OBVIOUS
  <2> QED BY <2>1 DEF Obstacles
<1>6. seal # None => SealLoads(TRUE)
  <2>1. seal # None => (seal.signed => seal.signed = TRUE)
    <3>1. seal # None => seal \in Seals \/ seal \in LegacySeals
      BY DEF TypeOK
    <3> QED BY <3>1 DEF Seals, LegacySeals
  <2> QED BY <1>1, <1>2, <2>1 DEF SealOK, SealLoads, SignedBy
<1> QED BY <1>1, <1>2, <1>3, <1>4, <1>5, <1>6 DEF Authenticated, ChainValid, ChainOK

\* An integrity init that takes its next step: what it has done stays done
LEMMA SignerMoves ==
  ASSUME TypeOK, SealOK, ChainOK, NEW s \in Slots, Command(s), Signing(s), Progress(s)
  PROVE  ChainOK' /\ Progress(s)' /\ Appends(s)'
<1> USE DEF FromRead, FromHead, FromRegistry, FromSeal
<1>1. Leads(s) /\ Arrives(s) /\ job[s] \in Jobs /\ DOMAIN job = Slots /\ DOMAIN pc = Slots
  BY StepsLead, StepsArrive, JobParts DEF TypeOK
<1>2. ASSUME UNCHANGED <<log, head, marker, failures>> PROVE ChainOK'
  BY <1>2 DEF ChainOK, Chained, HeadOf, TailOf
<1>3. pc'[s] = "idle" => Progress(s)' /\ Appends(s)'
  BY DEF Progress, Appends
<1>4. ASSUME InitFails(s), Obstacles # {}, UNCHANGED <<log, head, marker>> PROVE ChainOK' /\ pc'[s] = "idle"
  <2>1. failures' = failures \cup {Obstacles} /\ pc'[s] = "idle"
    BY <1>1, <1>4 DEF InitFails, Ends, Goes
  <2> QED BY <1>4, <2>1 DEF ChainOK, Chained, HeadOf, TailOf
<1>5. CASE ReadPair(s)
  <2>1. UNCHANGED <<log, head, marker>> /\ UNCHANGED <<request, activation>> /\ pc[s] = "pair"
    BY <1>5 DEF ReadPair, approvalFiles, evidence
  <2>2. CASE PairMatches
    <3>1. /\ Goes(s, "sign request", [job[s] EXCEPT !.file = [request |-> request, activation |-> activation]])
          /\ UNCHANGED failures
      BY <1>5, <2>2 DEF ReadPair
    <3>2. pc'[s] = "sign request" /\ job'[s].file = [request |-> request, activation |-> activation]
      BY <1>1, <3>1 DEF Goes, Jobs
    <3>3. PairMatches'
      BY <2>1, <2>2 DEF PairMatches, Digest
    <3> QED BY <1>2, <2>1, <3>1, <3>2, <3>3 DEF Progress, Appends
  <2>3. CASE ~PairMatches
    <3>1. InitFails(s)
      BY <1>5, <2>3 DEF ReadPair
    <3>2. "pair" \in Obstacles
      BY <2>1, <2>3 DEF Obstacles, Progress
    <3> QED BY <1>3, <1>4, <2>1, <3>1, <3>2
  <2> QED BY <2>2, <2>3
<1>6. CASE SignRequest(s)
  <2>1. UNCHANGED <<log, head, marker, failures, activation>> /\ pc[s] = "sign request" /\ pc'[s] = "sign activation" /\ job'[s] = job[s]
    BY <1>1, <1>6 DEF SignRequest, evidence, integrity, Leads, Goes
  <2>2. PairMatches /\ job[s].file = [request |-> request, activation |-> activation]
    BY <2>1 DEF Progress
  <2>3. request \in RequestFiles /\ activation \in ActivationFiles
    BY <2>2 DEF PairMatches, TypeOK
  <2>4. request' = Signed(request, TRUE)
    <3>1. job[s].file.request = request
      BY <2>2
    <3> QED BY <1>6, <3>1 DEF SignRequest
  <2>5. PairMatches' /\ request'.signed
    <3>1. Digest(request') = Digest(request) /\ request' # None /\ request'.signed
      BY <2>3, <2>4, SignedPair
    <3> QED BY <2>1, <2>2, <3>1 DEF PairMatches
  <2>6. job'[s].file.activation = activation'
    <3>1. job[s].file.activation = activation
      BY <2>2
    <3> QED BY <2>1, <3>1
  <2> QED BY <1>2, <2>1, <2>5, <2>6 DEF Progress, Appends
<1>7. CASE SignActivation(s)
  <2>1. UNCHANGED <<log, head, marker, failures, request>> /\ pc[s] = "sign activation" /\ pc'[s] = "read"
    BY <1>1, <1>7 DEF SignActivation, evidence, integrity, Leads
  <2>2. PairMatches /\ request.signed /\ job[s].file.activation = activation
    BY <2>1 DEF Progress
  <2>3. request \in RequestFiles /\ activation \in ActivationFiles
    BY <2>2 DEF PairMatches, TypeOK
  <2>4. activation' = Signed(activation, TRUE)
    BY <1>7, <2>2 DEF SignActivation
  <2>5. PairMatches' /\ request'.signed /\ activation'.signed
    BY <2>1, <2>2, <2>3, <2>4, SignedPair DEF PairMatches, Digest
  <2>6. PairSigned'
    BY <2>5 DEF PairSigned
  <2> QED BY <1>2, <2>1, <2>6 DEF Progress, Appends
<1>8. ASSUME PairSigned, UNCHANGED <<request, activation>> PROVE PairSigned'
  BY <1>8 DEF PairSigned, PairPresent, PairMatches, Digest
<1>9. CASE ReadLog(s)
  <2>1. UNCHANGED <<log, head, marker, request, activation>> /\ pc[s] = "read"
    BY <1>9 DEF ReadLog, approvalFiles, evidence
  <2>2. Goes(s, "log", [job[s] EXCEPT !.log = SignedLog(log)]) /\ UNCHANGED failures
    BY <1>9 DEF ReadLog, Readable, ChainOK
  <2>3. pc'[s] = "log" /\ job'[s].log = SignedLog(log)
    BY <1>1, <2>2 DEF Goes, Jobs
  <2>4. PairSigned'
    BY <1>8, <2>1 DEF Progress
  <2>5. SignedLog(log') = SignedLog(log)
    BY <2>1
  <2> QED BY <1>2, <2>1, <2>2, <2>3, <2>4, <2>5 DEF Progress, Appends
<1>10. CASE ReplaceLog(s)
  <2>1. /\ UNCHANGED <<head, marker, failures, request, activation>> /\ log' = job[s].log
        /\ pc[s] = "log" /\ pc'[s] = "head"
    BY <1>1, <1>10 DEF ReplaceLog, approvalFiles, integrity, Leads
  <2>2. log' = SignedLog(log)
    BY <2>1 DEF Progress
  <2>3. AllSigned(log') /\ HeadOf(log') = HeadOf(log) /\ Chained(log')
    BY <2>2, SignedChain DEF TypeOK, ChainOK
  <2>4. ChainOK'
    BY <2>1, <2>3 DEF ChainOK
  <2>5. PairSigned'
    BY <1>8, <2>1 DEF Progress
  <2> QED BY <2>1, <2>3, <2>4, <2>5 DEF Progress, Appends
<1>11. CASE WriteHead(s)
  <2>1. /\ UNCHANGED <<log, marker, failures, request, activation>> /\ head' = HeadOf(log)
        /\ pc[s] = "head" /\ pc'[s] = "registry"
    BY <1>1, <1>11 DEF WriteHead, approvalFiles, integrity, Leads
  <2>2. head' # None /\ HeadOf(log') = HeadOf(log)
    BY <2>1, TailTypes, NoneIsNoFile DEF TypeOK
  <2>3. Chained(log') /\ AllSigned(log')
    BY <2>1 DEF ChainOK, Progress
  <2>4. ChainOK'
    BY <2>1, <2>2, <2>3 DEF ChainOK
  <2>5. PairSigned'
    BY <1>8, <2>1 DEF Progress
  <2> QED BY <2>1, <2>2, <2>3, <2>4, <2>5 DEF Progress, Appends
<1>12. CASE SignRegistry(s)
  <2>1. /\ UNCHANGED <<log, head, marker, failures, request, activation>> /\ registry'
        /\ pc[s] = "registry" /\ pc'[s] = "sign seal"
    BY <1>1, <1>12 DEF SignRegistry, approvalFiles, evidence, Leads
  <2>2. HeadOf(log') = HeadOf(log) /\ (AllSigned(log))'
    BY <2>1 DEF Progress
  <2>3. PairSigned'
    BY <1>8, <2>1 DEF Progress
  <2>4. head = HeadOf(log)
    BY <2>1 DEF Progress
  <2> QED BY <1>2, <2>1, <2>2, <2>3, <2>4 DEF Progress, Appends
<1>13. CASE SignSealOpen(s)
  <2>1. UNCHANGED <<log, head, marker, request, activation, seal, registry>> /\ pc[s] = "sign seal"
    BY <1>13 DEF SignSealOpen, evidence
  <2>2. PairSigned' /\ AllSigned(log) /\ head = HeadOf(log) /\ registry
    BY <1>8, <2>1 DEF Progress
  <2>3. HeadOf(log') = HeadOf(log) /\ AllSigned(log')
    BY <2>1, <2>2
  <2>4. CASE seal = None
    <3>1. Goes(s, "marker", job[s]) /\ UNCHANGED failures
      BY <1>13, <2>4 DEF SignSealOpen
    <3>2. pc'[s] = "marker"
      BY <1>1, <3>1 DEF Goes
    <3> QED BY <1>2, <2>1, <2>2, <2>3, <2>4, <3>1, <3>2 DEF Progress, Appends
  <2>5. CASE seal # None /\ sealTmp
    <3>1. InitFails(s)
      BY <1>13, <2>5 DEF SignSealOpen
    <3>2. "leftover" \in Obstacles
      BY <2>5 DEF Obstacles
    <3> QED BY <1>3, <1>4, <2>1, <3>1, <3>2
  <2>6. CASE seal # None /\ ~sealTmp
    <3>1. Goes(s, "sealed", [job[s] EXCEPT !.file = seal]) /\ UNCHANGED failures
      BY <1>13, <2>6 DEF SignSealOpen
    <3>2. pc'[s] = "sealed" /\ job'[s].file = seal
      BY <1>1, <3>1 DEF Goes, Jobs
    <3> QED BY <1>2, <2>1, <2>2, <2>3, <2>6, <3>1, <3>2 DEF Progress, Appends
  <2> QED BY <2>4, <2>5, <2>6
<1>14. CASE SignSealReplace(s)
  <2>1. /\ UNCHANGED <<log, head, marker, failures, request, activation, registry>>
        /\ seal' = Signed(job[s].file, TRUE) /\ pc[s] = "sealed" /\ pc'[s] = "marker"
    BY <1>1, <1>14 DEF SignSealReplace, evidence, integrity, Leads
  <2>2. PairSigned' /\ AllSigned(log) /\ head = HeadOf(log) /\ registry
    BY <1>8, <2>1 DEF Progress
  <2>3. HeadOf(log') = HeadOf(log) /\ AllSigned(log')
    BY <2>1, <2>2
  <2>4. seal'.signed
    <3>1. job[s].file \in Seals \cup LegacySeals
      BY <2>1, JobParts DEF Fits
    <3> QED BY <2>1, <3>1, SignedKeeps
  <2> QED BY <1>2, <2>1, <2>2, <2>3, <2>4 DEF Progress, Appends
<1>15. CASE WriteMarker(s)
  <2>1. /\ UNCHANGED <<log, head, failures, request, activation, registry, seal>> /\ marker'
        /\ pc[s] = "marker" /\ pc'[s] = "status"
    BY <1>1, <1>15 DEF WriteMarker, approvalFiles, evidence, Leads
  <2>2. PairSigned' /\ AllSigned(log) /\ head = HeadOf(log) /\ registry /\ (seal # None => seal.signed)
    BY <1>8, <2>1 DEF Progress
  <2>3. HeadOf(log') = HeadOf(log) /\ AllSigned(log')
    BY <2>1, <2>2
  <2>4. head # None
    BY <2>2, TailTypes, NoneIsNoFile DEF TypeOK
  <2>5. ChainOK'
    BY <2>1, <2>2, <2>3, <2>4 DEF ChainOK, Chained
  <2> QED BY <2>1, <2>2, <2>3, <2>5 DEF Progress, Appends
<1>16. CASE CheckStatus(s)
  <2>1. UNCHANGED <<log, head, marker>> /\ pc[s] = "status" /\ pc'[s] = "idle"
    BY <1>1, <1>16 DEF CheckStatus, evidence, Leads
  <2>2. CASE Authenticated
    BY <1>2, <1>3, <1>16, <2>1, <2>2 DEF CheckStatus
  <2>3. CASE ~Authenticated
    <3>1. InitFails(s) /\ Obstacles # {}
      BY <1>16, <2>1, <2>3, StatusHolds DEF CheckStatus
    <3> QED BY <1>3, <1>4, <2>1, <3>1
  <2> QED BY <2>2, <2>3
<1>17. CASE Crash(s)
  BY <1>1, <1>2, <1>3, <1>17 DEF Crash, evidence, integrity, Leads
<1>18. /\ ~StartRequest(s) /\ ~StartVerify(s) /\ ~StartMigrate(s) /\ ~StartCompile(s) /\ ~StartRun(s) /\ ~StartAudit(s)
       /\ ~StartIntegrity(s)
  BY DEF Signing, Begins, StartRequest, StartVerify, StartMigrate, StartCompile, StartRun, StartAudit, StartIntegrity
<1>19. /\ ~WriteRequest(s) /\ ~WriteActivation(s) /\ ~VerifyLoad(s) /\ ~VerifyCheck(s) /\ ~MigrateOne(s)
       /\ ~SaveOpen(s) /\ ~SaveReplace(s) /\ ~CompileOpen(s) /\ ~CompileReplace(s) /\ ~AuditLoad(s) /\ ~ReadSeal(s)
       /\ ~Execute(s) /\ ~AppendOpen(s) /\ ~AppendWrite(s) /\ ~StorePlan(s)
  BY DEF Signing, WriteRequest, WriteActivation, VerifyLoad, VerifyCheck, MigrateOne, SaveOpen, SaveReplace,
         CompileOpen, CompileReplace, AuditLoad, ReadSeal, Execute, AppendOpen, AppendWrite, StorePlan
<1> QED BY <1>5, <1>6, <1>7, <1>9, <1>10, <1>11, <1>12, <1>13, <1>14, <1>15, <1>16, <1>17, <1>18, <1>19 DEF Command

\* Who finds something in the way
LEMMA WhoFails ==
  ASSUME [Next]_vars, \A s \in Slots : ~Signing(s)
  PROVE  UNCHANGED <<failures, marker>>
<1>1. CASE UNCHANGED vars
  BY <1>1 DEF vars, integrity
<1> USE DEF integrity
<1>2. ASSUME NEW s \in Slots,
             StartRequest(s) \/ StartVerify(s) \/ StartMigrate(s) \/ StartCompile(s) \/ StartRun(s) \/ StartAudit(s)
               \/ StartIntegrity(s) \/ Crash(s)
      PROVE  UNCHANGED <<failures, marker>>
  BY <1>2 DEF StartRequest, StartVerify, StartMigrate, StartCompile, StartRun, StartAudit, StartIntegrity, Crash
<1>3. ASSUME NEW s \in Slots,
             VerifyLoad(s) \/ VerifyCheck(s) \/ MigrateOne(s) \/ AuditLoad(s) \/ ReadSeal(s) \/ AppendOpen(s) \/ AppendWrite(s)
               \/ WriteRequest(s) \/ WriteActivation(s) \/ SaveOpen(s) \/ SaveReplace(s)
      PROVE  UNCHANGED <<failures, marker>>
  BY <1>3 DEF VerifyLoad, VerifyCheck, MigrateOne, AuditLoad, ReadSeal, AppendOpen, AppendWrite, WriteRequest,
              WriteActivation, SaveOpen, SaveReplace
<1>4. ASSUME NEW s \in Slots,
             CompileOpen(s) \/ CompileReplace(s) \/ StorePlan(s) \/ Execute(s)
      PROVE  UNCHANGED <<failures, marker>>
  BY <1>4 DEF CompileOpen, CompileReplace, StorePlan, Execute
<1>5. \A s \in Slots :
        /\ ~ReadPair(s) /\ ~SignRequest(s) /\ ~SignActivation(s) /\ ~ReadLog(s) /\ ~ReplaceLog(s) /\ ~WriteHead(s)
        /\ ~SignRegistry(s) /\ ~SignSealOpen(s) /\ ~SignSealReplace(s) /\ ~WriteMarker(s) /\ ~CheckStatus(s)
  BY DEF Signing, ReadPair, SignRequest, SignActivation, ReadLog, ReplaceLog, WriteHead, SignRegistry,
         SignSealOpen, SignSealReplace, WriteMarker, CheckStatus
<1>6. CASE EditPlan \/ EditConfig \/ Withdraw
  BY <1>6 DEF EditPlan, EditConfig, Withdraw
<1> QED BY <1>1, <1>2, <1>3, <1>4, <1>5, <1>6 DEF Next, Command

\* The other commands, while no integrity init is under way
LEMMA OthersMove ==
  ASSUME TypeOK, ChainOK, [Next]_vars, \A s \in Slots : ~Signing(s) /\ Appends(s)
  PROVE  ChainOK' /\ \A s \in Slots : Progress(s)' /\ Appends(s)'
<1>1. UNCHANGED <<failures, marker>>
  BY WhoFails
<1>2. \A s \in Slots : ~ReplaceLog(s) /\ ~WriteHead(s)
  BY DEF Signing, ReplaceLog, WriteHead
<1>3. ASSUME NEW s \in Slots, AppendWrite(s)
      PROVE  ChainOK' /\ (~marker => head' = None)
  <2>1. job[s].key = marker /\ (~marker => head = None)
    BY <1>3 DEF AppendWrite, Appends
  <2>2. head # None => job[s].key
    BY <2>1
  <2>3. Chained(log') /\ head' = IF job[s].key THEN HeadOf(log') ELSE None
    BY <1>3, <2>2, AppendKeepsChain DEF ChainOK
  <2>4. HeadOf(log') # None
    <3>1. log' \in Seq(Records)
      BY TypeStep DEF TypeOK
    <3> QED BY <3>1, TailTypes, NoneIsNoFile
  <2> QED BY <1>1, <2>1, <2>3, <2>4 DEF ChainOK
<1>4. UNCHANGED <<log, head>> \/ \E s \in Slots : AppendWrite(s)
  BY <1>2, WhoWritesEvidence
<1>5. ChainOK'
  <2>1. UNCHANGED <<log, head>> => ChainOK'
    BY <1>1 DEF ChainOK, Chained, HeadOf, TailOf
  <2> QED BY <1>3, <1>4, <2>1
<1>6. ASSUME ~marker, head = None PROVE head' = None
  BY <1>3, <1>4, <1>6
<1>7. ASSUME NEW s \in Slots PROVE Progress(s)'
  <2>1. pc'[s] \in {"pair"} \cup FromRead \cup {"sign request", "sign activation"} =>
          pc'[s] \in {"pair", "read"} /\ StartIntegrity(s)
    <3>1. CASE pc'[s] = pc[s] /\ job'[s] = job[s]
      BY <3>1 DEF Signing, FromRead
    <3>2. CASE Command(s)
      <4>1. Arrives(s) /\ Leads(s)
        BY <3>2, StepsArrive, StepsLead
      <4>2. /\ ~ReadPair(s) /\ ~SignRequest(s) /\ ~SignActivation(s) /\ ~ReadLog(s) /\ ~ReplaceLog(s) /\ ~WriteHead(s)
            /\ ~SignRegistry(s) /\ ~SignSealOpen(s) /\ ~SignSealReplace(s) /\ ~WriteMarker(s)
        BY DEF Signing, ReadPair, SignRequest, SignActivation, ReadLog, ReplaceLog, WriteHead, SignRegistry,
               SignSealOpen, SignSealReplace, WriteMarker
      <4> QED BY <4>1, <4>2 DEF Arrives, FromRead
    <3> QED BY <3>1, <3>2, WhoMoves
  <2>2. StartIntegrity(s) => pc'[s] = (IF PairPresent THEN "pair" ELSE "read") /\ UNCHANGED <<request, activation>>
    BY DEF StartIntegrity, Begins, Goes, TypeOK, approvalFiles
  <2>3. StartIntegrity(s) => (pc'[s] = "pair" => PairPresent') /\ (pc'[s] = "read" => PairSigned')
    BY <2>2 DEF PairPresent, PairSigned
  <2> QED BY <2>1, <2>3 DEF Progress, FromRead, FromHead, FromRegistry, FromSeal
<1>8. ASSUME NEW s \in Slots PROVE Appends(s)'
  <2>1. CASE pc'[s] = pc[s] /\ job'[s] = job[s]
    BY <1>1, <1>6, <2>1 DEF Appends
  <2>2. CASE Command(s)
    <3> SUFFICES ASSUME pc'[s] \in {"trust", "bind", "record", "append"}
                 PROVE  job'[s].key = marker /\ (~marker => head = None)
      BY <1>1, <1>6 DEF Appends
    <3>1. Arrives(s) /\ Leads(s) /\ job[s] \in Jobs /\ DOMAIN job = Slots /\ DOMAIN pc = Slots
      BY <2>2, StepsArrive, StepsLead, JobParts DEF TypeOK
    <3>2. CASE StartRun(s)
      <4>1. PICK key \in BOOLEAN : ChainValid(key) /\ Goes(s, "trust", [NoJob EXCEPT !.key = key, !.plan = plan])
        BY <3>2 DEF StartRun, Begins
      <4>2. job'[s].key = key
        BY <3>1, <4>1 DEF Goes, NoJob
      <4> QED BY <4>1, <4>2 DEF ChainValid, KeyUsable
    <3>3. CASE AuditLoad(s)
      <4>1. ChainValid(job[s].key) /\ Goes(s, "trust", [job[s] EXCEPT !.plan = plan])
        BY <3>1, <3>3 DEF AuditLoad, Ends, Goes
      <4>2. job'[s].key = job[s].key
        BY <3>1, <4>1 DEF Goes, Jobs
      <4> QED BY <4>1, <4>2 DEF ChainValid, KeyUsable
    <3>4. CASE Execute(s)
      <4>1. Goes(s, "record", job[s]) /\ pc[s] = "bind"
        BY <3>1, <3>4 DEF Execute, Ends, Goes
      <4> QED BY <3>1, <4>1 DEF Goes, Appends
    <3>6. CASE ReadSeal(s)
      <4>1. Goes(s, "bind", [job[s] EXCEPT !.env = seal.env, !.approval = generation]) /\ pc[s] = "trust"
        BY <3>1, <3>6 DEF ReadSeal, Ends, Goes
      <4>2. job'[s].key = job[s].key
        BY <3>1, <4>1 DEF Goes, Jobs
      <4> QED BY <3>1, <4>1, <4>2 DEF Appends
    <3>5. CASE AppendOpen(s)
      <4>1. Goes(s, "append", job[s]) /\ pc[s] = "record"
        BY <3>1, <3>5 DEF AppendOpen, Ends, Goes
      <4> QED BY <3>1, <4>1 DEF Goes, Appends
    <3> QED BY <3>1, <3>2, <3>3, <3>4, <3>5, <3>6 DEF Arrives
  <2> QED BY <2>1, <2>2, WhoMoves
<1> QED BY <1>5, <1>7, <1>8

LEMMA UndisputedStep ==
  ASSUME TypeOK, SealOK, UndisputedOK, [Next]_vars
  PROVE  UndisputedOK'
<1> SUFFICES ASSUME ~beside' PROVE ChainOK' /\ \A s \in Slots : Progress(s)' /\ Appends(s)'
  BY DEF UndisputedOK
<1>1. CASE UNCHANGED vars
  <2>1. UNCHANGED <<log, head, marker, failures, registry, request, activation, seal, pc, job, beside>>
    BY <1>1 DEF vars, approvalFiles, evidence, integrity
  <2>2. ChainOK /\ \A s \in Slots : Progress(s) /\ Appends(s)
    BY <2>1 DEF UndisputedOK
  <2>3. ChainOK'
    BY <2>1, <2>2 DEF ChainOK, Chained, HeadOf, TailOf
  <2>4. PairPresent' = PairPresent /\ PairMatches' = PairMatches /\ PairSigned' = PairSigned
    BY <2>1 DEF PairPresent, PairMatches, PairSigned, Digest
  <2>5. SignedLog(log') = SignedLog(log) /\ HeadOf(log') = HeadOf(log) /\ (AllSigned(log') <=> AllSigned(log))
    BY <2>1
  <2> QED BY <2>1, <2>2, <2>3, <2>4, <2>5 DEF Progress, Appends
<1>2. CASE Next
  <2>1. ~beside /\ ~Besides
    BY <1>2 DEF Next
  <2>2. ChainOK /\ \A s \in Slots : Progress(s) /\ Appends(s)
    BY <2>1 DEF UndisputedOK
  <2>3. CASE \A s \in Slots : ~Signing(s)
    BY <2>2, <2>3, OthersMove
  <2>4. CASE \E s \in Slots : Signing(s)
    <3>1. PICK s \in Slots : Signing(s)
      BY <2>4
    <3>2. pc'[s] # pc[s] /\ \A t \in Slots \ {s} : pc[t] = "idle"
      BY <2>1, <3>1 DEF Besides
    <3>3. Command(s) /\ \A t \in Slots \ {s} : pc'[t] = pc[t]
      BY <3>2, WhoMoves
    <3>4. ChainOK' /\ Progress(s)' /\ Appends(s)'
      BY <2>2, <3>1, <3>3, SignerMoves
    <3>5. \A t \in Slots \ {s} : Progress(t)' /\ Appends(t)'
      BY <3>2, <3>3 DEF Progress, Appends, FromRead, FromHead, FromRegistry, FromSeal
    <3> QED BY <3>4, <3>5
  <2> QED BY <2>3, <2>4
<1> QED BY <1>1, <1>2

\* An integrity init that has no other command open beside it, killed as often as it may be
\* and repeated, fails only for what its message can name: a seal that a killed process left
\* open, a plan without a seal, or half of a request. supervisor/integrity.py, initialize.
THEOREM IntegrityFailsForAReason == Spec => []InitFailsForAReason
<1>1. Init => TypeOK /\ SealOK /\ UndisputedOK
  BY TypeInit, SealInit, UndisputedInit
<1>2. TypeOK /\ SealOK /\ UndisputedOK /\ [Next]_vars => (TypeOK /\ SealOK /\ UndisputedOK)'
  BY TypeStep, SealStep, UndisputedStep
<1>3. UndisputedOK => InitFailsForAReason
  BY DEF UndisputedOK, ChainOK, InitFailsForAReason
<1> QED BY <1>1, <1>2, <1>3, PTL DEF Spec
=============================================================================
