-------------------------- MODULE EvidenceLogProofs --------------------------
(***************************************************************************)
(* Proofs about EvidenceLog, for every set of writers, every rotation      *)
(* limit and every bound: the types, the repair of an append, that a log   *)
(* no fault has touched verifies whenever no append is in progress, and    *)
(* that an accepted log is complete.                                       *)
(***************************************************************************)
EXTENDS EvidenceLogInv, TLAPS, SequenceTheorems

-----------------------------------------------------------------------------
(* Reading the log *)

\* Every hash the code reads from a log is a hash or None.
LEMMA HashTypes ==
  ASSUME NEW log \in Seq(Record)
  PROVE  /\ LastRecordHash(log) \in Hash
         /\ TailHash(log) \in Hash \cup {NoTail}
<1>1. CASE log = <<>>
  BY <1>1 DEF LastRecordHash, TailHash, GENESIS, Hash
<1>2. CASE log # <<>>
  <2>1. Len(log) \in 1 .. Len(log)
    BY <1>2
  <2>2. Last(log) \in Record
    BY <2>1 DEF Last
  <2> QED BY <1>2, <2>2 DEF LastRecordHash, TailHash, Record
<1> QED BY <1>1, <1>2

LEMMA RecordsHaveHashes ==
  ASSUME NEW log \in Seq(Record)
  PROVE  \A i \in DOMAIN log : log[i] \in Record /\ log[i].id \in Nat
<1>1. \A i \in DOMAIN log : log[i] \in Record
  OBVIOUS
<1> QED BY <1>1 DEF Record, Hash

\* Appending keeps a log a log, also when the line is glued to a torn one.
LEMMA AppendedType ==
  ASSUME NEW log \in Seq(Record), NEW r \in Record
  PROVE  /\ Appended(log, r) \in Seq(Record)
         /\ Appended(log, r) # <<>>
         /\ \/ Appended(log, r) = Append(log, r)
            \/ Appended(log, r) = log
            \/ log # <<>> /\ Appended(log, r) = [log EXCEPT ![Len(log)] = Glued]
<1>1. Glued \in Record
  BY DEF Glued, Record, Hash, GENESIS
<1>2. CASE log = <<>> \/ Last(log) # Torn
  <2>1. Appended(log, r) = Append(log, r)
    BY <1>2 DEF Appended
  <2>2. Append(log, r) \in Seq(Record)
    OBVIOUS
  <2>3. Append(log, r) # <<>>
    BY AppendProperties, EmptySeq
  <2> QED BY <2>1, <2>2, <2>3
<1>3. CASE log # <<>> /\ Last(log) = Torn /\ r = Torn
  BY <1>3 DEF Appended
<1>4. CASE log # <<>> /\ Last(log) = Torn /\ r # Torn
  <2>1. Appended(log, r) = [log EXCEPT ![Len(log)] = Glued]
    BY <1>4 DEF Appended
  <2>2. Len(log) \in 1 .. Len(log)
    BY <1>4
  <2>3. /\ [log EXCEPT ![Len(log)] = Glued] \in Seq(Record)
        /\ Len([log EXCEPT ![Len(log)] = Glued]) = Len(log)
    BY <1>1, <2>2, ExceptSeq
  <2>4. [log EXCEPT ![Len(log)] = Glued] # <<>>
    BY <2>2, <2>3
  <2> QED BY <1>4, <2>1, <2>3, <2>4
<1> QED BY <1>2, <1>3, <1>4

LEMMA ArchiveTailType ==
  ASSUME archives \in Seq(Seq(Record))
  PROVE  LatestArchiveTail \in Hash \cup {NoTail}
<1>1. CASE archives = <<>>
  BY <1>1 DEF LatestArchiveTail
<1>2. CASE archives # <<>>
  <2>1. Last(archives) \in Seq(Record)
    BY <1>2 DEF Last
  <2> QED BY <1>2, <2>1, HashTypes DEF LatestArchiveTail
<1> QED BY <1>1, <1>2

LEMMA OrGenesisType ==
  ASSUME NEW h \in Hash \cup {NoTail}
  PROVE  OrGenesis(h) \in Hash
BY DEF OrGenesis, GENESIS, Hash

LEMMA LogStateType == LogState \in {"sync", "lag", "firstlag", "rotated", "other"}
BY DEF LogState

\* What a writer derives on entry is a well-formed job.
LEMMA DerivedType ==
  ASSUME TypeOK, NEW kind \in {"record", "anchor"}
  PROVE  Derived(kind) \in Job
<1> DEFINE tail == LastRecordHash(active)
<1>1. tail \in Hash
  BY HashTypes DEF TypeOK
<1>2. /\ LatestArchiveTail \in Hash \cup {NoTail}
      /\ OrGenesis(LatestArchiveTail) \in Hash
  BY ArchiveTailType, OrGenesisType DEF TypeOK
<1>3. head.count \in Nat /\ head.tail \in Hash \cup {NoTail} /\ nextId \in Hash
  BY DEF TypeOK, Checkpoint, Hash
<1> HIDE DEF tail
<1> QED BY <1>1, <1>2, <1>3 DEF Derived, Based, Agrees, Lagged, UnbasedPrev, Job, NoTail, NoCount, tail

LEMMA NoJobType == NoJob \in Job
BY DEF NoJob, Job, GENESIS, NoTail, NoCount, Hash

LEMMA HeadTypes ==
  ASSUME TypeOK
  PROVE  /\ ExpectedHead \in Checkpoint
         /\ \A w \in Writers : NextHead(job[w]) \in Checkpoint
<1>1. /\ LatestArchiveTail \in Hash \cup {NoTail}
      /\ LastRecordHash(active) \in Hash
      /\ Len(active) \in Nat
  BY ArchiveTailType, HashTypes DEF TypeOK
<1>2. ExpectedHead \in Checkpoint
  BY <1>1 DEF ExpectedHead, Checkpoint
<1>3. ASSUME NEW w \in Writers
      PROVE  NextHead(job[w]) \in Checkpoint
  <2>1. job[w].id \in Hash /\ job[w].count \in Nat \cup {NoCount}
    BY DEF TypeOK, Job
  <2>2. CurrentArchiveTail \in Hash \cup {NoTail}
    BY <1>1 DEF CurrentArchiveTail, TypeOK, Checkpoint
  <2>3. head.count \in Nat
    BY DEF TypeOK, Checkpoint
  <2> QED BY <1>1, <1>2, <2>1, <2>2, <2>3 DEF NextHead, Checkpoint, NoCount
<1> QED BY <1>2, <1>3

LEMMA AfterRecordType ==
  ASSUME NEW w \in Writers
  PROVE  AfterRecord(w) \in {"replace", "leave"}
BY DEF AfterRecord

-----------------------------------------------------------------------------
(* Type correctness *)

LEMMA InitTypes == Init => TypeOK
BY EvidenceLogAssumption, NoJobType
   DEF Init, TypeOK, Checkpoint, Hash, GENESIS, NoTail, NoHead

LEMMA NextTypes == TypeOK /\ [Next]_vars => TypeOK'
<1> SUFFICES ASSUME TypeOK, [Next]_vars
             PROVE  TypeOK'
  OBVIOUS
<1>1. ASSUME NEW w \in Writers, Enter(w)
      PROVE  TypeOK'
  BY <1>1, LogStateType DEF Enter, TypeOK, faults
<1>2. ASSUME NEW w \in Writers, NEW kind \in {"record", "anchor"}, Derive(w, kind)
      PROVE  TypeOK'
  BY <1>2, DerivedType DEF Derive, TypeOK, faults
<1>3. ASSUME NEW w \in Writers, AppendRecord(w)
      PROVE  TypeOK'
  <2>1. Line(job[w]) \in Record
    BY DEF TypeOK, Line, Job, Record
  <2>2. active' \in Seq(Record)
    BY <1>3, <2>1, AppendedType DEF AppendRecord, TypeOK, faults
  <2> QED BY <1>3, <2>2, AfterRecordType DEF AppendRecord, TypeOK, faults
<1>4. ASSUME NEW w \in Writers, UpdateHead(w)
      PROVE  TypeOK'
  BY <1>4, HeadTypes, AfterRecordType DEF UpdateHead, TypeOK, faults
<1>5. ASSUME NEW w \in Writers, ReplaceActive(w)
      PROVE  TypeOK'
  BY <1>5 DEF ReplaceActive, TypeOK, faults
<1>6. ASSUME NEW w \in Writers, RewriteHead(w)
      PROVE  TypeOK'
  BY <1>6, HeadTypes DEF RewriteHead, TypeOK, faults
<1>7. ASSUME NEW w \in Writers, Leave(w)
      PROVE  TypeOK'
  BY <1>7, NoJobType DEF Leave, TypeOK, Job, faults
<1>8. ASSUME NEW w \in Writers, Crash(w)
      PROVE  TypeOK'
  BY <1>8, NoJobType DEF Crash, Stopped, TypeOK
<1>9. ASSUME NEW w \in Writers, CrashInLine(w)
      PROVE  TypeOK'
  <2>1. Torn \in Record
    BY DEF Torn, Record, Hash, GENESIS
  <2>2. active' \in Seq(Record)
    BY <1>9, <2>1, AppendedType DEF CrashInLine, TypeOK
  <2> QED BY <1>9, <2>2, NoJobType DEF CrashInLine, Stopped, TypeOK
<1>10. ASSUME LoseTail
       PROVE  TypeOK'
  <2>1. active' \in Seq(Record)
    <3>1. PICK n \in 0 .. Len(active) - 1 : active' = SubSeq(active, 1, n)
      BY <1>10 DEF LoseTail
    <3> QED BY <3>1, SubSeqProperties DEF TypeOK
  <2> QED BY <1>10, <2>1 DEF LoseTail, TypeOK
<1>11. CASE UNCHANGED vars
  BY <1>11 DEF vars, faults, TypeOK
<1> QED
  BY <1>1, <1>2, <1>3, <1>4, <1>5, <1>6, <1>7, <1>8, <1>9, <1>10, <1>11
     DEF Next, Step, StartAnchor, StartRecord

\* Whatever the writers do and wherever they are killed, the log, the
\* archives, the checkpoint and every writer's local state keep their shape.
THEOREM TypeCorrect == Spec => []TypeOK
BY InitTypes, NextTypes, PTL DEF Spec

-----------------------------------------------------------------------------
(* Chains *)

\* A linked log reads the same in both layers.
LEMMA LinkedReads ==
  ASSUME NEW log \in Seq(Record), NEW base, LinkedFrom(log, base)
  PROVE  /\ OrGenesis(TailHash(log)) = LastRecordHash(log)
         /\ log # <<>> => /\ TailHash(log) = Last(log).id
                          /\ LastRecordHash(log) = Last(log).id
                          /\ Whole(Last(log))
                          /\ Last(log).id \in Hash
                          /\ OrGenesis(Last(log).id) = Last(log).id
<1>1. CASE log = <<>>
  BY <1>1 DEF LastRecordHash, TailHash, OrGenesis
<1>2. CASE log # <<>>
  <2>1. Len(log) \in DOMAIN log
    BY <1>2
  <2>2. \A i \in DOMAIN log : Whole(log[i])
    BY DEF LinkedFrom
  <2>3. Last(log) \in Record /\ Whole(Last(log))
    BY <2>1, <2>2 DEF Last
  <2>4. Last(log).id \in Hash
    BY <2>3 DEF Record
  <2>5. OrGenesis(Last(log).id) = Last(log).id
    BY <2>4 DEF OrGenesis, NoTail, Hash
  <2> QED BY <1>2, <2>2, <2>3, <2>4, <2>5 DEF LastRecordHash, TailHash
<1> QED BY <1>1, <1>2

\* A record that names the tail extends a linked log.
LEMMA LinkedAppend ==
  ASSUME NEW log \in Seq(Record), NEW base, LinkedFrom(log, base),
         NEW r \in Record, Whole(r),
         r.prev = IF log = <<>> THEN base ELSE Last(log).id
  PROVE  /\ Appended(log, r) = Append(log, r)
         /\ LinkedFrom(Append(log, r), base)
         /\ Append(log, r) # <<>>
         /\ Last(Append(log, r)) = r
<1>1. Appended(log, r) = Append(log, r)
  BY LinkedReads DEF Appended, Torn, Whole
<1>2. LinkedFrom(Append(log, r), base)
  <2> SUFFICES ASSUME NEW i \in DOMAIN Append(log, r)
               PROVE  /\ Whole(Append(log, r)[i])
                      /\ Append(log, r)[i].prev =
                           IF i = 1 THEN base ELSE Append(log, r)[i-1].id
    BY DEF LinkedFrom
  <2>1. CASE i = Len(log) + 1
    BY <2>1 DEF Last
  <2>2. CASE i \in DOMAIN log
    BY <2>2 DEF LinkedFrom
  <2> QED BY <2>1, <2>2
<1>3. Append(log, r) # <<>> /\ Last(Append(log, r)) = r
  <2>1. /\ Len(Append(log, r)) = Len(log) + 1
        /\ Append(log, r)[Len(log) + 1] = r
    OBVIOUS
  <2> QED BY <2>1 DEF Last
<1> QED BY <1>1, <1>2, <1>3

\* A verified log has an exact checkpoint whose tail is the last record's hash.
LEMMA VerifiedCheckpoint ==
  ASSUME TypeOK, Keyed, Linked, head = VerifiedHead
  PROVE  /\ head.count = Len(active)
         /\ head.tail = LastRecordHash(active)
         /\ head.archive = VerifiedHead.archive
BY LinkedReads DEF TypeOK, VerifiedHead, Linked

\* A full scan of a linked log writes the checkpoint the verifier demands.
LEMMA FullScanVerifies ==
  ASSUME TypeOK, Linked, ArchiveReads
  PROVE  ExpectedHead = VerifiedHead
BY LinkedReads DEF TypeOK, ExpectedHead, VerifiedHead, Linked, ArchiveReads

-----------------------------------------------------------------------------
(* The lock, the hashes and the checkpoint's kind *)

LEMMA InitBasic == Init => Solo /\ NonEmpty /\ HeadKind /\ Fresh
BY DEF Init, Solo, NonEmpty, HeadKind, Fresh, NoHead, NoTail, GENESIS

\* Everyone but the writer inside is idle.
LEMMA OthersIdle ==
  ASSUME Solo, NEW w \in Writers, pc[w] # "idle", NEW v \in Writers, v # w
  PROVE  pc[v] = "idle"
BY DEF Solo

LEMMA SoloStep == TypeOK /\ Solo /\ [Next]_vars => Solo'
<1> SUFFICES ASSUME TypeOK, Solo, [Next]_vars
             PROVE  Solo'
  OBVIOUS
<1>1. ASSUME NEW w \in Writers, Outside, Enter(w)
      PROVE  Solo'
  BY <1>1 DEF Outside, Enter, Solo, TypeOK
<1>2. ASSUME NEW w \in Writers, Step(w) \/ Crash(w) \/ CrashInLine(w)
      PROVE  Solo'
  <2>1. pc[w] # "idle"
    BY <1>2 DEF Step, StartAnchor, StartRecord, AppendRecord, UpdateHead, ReplaceActive,
                RewriteHead, Leave, Crash, CrashInLine
  <2>2. \A v \in Writers : v # w => pc'[v] = pc[v]
    BY <1>2 DEF Step, StartAnchor, StartRecord, Derive, AppendRecord, UpdateHead,
                ReplaceActive, RewriteHead, Leave, Crash, CrashInLine, Stopped, TypeOK
  <2> QED BY <2>1, <2>2 DEF Solo
<1>3. CASE LoseTail \/ UNCHANGED vars
  BY <1>3 DEF LoseTail, vars, Solo
<1> QED BY <1>1, <1>2, <1>3 DEF Next

LEMMA NonEmptyStep == TypeOK /\ Solo /\ NonEmpty /\ [Next]_vars => NonEmpty'
<1> SUFFICES ASSUME TypeOK, Solo, NonEmpty, [Next]_vars
             PROVE  NonEmpty'
  OBVIOUS
<1>1. ASSUME NEW w \in Writers, Enter(w) \/ StartAnchor(w) \/ StartRecord(w) \/ UpdateHead(w)
                                 \/ RewriteHead(w) \/ Leave(w) \/ Crash(w)
      PROVE  NonEmpty'
  <2>1. UNCHANGED <<active, archives>>
    BY <1>1 DEF Enter, StartAnchor, StartRecord, Derive, UpdateHead, RewriteHead, Leave,
                Crash, Stopped
  <2>2. \A v \in Writers : pc'[v] \in {"head", "replace"} => pc[v] \in {"head", "replace"}
    BY <1>1, AfterRecordType
       DEF Enter, StartAnchor, StartRecord, Derive, UpdateHead, RewriteHead, Leave,
           Crash, Stopped, TypeOK
  <2> QED BY <2>1, <2>2 DEF NonEmpty
<1>2. ASSUME NEW w \in Writers, AppendRecord(w) \/ CrashInLine(w)
      PROVE  NonEmpty'
  <2>1. Line(job[w]) \in Record /\ Torn \in Record
    BY DEF TypeOK, Line, Job, Record, Torn, Hash, GENESIS
  <2>2. active' # <<>>
    BY <1>2, <2>1, AppendedType DEF AppendRecord, CrashInLine, TypeOK
  <2> QED BY <1>2, <2>2 DEF AppendRecord, CrashInLine, Stopped, NonEmpty
<1>3. ASSUME NEW w \in Writers, ReplaceActive(w)
      PROVE  NonEmpty'
  <2>1. active # <<>> /\ archives' = Append(archives, active)
    BY <1>3 DEF ReplaceActive, NonEmpty
  <2>2. \A i \in DOMAIN archives' : archives'[i] # <<>>
    BY <2>1 DEF NonEmpty, TypeOK
  <2>3. \A v \in Writers : pc'[v] \notin {"head", "replace"}
    BY <1>3, OthersIdle DEF ReplaceActive, TypeOK
  <2> QED BY <2>2, <2>3 DEF NonEmpty
<1>4. CASE LoseTail
  BY <1>4 DEF LoseTail, Outside, NonEmpty
<1>5. CASE UNCHANGED vars
  BY <1>5 DEF vars, NonEmpty
<1> QED BY <1>1, <1>2, <1>3, <1>4, <1>5 DEF Next, Step

LEMMA HeadKindStep == TypeOK /\ HeadKind /\ [Next]_vars => HeadKind'
<1> SUFFICES ASSUME TypeOK, HeadKind, [Next]_vars
             PROVE  HeadKind'
  OBVIOUS
<1> DEFINE Kind == IF Keyed THEN head.tail # NoTail ELSE head = NoHead
           Steps == \A w \in Writers : pc[w] \in {"head", "rehead"} => Keyed
<1>1. ASSUME NEW w \in Writers, UpdateHead(w) \/ RewriteHead(w)
      PROVE  Kind'
  <2>1. ExpectedHead.tail \in Hash /\ NextHead(job[w]).tail \in Hash
    BY HashTypes DEF ExpectedHead, NextHead, TypeOK, Job
  <2> QED BY <1>1, <2>1 DEF UpdateHead, RewriteHead, HeadKind, NoTail, Hash
<1>2. ASSUME UNCHANGED head
      PROVE  Kind'
  BY <1>2 DEF HeadKind
<1>3. Kind'
  <2>1. ASSUME NEW w \in Writers, Enter(w) \/ StartAnchor(w) \/ StartRecord(w) \/ AppendRecord(w)
                                   \/ ReplaceActive(w) \/ Leave(w) \/ Crash(w) \/ CrashInLine(w)
        PROVE  UNCHANGED head
    BY <2>1 DEF Enter, StartAnchor, StartRecord, Derive, AppendRecord, ReplaceActive, Leave,
                Crash, CrashInLine, Stopped
  <2>2. LoseTail \/ UNCHANGED vars => UNCHANGED head
    BY DEF LoseTail, vars
  <2> HIDE DEF Kind
  <2> QED BY <1>1, <1>2, <2>1, <2>2 DEF Next, Step
<1>4. Steps'
  <2>1. ASSUME NEW w \in Writers, Enter(w) \/ StartAnchor(w) \/ StartRecord(w) \/ UpdateHead(w)
                                   \/ RewriteHead(w) \/ Leave(w) \/ Crash(w) \/ CrashInLine(w)
        PROVE  Steps'
    BY <2>1, AfterRecordType
       DEF Enter, StartAnchor, StartRecord, Derive, UpdateHead, RewriteHead, Leave, Crash,
           CrashInLine, Stopped, HeadKind, TypeOK
  <2>2. ASSUME NEW w \in Writers, AppendRecord(w) \/ ReplaceActive(w)
        PROVE  Steps'
    BY <2>2, AfterRecordType DEF AppendRecord, ReplaceActive, HeadKind, TypeOK
  <2>3. CASE LoseTail \/ UNCHANGED vars
    BY <2>3 DEF LoseTail, vars, HeadKind
  <2> QED BY <2>1, <2>2, <2>3 DEF Next, Step
<1> QED BY <1>3, <1>4 DEF HeadKind

\* Gluing a line to a torn one brings no new hash.
LEMMA GluedFresh ==
  ASSUME TypeOK, Fresh, active # <<>>, active' = [active EXCEPT ![Len(active)] = Glued]
  PROVE  /\ \A i \in DOMAIN active' : active'[i].id < nextId
         /\ \A i \in DOMAIN active' :
              i > 1 /\ Whole(active'[i]) => active'[i-1].id < active'[i].id
<1>1. Glued.id = 0 /\ ~Whole(Glued)
  BY DEF Glued, Whole, GENESIS
<1>2. DOMAIN active' = DOMAIN active /\ DOMAIN active = 1 .. Len(active)
  BY DEF TypeOK
<1>3. \A i \in DOMAIN active :
        active'[i] = IF i = Len(active) THEN Glued ELSE active[i]
  BY <1>2
<1>4. \A i \in DOMAIN active : active[i].id \in Nat
  BY RecordsHaveHashes DEF TypeOK
<1>5. Len(active) \in Nat /\ nextId \in Nat \ {0}
  BY DEF TypeOK
<1>6. \A i \in DOMAIN active : i # Len(active) => active'[i] = active[i]
  BY <1>3
<1>7. ASSUME NEW i \in DOMAIN active', i > 1, Whole(active'[i])
      PROVE  active'[i-1].id < active'[i].id
  <2>1. i \in DOMAIN active /\ i # Len(active) /\ i - 1 \in DOMAIN active /\ i - 1 # Len(active)
    BY <1>1, <1>2, <1>3, <1>5, <1>7
  <2> QED BY <1>6, <1>7, <2>1 DEF Fresh
<1>8. \A i \in DOMAIN active' : active'[i].id < nextId
  BY <1>1, <1>2, <1>3, <1>5 DEF Fresh
<1> QED BY <1>7, <1>8

LEMMA FreshStep == TypeOK /\ Solo /\ Fresh /\ [Next]_vars => Fresh'
<1> SUFFICES ASSUME TypeOK, Solo, Fresh, [Next]_vars
             PROVE  Fresh'
  OBVIOUS
<1> USE DEF Fresh
<1>1. ASSUME NEW w \in Writers, Enter(w) \/ UpdateHead(w) \/ RewriteHead(w) \/ Leave(w)
                                 \/ Crash(w)
      PROVE  Fresh'
  <2>1. UNCHANGED <<active, nextId>>
    BY <1>1 DEF Enter, UpdateHead, RewriteHead, Leave, Crash, Stopped
  <2>2. \A v \in Writers : pc'[v] = "append" => pc[v] = "append" /\ job'[v] = job[v]
    BY <1>1, AfterRecordType DEF Enter, UpdateHead, RewriteHead, Leave, Crash, Stopped, TypeOK
  <2> QED BY <2>1, <2>2
<1>2. ASSUME NEW w \in Writers, NEW kind \in {"record", "anchor"}, pc[w] # "idle",
             Derive(w, kind)
      PROVE  Fresh'
  <2>1. \A v \in Writers : v # w => pc'[v] = "idle"
    BY <1>2, OthersIdle DEF Derive, TypeOK
  <2>2. job'[w].id = nextId /\ nextId' = nextId + 1 /\ UNCHANGED active
    BY <1>2 DEF Derive, Derived, TypeOK
  <2>3. Whole(job'[w])
    BY <2>2 DEF Whole, GENESIS, TypeOK
  <2>4. \A i \in DOMAIN active : active[i].id \in Nat
    BY RecordsHaveHashes DEF TypeOK
  <2> QED BY <2>1, <2>2, <2>3, <2>4 DEF TypeOK
<1>3. ASSUME NEW w \in Writers, AppendRecord(w)
      PROVE  Fresh'
  <2> DEFINE r == Line(job[w])
  <2>1. r \in Record /\ r.id = job[w].id /\ r.id < nextId
    BY <1>3 DEF AppendRecord, TypeOK, Line, Job, Record
  <2>2. \A v \in Writers : pc'[v] # "append"
    BY <1>3, OthersIdle, AfterRecordType DEF AppendRecord, TypeOK
  <2>3. \A i \in DOMAIN active : active[i].id < r.id
    BY <1>3, <2>1 DEF AppendRecord
  <2>4. UNCHANGED nextId /\ active' = Appended(active, r)
    BY <1>3 DEF AppendRecord
  <2>5. CASE active' = active
    BY <2>2, <2>4, <2>5
  <2>6. CASE active' = Append(active, r)
    <3> HIDE DEF r
    <3> QED BY <2>1, <2>2, <2>3, <2>4, <2>6 DEF TypeOK
  <2>7. CASE active # <<>> /\ active' = [active EXCEPT ![Len(active)] = Glued]
    BY <2>2, <2>4, <2>7, GluedFresh
  <2> HIDE DEF r
  <2> QED BY <2>1, <2>4, <2>5, <2>6, <2>7, AppendedType DEF TypeOK
<1>4. ASSUME NEW w \in Writers, CrashInLine(w)
      PROVE  Fresh'
  <2>1. Torn \in Record /\ Torn.id = 0 /\ ~Whole(Torn)
    BY DEF Torn, Record, Hash, GENESIS, Whole
  <2>2. \A v \in Writers : pc'[v] # "append"
    BY <1>4, OthersIdle DEF CrashInLine, Stopped, TypeOK
  <2>3. UNCHANGED nextId /\ active' = Appended(active, Torn)
    BY <1>4 DEF CrashInLine, Stopped
  <2>4. CASE active' = active
    BY <2>2, <2>3, <2>4
  <2>5. CASE active' = Append(active, Torn)
    BY <2>1, <2>2, <2>3, <2>5 DEF TypeOK
  <2>6. CASE active # <<>> /\ active' = [active EXCEPT ![Len(active)] = Glued]
    BY <2>2, <2>3, <2>6, GluedFresh
  <2> QED BY <2>1, <2>3, <2>4, <2>5, <2>6, AppendedType DEF TypeOK
<1>5. ASSUME NEW w \in Writers, ReplaceActive(w)
      PROVE  Fresh'
  <2>1. \A v \in Writers : pc'[v] # "append"
    BY <1>5, OthersIdle DEF ReplaceActive, TypeOK
  <2> QED BY <1>5, <2>1 DEF ReplaceActive
<1>6. CASE LoseTail
  <2>1. PICK n \in 0 .. Len(active) - 1 : active' = SubSeq(active, 1, n)
    BY <1>6 DEF LoseTail
  <2>2. /\ DOMAIN active' \subseteq DOMAIN active
        /\ \A i \in DOMAIN active' : active'[i] = active[i] /\ (i > 1 => i - 1 \in DOMAIN active')
    BY <2>1, SubSeqProperties DEF TypeOK
  <2>3. \A v \in Writers : pc'[v] # "append"
    BY <1>6 DEF LoseTail, Outside
  <2> QED BY <1>6, <2>2, <2>3 DEF LoseTail
<1>7. CASE UNCHANGED vars
  BY <1>7 DEF vars
<1> QED
  BY <1>1, <1>2, <1>3, <1>4, <1>5, <1>6, <1>7 DEF Next, Step, StartAnchor, StartRecord
-----------------------------------------------------------------------------
(* The repair in _write_evidence_record *)

LEMMA InitRepair == Init => RepairInv
<1> SUFFICES ASSUME Init
             PROVE  RepairInv
  OBVIOUS
<1>1. \A w \in Writers : found[w] = "none"
  BY DEF Init
<1> QED BY <1>1, InitTypes, InitBasic DEF RepairInv

\* The verdicts on the log depend on its three files only.
LEMMA SameFiles ==
  ASSUME UNCHANGED <<active, archives, head>>
  PROVE  /\ VerifyChain' = VerifyChain
         /\ OneAhead' = OneAhead
         /\ Renamed' = Renamed
         /\ Linked' = Linked
         /\ ArchiveReads' = ArchiveReads
         /\ Anchored' = Anchored
         /\ LatestArchiveTail' = LatestArchiveTail
<1>1. LatestArchiveTail' = LatestArchiveTail /\ VerifiedHead' = VerifiedHead
  BY DEF LatestArchiveTail, VerifiedHead
<1>2. Anchored' = Anchored
  BY DEF Anchored, ArchiveValid
<1> QED BY <1>1, <1>2 DEF VerifyChain, OneAhead, Renamed, Linked, Base, ArchiveReads

\* An archive that passes its check reads the same in both layers.
LEMMA AnchoredTail ==
  ASSUME TypeOK, NonEmpty, Anchored, archives # <<>>
  PROVE  /\ TailHash(Last(archives)) = LatestArchiveTail
         /\ LatestArchiveTail = Last(Last(archives)).id
         /\ LatestArchiveTail \in Hash \ {GENESIS}
<1> DEFINE n == Len(archives)
<1>1. n \in DOMAIN archives /\ Last(archives) = archives[n] /\ archives[n] \in Seq(Record)
  BY DEF TypeOK, Last
<1>2. PICK base : LinkedFrom(archives[n], base)
  BY <1>1 DEF Anchored, ArchiveValid
<1>3. archives[n] # <<>>
  BY <1>1 DEF NonEmpty
<1> HIDE DEF n
<1> QED BY <1>1, <1>2, <1>3, LinkedReads DEF LatestArchiveTail, Whole

\* A writer that finds a log it can continue derives the link to its tail, and
\* a count that is exact unless it orders the full scan.
LEMMA DerivedContinues ==
  ASSUME TypeOK, NonEmpty, HeadKind, Fresh, NEW kind \in {"record", "anchor"},
         VerifyChain \/ (OneAhead /\ head.count > 0) \/ Renamed
  PROVE  Linked /\ Derived(kind).prev = NextPrev /\ Counted(Derived(kind), 0)
<1> DEFINE tail == LastRecordHash(active)
           Goal == Linked /\ Derived(kind).prev = NextPrev /\ Counted(Derived(kind), 0)
<1>1. active \in Seq(Record) /\ Len(active) \in Nat /\ head.count \in Nat
  BY DEF TypeOK, Checkpoint
<1>2. NoHead.tail = NoTail /\ NoHead.count = 0
  BY DEF NoHead
<1>3. CASE VerifyChain
  <2>1. Linked
    BY <1>3 DEF VerifyChain, Linked, Base
  <2>2. active # <<>> => tail = Last(active).id
    BY DEF LastRecordHash
  <2>3. CASE ~Keyed
    BY <2>1, <2>2, <2>3, <1>2 DEF HeadKind, Derived, Based, UnbasedPrev, NextPrev, Base, Counted
  <2>4. CASE Keyed
    <3>1. head.count = Len(active) /\ head.tail = tail /\ head.archive = VerifiedHead.archive
      BY <1>3, <2>1, <2>4, VerifiedCheckpoint DEF VerifyChain
    <3>2. head # NoHead
      BY <2>4, <1>2 DEF HeadKind
    <3>3. active = <<>> <=> Len(active) = 0
      BY <1>1
    <3> HIDE DEF tail
    <3>4. Derived(kind).prev = NextPrev
      BY <1>1, <2>2, <3>1, <3>2, <3>3 DEF Derived, Based, Agrees, UnbasedPrev, NextPrev, Base, tail
    <3>5. /\ Derived(kind).repair = FALSE
          /\ Derived(kind).count \in {NoCount, head.count}
      BY <1>1, <3>1, <3>2 DEF Derived, Based, Agrees, Lagged, tail
    <3> QED BY <1>1, <2>1, <3>1, <3>4, <3>5 DEF Counted
  <2> QED BY <2>3, <2>4
<1>4. CASE OneAhead /\ head.count > 0
  <2>1. Linked /\ active # <<>> /\ Keyed /\ ArchiveReads
    BY <1>4 DEF OneAhead, Linked, Base, ArchiveReads
  <2>2. head.count = Len(active) - 1 /\ head.tail = LastRecordHash(Front(active))
    BY <1>4 DEF OneAhead
  <2>3. head # NoHead
    BY <2>1, <1>2 DEF HeadKind
  <2>4. tail = active[Len(active)].id /\ Whole(active[Len(active)]) /\ tail # GENESIS
    BY <1>1, <2>1, LinkedReads DEF Linked, Last, Whole
  <2>5. LastRecordHash(Front(active)) = active[Len(active) - 1].id
    <3>1. Len(active) \in Nat /\ Len(active) >= 2
      BY <1>1, <1>4, <2>2
    <3> DEFINE n == Len(active) - 1
    <3>2. Front(active) = SubSeq(active, 1, n)
      BY DEF Front
    <3>3. n \in Nat /\ n >= 1 /\ 1 + n - 1 = n /\ n - 1 + 1 = n
      BY <3>1
    <3>4. \A i \in 1 .. n : active[i] \in Record
      BY <1>1, <3>1
    <3> HIDE DEF n
    <3>5. Len(Front(active)) = n /\ Front(active)[n] = active[n]
      BY <3>2, <3>3, <3>4, SubSeqProperties
    <3>6. Front(active) # <<>>
      BY <3>3, <3>5
    <3> QED BY <3>5, <3>6 DEF LastRecordHash, Last, n
  <2>6. active[Len(active) - 1].id < active[Len(active)].id
    BY <1>1, <1>4, <2>2, <2>4 DEF Fresh
  <2>7. active[Len(active) - 1].id \in Nat /\ active[Len(active)].id \in Nat
    BY <1>1, <1>4, <2>2, RecordsHaveHashes
  <2>8. tail # head.tail
    BY <2>2, <2>4, <2>5, <2>6, <2>7
  <2>9. NextPrev = tail
    BY <2>1, <2>4 DEF NextPrev, Last
  <2>10. Len(active) = head.count + 1
    BY <1>1, <2>2
  <2> HIDE DEF tail
  <2>11. Derived(kind).prev = tail /\ Derived(kind).repair = TRUE
    BY <1>4, <2>3, <2>4, <2>8, <2>10 DEF Derived, Based, Agrees, Lagged, tail
  <2> QED BY <2>1, <2>9, <2>11 DEF Counted
<1>5. CASE Renamed
  <2>1. active = <<>> /\ archives # <<>> /\ Anchored /\ Keyed
    BY <1>5 DEF Renamed
  <2>2. head.count = Len(Last(archives)) /\ head.tail = LatestArchiveTail
    BY <1>5 DEF Renamed
  <2>3. /\ TailHash(Last(archives)) = LatestArchiveTail
        /\ LatestArchiveTail \in Hash \ {GENESIS}
    BY <2>1, AnchoredTail
  <2>4. head.count > 0
    <3>1. Last(archives) \in Seq(Record) /\ Last(archives) # <<>>
      BY <2>1 DEF TypeOK, NonEmpty, Last
    <3> QED BY <2>2, <3>1
  <2>5. head # NoHead
    BY <2>1, <1>2 DEF HeadKind
  <2>6. tail = GENESIS /\ tail # head.tail
    BY <2>1, <2>2, <2>3 DEF LastRecordHash
  <2>7. NextPrev = head.tail
    BY <2>1, <2>2, <2>3 DEF NextPrev, Base, OrGenesis, NoTail, Hash
  <2>8. Linked /\ ArchiveReads
    BY <2>1, <2>3 DEF Linked, LinkedFrom, ArchiveReads, VerifiedHead
  <2> HIDE DEF tail
  <2>9. Derived(kind).prev = head.tail /\ Derived(kind).repair = TRUE
    BY <1>1, <2>4, <2>5, <2>6 DEF Derived, Based, Agrees, Lagged, tail
  <2> QED BY <2>1, <2>7, <2>8, <2>9 DEF Counted
<1> QED BY <1>3, <1>4, <1>5

\* A writer outside the lock owes nothing.
LEMMA IdleRepairs ==
  ASSUME NEW w \in Writers, pc'[w] = "idle"
  PROVE  Repairing(w)'
BY DEF Repairing

LEMMA EnterRepairs ==
  ASSUME TypeOK, NEW w \in Writers, Enter(w), found'[w] \in {"sync", "lag", "rotated"}
  PROVE  Repairing(w)'
<1>1. found'[w] = LogState /\ pc'[w] = "check"
  BY DEF Enter, TypeOK
<1>2. VerifyChain \/ (OneAhead /\ head.count > 0) \/ Renamed
  <2>1. head.count \in Nat
    BY DEF TypeOK, Checkpoint
  <2> QED BY <1>1, <2>1 DEF LogState
<1>3. UNCHANGED <<active, archives, head>>
  BY DEF Enter
<1>4. (VerifyChain \/ (OneAhead /\ head.count > 0) \/ Renamed)'
  BY <1>2, <1>3, SameFiles
<1> QED BY <1>1, <1>4 DEF Repairing

LEMMA DeriveRepairs ==
  ASSUME TypeOK, NonEmpty, HeadKind, Fresh, NEW w \in Writers, pc[w] \in {"check", "ready"},
         Repairing(w), NEW kind \in {"record", "anchor"}, Derive(w, kind)
  PROVE  Repairing(w)'
<1>1. VerifyChain \/ (OneAhead /\ head.count > 0) \/ Renamed
  BY DEF Repairing
<1>2. Linked /\ Derived(kind).prev = NextPrev /\ Counted(Derived(kind), 0)
  BY <1>1, DerivedContinues
<1>3. /\ job'[w] = Derived(kind) /\ pc'[w] = "append"
      /\ UNCHANGED <<active, archives, head>>
  BY DEF Derive, TypeOK
<1>4. Linked' /\ ArchiveReads' = ArchiveReads /\ VerifiedHead' = VerifiedHead
  BY <1>2, <1>3, SameFiles DEF VerifiedHead
<1>5. NextPrev' = NextPrev
  BY <1>3 DEF NextPrev, Base, LatestArchiveTail
<1>6. Counted(job[w], 0)'
  BY <1>2, <1>3, <1>4 DEF Counted
<1> QED BY <1>2, <1>3, <1>4, <1>5, <1>6 DEF Repairing

LEMMA AppendRepairsStep ==
  ASSUME TypeOK, Fresh, NEW w \in Writers, Repairing(w), AppendRecord(w)
  PROVE  Repairing(w)'
<1> DEFINE r == Line(job[w])
<1>1. Linked /\ job[w].prev = NextPrev /\ Counted(job[w], 0)
  BY DEF AppendRecord, Repairing
<1>2. r \in Record /\ Whole(r) /\ r.id = job[w].id /\ r.prev = job[w].prev
  BY DEF AppendRecord, Fresh, Whole, Line, TypeOK, Job, Record
<1>3. active \in Seq(Record) /\ Len(active) \in Nat
  BY DEF TypeOK
<1>4. active' = Appended(active, r)
  BY DEF AppendRecord
<1> HIDE DEF r
<1>5. /\ active' = Append(active, r)
      /\ LinkedFrom(active', Base)
      /\ active' # <<>>
      /\ Last(active') = r
  BY <1>1, <1>2, <1>3, <1>4, LinkedAppend DEF Linked, NextPrev
<1>6. UNCHANGED <<archives, head, job>>
  BY DEF AppendRecord
<1>7. Linked'
  BY <1>5, <1>6 DEF Linked, Base, LatestArchiveTail
<1>8. Last(active').id = job'[w].id
  BY <1>2, <1>5, <1>6
<1>9. /\ ArchiveReads' = ArchiveReads
      /\ VerifiedHead'.archive = VerifiedHead.archive
  BY <1>6 DEF ArchiveReads, VerifiedHead, LatestArchiveTail
<1>10. Len(active') - 1 = Len(active) - 0
  BY <1>3, <1>5
<1>11. Counted(job[w], 1)'
  BY <1>1, <1>6, <1>9, <1>10 DEF Counted
<1>12. pc'[w] = IF Keyed THEN "head" ELSE AfterRecord(w)
  BY DEF AppendRecord, TypeOK
<1>13. ~Keyed => VerifyChain'
  BY <1>7 DEF VerifyChain, Linked, Base
<1> QED BY <1>7, <1>8, <1>11, <1>12, <1>13, AfterRecordType DEF Repairing

LEMMA UpdateHeadRepairs ==
  ASSUME TypeOK, NonEmpty, HeadKind, NEW w \in Writers, Repairing(w), UpdateHead(w)
  PROVE  Repairing(w)'
<1> DEFINE j == job[w]
<1>1. Keyed /\ active # <<>> /\ Linked /\ Last(active).id = j.id /\ Counted(j, 1)
  BY DEF UpdateHead, NonEmpty, HeadKind, Repairing
<1>2. head # NoHead
  BY <1>1 DEF HeadKind, NoHead
<1>3. j.id = OrGenesis(TailHash(active))
  BY <1>1, LinkedReads DEF TypeOK, Linked
<1>4. Len(active) \in Nat /\ head.count \in Nat
  BY DEF TypeOK, Checkpoint
<1>5. NextHead(j) = VerifiedHead
  <2>1. CASE j.repair
    BY <1>1, <2>1, FullScanVerifies DEF Counted, NextHead
  <2>2. CASE ~j.repair
    <3>1. /\ head.count = Len(active) - 1
          /\ head.archive = VerifiedHead.archive
          /\ j.count \in {NoCount, head.count}
      BY <1>1, <2>2 DEF Counted
    <3>2. head.count + 1 = Len(active)
      BY <1>4, <3>1
    <3> QED BY <1>2, <1>3, <2>2, <3>1, <3>2 DEF NextHead, CurrentArchiveTail, VerifiedHead
  <2> QED BY <2>1, <2>2
<1>6. /\ head' = VerifiedHead /\ UNCHANGED <<active, archives>>
      /\ pc'[w] = AfterRecord(w)
  BY <1>5 DEF UpdateHead, TypeOK
<1>7. Linked' /\ VerifiedHead' = VerifiedHead
  BY <1>1, <1>6 DEF Linked, Base, LatestArchiveTail, VerifiedHead
<1>8. VerifyChain'
  BY <1>6, <1>7 DEF VerifyChain, Linked, Base
<1> QED BY <1>6, <1>7, <1>8, AfterRecordType DEF Repairing

LEMMA ReplaceActiveRepairs ==
  ASSUME TypeOK, NonEmpty, NEW w \in Writers, Repairing(w), ReplaceActive(w)
  PROVE  Repairing(w)'
<1>1. active # <<>> /\ Linked
  BY DEF ReplaceActive, NonEmpty, Repairing
<1>2. active' = <<>> /\ archives' = Append(archives, active)
  BY DEF ReplaceActive
<1>3. archives' # <<>> /\ Last(archives') = active
  <2>1. archives \in Seq(Seq(Record)) /\ active \in Seq(Record)
    BY DEF TypeOK
  <2>2. /\ Len(Append(archives, active)) = Len(archives) + 1
        /\ Append(archives, active)[Len(archives) + 1] = active
    BY <2>1
  <2> QED BY <1>2, <2>1, <2>2 DEF Last
<1>4. TailHash(active) = LastRecordHash(active)
  BY <1>1, LinkedReads DEF TypeOK, Linked
<1>5. ArchiveReads'
  BY <1>3, <1>4 DEF ArchiveReads, VerifiedHead, LatestArchiveTail
<1>6. ~Keyed => VerifyChain'
  BY <1>2 DEF VerifyChain, LinkedFrom
<1>7. pc'[w] = IF Keyed THEN "rehead" ELSE "ready"
  BY DEF ReplaceActive, TypeOK
<1> QED BY <1>2, <1>3, <1>5, <1>6, <1>7 DEF Repairing

LEMMA RewriteHeadRepairs ==
  ASSUME TypeOK, NEW w \in Writers, Repairing(w), RewriteHead(w)
  PROVE  Repairing(w)'
<1>1. active = <<>> /\ ArchiveReads
  BY DEF RewriteHead, Repairing
<1>2. Linked
  BY <1>1 DEF Linked, LinkedFrom
<1>3. head' = VerifiedHead /\ UNCHANGED <<active, archives>> /\ pc'[w] = "ready"
  BY <1>1, <1>2, FullScanVerifies DEF RewriteHead, TypeOK
<1>4. VerifyChain'
  BY <1>2, <1>3 DEF VerifyChain, Linked, Base, LatestArchiveTail, VerifiedHead
<1> QED BY <1>3, <1>4 DEF Repairing

\* Every step keeps the promise of a writer that found a log it can continue.
LEMMA RepairStep == RepairInv /\ [Next]_vars => RepairInv'
<1> SUFFICES ASSUME RepairInv, [Next]_vars
             PROVE  RepairInv'
  OBVIOUS
<1> USE DEF RepairInv
<1>1. TypeOK' /\ Solo' /\ NonEmpty' /\ HeadKind' /\ Fresh'
  BY NextTypes, SoloStep, NonEmptyStep, HeadKindStep, FreshStep
<1> SUFFICES ASSUME NEW v \in Writers, found'[v] \in {"sync", "lag", "rotated"}
             PROVE  Repairing(v)'
  BY <1>1
<1>2. ASSUME NEW w \in Writers, Outside, Enter(w)
      PROVE  Repairing(v)'
  <2>1. CASE v = w
    BY <1>2, <2>1, EnterRepairs
  <2>2. CASE v # w
    <3>1. pc'[v] = "idle"
      BY <1>2, <2>2 DEF Outside, Enter, TypeOK
    <3> QED BY <3>1, IdleRepairs
  <2> QED BY <2>1, <2>2
<1>3. ASSUME NEW w \in Writers, Step(w)
      PROVE  Repairing(v)'
  <2>1. pc[w] # "idle"
    BY <1>3 DEF Step, StartAnchor, StartRecord, AppendRecord, UpdateHead, ReplaceActive,
                RewriteHead, Leave
  <2>2. CASE v # w
    <3>1. pc'[v] = pc[v]
      BY <1>3, <2>2 DEF Step, StartAnchor, StartRecord, Derive, AppendRecord, UpdateHead,
                        ReplaceActive, RewriteHead, Leave, TypeOK
    <3>2. pc'[v] = "idle"
      BY <2>1, <2>2, <3>1, OthersIdle
    <3> QED BY <3>2, IdleRepairs
  <2>3. CASE v = w
    <3>1. CASE Leave(w)
      <4>1. pc'[v] = "idle"
        BY <2>3, <3>1 DEF Leave, TypeOK
      <4> QED BY <4>1, IdleRepairs
    <3>2. CASE ~Leave(w)
      <4>1. UNCHANGED found
        BY <1>3, <3>2 DEF Step, StartAnchor, StartRecord, Derive, AppendRecord, UpdateHead,
                          ReplaceActive, RewriteHead
      <4>2. Repairing(w)
        BY <2>3, <4>1
      <4>3. StartAnchor(w) \/ StartRecord(w) => Repairing(w)'
        <5>1. ASSUME NEW kind \in {"record", "anchor"}, pc[w] \in {"check", "ready"},
                     Derive(w, kind)
              PROVE  Repairing(w)'
          BY <4>2, <5>1, DeriveRepairs
        <5> QED BY <5>1 DEF StartAnchor, StartRecord
      <4>4. AppendRecord(w) => Repairing(w)'
        BY <4>2, AppendRepairsStep
      <4>5. UpdateHead(w) => Repairing(w)'
        BY <4>2, UpdateHeadRepairs
      <4>6. ReplaceActive(w) => Repairing(w)'
        BY <4>2, ReplaceActiveRepairs
      <4>7. RewriteHead(w) => Repairing(w)'
        BY <4>2, RewriteHeadRepairs
      <4> QED BY <1>3, <2>3, <3>2, <4>3, <4>4, <4>5, <4>6, <4>7 DEF Step
    <3> QED BY <3>1, <3>2
  <2> QED BY <2>2, <2>3
<1>4. ASSUME NEW w \in Writers, Crash(w) \/ CrashInLine(w)
      PROVE  Repairing(v)'
  <2>1. pc[w] # "idle" /\ pc' = [pc EXCEPT ![w] = "idle"]
    BY <1>4 DEF Crash, CrashInLine, Stopped
  <2>2. pc'[v] = "idle"
    BY <2>1, OthersIdle DEF TypeOK
  <2> QED BY <2>2, IdleRepairs
<1>5. CASE LoseTail
  <2>1. pc'[v] = "idle"
    BY <1>5 DEF LoseTail, Outside
  <2> QED BY <2>1, IdleRepairs
<1>6. CASE UNCHANGED vars
  <2>1. UNCHANGED <<active, archives, head, pc, job, found>>
    BY <1>6 DEF vars
  <2>2. Repairing(v)
    BY <2>1
  <2>3. /\ VerifyChain' = VerifyChain /\ OneAhead' = OneAhead /\ Renamed' = Renamed
        /\ Linked' = Linked /\ ArchiveReads' = ArchiveReads
    BY <2>1, SameFiles
  <2>4. NextPrev' = NextPrev /\ VerifiedHead' = VerifiedHead
    BY <2>1 DEF NextPrev, Base, LatestArchiveTail, VerifiedHead
  <2> QED BY <2>1, <2>2, <2>3, <2>4 DEF Repairing, Counted
<1> QED BY <1>2, <1>3, <1>4, <1>5, <1>6 DEF Next

\* A writer that finds the log exact, one record ahead of a checkpoint that
\* already counts records, or renamed by a killed rotation, leaves a log that
\* verifies, wherever earlier writers were killed and whatever was lost before:
\* the repair in _write_evidence_record works for every rotation limit.
THEOREM RepairCorrect == Spec => []AppendRepairs
<1>1. RepairInv => AppendRepairs
  BY DEF RepairInv, Repairing, AppendRepairs
<1> QED BY <1>1, InitRepair, RepairStep, PTL DEF Spec

-----------------------------------------------------------------------------
(* A log no fault has touched *)

LEMMA InitQuiet == Init => QuietInv
<1> SUFFICES ASSUME Init
             PROVE  QuietInv
  OBVIOUS
<1>1. Linked /\ (Keyed => head = VerifiedHead)
  BY DEF Init, Linked, LinkedFrom, VerifiedHead, TailHash, OrGenesis
<1>2. VerifyChain
  BY <1>1 DEF VerifyChain, Linked, Base
<1>3. Anchored /\ AnchorLinks /\ \A w \in Writers : pc[w] = "idle"
  BY DEF Init, Anchored, AnchorLinks
<1> QED BY <1>2, <1>3, InitRepair DEF QuietInv

\* Renaming a linked file whose anchor names the archive before it keeps the
\* archives anchored.
LEMMA ReplaceAnchored ==
  ASSUME TypeOK, NonEmpty, NEW w \in Writers, ReplaceActive(w), Linked, Anchored,
         Last(active).link = LatestArchiveTail
  PROVE  Anchored'
<1> DEFINE n == Len(archives)
<1>1. archives \in Seq(Seq(Record)) /\ active \in Seq(Record) /\ n \in Nat
  BY DEF TypeOK
<1>2. archives' = Append(archives, active)
  BY DEF ReplaceActive
<1>3. /\ DOMAIN archives = 1 .. n
      /\ DOMAIN archives' = 1 .. n + 1
      /\ archives'[n + 1] = active
      /\ \A i \in 1 .. n : archives'[i] = archives[i]
  BY <1>1, <1>2
<1>4. active # <<>> /\ TailHash(active) = Last(active).id /\ Last(active).id # NoTail
  BY <1>1, LinkedReads DEF ReplaceActive, NonEmpty, Linked, Hash, NoTail
<1>5. StoredLink(active) = LatestArchiveTail
  BY <1>4 DEF StoredLink
<1>6. n > 0 => archives # <<>> /\ Last(archives) = archives[n]
  BY <1>1 DEF Last
<1>7. n > 0 => TailHash(archives[n]) = LatestArchiveTail
  BY <1>6, AnchoredTail
<1>8. n = 0 => Base = GENESIS
  BY <1>1 DEF Base, LatestArchiveTail, OrGenesis
<1> HIDE DEF n
<1> SUFFICES ASSUME NEW i \in 1 .. n + 1
             PROVE  /\ ArchiveValid(i)'
                    /\ i > 1 => StoredLink(archives'[i]) = TailHash(archives'[i-1])
  BY <1>3 DEF Anchored, StoredLink, TailHash
<1>9. CASE i \in 1 .. n
  <2>1. ArchiveValid(i) /\ (i > 1 => StoredLink(archives[i]) = TailHash(archives[i-1]))
    BY <1>3, <1>9 DEF Anchored
  <2>2. archives'[i] = archives[i] /\ (i > 1 => archives'[i-1] = archives[i-1])
    <3>1. i \in 1 .. n /\ (i > 1 => i - 1 \in 1 .. n)
      BY <1>1, <1>9
    <3> QED BY <1>3, <3>1
  <2> QED BY <2>1, <2>2 DEF ArchiveValid
<1>10. CASE i = n + 1
  <2>1. i > 1 => n > 0 /\ archives'[i-1] = archives[n]
    BY <1>1, <1>3, <1>10
  <2>2. archives'[i] = active
    BY <1>3, <1>10
  <2>3. LinkedFrom(active, IF i = 1 THEN GENESIS ELSE OrGenesis(TailHash(archives'[i-1])))
    <3>1. CASE n = 0
      BY <1>8, <1>10, <3>1 DEF Linked
    <3>2. CASE n > 0
      <4>1. i > 1 /\ i # 1
        BY <1>1, <1>10, <3>2
      <4> QED BY <1>7, <2>1, <3>2, <4>1 DEF Linked, Base
    <3> QED BY <1>1, <3>1, <3>2
  <2>4. ArchiveValid(i)'
    BY <2>2, <2>3 DEF ArchiveValid, LinkedFrom, TailHash
  <2>5. i > 1 => StoredLink(archives'[i]) = TailHash(archives'[i-1])
    BY <1>5, <1>7, <2>1, <2>2
  <2> QED BY <2>4, <2>5
<1> QED BY <1>1, <1>9, <1>10

\* What a writer owes the archive, wherever it stands.
LEMMA AnchorLinksStep ==
  ASSUME TypeOK, NonEmpty, Fresh, NEW w \in Writers, Repairing(w), AnchorLinks, Step(w),
         \A v \in Writers \ {w} : pc[v] = "idle"
  PROVE  AnchorLinks'
<1> DEFINE Owed(v) ==
      /\ pc[v] = "append" /\ job[v].kind = "anchor" => job[v].link = LatestArchiveTail
      /\ pc[v] = "head" /\ job[v].kind = "anchor" => Last(active).link = LatestArchiveTail
      /\ pc[v] = "replace" => Last(active).link = LatestArchiveTail
<1>1. ASSUME NEW v \in Writers, v # w
      PROVE  Owed(v)'
  <2>1. pc'[v] = "idle"
    BY <1>1 DEF Step, StartAnchor, StartRecord, Derive, AppendRecord, UpdateHead,
                ReplaceActive, RewriteHead, Leave, TypeOK
  <2> QED BY <2>1
<1>2. ASSUME NEW kind \in {"record", "anchor"}, Derive(w, kind)
      PROVE  Owed(w)'
  <2>1. /\ job'[w] = Derived(kind) /\ pc'[w] = "append"
        /\ LatestArchiveTail' = LatestArchiveTail
    BY <1>2 DEF Derive, TypeOK, LatestArchiveTail
  <2> QED BY <2>1 DEF Derived
<1>3. ASSUME AppendRecord(w)
      PROVE  Owed(w)'
  <2> DEFINE r == Line(job[w])
  <2>1. Linked /\ job[w].prev = NextPrev
    BY <1>3 DEF AppendRecord, Repairing
  <2>2. r \in Record /\ Whole(r) /\ r.prev = job[w].prev /\ r.link = job[w].link
    BY <1>3 DEF AppendRecord, Fresh, Whole, Line, TypeOK, Job, Record
  <2>3. active' = Appended(active, r) /\ UNCHANGED <<archives, job>>
    BY <1>3 DEF AppendRecord
  <2> HIDE DEF r
  <2>4. Last(active') = r
    BY <2>1, <2>2, <2>3, LinkedAppend DEF Linked, NextPrev, TypeOK
  <2>5. LatestArchiveTail' = LatestArchiveTail
    BY <2>3 DEF LatestArchiveTail
  <2>6. pc[w] = "append" /\ pc'[w] = IF Keyed THEN "head" ELSE AfterRecord(w)
    BY <1>3 DEF AppendRecord, TypeOK
  <2> QED BY <2>2, <2>3, <2>4, <2>5, <2>6 DEF AfterRecord, AnchorLinks
<1>4. ASSUME UpdateHead(w)
      PROVE  Owed(w)'
  <2>1. pc[w] = "head" /\ pc'[w] = AfterRecord(w) /\ UNCHANGED <<active, archives, job>>
    BY <1>4 DEF UpdateHead, TypeOK
  <2>2. LatestArchiveTail' = LatestArchiveTail
    BY <2>1 DEF LatestArchiveTail
  <2> QED BY <2>1, <2>2 DEF AfterRecord, AnchorLinks
<1>5. ASSUME ReplaceActive(w) \/ RewriteHead(w) \/ Leave(w)
      PROVE  Owed(w)'
  <2>1. pc'[w] \in {"ready", "rehead", "idle"}
    BY <1>5 DEF ReplaceActive, RewriteHead, Leave, TypeOK
  <2> QED BY <2>1
<1>6. Owed(w)'
  <2> HIDE DEF Owed
  <2> QED BY <1>2, <1>3, <1>4, <1>5 DEF Step, StartAnchor, StartRecord
<1>7. \A v \in Writers : Owed(v)'
  <2> HIDE DEF Owed
  <2> QED BY <1>1, <1>6
<1> QED BY <1>7 DEF AnchorLinks

\* Without a fault, every writer finds the log as the one before it left it.
LEMMA QuietStep == QuietInv /\ [Next]_vars => QuietInv'
<1> SUFFICES ASSUME QuietInv, [Next]_vars
             PROVE  QuietInv'
  OBVIOUS
<1> DEFINE Found == \A w \in Writers : pc[w] # "idle" => found[w] = "sync"
<1>1. RepairInv /\ RepairInv'
  BY RepairStep DEF QuietInv
<1>2. TypeOK /\ Solo /\ NonEmpty /\ HeadKind /\ Fresh
  BY <1>1 DEF RepairInv
<1> SUFFICES ASSUME crashes' = 0, losses' = 0
             PROVE  /\ Outside' => VerifyChain'
                    /\ Found'
                    /\ Anchored'
                    /\ AnchorLinks'
  BY <1>1 DEF QuietInv
<1>3. crashes = 0 /\ losses = 0
  <2>1. crashes \in Nat /\ losses \in Nat
    BY <1>2 DEF TypeOK
  <2>2. UNCHANGED <<crashes, losses>>
        \/ crashes' = crashes + 1 \/ losses' = losses + 1
    BY DEF Next, Step, Enter, StartAnchor, StartRecord, Derive, AppendRecord, UpdateHead,
           ReplaceActive, RewriteHead, Leave, Crash, CrashInLine, Stopped, LoseTail, vars,
           faults
  <2> QED BY <2>1, <2>2
<1>4. (Outside => VerifyChain) /\ Found /\ Anchored /\ AnchorLinks
  BY <1>3 DEF QuietInv
<1>5. ASSUME NEW w \in Writers, Outside, Enter(w)
      PROVE  (Outside' => VerifyChain') /\ Found' /\ Anchored' /\ AnchorLinks'
  <2>1. UNCHANGED <<active, archives, head>> /\ pc' = [pc EXCEPT ![w] = "check"]
        /\ found' = [found EXCEPT ![w] = LogState]
    BY <1>5 DEF Enter
  <2>2. VerifyChain' = VerifyChain /\ Anchored' = Anchored
    BY <2>1, SameFiles
  <2>3. LogState = "sync"
    BY <1>4, <1>5 DEF LogState
  <2>4. Found'
    BY <1>2, <1>5, <2>1, <2>3 DEF Outside, TypeOK
  <2>5. \A v \in Writers : pc'[v] \notin {"append", "head", "replace"}
    BY <1>2, <1>5, <2>1 DEF Outside, TypeOK
  <2> QED BY <1>4, <1>5, <2>2, <2>4, <2>5 DEF AnchorLinks
<1>6. ASSUME NEW w \in Writers, Step(w)
      PROVE  (Outside' => VerifyChain') /\ Found' /\ Anchored' /\ AnchorLinks'
  <2>1. pc[w] # "idle"
    BY <1>6 DEF Step, StartAnchor, StartRecord, AppendRecord, UpdateHead, ReplaceActive,
                RewriteHead, Leave
  <2>2. \A v \in Writers \ {w} : pc[v] = "idle"
    BY <1>2, <2>1, OthersIdle
  <2>3. Repairing(w)
    BY <1>1, <1>4, <2>1 DEF RepairInv
  <2>4. \A v \in Writers : pc'[v] # "idle" => pc[v] # "idle" /\ found'[v] = found[v]
    BY <1>2, <1>6, <2>1, <2>2
       DEF Step, StartAnchor, StartRecord, Derive, AppendRecord, UpdateHead,
           ReplaceActive, RewriteHead, Leave, TypeOK
  <2>5. Found'
    BY <1>4, <2>4
  <2>6. AnchorLinks'
    BY <1>2, <1>4, <1>6, <2>2, <2>3, AnchorLinksStep
  <2>7. Anchored'
    <3>1. CASE ReplaceActive(w)
      <4>1. Linked /\ Last(active).link = LatestArchiveTail
        BY <1>4, <2>3, <3>1 DEF ReplaceActive, Repairing, AnchorLinks
      <4> QED BY <1>2, <1>4, <3>1, <4>1, ReplaceAnchored
    <3>2. CASE ~ReplaceActive(w)
      <4>1. UNCHANGED archives
        BY <1>6, <3>2 DEF Step, StartAnchor, StartRecord, Derive, AppendRecord, UpdateHead,
                          RewriteHead, Leave
      <4> QED BY <1>4, <4>1 DEF Anchored, ArchiveValid
    <3> QED BY <3>1, <3>2
  <2>8. Outside' => VerifyChain'
    <3>1. CASE Leave(w)
      <4>1. VerifyChain /\ UNCHANGED <<active, archives, head>>
        BY <2>3, <3>1 DEF Leave, Repairing
      <4> QED BY <4>1, SameFiles
    <3>2. CASE ~Leave(w)
      <4>1. pc'[w] # "idle"
        BY <1>2, <1>6, <3>2, AfterRecordType
           DEF Step, StartAnchor, StartRecord, Derive, AppendRecord, UpdateHead,
               ReplaceActive, RewriteHead, TypeOK
      <4> QED BY <4>1 DEF Outside
    <3> QED BY <3>1, <3>2
  <2> HIDE DEF Found
  <2> QED BY <2>5, <2>6, <2>7, <2>8
<1>7. ASSUME NEW w \in Writers, Crash(w) \/ CrashInLine(w)
      PROVE  FALSE
  <2>1. crashes' = crashes + 1
    BY <1>7 DEF Crash, CrashInLine, Stopped
  <2> QED BY <1>3, <2>1
<1>8. ~LoseTail
  BY <1>3 DEF LoseTail
<1>9. CASE UNCHANGED vars
  <2>1. UNCHANGED <<active, archives, head, pc, job, found>>
    BY <1>9 DEF vars
  <2>2. /\ VerifyChain' = VerifyChain /\ Anchored' = Anchored
        /\ LatestArchiveTail' = LatestArchiveTail
    BY <2>1, SameFiles
  <2> QED BY <1>4, <2>1, <2>2 DEF Outside, AnchorLinks
<1> HIDE DEF Found
<1> QED BY <1>5, <1>6, <1>7, <1>8, <1>9 DEF Next

\* As long as no writer is killed and nothing is taken away, the log verifies
\* and its archives are anchored whenever no append is in progress, across any
\* number of rotations at any limit, with and without a key.
THEOREM QuietCorrect == Spec => []QuietLogVerifies
<1>1. QuietInv => QuietLogVerifies
  BY DEF QuietInv, QuietLogVerifies
<1> QED BY <1>1, InitQuiet, QuietStep, PTL DEF Spec
-----------------------------------------------------------------------------
(* An accepted log is complete: what gluing costs *)

LEMMA GluedIsNotTorn == Glued # Torn /\ Glued.id = GENESIS /\ Torn.id = GENESIS
<1>1. Glued.prev # Torn.prev
  BY DEF Glued, Torn, NoTail, GENESIS
<1>2. Glued.id = GENESIS /\ Torn.id = GENESIS
  BY DEF Glued, Torn
<1> QED BY <1>1, <1>2

\* Writing a line keeps the lines before it, or glues it to the last one.
LEMMA AppendedKeeps ==
  ASSUME NEW log \in Seq(Record), NEW r \in Record, NEW new, new = Appended(log, r)
  PROVE  /\ \A i \in DOMAIN log : i \in DOMAIN new /\ (log[i] = Glued => new[i] = Glued)
         /\ \/ \E i \in DOMAIN new : new[i] = Glued
            \/ /\ \A i \in DOMAIN log : new[i] = log[i]
               /\ r = Torn \/ \E i \in DOMAIN new : new[i].id = r.id
<1>1. CASE log = <<>> \/ Last(log) # Torn
  <2>1. new = Append(log, r)
    BY <1>1 DEF Appended
  <2>2. /\ DOMAIN new = 1 .. Len(log) + 1 /\ DOMAIN log = 1 .. Len(log) /\ Len(log) \in Nat
        /\ new[Len(log) + 1] = r
        /\ \A i \in 1 .. Len(log) : new[i] = log[i]
    BY <2>1
  <2>3. Len(log) + 1 \in DOMAIN new
    BY <2>2
  <2> QED BY <2>2, <2>3
<1>2. CASE log # <<>> /\ Last(log) = Torn /\ r = Torn
  BY <1>2 DEF Appended
<1>3. CASE log # <<>> /\ Last(log) = Torn /\ r # Torn
  <2>1. new = [log EXCEPT ![Len(log)] = Glued]
    BY <1>3 DEF Appended
  <2>2. Len(log) \in DOMAIN log /\ DOMAIN new = DOMAIN log
    BY <1>3, <2>1
  <2>3. new[Len(log)] = Glued /\ \A i \in DOMAIN log : i # Len(log) => new[i] = log[i]
    BY <2>1, <2>2
  <2> QED BY <2>2, <2>3
<1> QED BY <1>1, <1>2, <1>3

\* A glued line makes the verifier, or the check of the archives, refuse.
LEMMA SpoiltIsRefused == Spoilt => ~VerifyChain \/ ~Anchored
<1>1. ASSUME NEW i \in DOMAIN active, active[i] = Glued
      PROVE  ~VerifyChain
  BY <1>1, GluedIsNotTorn DEF VerifyChain, LinkedFrom, Whole
<1>2. ASSUME NEW a \in DOMAIN archives, NEW i \in DOMAIN archives[a], archives[a][i] = Glued
      PROVE  ~Anchored
  <2>1. ASSUME NEW base PROVE ~LinkedFrom(archives[a], base)
    BY <1>2, GluedIsNotTorn DEF LinkedFrom, Whole
  <2> QED BY <2>1 DEF Anchored, ArchiveValid
<1> QED BY <1>1, <1>2 DEF Spoilt

\* A step that keeps the files keeps what they hold.
LEMMA SameStored ==
  ASSUME UNCHANGED <<active, archives>>
  PROVE  Stored' = Stored /\ Spoilt' = Spoilt
BY DEF Stored, Spoilt

LEMMA InArchive ==
  ASSUME NEW a \in DOMAIN archives, NEW i \in DOMAIN archives[a]
  PROVE  archives[a][i].id \in Archived
<1>1. archives[a][i].id \in {archives[a][k].id : k \in DOMAIN archives[a]}
  OBVIOUS
<1> QED BY <1>1 DEF Archived

\* Renaming the active file into the archive keeps every record.
LEMMA RenameKeeps ==
  ASSUME TypeOK, archives' = Append(archives, active)
  PROVE  Archived' = Archived \cup {active[i].id : i \in DOMAIN active}
<1> DEFINE n == Len(archives)
           Ids(log) == {log[i].id : i \in DOMAIN log}
<1>1. n \in Nat /\ DOMAIN archives = 1 .. n
  BY DEF TypeOK
<1>2. /\ DOMAIN archives' = 1 .. n + 1
      /\ archives'[n + 1] = active
      /\ \A a \in 1 .. n : archives'[a] = archives[a]
  BY <1>1 DEF TypeOK
<1> HIDE DEF n
<1>3. Archived = UNION {Ids(archives[a]) : a \in 1 .. n}
  BY <1>1 DEF Archived
<1>4. Archived' = UNION {Ids(archives'[a]) : a \in 1 .. n + 1}
  BY <1>2 DEF Archived
<1>5. ASSUME NEW x
      PROVE  x \in Archived' <=> x \in Archived \cup Ids(active)
  <2> HIDE DEF Ids
  <2>1. \A a : a \in 1 .. n + 1 <=> a \in 1 .. n \/ a = n + 1
    BY <1>1
  <2>2. x \in Archived' <=> \E a \in 1 .. n + 1 : x \in Ids(archives'[a])
    BY <1>4
  <2>3. x \in Archived <=> \E a \in 1 .. n : x \in Ids(archives[a])
    BY <1>3
  <2> QED BY <1>2, <2>1, <2>2, <2>3
<1> QED BY <1>5

\* What is stored, and whether a line was glued, after each kind of step.
LEMMA KeptOnDisk ==
  ASSUME TypeOK, [Next]_vars, losses' = losses
  PROVE  /\ Spoilt => Spoilt'
         /\ Spoilt' \/ Stored \subseteq Stored'
<1>1. ASSUME UNCHANGED <<active, archives>>
      PROVE  (Spoilt => Spoilt') /\ Stored \subseteq Stored'
  BY <1>1, SameStored
<1>2. ASSUME NEW r \in Record, active' = Appended(active, r), UNCHANGED archives
      PROVE  (Spoilt => Spoilt') /\ (Spoilt' \/ Stored \subseteq Stored')
  <2>1. /\ \A i \in DOMAIN active :
             i \in DOMAIN active' /\ (active[i] = Glued => active'[i] = Glued)
        /\ \/ \E i \in DOMAIN active' : active'[i] = Glued
           \/ \A i \in DOMAIN active : active'[i] = active[i]
    <3>1. active \in Seq(Record)
      BY DEF TypeOK
    <3> QED BY ONLY <1>2, <3>1, AppendedKeeps
  <2>2. Spoilt => Spoilt'
    BY <1>2, <2>1 DEF Spoilt
  <2>3. ASSUME ~Spoilt' PROVE Stored \subseteq Stored'
    <3>1. \A i \in DOMAIN active : i \in DOMAIN active' /\ active'[i] = active[i]
      BY <2>1, <2>3 DEF Spoilt
    <3>2. {active[i].id : i \in DOMAIN active} \subseteq {active'[i].id : i \in DOMAIN active'}
      BY <3>1
    <3> QED BY <1>2, <3>2 DEF Stored
  <2> QED BY <2>2, <2>3
<1>3. ASSUME NEW w \in Writers, ReplaceActive(w)
      PROVE  (Spoilt => Spoilt') /\ Stored \subseteq Stored'
  <2>1. archives' = Append(archives, active)
    BY <1>3 DEF ReplaceActive
  <2>2. /\ DOMAIN archives' = 1 .. Len(archives) + 1 /\ DOMAIN archives = 1 .. Len(archives)
        /\ Len(archives) \in Nat
        /\ archives'[Len(archives) + 1] = active
        /\ \A a \in 1 .. Len(archives) : archives'[a] = archives[a]
    BY <2>1 DEF TypeOK
  <2>3. DOMAIN archives \subseteq DOMAIN archives' /\ Len(archives) + 1 \in DOMAIN archives'
    BY <2>2
  <2>4. Spoilt => Spoilt'
    BY <2>2, <2>3 DEF Spoilt
  <2>5. Stored = {active[i].id : i \in DOMAIN active} \cup Archived /\ Archived' \subseteq Stored'
    BY DEF Stored, Archived
  <2> QED BY <2>1, <2>4, <2>5, RenameKeeps
<1>4. ASSUME NEW w \in Writers, AppendRecord(w) \/ CrashInLine(w)
      PROVE  \E r \in Record : active' = Appended(active, r) /\ UNCHANGED archives
  <2>1. Line(job[w]) \in Record /\ Torn \in Record
    BY DEF TypeOK, Line, Job, Record, Torn, Hash, GENESIS
  <2> QED BY <1>4, <2>1 DEF AppendRecord, CrashInLine, Stopped
<1>5. ASSUME NEW w \in Writers, Enter(w) \/ StartAnchor(w) \/ StartRecord(w) \/ UpdateHead(w)
                                 \/ RewriteHead(w) \/ Leave(w) \/ Crash(w)
      PROVE  UNCHANGED <<active, archives>>
  BY <1>5 DEF Enter, StartAnchor, StartRecord, Derive, UpdateHead, RewriteHead, Leave, Crash,
              Stopped
<1>6. ~LoseTail
  BY DEF LoseTail, TypeOK
<1>7. CASE UNCHANGED vars
  BY <1>1, <1>7 DEF vars
<1> QED BY <1>1, <1>2, <1>3, <1>4, <1>5, <1>6, <1>7 DEF Next, Step

LEMMA KeptStep == TypeOK /\ Solo /\ Fresh /\ KeptInv /\ [Next]_vars => KeptInv'
<1> SUFFICES ASSUME TypeOK, Solo, Fresh, KeptInv, [Next]_vars, losses' = 0, ~Spoilt'
             PROVE  /\ Complete'
                    /\ \A v \in Writers : pc'[v] \in {"head", "leave"} => job'[v].id \in Stored'
  BY DEF KeptInv
<1>1. losses = 0 /\ losses' = losses
  <2>1. losses \in Nat /\ (losses' = losses \/ losses' = losses + 1)
    BY DEF TypeOK, Next, Step, Enter, StartAnchor, StartRecord, Derive, AppendRecord, UpdateHead,
           ReplaceActive, RewriteHead, Leave, Crash, CrashInLine, Stopped, LoseTail, vars,
           faults
  <2> QED BY <2>1
<1>2. Stored \subseteq Stored' /\ Complete
      /\ \A v \in Writers : pc[v] \in {"head", "leave"} => job[v].id \in Stored
  BY <1>1, KeptOnDisk DEF KeptInv
<1>3. ASSUME NEW w \in Writers, AppendRecord(w)
      PROVE  /\ UNCHANGED acked
             /\ \A v \in Writers : pc'[v] \in {"head", "leave"} => job'[v].id \in Stored'
  <2> DEFINE r == Line(job[w])
  <2>1. r \in Record /\ Whole(r) /\ r.id = job[w].id
    BY <1>3 DEF AppendRecord, Fresh, Whole, Line, TypeOK, Job, Record
  <2>2. active' = Appended(active, r) /\ UNCHANGED <<archives, job, acked>>
    BY <1>3 DEF AppendRecord
  <2> HIDE DEF r
  <2>3. \E i \in DOMAIN active' : active'[i].id = r.id
    <3>1. r # Torn /\ ~ \E i \in DOMAIN active' : active'[i] = Glued
      BY <2>1, GluedIsNotTorn DEF Whole, Spoilt
    <3> QED BY <2>1, <2>2, <3>1, AppendedKeeps DEF TypeOK
  <2>4. job'[w].id \in Stored'
    BY <2>1, <2>2, <2>3 DEF Stored
  <2>5. \A v \in Writers : v # w => pc'[v] = "idle"
    BY <1>3, OthersIdle DEF AppendRecord, TypeOK
  <2> QED BY <2>2, <2>4, <2>5
<1>4. ASSUME NEW w \in Writers, UpdateHead(w)
      PROVE  /\ UNCHANGED acked
             /\ \A v \in Writers : pc'[v] \in {"head", "leave"} => job'[v].id \in Stored'
  BY <1>2, <1>4, OthersIdle DEF UpdateHead, TypeOK
<1>5. ASSUME NEW w \in Writers, Leave(w)
      PROVE  /\ acked' \subseteq Stored'
             /\ \A v \in Writers : pc'[v] \notin {"head", "leave"}
  <2>1. acked' = acked \cup {job[w].id} /\ job[w].id \in Stored
    BY <1>2, <1>5 DEF Leave
  <2>2. \A v \in Writers : pc'[v] = "idle"
    BY <1>5, OthersIdle DEF Leave, TypeOK
  <2> QED BY <1>2, <2>1, <2>2 DEF Complete
<1>6. ASSUME NEW w \in Writers, Enter(w) \/ StartAnchor(w) \/ StartRecord(w) \/ ReplaceActive(w)
                                 \/ RewriteHead(w) \/ Crash(w) \/ CrashInLine(w)
      PROVE  /\ UNCHANGED acked
             /\ \A v \in Writers : pc'[v] \in {"head", "leave"} =>
                  pc[v] \in {"head", "leave"} /\ job'[v] = job[v]
  BY <1>6 DEF Enter, StartAnchor, StartRecord, Derive, ReplaceActive, RewriteHead, Crash,
              CrashInLine, Stopped, TypeOK
<1>7. CASE LoseTail \/ UNCHANGED vars
  BY <1>1, <1>2, <1>7 DEF LoseTail, TypeOK, vars, Complete
<1> QED BY <1>2, <1>3, <1>4, <1>5, <1>6, <1>7 DEF Next, Step, Complete

-----------------------------------------------------------------------------
(* An accepted log is complete: what truncation costs *)

LEMMA InitBasics == Init => Basics /\ KeptInv /\ TruncatedInv
<1> SUFFICES ASSUME Init
             PROVE  Basics /\ KeptInv /\ TruncatedInv
  OBVIOUS
<1>1. Basics
  BY InitTypes, InitBasic DEF Basics
<1>2. KeptInv
  BY DEF Init, KeptInv, Complete
<1>3. Base = GENESIS
  BY DEF Init, Base, LatestArchiveTail, OrGenesis
<1>4. ASSUME Keyed
      PROVE  Older /\ Counts /\ (\A w \in Writers : Entered(w)) /\ Gapless
  <2>1. active = <<>> /\ archives = <<>> /\ acked = {} /\ Len(active) = 0 /\ nextId = 1
        /\ crashes = 0 /\ head.count = 0 /\ head.tail = GENESIS
        /\ \A w \in Writers : pc[w] = "idle"
    BY <1>4 DEF Init
  <2>2. Older
    BY <1>3, <2>1 DEF Older, GENESIS
  <2>3. Counts /\ \A w \in Writers : Entered(w)
    BY <2>1 DEF Counts, Entered
  <2>4. Gapless
    BY <2>1 DEF Gapless, Matched, OneMore, Owes, Covered
  <2> QED BY <2>2, <2>3, <2>4
<1> QED BY <1>1, <1>2, <1>4 DEF TruncatedInv

\* Hashes are natural numbers.
LEMMA HashesAreNat ==
  ASSUME TypeOK, Keyed, HeadKind
  PROVE  /\ Base \in Nat /\ head.tail \in Nat /\ head.count \in Nat /\ nextId \in Nat
         /\ crashes \in Nat /\ Len(active) \in Nat
         /\ \A i \in 1 .. Len(active) : active[i].id \in Nat
         /\ \A w \in Writers : job[w].id \in Nat
         /\ head # NoHead
<1>1. LatestArchiveTail \in Hash \cup {NoTail}
  BY ArchiveTailType DEF TypeOK
<1>2. Base \in Nat
  BY <1>1, OrGenesisType DEF Base, Hash
<1>3. head.tail \in Nat /\ head.count \in Nat
  BY DEF TypeOK, Checkpoint, HeadKind, Hash
<1>4. \A i \in 1 .. Len(active) : active[i].id \in Nat
  BY RecordsHaveHashes DEF TypeOK
<1>5. \A w \in Writers : job[w].id \in Nat
  BY DEF TypeOK, Job, Hash
<1>6. nextId \in Nat /\ crashes \in Nat /\ Len(active) \in Nat
  BY DEF TypeOK
<1>7. head # NoHead
  BY DEF HeadKind, NoHead
<1> QED BY <1>2, <1>3, <1>4, <1>5, <1>6, <1>7

\* A file of whole lines is linked exactly if it is linked to its end.
LEMMA LinkedToEnd ==
  ASSUME TypeOK, \A i \in DOMAIN active : Whole(active[i])
  PROVE  Linked <=> LinkedTo(Len(active))
<1>1. DOMAIN active = 1 .. Len(active)
  BY DEF TypeOK
<1> QED BY <1>1 DEF Linked, LinkedFrom, LinkedTo

\* Where a file of whole lines ends.
LEMMA EndOfFile ==
  ASSUME TypeOK, Older
  PROVE  /\ active = <<>> => /\ Len(active) = 0 /\ NextPrev = Base
                             /\ LastRecordHash(active) = GENESIS
         /\ active # <<>> => /\ Len(active) > 0 /\ Len(active) \in DOMAIN active
                             /\ NextPrev = active[Len(active)].id
                             /\ Last(active).id = active[Len(active)].id
                             /\ LastRecordHash(active) = active[Len(active)].id
                             /\ LastRecordHash(active) # GENESIS
<1>1. active # <<>> => Len(active) > 0 /\ Len(active) \in DOMAIN active
  BY DEF TypeOK
<1>2. active # <<>> => active[Len(active)].id # GENESIS
  BY <1>1 DEF Older, Whole
<1> QED BY <1>1, <1>2 DEF NextPrev, LastRecordHash, Last

LEMMA CoveredGrows ==
  ASSUME TypeOK, NEW m \in Nat, NEW n \in Nat, m <= n, Covered(m)
  PROVE  Covered(n)
<1>1. {active[i].id : i \in 1 .. m} \subseteq {active[i].id : i \in 1 .. n}
  OBVIOUS
<1> QED BY <1>1 DEF Covered

\* A step that keeps the files and lets no writer go on keeps the promise.
LEMMA RestTruncated ==
  ASSUME Basics, TruncatedInv, torn' = torn,
         UNCHANGED <<active, archives, head, nextId, acked>>,
         \A v \in Writers : pc'[v] \in {"idle", "check"},
         \/ crashes' = crashes /\ \A v \in Writers : pc[v] # "head"
         \/ crashes' = crashes + 1 /\ \A v \in Writers : pc[v] # "idle" => pc'[v] = "idle"
  PROVE  TruncatedInv'
<1> SUFFICES ASSUME Keyed, torn = 0
             PROVE  /\ Older' /\ Counts' /\ (\A w \in Writers : Entered(w)')
                    /\ crashes' <= 1 /\ Anchored' => Gapless'
  BY DEF TruncatedInv
<1>1. /\ Older /\ Counts /\ (\A w \in Writers : Entered(w))
      /\ crashes <= 1 /\ Anchored => Gapless
  BY DEF TruncatedInv
<1>2. Base' = Base /\ LatestArchiveTail' = LatestArchiveTail /\ Anchored' = Anchored
      /\ Linked' = Linked
  BY SameFiles DEF Base
<1>3. crashes \in Nat /\ head.count \in Nat /\ Len(active) \in Nat
  BY HashesAreNat DEF Basics
<1>4. Older'
  BY <1>1, <1>2 DEF Older
<1>5. Counts'
  <2>1. Len(active) <= head.count + crashes'
    BY <1>1, <1>3 DEF Counts, Entered
  <2> QED BY <2>1 DEF Counts
<1>6. \A w \in Writers : Entered(w)'
  BY DEF Entered
<1>7. ASSUME crashes' <= 1, Anchored'
      PROVE  Gapless'
  <2>1. Matched /\ OneMore
    BY <1>1, <1>2, <1>3, <1>7 DEF Gapless
  <2>2. Matched'
    BY <1>2, <2>1 DEF Matched, LinkedTo, EndsAt, Covered, Archived
  <2>3. OneMore'
    BY <1>2, <2>1 DEF OneMore, Covered, Archived
  <2>4. \A w \in Writers : Owes(w)'
    BY DEF Owes
  <2> QED BY <2>2, <2>3, <2>4 DEF Gapless
<1> QED BY <1>4, <1>5, <1>6, <1>7

\* A record whose link to the tail keeps the file linked is derived only when
\* the file holds every acknowledged record.
LEMMA DerivedCovers ==
  ASSUME Basics, Keyed, Older, Matched, OneMore, NEW kind \in {"record", "anchor"},
         Linked, Derived(kind).prev = NextPrev
  PROVE  Covered(Len(active))
<1> DEFINE tail == LastRecordHash(active)
<1>1. TypeOK /\ HeadKind
  BY DEF Basics
<1>2. head.count \in Nat /\ Len(active) \in Nat /\ head # NoHead
  BY <1>1, HashesAreNat
<1>3. LinkedTo(Len(active)) /\ LinkedTo(0)
  BY <1>1, LinkedToEnd DEF Older, LinkedTo
<1>4. head.count > 0 => head.tail # GENESIS
  BY <1>2 DEF Older
<1>5. CASE ~Based
  <2>1. head.tail = GENESIS
    BY <1>2, <1>5 DEF Based, Older
  <2>2. Covered(0)
    BY <1>2, <1>3, <2>1 DEF Matched, EndsAt
  <2> QED BY <1>1, <1>2, <2>2, CoveredGrows
<1>6. CASE Based /\ Agrees
  <2>1. head.tail # GENESIS /\ head.tail = tail
    BY <1>4, <1>6 DEF Based, Agrees
  <2>2. active # <<>> /\ head.tail = active[Len(active)].id /\ Len(active) > 0
    BY <1>1, <2>1, EndOfFile
  <2>3. EndsAt(Len(active))
    BY <1>2, <2>2 DEF EndsAt
  <2> QED BY <1>2, <1>3, <2>3 DEF Matched
<1>7. CASE Based /\ Lagged
  BY <1>7 DEF Based, Lagged, OneMore
<1>8. CASE Based /\ ~Agrees /\ ~Lagged
  <2>1. Derived(kind).prev = head.tail
    BY <1>8 DEF Derived
  <2>2. active = <<>>
    BY <1>1, <1>8, <2>1, EndOfFile DEF Agrees
  <2>3. Len(active) = 0 /\ head.tail = Base
    BY <1>1, <2>1, <2>2, EndOfFile
  <2> QED BY <1>2, <1>3, <2>3 DEF Matched, EndsAt
<1> QED BY <1>5, <1>6, <1>7, <1>8

\* Once a file was archived, no record starts a new chain.
LEMMA DerivedPrev ==
  ASSUME Basics, Keyed, Older, NEW kind \in {"record", "anchor"}, archives # <<>>
  PROVE  Derived(kind).prev # GENESIS
<1>1. TypeOK /\ HeadKind
  BY DEF Basics
<1>2. head.count \in Nat /\ head # NoHead
  BY <1>1, HashesAreNat
<1>3. UnbasedPrev # GENESIS
  BY <1>1, EndOfFile DEF UnbasedPrev, Older, Base
<1>4. Based => head.tail # GENESIS
  BY <1>2 DEF Based, Older
<1>5. Based /\ (Agrees \/ Lagged) => LastRecordHash(active) # GENESIS
  BY <1>4 DEF Agrees, Lagged
<1> QED BY <1>3, <1>4, <1>5 DEF Derived

LEMMA DeriveTruncated ==
  ASSUME Basics, TruncatedInv, NEW w \in Writers, pc[w] \in {"check", "ready"},
         NEW kind \in {"record", "anchor"}, Derive(w, kind)
  PROVE  TruncatedInv'
<1>1. /\ UNCHANGED <<active, archives, head, acked, crashes, torn>>
      /\ job'[w] = Derived(kind) /\ pc'[w] = "append" /\ nextId' = nextId + 1
  BY DEF Derive, Basics, TypeOK, faults
<1> SUFFICES ASSUME Keyed, torn = 0
             PROVE  /\ Older' /\ Counts' /\ (\A v \in Writers : Entered(v)')
                    /\ crashes' <= 1 /\ Anchored' => Gapless'
  BY <1>1 DEF TruncatedInv
<1>2. /\ Older /\ Counts /\ (\A v \in Writers : Entered(v))
      /\ crashes <= 1 /\ Anchored => Gapless
  BY DEF TruncatedInv
<1>3. Base' = Base /\ LatestArchiveTail' = LatestArchiveTail /\ Anchored' = Anchored
      /\ Linked' = Linked /\ NextPrev' = NextPrev
  BY <1>1, SameFiles DEF Base, NextPrev
<1>4. \A v \in Writers : v # w => pc[v] = "idle" /\ pc'[v] = "idle"
  BY OthersIdle DEF Derive, Basics, TypeOK
<1>5. Base \in Nat /\ head.tail \in Nat /\ nextId \in Nat
      /\ \A i \in 1 .. Len(active) : active[i].id \in Nat
  BY HashesAreNat DEF Basics
<1>6. Older'
  BY <1>1, <1>2, <1>3, <1>5 DEF Older
<1>7. Counts'
  BY <1>1, <1>2, <1>4 DEF Counts
<1>8. Entered(w)'
  <2>1. /\ Derived(kind).id = nextId
        /\ Derived(kind).repair \/ Derived(kind).count \in {NoCount, head.count}
    BY DEF Derived
  <2>2. archives # <<>> => Derived(kind).prev # GENESIS
    BY <1>2, DerivedPrev
  <2> QED BY <1>1, <1>2, <1>3, <2>1, <2>2 DEF Entered, Older
<1>9. \A v \in Writers : Entered(v)'
  BY <1>4, <1>8 DEF Entered
<1>10. ASSUME crashes' <= 1, Anchored'
       PROVE  Gapless'
  <2>1. Matched /\ OneMore
    BY <1>1, <1>2, <1>3, <1>10 DEF Gapless
  <2>2. Matched' /\ OneMore'
    BY <1>1, <1>3, <2>1 DEF Matched, OneMore, LinkedTo, EndsAt, Covered, Archived
  <2>3. Linked /\ Derived(kind).prev = NextPrev => Covered(Len(active))
    BY <1>2, <2>1, DerivedCovers
  <2>4. Owes(w)'
    BY <1>1, <1>3, <2>3 DEF Owes, Covered, Archived
  <2>5. \A v \in Writers : Owes(v)'
    BY <1>4, <2>4 DEF Owes
  <2> QED BY <2>2, <2>5 DEF Gapless
<1> QED BY <1>6, <1>7, <1>9, <1>10

LEMMA AppendTruncated ==
  ASSUME Basics, TruncatedInv, NEW w \in Writers, AppendRecord(w)
  PROVE  TruncatedInv'
<1> DEFINE r == Line(job[w])
<1>0. PICK n \in Nat : n = Len(active)
  BY DEF Basics, TypeOK
<1>1. /\ UNCHANGED <<archives, head, job, nextId, acked, crashes, torn>>
      /\ pc[w] = "append" /\ active' = Appended(active, r)
      /\ pc'[w] = IF Keyed THEN "head" ELSE AfterRecord(w)
  BY DEF AppendRecord, Basics, TypeOK, faults
<1> SUFFICES ASSUME Keyed, torn = 0
             PROVE  /\ Older' /\ Counts' /\ (\A v \in Writers : Entered(v)')
                    /\ crashes' <= 1 /\ Anchored' => Gapless'
  BY <1>1 DEF TruncatedInv
<1>2. /\ Older /\ Counts /\ (\A v \in Writers : Entered(v))
      /\ crashes <= 1 /\ Anchored => Gapless
  BY DEF TruncatedInv
<1>3. /\ r \in Record /\ Whole(r) /\ r.id = job[w].id /\ r.prev = job[w].prev
      /\ \A i \in DOMAIN active : active[i].id < r.id
  BY <1>1 DEF Fresh, Whole, Line, Basics, TypeOK, Job, Record
<1>4. TypeOK /\ active \in Seq(Record) /\ n \in Nat /\ DOMAIN active = 1 .. n
  BY <1>0 DEF Basics, TypeOK
<1>5. Base \in Nat /\ head.tail \in Nat /\ head.count \in Nat /\ crashes \in Nat
      /\ \A i \in 1 .. n : active[i].id \in Nat
  BY <1>0, HashesAreNat DEF Basics
<1>6. head.tail < r.id /\ Base < r.id /\ (archives # <<>> => r.prev # GENESIS) /\ r.id \in Nat
  BY <1>1, <1>2, <1>3 DEF Entered, Record, Hash
<1> HIDE DEF r
<1>7. active' = Append(active, r)
  <2>1. active # <<>> => Last(active) # Torn
    BY <1>2, <1>4, EndOfFile, GluedIsNotTorn DEF LastRecordHash
  <2> QED BY <1>1, <2>1 DEF Appended
<1>8. /\ DOMAIN active' = 1 .. n + 1 /\ Len(active') = n + 1 /\ active' # <<>>
      /\ active'[n + 1] = r
      /\ \A i \in 1 .. n : active'[i] = active[i]
  BY <1>4, <1>7
<1>9. Base' = Base /\ Anchored' = Anchored /\ LatestArchiveTail' = LatestArchiveTail
  BY <1>1 DEF Base, LatestArchiveTail, Anchored, ArchiveValid
<1>10. \A v \in Writers : v # w => pc[v] = "idle" /\ pc'[v] = "idle"
  BY <1>1, OthersIdle DEF AppendRecord, Basics, TypeOK
<1>11. Older'
  <2>1. \A i \in DOMAIN active' : Whole(active'[i]) /\ Base < active'[i].id
    BY <1>2, <1>3, <1>4, <1>6, <1>8 DEF Older
  <2>2. archives # <<>> => active'[1].prev # GENESIS
    <3>1. CASE n = 0
      BY <1>6, <1>8, <3>1
    <3>2. CASE n > 0
      <4>1. 1 \in 1 .. n /\ active # <<>>
        BY <1>4, <3>2
      <4> QED BY <1>2, <1>8, <4>1 DEF Older
    <3> QED BY <1>4, <3>1, <3>2
  <2> QED BY <1>1, <1>2, <1>9, <2>1, <2>2 DEF Older
<1>12. Counts'
  BY <1>1 DEF Counts
<1>13. Len(active) <= head.count + crashes
  BY <1>1, <1>2, <1>10 DEF Counts
<1>14. Entered(w)'
  <2>1. Last(active') = r /\ \A i \in 1 .. Len(active') - 1 : active'[i].id # r.id
    BY <1>3, <1>4, <1>5, <1>6, <1>8 DEF Last
  <2>2. Len(active') <= head.count + crashes + 1
    BY <1>0, <1>4, <1>5, <1>8, <1>13
  <2> QED BY <1>1, <1>2, <1>3, <1>8, <2>1, <2>2 DEF Entered
<1>15. \A v \in Writers : Entered(v)'
  BY <1>10, <1>14 DEF Entered
<1>16. ASSUME NEW m \in 0 .. n
       PROVE  /\ LinkedTo(m)' = LinkedTo(m)
              /\ EndsAt(m)' = EndsAt(m)
              /\ Covered(m)' = Covered(m)
  <2>1. 1 .. m \subseteq 1 .. n /\ (m # 0 => m \in 1 .. n)
        /\ \A i \in 1 .. m : i # 1 => i - 1 \in 1 .. n
    BY <1>4
  <2>2. \A i \in 1 .. m : active'[i] = active[i] /\ (i # 1 => active'[i-1] = active[i-1])
    BY <1>8, <2>1
  <2>3. LinkedTo(m)' = LinkedTo(m)
    BY <1>9, <2>2 DEF LinkedTo
  <2>4. EndsAt(m)' = EndsAt(m)
    BY <1>1, <1>8, <1>9, <2>1 DEF EndsAt
  <2>5. {active'[i].id : i \in 1 .. m} = {active[i].id : i \in 1 .. m}
    BY <2>2
  <2>6. Covered(m)' = Covered(m)
    <3>1. acked' = acked /\ Archived' = Archived
      BY <1>1 DEF Archived
    <3> QED BY <2>5, <3>1 DEF Covered
  <2> QED BY <2>3, <2>4, <2>6
<1>17. ASSUME crashes' <= 1, Anchored'
       PROVE  Gapless'
  <2>1. Matched /\ OneMore /\ Owes(w)
    BY <1>1, <1>2, <1>9, <1>17 DEF Gapless
  <2>2. Matched'
    <3> SUFFICES ASSUME NEW m \in 0 .. n + 1, LinkedTo(m)', EndsAt(m)'
                 PROVE  Covered(m)'
      BY <1>8 DEF Matched
    <3>1. CASE m \in 0 .. n
      BY <1>0, <1>16, <2>1, <3>1 DEF Matched
    <3>2. CASE m = n + 1
      <4>1. head.tail = r.id
        BY <1>1, <1>4, <1>8, <3>2 DEF EndsAt
      <4> QED BY <1>5, <1>6, <4>1
    <3> QED BY <1>4, <3>1, <3>2
  <2>3. Linked' => Covered(Len(active))'
    <3>1. ASSUME Linked' PROVE Linked /\ r.prev = NextPrev
      <4>1. \A i \in 1 .. n + 1 : active'[i].prev = IF i = 1 THEN Base ELSE active'[i-1].id
        BY <1>8, <1>9, <3>1 DEF Linked, LinkedFrom
      <4>2. LinkedTo(n)
        <5>1. \A i \in 1 .. n : i \in 1 .. n + 1 /\ (i # 1 => i - 1 \in 1 .. n)
          BY <1>4
        <5> QED BY <1>8, <4>1, <5>1 DEF LinkedTo
      <4>3. Linked
        BY <1>0, <1>2, <1>4, <4>2, LinkedToEnd DEF Older
      <4>4. r.prev = NextPrev
        <5>1. r.prev = IF n = 0 THEN Base ELSE active'[n].id
          BY <1>4, <1>8, <4>1
        <5>2. CASE n = 0
          <6>1. active = <<>>
            BY <1>0, <1>4, <5>2
          <6> QED BY <5>1, <5>2, <6>1 DEF NextPrev
        <5>3. CASE n # 0
          <6>1. n \in 1 .. n /\ active # <<>>
            BY <1>4, <5>3
          <6> QED BY <1>2, <1>4, <1>8, <5>1, <5>3, <6>1, <1>0, EndOfFile
        <5> QED BY <5>2, <5>3
      <4> QED BY <4>3, <4>4
    <3>2. ASSUME Linked' PROVE Covered(n)
      BY <1>0, <1>1, <1>3, <2>1, <3>1, <3>2 DEF Owes
    <3>3. ASSUME Covered(n) PROVE Covered(n + 1)'
      <4>1. Covered(n)'
        BY <1>4, <1>16, <3>3
      <4>2. {active'[i].id : i \in 1 .. n} \subseteq {active'[i].id : i \in 1 .. n + 1}
        BY <1>4
      <4> QED BY <4>1, <4>2 DEF Covered
    <3> QED BY <1>8, <3>2, <3>3
  <2>4. OneMore'
    BY <2>3 DEF OneMore
  <2>5. \A v \in Writers : Owes(v)'
    BY <1>1, <1>10, <2>3 DEF Owes
  <2> QED BY <2>2, <2>4, <2>5 DEF Gapless
<1> QED BY <1>11, <1>12, <1>15, <1>17

LEMMA UpdateHeadTruncated ==
  ASSUME Basics, TruncatedInv, NEW w \in Writers, UpdateHead(w)
  PROVE  TruncatedInv'
<1> DEFINE n == Len(active)
           j == job[w]
<1>1. /\ UNCHANGED <<active, archives, job, nextId, acked, crashes, torn>>
      /\ pc[w] = "head" /\ head' = NextHead(j)
      /\ pc'[w] = AfterRecord(w) /\ AfterRecord(w) \in {"replace", "leave"}
  BY AfterRecordType DEF UpdateHead, Basics, TypeOK, faults
<1> SUFFICES ASSUME Keyed, torn = 0
             PROVE  /\ Older' /\ Counts' /\ (\A v \in Writers : Entered(v)')
                    /\ crashes' <= 1 /\ Anchored' => Gapless'
  BY <1>1 DEF TruncatedInv
<1>2. /\ Older /\ Counts /\ (\A v \in Writers : Entered(v))
      /\ crashes <= 1 /\ Anchored => Gapless
  BY DEF TruncatedInv
<1>3. TypeOK /\ n \in Nat /\ DOMAIN active = 1 .. n /\ head.count \in Nat /\ crashes \in Nat
      /\ Base \in Nat /\ j.id \in Nat /\ head # NoHead
      /\ \A i \in 1 .. n : active[i].id \in Nat
  BY HashesAreNat DEF Basics, TypeOK
<1>4. /\ n > 0 /\ n \in DOMAIN active /\ active # <<>>
      /\ active[n].id = j.id /\ Last(active).id = j.id
      /\ LastRecordHash(active) = j.id
      /\ j.id # GENESIS
      /\ n <= head.count + crashes + 1
      /\ \A i \in 1 .. n - 1 : active[i].id # j.id
      /\ j.repair \/ j.count \in {NoCount, head.count}
  <2>1. active # <<>> /\ Last(active).id = j.id
    BY <1>1, <1>2 DEF Entered
  <2>2. n > 0 /\ n \in DOMAIN active /\ active[n].id = j.id /\ LastRecordHash(active) = j.id
        /\ j.id # GENESIS
    BY <1>2, <1>3, <2>1, EndOfFile
  <2> QED BY <1>1, <1>2, <2>1, <2>2 DEF Entered
<1>5. /\ head'.tail = j.id
      /\ head'.count = IF j.repair THEN n ELSE head.count + 1
  BY <1>1, <1>3, <1>4 DEF NextHead, ExpectedHead, NoCount
<1>6. j.id < nextId /\ Base < j.id
  BY <1>2, <1>4 DEF Basics, Fresh, Older
<1> HIDE DEF n, j
<1>7. Base' = Base /\ Anchored' = Anchored /\ LatestArchiveTail' = LatestArchiveTail
      /\ Linked' = Linked
  BY <1>1 DEF Base, LatestArchiveTail, Anchored, ArchiveValid, Linked
<1>8. \A v \in Writers : v # w => pc'[v] = "idle"
  BY <1>1, OthersIdle DEF UpdateHead, Basics, TypeOK
<1>9. head'.count > 0 /\ head'.count \in Nat
  BY <1>3, <1>4, <1>5
<1>10. Older'
  BY <1>1, <1>2, <1>4, <1>5, <1>6, <1>7, <1>9 DEF Older
<1>11. Counts'
  <2>1. n <= head'.count + crashes
    BY <1>3, <1>4, <1>5
  <2> QED BY <1>1, <2>1 DEF Counts, n
<1>12. Entered(w)'
  BY <1>1, <1>4, <1>5 DEF Entered, j
<1>13. \A v \in Writers : Entered(v)'
  BY <1>8, <1>12 DEF Entered
<1>14. ASSUME crashes' <= 1, Anchored'
       PROVE  Gapless'
  <2>1. Linked => Covered(n)
    BY <1>1, <1>2, <1>7, <1>14 DEF Gapless, Owes, n
  <2>2. \A m : Covered(m)' = Covered(m) /\ LinkedTo(m)' = LinkedTo(m)
    BY <1>1, <1>7 DEF Covered, Archived, LinkedTo
  <2>3. Matched'
    <3> SUFFICES ASSUME NEW m \in 0 .. n, LinkedTo(m), EndsAt(m)'
                 PROVE  Covered(m)
      BY <1>1, <2>2 DEF Matched, n
    <3>1. m # 0
      BY <1>3, <1>4, <1>5, <1>6, <1>7 DEF EndsAt
    <3>2. active[m].id = j.id
      BY <1>1, <1>5, <3>1 DEF EndsAt
    <3>3. m = n
      BY <1>3, <1>4, <3>1, <3>2
    <3>4. Linked
      BY <1>2, <1>3, <3>3, LinkedToEnd DEF Older, n
    <3> QED BY <2>1, <3>3, <3>4
  <2>4. OneMore' /\ \A v \in Writers : Owes(v)'
    BY <1>1, <1>7, <1>8, <2>1, <2>2 DEF OneMore, Owes, n
  <2> QED BY <2>3, <2>4 DEF Gapless
<1> QED BY <1>10, <1>11, <1>13, <1>14

\* A file that is renamed unlinked is an archive that fails its check.
LEMMA RenamedUnlinked ==
  ASSUME Basics, Keyed, Older, active # <<>>, archives' = Append(archives, active), Anchored'
  PROVE  Linked /\ Anchored
<1> DEFINE n == Len(archives)
<1>1. n \in Nat /\ DOMAIN archives = 1 .. n
  BY DEF Basics, TypeOK
<1>2. /\ DOMAIN archives' = 1 .. n + 1
      /\ archives'[n + 1] = active
      /\ \A a \in 1 .. n : archives'[a] = archives[a]
  BY <1>1 DEF Basics, TypeOK
<1>3. archives # <<>> => n > 0 /\ Last(archives) = archives[n]
  BY <1>1 DEF Last, Basics, TypeOK
<1>4. archives = <<>> => n = 0 /\ Base = GENESIS
  BY DEF Base, LatestArchiveTail, OrGenesis
<1> HIDE DEF n
<1>5. Anchored
  <2> SUFFICES ASSUME NEW i \in 1 .. n
               PROVE  /\ ArchiveValid(i)
                      /\ i > 1 => StoredLink(archives[i]) = TailHash(archives[i-1])
    BY <1>1 DEF Anchored
  <2>1. i \in 1 .. n + 1 /\ (i > 1 => i - 1 \in 1 .. n)
    BY <1>1
  <2>2. archives'[i] = archives[i] /\ (i > 1 => archives'[i-1] = archives[i-1])
    BY <1>2, <2>1
  <2>3. /\ ArchiveValid(i)'
        /\ i > 1 => StoredLink(archives'[i]) = TailHash(archives'[i-1])
    BY <1>2, <2>1 DEF Anchored, StoredLink, TailHash
  <2>4. i = 1 \/ i > 1
    BY <1>1
  <2>5. CASE i = 1
    BY <2>2, <2>3, <2>5 DEF ArchiveValid
  <2>6. CASE i > 1
    BY <2>2, <2>3, <2>6 DEF ArchiveValid
  <2> QED BY <2>4, <2>5, <2>6
<1>6. Linked
  <2>1. \/ LinkedFrom(active, IF n + 1 = 1 THEN GENESIS ELSE OrGenesis(TailHash(archives'[n])))
        \/ n + 1 > 1 /\ active[1].prev = GENESIS
    <3>1. n + 1 \in DOMAIN archives' /\ n + 1 - 1 = n
      BY <1>1, <1>2
    <3>2. PICK a : a = n + 1
      OBVIOUS
    <3>3. \/ LinkedFrom(archives'[a],
                        IF a = 1 THEN GENESIS ELSE OrGenesis(TailHash(archives'[a-1])))
          \/ a > 1 /\ archives'[a][1].prev = GENESIS
      BY <3>1, <3>2 DEF Anchored, ArchiveValid, LinkedFrom, OrGenesis, TailHash
    <3>4. archives'[a] = active /\ archives'[a-1] = archives'[n]
      <4>1. a - 1 = n
        BY <1>1, <3>2
      <4>2. archives'[a] = active
        BY <1>2, <3>2
      <4> QED BY <4>1, <4>2
    <3>5. \/ LinkedFrom(active, IF a = 1 THEN GENESIS ELSE OrGenesis(TailHash(archives'[n])))
          \/ a > 1 /\ active[1].prev = GENESIS
      BY <3>3, <3>4
    <3> QED BY <3>2, <3>5
  <2>2. CASE archives = <<>>
    BY <1>4, <2>1, <2>2 DEF Linked
  <2>3. CASE archives # <<>>
    <3>1. n > 0 /\ n \in 1 .. n /\ n + 1 # 1
      BY <1>1, <1>3, <2>3
    <3>2. OrGenesis(TailHash(archives'[n])) = Base /\ active[1].prev # GENESIS
      BY <1>2, <1>3, <2>3, <3>1 DEF Older, Base
    <3> QED BY <2>1, <3>1, <3>2 DEF Linked
  <2> QED BY <2>2, <2>3
<1> QED BY <1>5, <1>6

LEMMA ReplaceTruncated ==
  ASSUME Basics, TruncatedInv, NEW w \in Writers, ReplaceActive(w)
  PROVE  TruncatedInv'
<1>1. /\ UNCHANGED <<head, job, nextId, acked, crashes, torn>>
      /\ pc[w] = "replace" /\ pc'[w] = IF Keyed THEN "rehead" ELSE "ready"
      /\ active' = <<>> /\ archives' = Append(archives, active)
      /\ active # <<>>
  BY DEF ReplaceActive, Basics, TypeOK, NonEmpty, faults
<1> SUFFICES ASSUME Keyed, torn = 0
             PROVE  /\ Older' /\ Counts' /\ (\A v \in Writers : Entered(v)')
                    /\ crashes' <= 1 /\ Anchored' => Gapless'
  BY <1>1 DEF TruncatedInv
<1>2. /\ Older /\ Counts /\ (\A v \in Writers : Entered(v))
      /\ crashes <= 1 /\ Anchored => Gapless
  BY DEF TruncatedInv
<1>3. TypeOK /\ head.tail \in Nat /\ head.count \in Nat /\ crashes \in Nat
  BY HashesAreNat DEF Basics
<1>4. Last(archives') = active /\ archives' # <<>>
  <2>1. Len(archives') = Len(archives) + 1 /\ archives'[Len(archives) + 1] = active
    BY <1>1, <1>3 DEF TypeOK
  <2>2. Len(archives) + 1 # 0
    BY <1>3 DEF TypeOK
  <2> QED BY <2>1, <2>2 DEF Last
<1>5. /\ Len(active) \in DOMAIN active
      /\ Last(active).id = active[Len(active)].id
      /\ LastRecordHash(active) = Last(active).id
      /\ LastRecordHash(active) # GENESIS
      /\ TailHash(active) = LastRecordHash(active)
  BY <1>1, <1>2, <1>3, EndOfFile DEF Older, TailHash
<1>6. LatestArchiveTail' = Last(active).id /\ Base' = Last(active).id
  <2>1. LatestArchiveTail' = LastRecordHash(active)
    BY <1>4 DEF LatestArchiveTail, LastRecordHash
  <2>2. Last(active).id \in Nat
    BY <1>3, <1>5, RecordsHaveHashes DEF TypeOK
  <2> QED BY <1>5, <2>1, <2>2 DEF Base, OrGenesis, NoTail
<1>7. Base' < nextId
  BY <1>5, <1>6 DEF Basics, Fresh
<1>8. Len(active') = 0 /\ DOMAIN active' = {}
  BY <1>1
<1>9. \A v \in Writers : v # w => pc'[v] = "idle"
  BY <1>1, OthersIdle DEF ReplaceActive, Basics, TypeOK
<1>10. Older'
  <2>1. TailHash(Last(archives))' = LatestArchiveTail'
    BY <1>4, <1>5, <1>6 DEF TailHash
  <2> QED BY <1>1, <1>2, <1>5, <1>6, <1>7, <1>8, <2>1 DEF Older
<1>11. Counts'
  BY <1>1, <1>3, <1>8 DEF Counts
<1>12. \A v \in Writers : Entered(v)'
  BY <1>1, <1>9 DEF Entered
<1>13. ASSUME crashes' <= 1, Anchored'
       PROVE  Gapless'
  <2>1. Linked /\ Anchored
    BY <1>1, <1>2, <1>13, RenamedUnlinked
  <2>2. Covered(Len(active))
    BY <1>1, <1>2, <1>13, <2>1 DEF Gapless, Owes
  <2>3. acked' \subseteq Archived'
    <3>1. Archived' = Archived \cup {active[i].id : i \in DOMAIN active}
      BY <1>1, <1>3, RenameKeeps
    <3>2. DOMAIN active = 1 .. Len(active)
      BY <1>3 DEF TypeOK
    <3> QED BY <1>1, <2>2, <3>1, <3>2 DEF Covered
  <2>4. \A m : Covered(m)'
    BY <2>3 DEF Covered
  <2> QED BY <2>4 DEF Gapless, Matched, OneMore, Owes
<1> QED BY <1>10, <1>11, <1>12, <1>13

LEMMA RewriteTruncated ==
  ASSUME Basics, TruncatedInv, NEW w \in Writers, RewriteHead(w)
  PROVE  TruncatedInv'
<1>1. /\ UNCHANGED <<active, archives, job, nextId, acked, crashes, torn>>
      /\ pc[w] = "rehead" /\ pc'[w] = "ready" /\ head' = ExpectedHead
  BY DEF RewriteHead, Basics, TypeOK, faults
<1> SUFFICES ASSUME Keyed, torn = 0
             PROVE  /\ Older' /\ Counts' /\ (\A v \in Writers : Entered(v)')
                    /\ crashes' <= 1 /\ Anchored' => Gapless'
  BY <1>1 DEF TruncatedInv
<1>2. /\ Older /\ Counts /\ (\A v \in Writers : Entered(v))
      /\ crashes <= 1 /\ Anchored => Gapless
  BY DEF TruncatedInv
<1>3. active = <<>> /\ Len(active) = 0
  BY <1>1, <1>2 DEF Entered
<1>4. head'.count = 0 /\ head'.tail = GENESIS
  BY <1>1, <1>3 DEF ExpectedHead, LastRecordHash
<1>5. Base' = Base /\ LatestArchiveTail' = LatestArchiveTail /\ Anchored' = Anchored
  BY <1>1 DEF Base, LatestArchiveTail, Anchored, ArchiveValid
<1>6. \A v \in Writers : v # w => pc'[v] = "idle"
  BY <1>1, OthersIdle DEF RewriteHead, Basics, TypeOK
<1>7. crashes \in Nat /\ nextId \in Nat \ {0}
  BY DEF Basics, TypeOK
<1>8. Older'
  BY <1>1, <1>2, <1>3, <1>4, <1>5, <1>7 DEF Older, GENESIS
<1>9. Counts'
  BY <1>1, <1>3, <1>4, <1>7 DEF Counts
<1>10. \A v \in Writers : Entered(v)'
  BY <1>1, <1>6 DEF Entered
<1>11. ASSUME crashes' <= 1, Anchored'
       PROVE  Gapless'
  <2>1. Covered(0)
    BY <1>1, <1>2, <1>5, <1>11 DEF Gapless, Owes
  <2>2. Covered(0)'
    BY <1>1, <2>1 DEF Covered, Archived
  <2>3. Matched'
    BY <1>1, <1>3, <2>2 DEF Matched
  <2>4. OneMore' /\ \A v \in Writers : Owes(v)'
    BY <1>1, <1>4, <1>6 DEF OneMore, Owes
  <2> QED BY <2>3, <2>4 DEF Gapless
<1> QED BY <1>8, <1>9, <1>10, <1>11

LEMMA LeaveTruncated ==
  ASSUME Basics, TruncatedInv, NEW w \in Writers, Leave(w)
  PROVE  TruncatedInv'
<1>1. /\ UNCHANGED <<active, archives, head, nextId, crashes, torn>>
      /\ pc[w] = "leave" /\ pc'[w] = "idle" /\ acked' = acked \cup {job[w].id}
  BY DEF Leave, Basics, TypeOK, faults
<1> SUFFICES ASSUME Keyed, torn = 0
             PROVE  /\ Older' /\ Counts' /\ (\A v \in Writers : Entered(v)')
                    /\ crashes' <= 1 /\ Anchored' => Gapless'
  BY <1>1 DEF TruncatedInv
<1>2. /\ Older /\ Counts /\ (\A v \in Writers : Entered(v))
      /\ crashes <= 1 /\ Anchored => Gapless
  BY DEF TruncatedInv
<1>3. active # <<>> /\ Last(active).id = job[w].id /\ head.tail = job[w].id
  BY <1>1, <1>2 DEF Entered
<1>4. TypeOK /\ Len(active) \in Nat /\ Base \in Nat
      /\ \A i \in 1 .. Len(active) : active[i].id \in Nat
  BY HashesAreNat DEF Basics
<1>5. /\ Len(active) \in DOMAIN active /\ Len(active) \in 1 .. Len(active)
      /\ active[Len(active)].id = job[w].id
      /\ job[w].id # GENESIS /\ Base < job[w].id
  BY <1>2, <1>3, <1>4, EndOfFile DEF Older
<1>6. Base' = Base /\ LatestArchiveTail' = LatestArchiveTail /\ Anchored' = Anchored
      /\ Linked' = Linked
  BY <1>1, SameFiles DEF Base
<1>7. \A v \in Writers : pc'[v] = "idle" /\ pc[v] # "head"
  BY <1>1, OthersIdle DEF Leave, Basics, TypeOK
<1>8. Older' /\ Counts' /\ \A v \in Writers : Entered(v)'
  BY <1>1, <1>2, <1>6, <1>7 DEF Older, Counts, Entered
<1>9. ASSUME crashes' <= 1, Anchored'
      PROVE  Gapless'
  <2>1. Matched /\ OneMore
    BY <1>1, <1>2, <1>6, <1>9 DEF Gapless
  <2>2. ASSUME NEW m \in 0 .. Len(active), Covered(m),
               job[w].id \in {active[i].id : i \in 1 .. m}
        PROVE  Covered(m)'
    BY <1>1, <2>2 DEF Covered, Archived
  <2>3. Matched'
    <3> SUFFICES ASSUME NEW m \in 0 .. Len(active), LinkedTo(m)', EndsAt(m)'
                 PROVE  Covered(m)'
      BY <1>1 DEF Matched
    <3>1. LinkedTo(m) /\ EndsAt(m)
      BY <1>1, <1>6 DEF LinkedTo, EndsAt
    <3>2. m # 0 /\ active[m].id = job[w].id
      BY <1>3, <1>4, <1>5, <3>1 DEF EndsAt
    <3>3. m \in 1 .. m
      BY <3>2
    <3> QED BY <2>1, <2>2, <3>1, <3>2, <3>3 DEF Matched
  <2>4. OneMore'
    <3>1. Len(active) \in 0 .. Len(active)
      BY <1>4
    <3>2. Covered(Len(active)) => Covered(Len(active))'
      <4>1. job[w].id \in {active[i].id : i \in 1 .. Len(active)}
        BY <1>5
      <4> QED BY <1>1, <4>1 DEF Covered, Archived
    <3> QED BY <1>1, <1>6, <2>1, <3>2 DEF OneMore
  <2>5. \A v \in Writers : Owes(v)'
    BY <1>7 DEF Owes
  <2> QED BY <2>3, <2>4, <2>5 DEF Gapless
<1> QED BY <1>8, <1>9

LEMMA LoseTailTruncated ==
  ASSUME Basics, TruncatedInv, LoseTail
  PROVE  TruncatedInv'
<1>1. UNCHANGED <<archives, head, pc, nextId, acked, crashes, torn>>
      /\ \A v \in Writers : pc[v] = "idle"
  BY DEF LoseTail, Outside
<1> SUFFICES ASSUME Keyed, torn = 0
             PROVE  /\ Older' /\ Counts' /\ (\A v \in Writers : Entered(v)')
                    /\ crashes' <= 1 /\ Anchored' => Gapless'
  BY <1>1 DEF TruncatedInv
<1>2. /\ Older /\ Counts /\ (\A v \in Writers : Entered(v))
      /\ crashes <= 1 /\ Anchored => Gapless
  BY DEF TruncatedInv
<1>3. Len(active) \in Nat /\ head.count \in Nat /\ crashes \in Nat
      /\ active \in Seq(Record) /\ DOMAIN active = 1 .. Len(active)
  BY HashesAreNat DEF Basics, TypeOK
<1>4. PICK n \in 0 .. Len(active) - 1 : active' = SubSeq(active, 1, n)
  BY DEF LoseTail
<1>5. /\ n \in Nat /\ n < Len(active) /\ Len(active') = n /\ DOMAIN active' = 1 .. n
      /\ \A i \in 1 .. n : i \in DOMAIN active /\ active'[i] = active[i]
  <2>1. \A i \in 1 .. n : active[i] \in Record
    BY <1>3, <1>4
  <2>2. /\ active' \in Seq(Record)
        /\ Len(active') = n
        /\ \A i \in 1 .. n : active'[i] = active[i]
    BY <1>4, <2>1, SubSeqProperties
  <2> QED BY <1>3, <1>4, <2>2
<1>6. Base' = Base /\ LatestArchiveTail' = LatestArchiveTail /\ Anchored' = Anchored
  BY <1>1 DEF Base, LatestArchiveTail, Anchored, ArchiveValid
<1>7. Older'
  <2>1. active' # <<>> => active # <<>> /\ active'[1] = active[1]
    <3>1. active' # <<>> => n # 0
      BY <1>3, <1>4
    <3>2. n # 0 => 1 \in 1 .. n
      BY <1>5
    <3> QED BY <1>5, <3>1, <3>2
  <2> QED BY <1>1, <1>2, <1>5, <1>6, <2>1 DEF Older
<1>8. Len(active') < head.count + crashes
  BY <1>1, <1>2, <1>3, <1>5 DEF Counts
<1>9. Counts' /\ \A v \in Writers : Entered(v)'
  BY <1>1, <1>3, <1>5, <1>8 DEF Counts, Entered
<1>10. ASSUME crashes' <= 1, Anchored'
       PROVE  Gapless'
  <2>1. Matched
    BY <1>1, <1>2, <1>6, <1>10 DEF Gapless
  <2>2. Matched'
    <3> SUFFICES ASSUME NEW m \in 0 .. n, LinkedTo(m)', EndsAt(m)'
                 PROVE  Covered(m)'
      BY <1>5 DEF Matched
    <3>1. /\ \A i \in 1 .. m : active'[i] = active[i] /\ (i # 1 => active'[i-1] = active[i-1])
          /\ m # 0 => active'[m] = active[m]
      <4>1. \A i \in 1 .. m : i \in 1 .. n /\ (i # 1 => i - 1 \in 1 .. n)
        BY <1>5
      <4>2. m # 0 => m \in 1 .. n
        BY <1>5
      <4> QED BY <1>5, <4>1, <4>2
    <3>2. LinkedTo(m) /\ EndsAt(m)
      BY <1>1, <1>6, <3>1 DEF LinkedTo, EndsAt
    <3>3. m \in 0 .. Len(active)
      BY <1>3, <1>5
    <3>4. Covered(m)
      BY <2>1, <3>2, <3>3 DEF Matched
    <3>5. {active'[i].id : i \in 1 .. m} = {active[i].id : i \in 1 .. m}
      BY <3>1
    <3>6. acked' = acked /\ Archived' = Archived
      BY <1>1 DEF Archived
    <3> QED BY <3>4, <3>5, <3>6 DEF Covered
  <2>3. OneMore'
    BY <1>1, <1>3, <1>5, <1>8, <1>10 DEF OneMore
  <2>4. \A v \in Writers : Owes(v)'
    BY <1>1 DEF Owes
  <2> QED BY <2>2, <2>3, <2>4 DEF Gapless
<1> QED BY <1>7, <1>9, <1>10

LEMMA TruncatedStep == Basics /\ TruncatedInv /\ [Next]_vars => TruncatedInv'
<1> SUFFICES ASSUME Basics, TruncatedInv, [Next]_vars
             PROVE  TruncatedInv'
  OBVIOUS
<1>1. ASSUME NEW w \in Writers, Outside, Enter(w)
      PROVE  TruncatedInv'
  <2>1. /\ UNCHANGED <<active, archives, head, nextId, acked, crashes, torn>>
        /\ \A v \in Writers : pc[v] = "idle" /\ pc'[v] \in {"idle", "check"}
    BY <1>1 DEF Enter, Outside, Basics, TypeOK, faults
  <2> QED BY <2>1, RestTruncated
<1>2. ASSUME NEW w \in Writers, Crash(w)
      PROVE  TruncatedInv'
  <2>1. /\ UNCHANGED <<active, archives, head, nextId, acked, torn>>
        /\ crashes' = crashes + 1 /\ pc[w] # "idle" /\ pc'[w] = "idle"
        /\ \A v \in Writers : v # w => pc'[v] = pc[v]
    BY <1>2 DEF Crash, Stopped, Basics, TypeOK
  <2>2. \A v \in Writers : pc'[v] = "idle"
    BY <2>1, OthersIdle DEF Basics
  <2> QED BY <2>1, <2>2, RestTruncated
<1>3. ASSUME NEW w \in Writers, CrashInLine(w)
      PROVE  TruncatedInv'
  <2>1. torn' # 0
    BY <1>3 DEF CrashInLine, Basics, TypeOK
  <2> QED BY <2>1 DEF TruncatedInv
<1>4. ASSUME NEW w \in Writers, StartAnchor(w) \/ StartRecord(w)
      PROVE  TruncatedInv'
  <2>1. ASSUME NEW kind \in {"record", "anchor"}, pc[w] \in {"check", "ready"}, Derive(w, kind)
        PROVE  TruncatedInv'
    BY <2>1, DeriveTruncated
  <2> QED BY <1>4, <2>1 DEF StartAnchor, StartRecord
<1>5. ASSUME NEW w \in Writers, AppendRecord(w) \/ UpdateHead(w) \/ ReplaceActive(w)
                                 \/ RewriteHead(w) \/ Leave(w)
      PROVE  TruncatedInv'
  BY <1>5, AppendTruncated, UpdateHeadTruncated, ReplaceTruncated, RewriteTruncated,
     LeaveTruncated
<1>6. CASE LoseTail
  BY <1>6, LoseTailTruncated
<1>7. CASE UNCHANGED vars
  <2>1. UNCHANGED <<active, archives, head, pc, job, nextId, acked, crashes, torn>>
    BY <1>7 DEF vars, faults
  <2>2. Older' = Older /\ Counts' = Counts /\ Gapless' = Gapless /\ Anchored' = Anchored
        /\ \A v \in Writers : Entered(v)' = Entered(v)
    BY <2>1 DEF Older, Counts, Entered, Gapless, Matched, OneMore, Owes, Linked, LinkedTo, EndsAt,
                Covered, Archived, NextPrev, Base, LatestArchiveTail, Anchored, ArchiveValid
  <2> QED BY <2>1, <2>2 DEF TruncatedInv
<1> QED BY <1>1, <1>2, <1>3, <1>4, <1>5, <1>6, <1>7 DEF Next, Step

LEMMA CompleteStep == CompleteInv /\ [Next]_vars => CompleteInv'
<1> SUFFICES ASSUME CompleteInv, [Next]_vars
             PROVE  CompleteInv'
  OBVIOUS
<1>1. Basics'
  BY NextTypes, SoloStep, NonEmptyStep, HeadKindStep, FreshStep DEF CompleteInv, Basics
<1>2. KeptInv'
  BY KeptStep DEF CompleteInv, Basics
<1>3. TruncatedInv'
  BY TruncatedStep DEF CompleteInv
<1> QED BY <1>1, <1>2, <1>3 DEF CompleteInv

LEMMA AcceptedIsComplete == CompleteInv => AcceptedLogIsComplete
<1> SUFFICES ASSUME CompleteInv, Keyed, VerifyChain, Anchored,
                    losses = 0 \/ (torn = 0 /\ crashes <= 1)
             PROVE  Complete
  BY DEF AcceptedLogIsComplete
<1>1. CASE losses = 0
  BY <1>1, SpoiltIsRefused DEF CompleteInv, KeptInv
<1>2. CASE torn = 0 /\ crashes <= 1
  <2>1. Basics /\ TypeOK /\ Older /\ Matched
    BY <1>2 DEF CompleteInv, Basics, TruncatedInv, Gapless
  <2>2. Linked /\ head = VerifiedHead
    BY DEF VerifyChain, Linked, Base
  <2>3. head.tail = LastRecordHash(active)
    BY <2>1, <2>2, VerifiedCheckpoint
  <2>4. LinkedTo(Len(active))
    BY <2>1, <2>2, LinkedToEnd DEF Older
  <2>5. EndsAt(Len(active)) /\ Len(active) \in 0 .. Len(active)
    BY <2>1, <2>3, EndOfFile DEF EndsAt, TypeOK
  <2>6. Covered(Len(active)) /\ DOMAIN active = 1 .. Len(active)
    BY <2>1, <2>4, <2>5 DEF Matched, TypeOK
  <2> QED BY <2>6 DEF Covered, Complete, Stored, Archived
<1> QED BY <1>1, <1>2

\* With a key, whatever is truncated and wherever a writer is killed: a log
\* that verify_chain and the archive anchoring accept holds every record that
\* append_evidence reported as written, for every rotation limit and every
\* number of writers, records and truncations.
THEOREM AcceptedCorrect == Spec => []AcceptedLogIsComplete
<1>1. Init => CompleteInv
  BY InitBasics DEF CompleteInv
<1> QED BY <1>1, CompleteStep, AcceptedIsComplete, PTL DEF Spec
=============================================================================
