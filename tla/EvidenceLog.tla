----------------------------- MODULE EvidenceLog -----------------------------
(***************************************************************************)
(* The hash-chained evidence log of scripts/audit_check.py: the active     *)
(* JSONL file, the rotated archives and, when an external HMAC key is      *)
(* configured (Keyed), the signed head checkpoint.                         *)
(*                                                                         *)
(* A record is its hash (id), the hash it chains to (prev) and, for the    *)
(* anchor that closes an archive, the hash of the previous archive (link). *)
(* A half-written line is Torn; the next line written is glued to it, and  *)
(* the two make one Glued line.  The evidence write lock is taken as mutual *)
(* exclusion here; EvidenceLock models the lock file itself.               *)
(***************************************************************************)
EXTENDS Integers, Sequences, SequencesExt

CONSTANTS
  Writers,      \* processes that call append_evidence
  Keyed,        \* an HMAC key is configured and initialised
  RotateAt,     \* records at which the active file reaches rotate_bytes
  MaxRecords,   \* bound on the number of appends that may start
  MaxCrashes,   \* bound on writers killed inside append_evidence
  MaxTorn,      \* of those, how many may leave a half-written line
  MaxLosses     \* bound on truncations of the active file from outside

ASSUME EvidenceLogAssumption ==
  /\ Keyed \in BOOLEAN
  /\ RotateAt \in Nat \ {0}
  /\ {MaxRecords, MaxCrashes, MaxTorn, MaxLosses} \subseteq Nat

GENESIS == 0    \* the "GENESIS" hash; record hashes are 1, 2, ...
NoTail  == -1   \* Python's None where an archive tail is expected
NoCount == -1   \* count is None in _write_evidence_record

Torn    == [id |-> GENESIS, prev |-> GENESIS, link |-> NoTail]
Glued   == [id |-> GENESIS, prev |-> NoTail, link |-> NoTail]
NoHead  == [count |-> 0, tail |-> NoTail, archive |-> NoTail]
NoJob   == [kind |-> "none", id |-> GENESIS, prev |-> GENESIS,
            link |-> NoTail, count |-> NoCount, repair |-> FALSE]

VARIABLES
  active,    \* evidence.jsonl; <<>> also when the file is absent
  archives,  \* archive/evidence-seq*.jsonl in name order
  head,      \* evidence.head.json, NoHead when there is none
  pc,        \* where each writer is in append_evidence
  job,       \* what each writer computed and has not used up yet
  nextId,    \* the hash the next record will get
  acked,     \* hashes append_evidence has returned to its caller
  found,     \* how each writer found log and head when it took the lock
  crashes,   \* writers killed so far
  torn,      \* half-written lines so far
  losses     \* truncations so far

faults == <<crashes, torn, losses>>

vars == <<active, archives, head, pc, job, nextId, acked, found, faults>>

-----------------------------------------------------------------------------
(* What the code reads from disk *)

Whole(r) == r.id # GENESIS

\* L10: only the last line is parsed; absent, empty and unparsable are GENESIS
LastRecordHash(log) == IF log = <<>> THEN GENESIS ELSE Last(log).id

\* L11 tail_hash: every line is parsed, any bad one makes the answer None
TailHash(log) ==
  IF log # <<>> /\ \A i \in DOMAIN log : Whole(log[i]) THEN Last(log).id ELSE NoTail

LatestArchiveTail == IF archives = <<>> THEN NoTail ELSE LastRecordHash(Last(archives))

OrGenesis(h) == IF h = NoTail THEN GENESIS ELSE h

CurrentArchiveTail == IF head # NoHead THEN head.archive ELSE LatestArchiveTail

\* The head a full scan of L10 writes
ExpectedHead == [count   |-> Len(active),
                 tail    |-> LastRecordHash(active),
                 archive |-> LatestArchiveTail]

\* The head L11 demands when it verifies
VerifiedHead == [count   |-> Len(active),
                 tail    |-> OrGenesis(TailHash(active)),
                 archive |-> IF archives = <<>> THEN NoTail ELSE TailHash(Last(archives))]

LinkedFrom(log, base) ==
  \A i \in DOMAIN log :
    /\ Whole(log[i])
    /\ log[i].prev = IF i = 1 THEN base ELSE log[i-1].id

\* verify_chain, which every core command calls before it does anything
VerifyChain ==
  /\ LinkedFrom(active, OrGenesis(LatestArchiveTail))
  /\ Keyed => head = VerifiedHead

StoredLink(log) == IF TailHash(log) = NoTail THEN NoTail ELSE Last(log).link

ArchiveValid(i) ==
  \/ LinkedFrom(archives[i], IF i = 1 THEN GENESIS ELSE OrGenesis(TailHash(archives[i-1])))
  \/ i > 1 /\ archives[i][1].prev = GENESIS /\ LinkedFrom(archives[i], GENESIS)

\* ArchiveManifest.anchored, the check the completion gate adds to verify_chain
Anchored ==
  \A i \in DOMAIN archives :
    /\ ArchiveValid(i)
    /\ i > 1 => StoredLink(archives[i]) = TailHash(archives[i-1])

-----------------------------------------------------------------------------
(* append_evidence: lock, maybe_rotate, _write_evidence_record, unlock *)

\* The log is one linked record ahead of its checkpoint
OneAhead ==
  /\ Keyed /\ active # <<>>
  /\ LinkedFrom(active, OrGenesis(LatestArchiveTail))
  /\ head = [count   |-> Len(active) - 1,
             tail    |-> LastRecordHash(Front(active)),
             archive |-> LatestArchiveTail]
  /\ VerifiedHead.archive = LatestArchiveTail

\* The active file was renamed into the archive, the checkpoint not yet rewritten
Renamed ==
  /\ Keyed /\ active = <<>> /\ archives # <<>> /\ Anchored
  /\ head.count = Len(Last(archives)) /\ head.tail = LatestArchiveTail

\* How a writer that takes the lock finds log and checkpoint
LogState ==
  IF VerifyChain THEN "sync"
  ELSE IF OneAhead THEN IF head.count > 0 THEN "lag" ELSE "firstlag"
  ELSE IF Renamed THEN "rotated" ELSE "other"

Init ==
  /\ active = <<>>
  /\ archives = <<>>
  /\ head = IF Keyed THEN [count |-> 0, tail |-> GENESIS, archive |-> NoTail] ELSE NoHead
  /\ pc = [w \in Writers |-> "idle"]
  /\ job = [w \in Writers |-> NoJob]
  /\ nextId = 1
  /\ acked = {}
  /\ found = [w \in Writers |-> "none"]
  /\ crashes = 0 /\ torn = 0 /\ losses = 0

Outside == \A w \in Writers : pc[w] = "idle"

Enter(w) ==
  /\ pc[w] = "idle"
  /\ nextId <= MaxRecords
  /\ pc' = [pc EXCEPT ![w] = "check"]
  /\ found' = [found EXCEPT ![w] = LogState]
  /\ UNCHANGED <<active, archives, head, job, nextId, acked, faults>>

\* The checkpoint is used only when it counts records
Based == head # NoHead /\ head.count > 0

Agrees == LastRecordHash(active) = head.tail

\* The log is one record ahead of the checkpoint, by count
NeverLagged == FALSE                                  \* mutant: no repair branch
AnyTailLags == LastRecordHash(active) # GENESIS       \* mutant: count not compared
Lagged == LastRecordHash(active) # GENESIS /\ Len(active) = head.count + 1

\* What the first record of a chain without a usable checkpoint names
UnbasedPrev ==
  IF active # <<>> THEN LastRecordHash(active) ELSE OrGenesis(LatestArchiveTail)

\* The prev, count and repair that _write_evidence_record derives on entry
Derived(kind) ==
  [kind   |-> kind,
   id     |-> nextId,
   link   |-> IF kind = "anchor" THEN LatestArchiveTail ELSE NoTail,
   prev   |-> IF ~Based THEN UnbasedPrev
              ELSE IF Agrees \/ Lagged THEN LastRecordHash(active) ELSE head.tail,
   count  |-> IF Based /\ Agrees THEN head.count ELSE NoCount,
   repair |-> Based /\ ~Agrees]

Derive(w, kind) ==
  /\ job' = [job EXCEPT ![w] = Derived(kind)]
  /\ nextId' = nextId + 1
  /\ pc' = [pc EXCEPT ![w] = "append"]
  /\ UNCHANGED <<active, archives, head, acked, found, faults>>

StartAnchor(w) == pc[w] = "check" /\ Len(active) >= RotateAt /\ Derive(w, "anchor")

StartRecord(w) ==
  /\ pc[w] = "ready" \/ (pc[w] = "check" /\ Len(active) < RotateAt)
  /\ Derive(w, "record")

Appended(log, r) ==
  IF log = <<>> \/ Last(log) # Torn THEN Append(log, r)
  ELSE IF r = Torn THEN log
  ELSE [log EXCEPT ![Len(log)] = Glued]

Line(j) == [id |-> j.id, prev |-> j.prev, link |-> j.link]

AfterRecord(w) == IF job[w].kind = "anchor" THEN "replace" ELSE "leave"

AppendRecord(w) ==
  /\ pc[w] = "append"
  /\ active' = Appended(active, Line(job[w]))
  /\ pc' = [pc EXCEPT ![w] = IF Keyed THEN "head" ELSE AfterRecord(w)]
  /\ UNCHANGED <<archives, head, job, nextId, acked, found, faults>>

\* The checkpoint _write_evidence_record replaces the old one with
CountFromEntry(j) ==                                  \* mutant: own record not counted
  IF j.repair THEN ExpectedHead
  ELSE [count   |-> IF j.count # NoCount THEN j.count
                    ELSE IF head # NoHead THEN head.count + 1 ELSE Len(active),
        tail    |-> j.id,
        archive |-> CurrentArchiveTail]
NextHead(j) ==
  IF j.repair THEN ExpectedHead
  ELSE [count   |-> IF j.count # NoCount THEN j.count + 1
                    ELSE IF head # NoHead THEN head.count + 1 ELSE Len(active),
        tail    |-> j.id,
        archive |-> CurrentArchiveTail]

UpdateHead(w) ==
  /\ pc[w] = "head"
  /\ head' = NextHead(job[w])
  /\ pc' = [pc EXCEPT ![w] = AfterRecord(w)]
  /\ UNCHANGED <<active, archives, job, nextId, acked, found, faults>>

ReplaceActive(w) ==
  /\ pc[w] = "replace"
  /\ archives' = Append(archives, active)
  /\ active' = <<>>
  /\ pc' = [pc EXCEPT ![w] = IF Keyed THEN "rehead" ELSE "ready"]
  /\ UNCHANGED <<head, job, nextId, acked, found, faults>>

RewriteHead(w) ==
  /\ pc[w] = "rehead"
  /\ head' = ExpectedHead
  /\ pc' = [pc EXCEPT ![w] = "ready"]
  /\ UNCHANGED <<active, archives, job, nextId, acked, found, faults>>

Leave(w) ==
  /\ pc[w] = "leave"
  /\ acked' = acked \cup {job[w].id}
  /\ pc' = [pc EXCEPT ![w] = "idle"]
  /\ job' = [job EXCEPT ![w] = NoJob]
  /\ found' = [found EXCEPT ![w] = "none"]
  /\ UNCHANGED <<active, archives, head, nextId, faults>>

-----------------------------------------------------------------------------
(* Faults *)

Stopped(w) ==
  /\ crashes < MaxCrashes
  /\ crashes' = crashes + 1
  /\ pc' = [pc EXCEPT ![w] = "idle"]
  /\ job' = [job EXCEPT ![w] = NoJob]
  /\ found' = [found EXCEPT ![w] = "none"]
  /\ UNCHANGED <<archives, head, nextId, acked, losses>>

\* The writer is killed between two of its writes; its lock is reaped later
Crash(w) ==
  /\ pc[w] # "idle"
  /\ Stopped(w)
  /\ UNCHANGED <<active, torn>>

\* The writer is killed, or the disk fills up, in the middle of its line
CrashInLine(w) ==
  /\ pc[w] = "append"
  /\ torn < MaxTorn
  /\ active' = Appended(active, Torn)
  /\ torn' = torn + 1
  /\ Stopped(w)

\* The active file is truncated or deleted from outside
LoseTail ==
  /\ Outside
  /\ losses < MaxLosses
  /\ \E n \in 0 .. Len(active) - 1 : active' = SubSeq(active, 1, n)
  /\ losses' = losses + 1
  /\ UNCHANGED <<archives, head, pc, job, nextId, acked, found, crashes, torn>>

Step(w) ==
  \/ StartAnchor(w) \/ StartRecord(w) \/ AppendRecord(w) \/ UpdateHead(w)
  \/ ReplaceActive(w) \/ RewriteHead(w) \/ Leave(w)

Next ==
  \/ \E w \in Writers : (Outside /\ Enter(w)) \/ Step(w) \/ Crash(w) \/ CrashInLine(w)
  \/ LoseTail

Spec == Init /\ [][Next]_vars

-----------------------------------------------------------------------------
(* Properties *)

Hash == Nat
Record == [id : Hash, prev : Hash \cup {NoTail}, link : Hash \cup {NoTail}]
Checkpoint == [count : Nat, tail : Hash \cup {NoTail}, archive : Hash \cup {NoTail}]
Job == [kind : {"none", "record", "anchor"}, id : Hash, prev : Hash \cup {NoTail},
        link : Hash \cup {NoTail}, count : Nat \cup {NoCount}, repair : BOOLEAN]

\* Every variable holds a value of the shape the code gives it.
TypeOK ==
  /\ active \in Seq(Record)
  /\ archives \in Seq(Seq(Record))
  /\ head \in Checkpoint
  /\ pc \in [Writers -> {"idle", "check", "ready", "append", "head", "replace",
                         "rehead", "leave"}]
  /\ job \in [Writers -> Job]
  /\ nextId \in Nat \ {0}
  /\ acked \subseteq Hash
  /\ found \in [Writers -> {"none", "sync", "lag", "firstlag", "rotated", "other"}]
  /\ crashes \in Nat /\ torn \in Nat /\ losses \in Nat

\* Without a fault, whoever verifies while no append is in progress is
\* satisfied, across any number of rotations: the active chain starts at the
\* latest archive, the checkpoint is exact and the archives are anchored.
QuietLogVerifies ==
  crashes = 0 /\ losses = 0 /\ Outside => VerifyChain /\ Anchored

Stored == {active[i].id : i \in DOMAIN active} \cup
          UNION {{archives[a][i].id : i \in DOMAIN archives[a]} : a \in DOMAIN archives}

Complete == acked \subseteq Stored

\* With a key, verify_chain together with the archive anchoring accepts only a
\* log that still holds every record append_evidence ever reported as written,
\* whatever was truncated and at whichever step a writer was killed.  (A second
\* killed writer, see NoGapIsHealed, or a record glued to a half-written line
\* that is then deleted, defeats it: these are not assumed with a loss.)
AcceptedLogIsComplete ==
  Keyed /\ VerifyChain /\ Anchored /\ (losses = 0 \/ (torn = 0 /\ crashes <= 1)) => Complete

\* An append that found the log exact, one record ahead of a checkpoint that
\* already counts records, or renamed but not yet checkpointed by a killed
\* rotation, leaves a log that verifies: the repair in _write_evidence_record.
AppendRepairs ==
  \A w \in Writers :
    pc[w] = "leave" /\ found[w] \in {"sync", "lag", "rotated"} => VerifyChain

\* audit_check.py:1100 a truncated log "is deliberately not healed": no check
\* the system has accepts a log that lost an acknowledged record.
NoGapIsHealed ==
  Keyed /\ VerifyChain /\ Anchored /\ torn = 0 => Complete
=============================================================================
