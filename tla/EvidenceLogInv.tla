--------------------------- MODULE EvidenceLogInv ---------------------------
(***************************************************************************)
(* The inductive invariant behind the theorems of EvidenceLogProofs, in a  *)
(* module of its own so that TLC can check it too.                         *)
(***************************************************************************)
EXTENDS EvidenceLog

Base == OrGenesis(LatestArchiveTail)

Linked == LinkedFrom(active, Base)

NextPrev == IF active = <<>> THEN Base ELSE Last(active).id

ArchiveReads == VerifiedHead.archive = LatestArchiveTail

\* At most one writer holds the lock.
Solo == \A v, w \in Writers : pc[v] # "idle" /\ pc[w] # "idle" => v = w

\* A file is renamed into the archive only after a line was written to it.
NonEmpty ==
  /\ \A i \in DOMAIN archives : archives[i] # <<>>
  /\ \A w \in Writers : pc[w] \in {"head", "replace"} => active # <<>>

\* A checkpoint exists, and is written, only when there is a key.
HeadKind ==
  /\ IF Keyed THEN head.tail # NoTail ELSE head = NoHead
  /\ \A w \in Writers : pc[w] \in {"head", "rehead"} => Keyed

\* Hashes are new: they grow along the active file and up to nextId.
Fresh ==
  /\ \A i \in DOMAIN active : active[i].id < nextId
  /\ \A i \in DOMAIN active :
       i > 1 /\ Whole(active[i]) => active[i-1].id < active[i].id
  /\ \A w \in Writers : pc[w] = "append" =>
       /\ job[w].id < nextId
       /\ Whole(job[w])
       /\ \A i \in DOMAIN active : active[i].id < job[w].id

\* The checkpoint counts all lines but the last n, and the job agrees with it
Counted(j, n) ==
  IF j.repair THEN Keyed /\ ArchiveReads
  ELSE Keyed => /\ head.count = Len(active) - n
                /\ head.archive = VerifiedHead.archive
                /\ j.count \in {NoCount, head.count}

\* What holds at each step of a writer that found a log it can continue
Repairing(w) ==
  LET j == job[w]
  IN  /\ pc[w] = "check" => VerifyChain \/ (OneAhead /\ head.count > 0) \/ Renamed
      /\ pc[w] = "ready" => VerifyChain
      /\ pc[w] = "append" => Linked /\ j.prev = NextPrev /\ Counted(j, 0)
      /\ pc[w] = "head" => Linked /\ Last(active).id = j.id /\ Counted(j, 1)
      /\ pc[w] = "replace" => Linked
      /\ pc[w] = "rehead" => active = <<>> /\ archives # <<>> /\ ArchiveReads
      /\ pc[w] = "leave" => VerifyChain

RepairInv ==
  /\ TypeOK /\ Solo /\ NonEmpty /\ HeadKind /\ Fresh
  /\ \A w \in Writers : found[w] \in {"sync", "lag", "rotated"} => Repairing(w)

\* The anchor a rotation writes names the archive before it
AnchorLinks ==
  \A w \in Writers :
    /\ pc[w] = "append" /\ job[w].kind = "anchor" => job[w].link = LatestArchiveTail
    /\ pc[w] = "head" /\ job[w].kind = "anchor" => Last(active).link = LatestArchiveTail
    /\ pc[w] = "replace" => Last(active).link = LatestArchiveTail

QuietInv ==
  /\ RepairInv
  /\ crashes = 0 /\ losses = 0 =>
       /\ Outside => VerifyChain
       /\ \A w \in Writers : pc[w] # "idle" => found[w] = "sync"
       /\ Anchored
       /\ AnchorLinks

-----------------------------------------------------------------------------
(* What makes an accepted log complete *)

\* A record that was glued to a half-written line stays in its file for good
Spoilt ==
  \/ \E i \in DOMAIN active : active[i] = Glued
  \/ \E a \in DOMAIN archives : \E i \in DOMAIN archives[a] : archives[a][i] = Glued

\* As long as nothing was truncated, only gluing can cost a record
KeptInv ==
  losses = 0 =>
    \/ Spoilt
    \/ /\ Complete
       /\ \A w \in Writers : pc[w] \in {"head", "leave"} => job[w].id \in Stored

Archived == UNION {{archives[a][i].id : i \in DOMAIN archives[a]} : a \in DOMAIN archives}

\* The archives and the first n lines hold every acknowledged record
Covered(n) == acked \subseteq Archived \cup {active[i].id : i \in 1 .. n}

LinkedTo(n) ==
  \A i \in 1 .. n :
    active[i].prev = IF i = 1 THEN Base ELSE active[i-1].id

\* The checkpoint's tail is where the first n lines end
EndsAt(n) ==
  IF n = 0 THEN head.tail \in {GENESIS, Base} ELSE head.tail = active[n].id

\* The hashes on disk and in the checkpoint are older than those still to come
Older ==
  /\ \A i \in DOMAIN active : Whole(active[i]) /\ Base < active[i].id
  /\ Base < nextId /\ head.tail < nextId
  /\ archives # <<>> => /\ Base # GENESIS
                        /\ TailHash(Last(archives)) = LatestArchiveTail
  /\ archives # <<>> /\ active # <<>> => active[1].prev # GENESIS
  /\ head.count = 0 <=> head.tail = GENESIS

\* Crashes aside, the checkpoint counts every line but the one just appended
Counts == (\A w \in Writers : pc[w] # "head") => Len(active) <= head.count + crashes

Entered(w) ==
  LET j == job[w]
  IN  /\ pc[w] \in {"append", "head"} =>
           /\ head.tail < j.id
           /\ j.repair \/ j.count \in {NoCount, head.count}
      /\ pc[w] = "append" => /\ Base < j.id
                             /\ archives # <<>> => j.prev # GENESIS
      /\ pc[w] = "head" => /\ Len(active) <= head.count + crashes + 1
                           /\ \A i \in 1 .. Len(active) - 1 : active[i].id # j.id
      /\ pc[w] \in {"head", "leave"} => active # <<>> /\ Last(active).id = j.id
      /\ pc[w] = "leave" => head.tail = j.id
      /\ pc[w] = "rehead" => active = <<>>

\* No linked part of the active file that the checkpoint takes for its end,
\* and no linked file one line ahead of it, lacks an acknowledged record
Matched == \A n \in 0 .. Len(active) : LinkedTo(n) /\ EndsAt(n) => Covered(n)
OneMore ==
  head.count > 0 /\ Linked /\ Len(active) = head.count + 1 => Covered(Len(active))

\* Nor does a file that a writer in the middle of an append keeps linked
Owes(w) ==
  /\ pc[w] = "append" /\ Linked /\ job[w].prev = NextPrev => Covered(Len(active))
  /\ pc[w] \in {"head", "replace"} /\ Linked => Covered(Len(active))
  /\ pc[w] = "rehead" => Covered(0)

Gapless == Matched /\ OneMore /\ \A w \in Writers : Owes(w)

TruncatedInv ==
  Keyed /\ torn = 0 =>
    /\ Older /\ Counts
    /\ \A w \in Writers : Entered(w)
    /\ crashes <= 1 /\ Anchored => Gapless

Basics == TypeOK /\ Solo /\ NonEmpty /\ HeadKind /\ Fresh

CompleteInv == Basics /\ KeptInv /\ TruncatedInv
=============================================================================
