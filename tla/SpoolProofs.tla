----------------------------- MODULE SpoolProofs ----------------------------
(***************************************************************************)
(* Proofs about the spool, for every RotateBytes, MaxBytes, set of faults  *)
(* and bound: its types, what it keeps, what a short write costs, and that *)
(* it implements LineStore.                                                *)
(***************************************************************************)
EXTENDS Spool, FiniteSetTheorems, TLAPS

(* The steps of a call, and the environment's, are what SpoolNext is. *)
USE DEF SpoolStep

-----------------------------------------------------------------------------
(* Types. *)

(* The calls that return leave pc and result in their types. *)
LEMMA ReturnTypes ==
    ASSUME SpoolTypeOK, Return \/ ReturnErr
    PROVE  pc' \in Pcs /\ result' \in {"none", "ok", "err"}
BY DEF SpoolTypeOK, Return, ReturnErr, Pcs

(* Appending leaves the active file, the counter and the history in theirs. *)
LEMMA AppendTypes ==
    ASSUME SpoolTypeOK, NEW l \in Line, Appended(l) \/ NotAppended
    PROVE  /\ active' \in [lines : SUBSET Line, len : Nat, torn : BOOLEAN]
           /\ activeSize' \in Nat
           /\ accepted' \subseteq Line
           /\ glued' \subseteq Line
           /\ faults' \in Nat
<1> USE DEF SpoolTypeOK, DirTypeOK, Ok, Fails
<1>1. active.lines \subseteq Line /\ active.len \in Nat
  OBVIOUS
<1>2. faults' \in Nat /\ activeSize' \in Nat
  BY DEF Appended, EndsTorn, NotAppended
<1>3. accepted' \subseteq Line /\ glued' \subseteq Line
  BY DEF Appended, EndsTorn, NotAppended
<1>4. CASE Appended(l)
  <2>1. active' \in [lines : SUBSET Line, len : Nat, torn : BOOLEAN]
    BY <1>1, <1>4 DEF Appended, EndsTorn
  <2> QED
    BY <1>2, <1>3, <2>1
<1>5. CASE NotAppended
  <2>1. CASE UNCHANGED active
    BY <1>2, <1>3, <2>1
  <2>2. CASE active' = [lines |-> active.lines, len |-> active.len + 1,
                        torn |-> TRUE]
    BY <1>1, <1>2, <1>3, <2>2
  <2> QED
    BY <1>5, <2>1, <2>2 DEF NotAppended
<1> QED
  BY <1>4, <1>5

(* A collected envelope and a spool_warning are lines. *)
LEMMA LineTypes ==
    /\ \A n \in Nat : Collected(n) \in Line /\ Warning(n) \in Line
BY DEF Collected, Warning, Line

(* The parts of a segment file, and of the active file, have their types. *)
LEMMA FileTypes ==
    ASSUME SpoolTypeOK, NEW u \in Ulids
    PROVE  /\ dir[u].state \in {"absent", "tmp", "zst", "shipped", "rejected",
                                "evicted"}
           /\ dir[u].recs \subseteq Line
           /\ dir[u].whole \in BOOLEAN
           /\ dir[u].size \in Nat
BY DEF SpoolTypeOK, DirTypeOK, File, Unlinked

(* Renaming, unlinking or filling a segment leaves the directory in its type. *)
LEMMA StateUpdate ==
    ASSUME DirTypeOK, NEW u \in Ulids,
           NEW s \in {"absent", "tmp", "zst"} \cup Unlinked
    PROVE  [dir EXCEPT ![u].state = s] \in [Ulids -> File]
BY DEF DirTypeOK, File

(* So does os.Remove in enforceCap and in the shipper. *)
LEMMA RemovedType ==
    ASSUME DirTypeOK, NEW u \in Ulids, NEW why \in Unlinked
    PROVE  Removed(u, why) \in [Ulids -> File]
BY StateUpdate DEF Removed

(* So does the writing of a segment's content, in rotate. *)
LEMMA FileUpdate ==
    ASSUME DirTypeOK, NEW u \in Ulids, NEW n \in Nat, NEW ls \in SUBSET Line
    PROVE  [dir EXCEPT ![u] = [@ EXCEPT !.recs = ls, !.whole = TRUE,
                                        !.size = n]] \in [Ulids -> File]
<1>1. dir[u] \in File
  BY DEF DirTypeOK
<1>2. [dir[u] EXCEPT !.recs = ls, !.whole = TRUE, !.size = n] \in File
  BY <1>1 DEF File
<1> QED
  BY <1>2 DEF DirTypeOK

(* So does the removal of leftover temporary files, in Open. *)
LEMMA TmpsRemoved ==
    ASSUME DirTypeOK, NEW gone
    PROVE  WithoutTmps(gone) \in [Ulids -> File]
BY DEF DirTypeOK, WithoutTmps, NoFile, File

(* Every step of the spool, of the shipper and of the process preserves the *)
(* types. *)
LEMMA TypeInductive ==
    ASSUME SpoolTypeOK, [SpoolNext]_svars
    PROVE  SpoolTypeOK'
<1>1. CASE Open
  <2>1. dir' \in [Ulids -> File]
    BY <1>1, TmpsRemoved DEF Open, SpoolTypeOK
  <2> QED
    BY <1>1, <2>1 DEF Open, Ok, Fails, SpoolTypeOK, DirTypeOK, Pcs
<1>2. CASE BeginWrite
  BY <1>2, LineTypes DEF BeginWrite, SpoolTypeOK, DirTypeOK, Pcs
<1>3. CASE BeginClose
  BY <1>3 DEF BeginClose, SpoolTypeOK, DirTypeOK, Pcs, envVars
<1>4. CASE Append
  <2>1. arg \in Line
    BY DEF SpoolTypeOK
  <2> QED
    BY <1>4, <2>1, AppendTypes
       DEF Append, SpoolTypeOK, DirTypeOK, Pcs
<1>5. CASE Seal
  BY <1>5, ReturnTypes DEF Seal, Ok, Fails, SpoolTypeOK, DirTypeOK, Pcs
<1>6. CASE Create
  <2>1. nextUlid \in Ulids /\ nextUlid + 1 \in 1 .. (MaxSegs + 1)
    BY <1>6, SpoolDirAssumption DEF Create, SpoolTypeOK, Ulids
  <2>2. dir' \in [Ulids -> File]
    BY <1>6, <2>1, StateUpdate DEF Create, NewName, SpoolTypeOK, DirTypeOK
  <2> QED
    BY <1>6, <2>1, <2>2, ReturnTypes
       DEF Create, Ok, Fails, SpoolTypeOK, DirTypeOK, Pcs
<1>7. CASE Compress
  <2>1. dir' \in [Ulids -> File]
    <3>1. CASE UNCHANGED dir
      BY <3>1 DEF SpoolTypeOK, DirTypeOK
    <3>2. CASE cur = 0
      BY <1>7, <3>2 DEF Compress, SpoolTypeOK, DirTypeOK, Ulids
    <3>3. ASSUME cur \in Ulids, NEW n \in SegSizes,
                 dir' = [dir EXCEPT ![cur] = [@ EXCEPT !.recs = active.lines,
                                                       !.whole = TRUE,
                                                       !.size = n]]
          PROVE  dir' \in [Ulids -> File]
      BY <3>3, FileUpdate, SpoolDirAssumption DEF SpoolTypeOK
    <3> QED
      BY <1>7, <3>1, <3>2, <3>3 DEF Compress, SpoolTypeOK
  <2>2. /\ pc' \in Pcs
        /\ result' \in {"none", "ok", "err"}
        /\ faults' \in Nat
    <3>1. CASE Fails("compress") /\ ReturnErr
      BY <3>1, ReturnTypes DEF Fails, SpoolTypeOK, DirTypeOK
    <3>2. CASE Ok /\ pc' = "publish" /\ UNCHANGED result
      BY <3>2 DEF Ok, SpoolTypeOK, DirTypeOK, Pcs
    <3> QED
      BY <1>7, <3>1, <3>2 DEF Compress
  <2>3. UNCHANGED <<active, handle, activeSize, cont, arg, cur, listed, todo,
                    total, nextUlid, nextRec, accepted, glued, starts>>
    BY <1>7 DEF Compress
  <2> QED
    BY <2>1, <2>2, <2>3 DEF SpoolTypeOK, DirTypeOK
<1>8. CASE Publish
  <2>1. dir' \in [Ulids -> File]
    <3>1. CASE cur = 0
      BY <1>8, <3>1 DEF Publish, RenameFails, SpoolTypeOK, DirTypeOK, Ulids
    <3>2. CASE cur \in Ulids
      BY <1>8, <3>2, StateUpdate
         DEF Publish, RenameFails, SpoolTypeOK, DirTypeOK
    <3> QED
      BY <3>1, <3>2 DEF SpoolTypeOK
  <2> QED
    BY <1>8, <2>1, ReturnTypes
       DEF Publish, RenameFails, Ok, Fails, SpoolTypeOK, DirTypeOK, Pcs
<1>9. CASE Reopen
  <2>1. Empty \in [lines : SUBSET Line, len : Nat, torn : BOOLEAN]
    BY DEF Empty
  <2> QED
    BY <1>9, <2>1, ReturnTypes
       DEF Reopen, Truncated, Ok, Fails, SpoolTypeOK, DirTypeOK, Pcs
<1>10. CASE CapList
  BY <1>10, ReturnTypes
     DEF CapList, Segments, Ok, Fails, SpoolTypeOK, DirTypeOK, Pcs
<1>11. CASE CapStat
  BY <1>11, ReturnTypes, FileTypes
     DEF CapStat, AddSize, Ok, Fails, SpoolTypeOK, DirTypeOK, Pcs
<1>12. CASE CapCompare
  BY <1>12, ReturnTypes DEF CapCompare, SpoolTypeOK, DirTypeOK, Pcs, envVars
<1>13. CASE CapRemove
  <2>1. dir' \in [Ulids -> File]
    <3>1. DirTypeOK /\ "evicted" \in Unlinked
      BY DEF SpoolTypeOK, Unlinked
    <3>2. CASE UNCHANGED dir
      BY <3>1, <3>2 DEF DirTypeOK
    <3>3. CASE \E u \in Ulids : dir' = Removed(u, "evicted")
      BY <3>1, <3>3, RemovedType
    <3> QED
      BY <1>13, <3>2, <3>3 DEF CapRemove
  <2> QED
    BY <1>13, <2>1, ReturnTypes
       DEF CapRemove, RelistVanished, Ok, Fails, SpoolTypeOK, DirTypeOK, Pcs
<1>14. CASE CapWarn
  <2>1. Warning(cur) \in Line
    BY LineTypes, SpoolDirAssumption DEF SpoolTypeOK, Ulids
  <2> QED
    BY <1>14, <2>1, AppendTypes, ReturnTypes
       DEF CapWarn, SpoolTypeOK, DirTypeOK, Pcs
<1>15. CASE CloseFile
  BY <1>15 DEF CloseFile, Ok, Fails, SpoolTypeOK, DirTypeOK, Pcs
<1>16. CASE Crash
  BY <1>16, LineTypes DEF Crash, SpoolTypeOK, DirTypeOK, Pcs, envVars
<1>17. CASE ShipperRemoves
  <2>1. dir' \in [Ulids -> File]
    <3>1. DirTypeOK /\ {"shipped", "rejected"} \subseteq Unlinked
      BY DEF SpoolTypeOK, Unlinked
    <3>2. PICK u \in Ulids, why \in Unlinked : dir' = Removed(u, why)
      BY <1>17, <3>1 DEF ShipperRemoves, Segments
    <3> QED
      BY <3>1, <3>2, RemovedType
  <2> QED
    BY <1>17, <2>1
       DEF ShipperRemoves, SpoolTypeOK, DirTypeOK, spoolVars, memVars, envVars
<1>18. CASE UNCHANGED svars
  BY <1>18
     DEF svars, dirVars, spoolVars, memVars, envVars, SpoolTypeOK, DirTypeOK
<1> QED
  BY <1>1, <1>2, <1>3, <1>4, <1>5, <1>6, <1>7, <1>8, <1>9, <1>10, <1>11,
     <1>12, <1>13, <1>14, <1>15, <1>16, <1>17, <1>18 DEF SpoolNext

(***************************************************************************)
(* The type invariant of the spool holds in every behaviour: in particular *)
(* the counters of enforceCap never go below zero, and no ULID beyond the  *)
(* bound is drawn.                                                         *)
(***************************************************************************)
THEOREM TypeCorrect == SpoolSpec => []SpoolTypeOK
<1>1. SpoolInit => SpoolTypeOK
  BY SpoolDirAssumption, LineTypes
     DEF SpoolInit, DirInit, MemInit, SpoolTypeOK, DirTypeOK, File, NoFile,
         Empty, Pcs, Ulids, Unlinked
<1>2. SpoolTypeOK /\ [SpoolNext]_svars => SpoolTypeOK'
  BY TypeInductive
<1> QED
  BY <1>1, <1>2, PTL DEF SpoolSpec

-----------------------------------------------------------------------------
(* Nothing is lost. *)

(***************************************************************************)
(* NoLoss is not inductive: that rotate may truncate the active file rests *)
(* on the segment it has just published being complete, which rests on the *)
(* temporary file having been filled from the same lines, under a name     *)
(* that no one else touches.                                               *)
(***************************************************************************)
RotationInv ==
    /\ \A u \in Ulids : nextUlid <= u => dir[u].state = "absent"
    /\ pc \in {"compress", "publish", "reopen"} => cur \in Ulids
    /\ pc \in {"compress", "publish"} => dir[cur].state = "tmp"
    /\ pc = "publish" => dir[cur].whole /\ dir[cur].recs = active.lines
    /\ pc = "reopen" => Published(cur) /\ dir[cur].recs = active.lines

LossInv == SpoolTypeOK /\ RotationInv /\ WholeSegments /\ NoLoss

(* A published segment stays published, with what it holds. *)
Keeps == \A u \in Ulids : Published(u) => /\ Published(u)'
                                          /\ dir'[u].recs = dir[u].recs
                                          /\ dir'[u].whole = dir[u].whole

(* A step loses no line when the active file keeps or gains lines, or... *)
LEMMA KeptInActive ==
    ASSUME NoLoss, Keeps, active.lines \subseteq active'.lines,
           accepted' \ glued' \subseteq (accepted \ glued) \cup active'.lines
    PROVE  NoLoss'
BY DEF NoLoss, Keeps

(* ...the active file is truncated once its lines are in a segment. *)
LEMMA KeptInSegment ==
    ASSUME NoLoss, Keeps, NEW u \in Ulids, Published(u)',
           active.lines \subseteq dir'[u].recs,
           accepted' \ glued' \subseteq accepted \ glued
    PROVE  NoLoss'
BY DEF NoLoss, Keeps

(* A step that leaves the directory alone keeps every published segment. *)
LEMMA QuietKeeps ==
    ASSUME UNCHANGED dir
    PROVE  Keeps /\ (WholeSegments => WholeSegments')
BY DEF Keeps, Published, WholeSegments

(* What appending does to the lines. *)
LEMMA AppendKeeps ==
    ASSUME SpoolTypeOK, NEW l \in Line, Appended(l) \/ NotAppended
    PROVE  /\ active.lines \subseteq active'.lines
           /\ accepted' \ glued' \subseteq (accepted \ glued) \cup active'.lines
BY DEF Appended, EndsTorn, NotAppended, SpoolTypeOK

(* A caller goes back to a step outside the rotation. *)
LEMMA ReturnLeaves ==
    ASSUME SpoolTypeOK, Return \/ ReturnErr
    PROVE  pc' \notin {"compress", "publish", "reopen"}
BY DEF SpoolTypeOK, Return, ReturnErr

(* Changing only the name of a file, from and to a published one. *)
LEMMA UnlinkKeeps ==
    ASSUME SpoolTypeOK, NEW u \in Segments, NEW why \in Unlinked,
           dir' = Removed(u, why)
    PROVE  /\ Keeps
           /\ WholeSegments => WholeSegments'
           /\ \A v \in Ulids : /\ dir[v].state \in {"absent", "tmp"}
                                    => dir'[v] = dir[v]
                               /\ dir'[v].recs = dir[v].recs
<1>1. u \in Ulids /\ dir[u].state = "zst"
  BY DEF Segments
<1>2. \A v \in Ulids : v # u => dir'[v] = dir[v]
  BY DEF Removed, SpoolTypeOK, DirTypeOK
<1>3. /\ dir'[u].state = why
      /\ dir'[u].recs = dir[u].recs
      /\ dir'[u].whole = dir[u].whole
  BY <1>1, FileTypes DEF Removed, SpoolTypeOK, DirTypeOK, File
<1> QED
  BY <1>1, <1>2, <1>3 DEF Keeps, Published, WholeSegments, Unlinked

(***************************************************************************)
(* The inductive step: every action of the spool, of the shipper and of    *)
(* the process preserves the inductive invariant.                          *)
(***************************************************************************)
LEMMA LossInductive ==
    ASSUME LossInv, SpoolTypeOK', [SpoolNext]_svars
    PROVE  LossInv'
<1> USE DEF LossInv
<1>1. CASE Open
  <2>1. Keeps
    BY <1>1 DEF Open, WithoutTmps, Tmps, Keeps, Published, Unlinked
  <2>2. WholeSegments'
    BY <1>1 DEF Open, WithoutTmps, Tmps, NoFile, WholeSegments, Published,
                Unlinked
  <2>3. NoLoss'
    BY <1>1, <2>1, KeptInActive DEF Open
  <2>4. RotationInv'
    BY <1>1 DEF Open, WithoutTmps, NoFile, RotationInv
  <2> QED
    BY <2>2, <2>3, <2>4
<1>2. CASE BeginWrite \/ BeginClose
  <2>1. UNCHANGED <<dir, active, accepted, glued, nextUlid>>
    BY <1>2 DEF BeginWrite, BeginClose, envVars
  <2>2. RotationInv'
    BY <1>2, <2>1 DEF BeginWrite, BeginClose, RotationInv
  <2> QED
    BY <2>1, <2>2, QuietKeeps, KeptInActive
<1>3. CASE Append
  <2>1. arg \in Line /\ UNCHANGED <<dir, nextUlid>>
    BY <1>3 DEF Append, SpoolTypeOK
  <2>2. NoLoss'
    BY <1>3, <2>1, AppendKeeps, QuietKeeps, KeptInActive DEF Append
  <2>3. pc' \in {"seal", "idle"}
    BY <1>3 DEF Append
  <2>4. RotationInv'
    BY <2>1, <2>3 DEF RotationInv
  <2> QED
    BY <2>1, <2>2, <2>4, QuietKeeps
<1>4. CASE Seal
  <2>1. UNCHANGED <<dir, active, accepted, glued, nextUlid>>
    BY <1>4 DEF Seal
  <2>2. pc' \notin {"compress", "publish", "reopen"}
    BY <1>4, ReturnLeaves DEF Seal
  <2>3. RotationInv'
    BY <2>1, <2>2 DEF RotationInv
  <2> QED
    BY <2>1, <2>3, QuietKeeps, KeptInActive
<1>5. CASE Create
  <2>1. /\ nextUlid \in Ulids
        /\ dir[nextUlid].state = "absent"
        /\ UNCHANGED <<active, accepted, glued>>
    BY <1>5, SpoolDirAssumption DEF Create, SpoolTypeOK, Ulids, RotationInv
  <2>2. \A v \in Ulids : v # nextUlid => dir'[v] = dir[v]
    BY <1>5, <2>1 DEF Create, SpoolTypeOK, DirTypeOK
  <2>3. dir'[nextUlid].state \in {"absent", "tmp"}
    BY <1>5, <2>1, FileTypes
       DEF Create, NewName, SpoolTypeOK, DirTypeOK, File
  <2>4. Keeps /\ WholeSegments'
    BY <2>1, <2>2, <2>3 DEF Keeps, WholeSegments, Published, Unlinked
  <2>5. RotationInv'
    <3>1. \A u \in Ulids : nextUlid' <= u => dir'[u].state = "absent"
      BY <1>5, <2>1, <2>2
         DEF Create, RotationInv, SpoolTypeOK, Ulids
    <3>2. CASE Ok /\ dir' = [dir EXCEPT ![nextUlid].state = NewName]
                  /\ cur' = nextUlid /\ pc' = "compress"
      <4>1. dir'[nextUlid].state = "tmp"
        BY <2>1, <3>2, FileTypes DEF NewName, SpoolTypeOK, DirTypeOK, File
      <4> QED
        BY <2>1, <3>1, <3>2, <4>1 DEF RotationInv
    <3>3. CASE ReturnErr
      BY <3>1, <3>3, ReturnLeaves DEF RotationInv
    <3> QED
      BY <1>5, <3>2, <3>3 DEF Create
  <2> QED
    BY <2>1, <2>4, <2>5, KeptInActive
<1>6. CASE Compress
  <2>1. /\ cur \in Ulids
        /\ dir[cur].state = "tmp"
        /\ UNCHANGED <<active, cur, accepted, glued, nextUlid>>
    BY <1>6 DEF Compress, RotationInv
  <2>2. CASE Fails("compress") /\ ReturnErr /\ UNCHANGED dir
    BY <2>1, <2>2, ReturnLeaves, QuietKeeps, KeptInActive DEF RotationInv
  <2>3. ASSUME NEW n \in SegSizes, pc' = "publish",
               dir' = [dir EXCEPT ![cur] = [@ EXCEPT !.recs = active.lines,
                                                     !.whole = TRUE,
                                                     !.size = n]]
        PROVE  LossInv'
    <3>1. \A v \in Ulids : v # cur => dir'[v] = dir[v]
      BY <2>1, <2>3 DEF SpoolTypeOK, DirTypeOK
    <3>2. /\ dir'[cur].state = "tmp"
          /\ dir'[cur].whole
          /\ dir'[cur].recs = active.lines
      BY <2>1, <2>3 DEF SpoolTypeOK, DirTypeOK, File
    <3>3. Keeps /\ WholeSegments'
      BY <2>1, <3>1, <3>2 DEF Keeps, WholeSegments, Published, Unlinked
    <3>4. RotationInv'
      BY <2>1, <2>3, <3>1, <3>2 DEF RotationInv
    <3> QED
      BY <2>1, <3>3, <3>4, KeptInActive
  <2> QED
    BY <1>6, <2>2, <2>3 DEF Compress
<1>7. CASE Publish
  <2>1. /\ cur \in Ulids
        /\ dir[cur].state = "tmp"
        /\ dir[cur].whole
        /\ dir[cur].recs = active.lines
        /\ UNCHANGED <<active, cur, accepted, glued, nextUlid>>
    BY <1>7 DEF Publish, RotationInv
  <2>2. CASE RenameFails
    BY <2>1, <2>2, ReturnLeaves, QuietKeeps, KeptInActive
       DEF RenameFails, RotationInv
  <2>3. CASE pc' = "reopen" /\ dir' = [dir EXCEPT ![cur].state = "zst"]
    <3>1. \A v \in Ulids : v # cur => dir'[v] = dir[v]
      BY <2>1, <2>3 DEF SpoolTypeOK, DirTypeOK
    <3>2. /\ dir'[cur].state = "zst"
          /\ dir'[cur].whole
          /\ dir'[cur].recs = active.lines
      BY <2>1, <2>3 DEF SpoolTypeOK, DirTypeOK, File
    <3>3. Keeps /\ WholeSegments'
      BY <2>1, <3>1, <3>2 DEF Keeps, WholeSegments, Published, Unlinked
    <3>4. RotationInv'
      BY <2>1, <2>3, <3>1, <3>2 DEF RotationInv, Published
    <3> QED
      BY <2>1, <3>3, <3>4, KeptInActive
  <2> QED
    BY <1>7, <2>2, <2>3 DEF Publish
<1>8. CASE Reopen
  <2>1. /\ cur \in Ulids
        /\ Published(cur)
        /\ dir[cur].recs = active.lines
        /\ UNCHANGED <<dir, cur, accepted, glued, nextUlid>>
    BY <1>8 DEF Reopen, RotationInv
  <2>2. NoLoss'
    BY <2>1, QuietKeeps, KeptInSegment DEF Published
  <2>3. pc' \notin {"compress", "publish", "reopen"}
    BY <1>8, ReturnLeaves DEF Reopen
  <2>4. RotationInv'
    BY <2>1, <2>3 DEF RotationInv
  <2> QED
    BY <2>1, <2>2, <2>4, QuietKeeps
<1>9. CASE CapList \/ CapStat \/ CapCompare
  <2>1. UNCHANGED <<dir, active, accepted, glued, nextUlid>>
    BY <1>9 DEF CapList, CapStat, CapCompare, envVars
  <2>2. pc' \notin {"compress", "publish", "reopen"}
    BY <1>9, ReturnLeaves DEF CapList, CapStat, CapCompare
  <2>3. RotationInv'
    BY <2>1, <2>2 DEF RotationInv
  <2> QED
    BY <2>1, <2>3, QuietKeeps, KeptInActive
<1>10. CASE CapRemove
  <2>1. UNCHANGED <<active, accepted, glued, nextUlid>>
    BY <1>10 DEF CapRemove
  <2>2. pc' \notin {"compress", "publish", "reopen"}
    BY <1>10, ReturnLeaves DEF CapRemove, RelistVanished
  <2>3. CASE UNCHANGED dir
    BY <2>1, <2>2, <2>3, QuietKeeps, KeptInActive DEF RotationInv
  <2>4. CASE \E u \in Segments : dir' = Removed(u, "evicted")
    <3>1. "evicted" \in Unlinked
      BY DEF Unlinked
    <3>2. /\ Keeps
          /\ WholeSegments'
          /\ \A v \in Ulids : dir[v].state \in {"absent", "tmp"}
                                 => dir'[v] = dir[v]
      BY <2>4, <3>1, UnlinkKeeps
    <3>3. RotationInv'
      BY <2>1, <2>2, <3>2 DEF RotationInv
    <3> QED
      BY <2>1, <3>2, <3>3, KeptInActive
  <2> QED
    BY <1>10, <2>3, <2>4 DEF CapRemove
<1>11. CASE CapWarn
  <2>1. Warning(cur) \in Line /\ UNCHANGED <<dir, nextUlid>>
    BY <1>11, LineTypes, SpoolDirAssumption DEF CapWarn, SpoolTypeOK, Ulids
  <2>2. NoLoss'
    BY <1>11, <2>1, AppendKeeps, QuietKeeps, KeptInActive DEF CapWarn
  <2>3. pc' \notin {"compress", "publish", "reopen"}
    BY <1>11, ReturnLeaves DEF CapWarn
  <2>4. RotationInv'
    BY <2>1, <2>3 DEF RotationInv
  <2> QED
    BY <2>1, <2>2, <2>4, QuietKeeps
<1>12. CASE CloseFile \/ Crash
  <2>1. UNCHANGED <<dir, active, accepted, glued, nextUlid>>
    BY <1>12 DEF CloseFile, Crash, envVars
  <2>2. RotationInv'
    BY <1>12, <2>1 DEF CloseFile, Crash, RotationInv
  <2> QED
    BY <2>1, <2>2, QuietKeeps, KeptInActive
<1>13. CASE ShipperRemoves
  <2>1. UNCHANGED <<active, accepted, glued, nextUlid, pc, cur>>
    BY <1>13 DEF ShipperRemoves, spoolVars, memVars, envVars
  <2>2. {"shipped", "rejected"} \subseteq Unlinked
    BY DEF Unlinked
  <2>3. /\ Keeps
        /\ WholeSegments'
        /\ \A v \in Ulids : /\ dir[v].state \in {"absent", "tmp"}
                                 => dir'[v] = dir[v]
                            /\ dir'[v].recs = dir[v].recs
    BY <1>13, <2>2, UnlinkKeeps DEF ShipperRemoves
  <2>4. RotationInv'
    BY <2>1, <2>3 DEF RotationInv, Keeps
  <2> QED
    BY <2>1, <2>3, <2>4, KeptInActive
<1>14. CASE UNCHANGED svars
  <2>1. UNCHANGED <<dir, active, accepted, glued, nextUlid, pc, cur>>
    BY <1>14 DEF svars, dirVars, spoolVars, memVars, envVars
  <2>2. RotationInv'
    BY <2>1 DEF RotationInv, Published
  <2> QED
    BY <2>1, <2>2, QuietKeeps, KeptInActive
<1> QED
  BY <1>1, <1>2, <1>3, <1>4, <1>5, <1>6, <1>7, <1>8, <1>9, <1>10, <1>11,
     <1>12, <1>13, <1>14 DEF SpoolNext

(* The invariant holds on an empty directory. *)
LEMMA LossBegins ==
    ASSUME SpoolInit
    PROVE  LossInv
<1>1. SpoolTypeOK
  BY SpoolDirAssumption, LineTypes
     DEF SpoolInit, DirInit, MemInit, SpoolTypeOK, DirTypeOK, File, NoFile,
         Empty, Pcs, Ulids, Unlinked
<1>2. RotationInv /\ WholeSegments /\ NoLoss
  BY DEF SpoolInit, DirInit, MemInit, NoFile, RotationInv, WholeSegments,
         NoLoss, Published, Unlinked
<1> QED
  BY <1>1, <1>2 DEF LossInv

(* LossInv is invariant. *)
LEMMA LossInvariant == SpoolSpec => []LossInv
<1>1. SpoolInit => LossInv
  BY LossBegins
<1>2. LossInv /\ SpoolTypeOK' /\ [SpoolNext]_svars => LossInv'
  BY LossInductive
<1> QED
  BY <1>1, <1>2, TypeCorrect, PTL DEF SpoolSpec

(***************************************************************************)
(* Once Write has taken a line it is in the active file or in a segment    *)
(* that was published, whatever fails, whenever the process dies, and      *)
(* whatever the shipper removes meanwhile.                                 *)
(***************************************************************************)
THEOREM NothingIsLost == SpoolSpec => []NoLoss
<1>1. LossInv => NoLoss
  BY DEF LossInv
<1> QED
  BY <1>1, LossInvariant, PTL

(***************************************************************************)
(* A file that Segments lists is a complete zstd stream at every moment:   *)
(* rotate gives a segment its final name only when all of it was written,  *)
(* and a rotation that fails or dies leaves a file that is not listed.     *)
(***************************************************************************)
THEOREM SegmentsAreWhole == SpoolSpec => []WholeSegments
<1>1. LossInv => WholeSegments
  BY DEF LossInv
<1> QED
  BY <1>1, LossInvariant, PTL

-----------------------------------------------------------------------------
(* Torn lines. *)

(* The lines that a short write has spoiled, and the one it may spoil yet. *)
TornInv == IsFiniteSet(glued) /\ OneLinePerShortWrite

(* Appending: a torn line takes one with it, and a short write has failed. *)
LEMMA AppendSpoils ==
    ASSUME SpoolTypeOK, TornInv, NEW l, Appended(l) \/ NotAppended
    PROVE  TornInv'
<1>1. /\ faults \in Nat
      /\ active.torn \in BOOLEAN
      /\ Cardinality(glued) \in Nat
  BY FS_CardinalityType DEF SpoolTypeOK, DirTypeOK, TornInv
<1>2. CASE Appended(l) /\ active.torn
  <2>1. /\ glued' = glued \cup {l}
        /\ active'.torn = FALSE
        /\ faults' = faults
    BY <1>2 DEF Appended, EndsTorn, Ok
  <2>2. /\ IsFiniteSet(glued')
        /\ Cardinality(glued') <= Cardinality(glued) + 1
    BY <1>1, <2>1, FS_AddElement DEF TornInv
  <2>3. Cardinality(glued') \in Nat
    BY <2>2, FS_CardinalityType
  <2> QED
    BY <1>1, <1>2, <2>1, <2>2, <2>3 DEF TornInv, OneLinePerShortWrite
<1>3. CASE Appended(l) /\ ~active.torn
  BY <1>1, <1>3 DEF Appended, EndsTorn, Ok, TornInv, OneLinePerShortWrite
<1>4. CASE NotAppended
  BY <1>1, <1>4 DEF NotAppended, Ok, Fails, TornInv, OneLinePerShortWrite
<1> QED
  BY <1>2, <1>3, <1>4

(* Every other step keeps the active file, or truncates it. *)
LEMMA OthersSpoilNothing ==
    ASSUME SpoolTypeOK, TornInv,
           glued' = glued, active' \in {active, Empty},
           faults' \in {faults, faults + 1}
    PROVE  TornInv'
<1>1. faults \in Nat /\ Cardinality(glued) \in Nat
  BY FS_CardinalityType DEF SpoolTypeOK, DirTypeOK, TornInv
<1>2. active'.torn => active.torn
  BY DEF Empty
<1> QED
  BY <1>1, <1>2 DEF TornInv, OneLinePerShortWrite

(* No step spoils a second line. *)
LEMMA TornInductive ==
    ASSUME SpoolTypeOK, TornInv, [SpoolNext]_svars
    PROVE  TornInv'
<1>1. CASE Append
  BY <1>1, AppendSpoils DEF Append
<1>2. CASE CapWarn
  BY <1>2, AppendSpoils DEF CapWarn
<1>3. ASSUME ~Append, ~CapWarn
      PROVE  /\ glued' = glued
             /\ active' \in {active, Empty}
             /\ faults' \in {faults, faults + 1}
  <2> USE DEF Ok, Fails
  <2>1. CASE Open
    BY <2>1 DEF Open
  <2>2. CASE BeginWrite \/ BeginClose \/ CapCompare \/ Crash
    BY <2>2 DEF BeginWrite, BeginClose, CapCompare, Crash, envVars
  <2>3. CASE Seal \/ Create \/ Compress \/ Publish
    BY <2>3 DEF Seal, Create, Compress, Publish, RenameFails
  <2>4. CASE Reopen
    BY <2>4 DEF Reopen, Truncated
  <2>5. CASE CapList \/ CapStat \/ CapRemove \/ CloseFile
    BY <2>5 DEF CapList, CapStat, CapRemove, CloseFile
  <2>6. CASE ShipperRemoves
    BY <2>6 DEF ShipperRemoves, spoolVars, envVars
  <2>7. CASE UNCHANGED svars
    BY <2>7 DEF svars, dirVars, spoolVars, envVars
  <2> QED
    BY <1>3, <2>1, <2>2, <2>3, <2>4, <2>5, <2>6, <2>7 DEF SpoolNext
<1> QED
  BY <1>1, <1>2, <1>3, OthersSpoilNothing

(***************************************************************************)
(* However often the disk fills up in the middle of a line, and however    *)
(* often the process dies: each such failure costs at most one of the      *)
(* lines that Write took after it.                                         *)
(***************************************************************************)
THEOREM ShortWritesSpoilOne == SpoolSpec => []OneLinePerShortWrite
<1>1. SpoolInit => TornInv
  BY FS_EmptySet DEF SpoolInit, DirInit, Empty, TornInv, OneLinePerShortWrite
<1>2. SpoolTypeOK /\ TornInv /\ [SpoolNext]_svars => TornInv'
  BY TornInductive
<1>3. TornInv => OneLinePerShortWrite
  BY DEF TornInv
<1> QED
  BY <1>1, <1>2, <1>3, TypeCorrect, PTL DEF SpoolSpec

-----------------------------------------------------------------------------
(***************************************************************************)
(* The proof that the spool implements LineStore.  It rests on the         *)
(* invariant behind NoLoss, and on a second one: the line that a step is   *)
(* about to append is a new one.                                           *)
(***************************************************************************)

(* The steps from the first of rotate to the last of enforceCap. *)
Rotating == {"seal", "create", "compress", "publish", "reopen", "capList",
             "capStat", "capRemove", "capWarn"}

(* Some file, temporary or unlinked ones included, has or had the line. *)
HasLine(l) == l \in active.lines \/ \E u \in Ulids : l \in dir[u].recs

(* Write has an envelope that it has not yet appended. *)
ToAppend == pc = "append" \/ (cont = "append" /\ pc \in Rotating)

(***************************************************************************)
(* Envelopes are numbered, and the one Write is working on has the last    *)
(* number and is in no file, however many steps of an age rotation come    *)
(* before its append.  A warning is about a segment that was evicted, and  *)
(* the one about to be written is not written yet.                         *)
(***************************************************************************)
CollectedBelow == \A n \in Nat : HasLine(Collected(n)) => n < nextRec

ArgIsNew == ToAppend => arg = Collected(nextRec - 1) /\ ~HasLine(arg)

WarnsOfEvicted ==
    \A u \in Ulids : HasLine(Warning(u)) => dir[u].state = "evicted"

WarningIsNew == pc = "capWarn" => /\ cur \in Ulids
                                  /\ dir[cur].state = "evicted"
                                  /\ ~HasLine(Warning(cur))

FreshInv == /\ nextRec > 0
            /\ CollectedBelow
            /\ ArgIsNew
            /\ WarnsOfEvicted
            /\ WarningIsNew

-----------------------------------------------------------------------------
(* The invariant. *)

(* A step adds no line, and an evicted segment stays so. *)
NoNewLine == /\ \A l \in Line : HasLine(l)' => HasLine(l)
             /\ \A u \in Ulids : dir[u].state = "evicted" =>
                                 dir'[u].state = "evicted"

(* The lines that matter are of two kinds. *)
LEMMA UlidLines ==
    ASSUME NEW u \in Ulids
    PROVE  u \in Nat /\ Warning(u) \in Line
BY SpoolDirAssumption DEF Ulids, Warning, Line

(* A step that adds no line, takes no envelope and begins no warning. *)
LEMMA FreshKept ==
    ASSUME SpoolTypeOK, SpoolTypeOK', FreshInv, NoNewLine,
           UNCHANGED nextRec,
           ToAppend' => ToAppend /\ UNCHANGED arg,
           pc' = "capWarn" => pc = "capWarn" /\ UNCHANGED cur
    PROVE  FreshInv'
<1>1. nextRec' > 0 /\ CollectedBelow'
  BY LineTypes DEF FreshInv, CollectedBelow, NoNewLine
<1>2. ArgIsNew'
  BY DEF FreshInv, ArgIsNew, NoNewLine, SpoolTypeOK
<1>3. WarnsOfEvicted'
  BY UlidLines DEF FreshInv, WarnsOfEvicted, NoNewLine
<1>4. WarningIsNew'
  BY UlidLines DEF FreshInv, WarningIsNew, NoNewLine
<1> QED
  BY <1>1, <1>2, <1>3, <1>4 DEF FreshInv

(* A step that changes no file adds no line. *)
LEMMA QuietAddsNone ==
    ASSUME UNCHANGED <<dir, active>>
    PROVE  NoNewLine
BY DEF NoNewLine, HasLine

(* Nor does one that changes the name, but not the content, of one file. *)
LEMMA RenameAddsNone ==
    ASSUME SpoolTypeOK, NEW u \in Ulids, dir[u].state # "evicted",
           NEW s, dir' = [dir EXCEPT ![u].state = s], UNCHANGED active
    PROVE  NoNewLine /\ dir'[u].state = s
<1>1. dir[u] \in File
  BY DEF SpoolTypeOK, DirTypeOK
<1>2. dir'[u].state = s /\ dir'[u].recs = dir[u].recs
  BY <1>1 DEF SpoolTypeOK, DirTypeOK, File
<1>3. \A v \in Ulids : v # u => dir'[v] = dir[v]
  BY DEF SpoolTypeOK, DirTypeOK
<1> QED
  BY <1>2, <1>3 DEF NoNewLine, HasLine

(* Appending adds the one line, or none. *)
LEMMA AppendAdds ==
    ASSUME SpoolTypeOK, NEW l \in Line, Appended(l) \/ NotAppended,
           UNCHANGED dir
    PROVE  /\ \A k \in Line : HasLine(k)' => HasLine(k) \/ k = l
           /\ NotAppended => NoNewLine
BY DEF Appended, EndsTorn, NotAppended, HasLine, NoNewLine, SpoolTypeOK

(* A caller that rotate returns to. *)
LEMMA ReturnsTo ==
    ASSUME SpoolTypeOK, UNCHANGED cont
    PROVE  /\ Return /\ pc \in Rotating => /\ pc' \notin Rotating
                                           /\ ToAppend' => ToAppend
           /\ ReturnErr => pc' \notin Rotating /\ ~ToAppend'
BY DEF Return, ReturnErr, ToAppend, Rotating, SpoolTypeOK

(***************************************************************************)
(* The inductive step: every action keeps the lines to come new.           *)
(***************************************************************************)
LEMMA FreshInductive ==
    ASSUME LossInv, FreshInv, SpoolTypeOK', [SpoolNext]_svars
    PROVE  FreshInv'
<1>0. SpoolTypeOK /\ RotationInv
  BY DEF LossInv
<1>1. CASE Open
  <2>1. NoNewLine
    BY <1>1 DEF Open, WithoutTmps, Tmps, NoFile, NoNewLine, HasLine
  <2>2. pc' \in {"idle", "down"} /\ UNCHANGED nextRec
    BY <1>1 DEF Open
  <2> QED
    BY <1>0, <2>1, <2>2, FreshKept DEF ToAppend, Rotating
<1>2. CASE BeginWrite
  <2>1. /\ UNCHANGED <<dir, active>>
        /\ arg' = Collected(nextRec)
        /\ nextRec' = nextRec + 1
        /\ pc' \in {"append", "seal"}
        /\ nextRec \in Nat
    BY <1>0, <1>2 DEF BeginWrite, SpoolTypeOK
  <2>2. ~HasLine(Collected(nextRec))
    BY <2>1 DEF FreshInv, CollectedBelow
  <2>3. nextRec' > 0 /\ CollectedBelow'
    BY <2>1 DEF FreshInv, CollectedBelow, HasLine
  <2>4. ArgIsNew'
    <3>1. nextRec' - 1 = nextRec
      BY <2>1
    <3> QED
      BY <2>1, <2>2, <3>1 DEF ArgIsNew, HasLine
  <2>5. WarnsOfEvicted' /\ WarningIsNew'
    BY <2>1 DEF FreshInv, WarnsOfEvicted, WarningIsNew, HasLine
  <2> QED
    BY <2>3, <2>4, <2>5 DEF FreshInv
<1>3. CASE BeginClose \/ CloseFile \/ Crash
  <2>1. UNCHANGED <<dir, active, nextRec>>
    BY <1>3 DEF BeginClose, CloseFile, Crash, envVars
  <2>2. ~ToAppend' /\ pc' # "capWarn"
    BY <1>3 DEF BeginClose, CloseFile, Crash, ToAppend, Rotating
  <2> QED
    BY <1>0, <2>1, <2>2, QuietAddsNone, FreshKept
<1>4. CASE Append
  <2>1. /\ arg \in Line
        /\ UNCHANGED <<dir, nextRec>>
        /\ nextRec \in Nat
        /\ arg = Collected(nextRec - 1)
        /\ nextRec > 0
    BY <1>0, <1>4 DEF Append, SpoolTypeOK, FreshInv, ArgIsNew, ToAppend
  <2>2. \A k \in Line : HasLine(k)' => HasLine(k) \/ k = arg
    BY <1>0, <1>4, <2>1, AppendAdds DEF Append
  <2>3. ~ToAppend' /\ pc' # "capWarn"
    BY <1>4 DEF Append, ToAppend, Rotating
  <2>4. \A n \in Nat : Collected(n) = arg => n = nextRec - 1
    BY <2>1 DEF Collected
  <2>5. CollectedBelow'
    BY <2>1, <2>2, <2>4, LineTypes DEF FreshInv, CollectedBelow
  <2>6. \A u \in Ulids : Warning(u) # arg
    BY <2>1 DEF Collected, Warning
  <2>7. WarnsOfEvicted'
    BY <2>1, <2>2, <2>6, UlidLines DEF FreshInv, WarnsOfEvicted
  <2> QED
    BY <2>1, <2>3, <2>5, <2>7 DEF FreshInv, ArgIsNew, WarningIsNew
<1>5. CASE Seal
  <2>1. UNCHANGED <<dir, active, nextRec, arg, cont>>
    BY <1>5 DEF Seal
  <2>2. (ToAppend' => ToAppend) /\ pc' # "capWarn"
    BY <1>0, <1>5, <2>1, ReturnsTo DEF Seal, ToAppend, Rotating
  <2> QED
    BY <1>0, <2>1, <2>2, QuietAddsNone, FreshKept
<1>6. CASE Create
  <2>1. UNCHANGED <<active, nextRec, arg, cont>>
    BY <1>6 DEF Create
  <2>2. (ToAppend' => ToAppend) /\ pc' # "capWarn"
    BY <1>0, <1>6, <2>1, ReturnsTo DEF Create, ToAppend, Rotating
  <2>3. nextUlid \in Ulids /\ dir[nextUlid].state = "absent"
    BY <1>0, <1>6, SpoolDirAssumption
       DEF Create, SpoolTypeOK, Ulids, RotationInv
  <2>4. NoNewLine
    BY <1>0, <1>6, <2>1, <2>3, QuietAddsNone, RenameAddsNone DEF Create
  <2> QED
    BY <1>0, <2>1, <2>2, <2>4, FreshKept
<1>7. CASE Compress
  <2>1. UNCHANGED <<active, nextRec, arg, cont>>
    BY <1>7 DEF Compress
  <2>2. (ToAppend' => ToAppend) /\ pc' # "capWarn"
    BY <1>0, <1>7, <2>1, ReturnsTo DEF Compress, ToAppend, Rotating
  <2>3. NoNewLine
    <3>1. CASE UNCHANGED dir
      BY <2>1, <3>1, QuietAddsNone
    <3>2. ASSUME NEW n \in SegSizes,
                 dir' = [dir EXCEPT ![cur] = [@ EXCEPT !.recs = active.lines,
                                                       !.whole = TRUE,
                                                       !.size = n]]
          PROVE  NoNewLine
      <4>1. cur \in Ulids /\ dir[cur].state = "tmp"
        BY <1>0, <1>7 DEF Compress, RotationInv
      <4>2. dir'[cur].state = "tmp" /\ dir'[cur].recs = active.lines
        BY <1>0, <3>2, <4>1 DEF SpoolTypeOK, DirTypeOK, File
      <4>3. \A v \in Ulids : v # cur => dir'[v] = dir[v]
        BY <1>0, <3>2 DEF SpoolTypeOK, DirTypeOK
      <4> QED
        BY <2>1, <4>1, <4>2, <4>3 DEF NoNewLine, HasLine
    <3> QED
      BY <1>7, <3>1, <3>2 DEF Compress
  <2> QED
    BY <1>0, <2>1, <2>2, <2>3, FreshKept
<1>8. CASE Publish
  <2>1. UNCHANGED <<active, nextRec, arg, cont>>
    BY <1>8 DEF Publish
  <2>2. (ToAppend' => ToAppend) /\ pc' # "capWarn"
    BY <1>0, <1>8, <2>1, ReturnsTo DEF Publish, RenameFails, ToAppend, Rotating
  <2>3. cur \in Ulids /\ dir[cur].state = "tmp"
    BY <1>0, <1>8 DEF Publish, RotationInv
  <2>4. NoNewLine
    BY <1>0, <1>8, <2>1, <2>3, QuietAddsNone, RenameAddsNone
       DEF Publish, RenameFails
  <2> QED
    BY <1>0, <2>1, <2>2, <2>4, FreshKept
<1>9. CASE Reopen
  <2>1. UNCHANGED <<dir, nextRec, arg, cont>>
    BY <1>9 DEF Reopen
  <2>2. (ToAppend' => ToAppend) /\ pc' # "capWarn"
    BY <1>0, <1>9, <2>1, ReturnsTo DEF Reopen, ToAppend, Rotating
  <2>3. NoNewLine
    BY <1>9 DEF Reopen, Truncated, Empty, NoNewLine, HasLine
  <2> QED
    BY <1>0, <2>1, <2>2, <2>3, FreshKept
<1>10. CASE CapList \/ CapStat \/ CapCompare
  <2>1. UNCHANGED <<dir, active, nextRec, arg, cont>> /\ pc \in Rotating
    BY <1>10 DEF CapList, CapStat, CapCompare, envVars, Rotating
  <2>2. (ToAppend' => ToAppend) /\ pc' # "capWarn"
    BY <1>0, <1>10, <2>1, ReturnsTo
       DEF CapList, CapStat, CapCompare, ToAppend, Rotating
  <2> QED
    BY <1>0, <2>1, <2>2, QuietAddsNone, FreshKept
<1>11. CASE CapRemove
  <2>1. UNCHANGED <<active, nextRec, arg, cont>> /\ pc \in Rotating
    BY <1>11 DEF CapRemove, Rotating
  <2>2. ToAppend' => ToAppend
    BY <1>0, <1>11, <2>1, ReturnsTo DEF CapRemove, RelistVanished, ToAppend
  <2>3. CASE UNCHANGED dir /\ pc' # "capWarn"
    BY <1>0, <2>1, <2>2, <2>3, QuietAddsNone, FreshKept
  <2>4. CASE \E u \in Segments : /\ dir' = Removed(u, "evicted")
                                 /\ cur' = u
    <3>1. PICK u \in Ulids : /\ dir[u].state = "zst"
                             /\ dir' = Removed(u, "evicted")
                             /\ cur' = u
      BY <2>4 DEF Segments
    <3>2. NoNewLine /\ dir'[u].state = "evicted"
      BY <1>0, <2>1, <3>1, RenameAddsNone DEF Removed
    <3>3. ~HasLine(Warning(u))
      BY <3>1 DEF FreshInv, WarnsOfEvicted
    <3>4. WarningIsNew'
      BY <3>1, <3>2, <3>3, UlidLines DEF WarningIsNew, NoNewLine
    <3>5. CollectedBelow'
      BY <2>1, <3>2, LineTypes DEF FreshInv, CollectedBelow, NoNewLine
    <3>6. ArgIsNew'
      BY <1>0, <2>1, <2>2, <3>2 DEF FreshInv, ArgIsNew, NoNewLine, SpoolTypeOK
    <3>7. WarnsOfEvicted'
      BY <3>2, UlidLines DEF FreshInv, WarnsOfEvicted, NoNewLine
    <3> QED
      BY <2>1, <3>4, <3>5, <3>6, <3>7 DEF FreshInv
  <2> QED
    BY <1>0, <1>11, <2>1, <2>3, <2>4, ReturnsTo
       DEF CapRemove, RelistVanished, Rotating
<1>12. CASE CapWarn
  <2>1. /\ UNCHANGED <<dir, nextRec, arg, cont, cur>>
        /\ cur \in Ulids
        /\ dir[cur].state = "evicted"
        /\ pc \in Rotating
    BY <1>12 DEF CapWarn, FreshInv, WarningIsNew, Rotating
  <2>2. \A k \in Line : HasLine(k)' => HasLine(k) \/ k = Warning(cur)
    BY <1>0, <1>12, <2>1, UlidLines, AppendAdds DEF CapWarn
  <2>3. (ToAppend' => ToAppend) /\ pc' # "capWarn"
    BY <1>0, <1>12, <2>1, ReturnsTo DEF CapWarn, ToAppend, Rotating
  <2>4. \A n \in Nat : Collected(n) # Warning(cur)
    BY DEF Collected, Warning
  <2>5. CollectedBelow'
    BY <2>1, <2>2, <2>4, LineTypes DEF FreshInv, CollectedBelow
  <2>6. ArgIsNew'
    <3> SUFFICES ASSUME ToAppend'
                 PROVE  (arg = Collected(nextRec - 1) /\ ~HasLine(arg))'
      BY DEF ArgIsNew
    <3>1. arg = Collected(nextRec - 1) /\ ~HasLine(arg) /\ arg \in Line
      BY <1>0, <2>3 DEF FreshInv, ArgIsNew, SpoolTypeOK
    <3>2. arg # Warning(cur)
      BY <3>1 DEF Collected, Warning
    <3> QED
      BY <2>1, <2>2, <3>1, <3>2
  <2>7. \A u \in Ulids : Warning(u) = Warning(cur) => u = cur
    BY DEF Warning
  <2>8. WarnsOfEvicted'
    BY <2>1, <2>2, <2>7, UlidLines DEF FreshInv, WarnsOfEvicted
  <2> QED
    BY <2>1, <2>3, <2>5, <2>6, <2>8 DEF FreshInv, WarningIsNew
<1>13. CASE ShipperRemoves
  <2>1. UNCHANGED <<active, nextRec, arg, cont, pc, cur>>
    BY <1>13 DEF ShipperRemoves, spoolVars, memVars, envVars
  <2>2. NoNewLine
    BY <1>0, <1>13, <2>1, RenameAddsNone DEF ShipperRemoves, Segments, Removed
  <2> QED
    BY <1>0, <2>1, <2>2, FreshKept DEF ToAppend
<1>14. CASE UNCHANGED svars
  <2>1. UNCHANGED <<dir, active, nextRec, arg, cont, pc, cur>>
    BY <1>14 DEF svars, dirVars, spoolVars, memVars, envVars
  <2> QED
    BY <1>0, <2>1, QuietAddsNone, FreshKept DEF ToAppend
<1> QED
  BY <1>1, <1>2, <1>3, <1>4, <1>5, <1>6, <1>7, <1>8, <1>9, <1>10, <1>11,
     <1>12, <1>13, <1>14 DEF SpoolNext, SpoolStep

(* The lines to come are new at the start. *)
LEMMA FreshBegins ==
    ASSUME SpoolInit
    PROVE  FreshInv
BY DEF SpoolInit, DirInit, MemInit, NoFile, Empty, FreshInv, CollectedBelow,
       ArgIsNew, ToAppend, Rotating, WarnsOfEvicted, WarningIsNew, HasLine

-----------------------------------------------------------------------------
(* The refinement mapping. *)

(* What the abstract store holds, file by file. *)
LEMMA HeldIs ==
    ASSUME NEW l
    PROVE  l \in Held <=> \/ l \in active.lines
                          \/ \E u \in Ulids : /\ dir[u].state = "zst"
                                               /\ l \in dir[u].recs
BY DEF Held, Segments

(* What it has released, file by file. *)
LEMMA ReleasedIs ==
    ASSUME NEW l
    PROVE  l \in Released <=> \E u \in Ulids : /\ dir[u].state \in Unlinked
                                               /\ l \in dir[u].recs
BY DEF Released

(* The same in the next state. *)
LEMMA HeldIsNext ==
    ASSUME NEW l
    PROVE  l \in Held' <=> \/ l \in active'.lines
                           \/ \E u \in Ulids : /\ dir'[u].state = "zst"
                                                /\ l \in dir'[u].recs
BY DEF Held, Segments

LEMMA ReleasedIsNext ==
    ASSUME NEW l
    PROVE  l \in Released' <=> \E u \in Ulids : /\ dir'[u].state \in Unlinked
                                                /\ l \in dir'[u].recs
BY DEF Released

(* A step that changes no file cannot be seen. *)
LEMMA QuietStutters ==
    ASSUME UNCHANGED <<dir, active>>
    PROVE  UNCHANGED <<Held, Released>>
BY DEF Held, Released, Segments

(* Nor can one that changes only files that are not published. *)
LEMMA HiddenStutters ==
    ASSUME UNCHANGED active,
           \A u \in Ulids : \/ dir'[u] = dir[u]
                            \/ /\ dir[u].state \in {"absent", "tmp"}
                               /\ dir'[u].state \in {"absent", "tmp"}
    PROVE  UNCHANGED <<Held, Released>>
<1>1. \A l : l \in Held' <=> l \in Held
  BY HeldIs, HeldIsNext
<1>2. \A l : l \in Released' <=> l \in Released
  BY ReleasedIs, ReleasedIsNext DEF Unlinked
<1> QED
  BY <1>1, <1>2

(* Appending a new line takes it, or cannot be seen. *)
LEMMA AppendTakes ==
    ASSUME SpoolTypeOK, NEW k \in Line, ~HasLine(k),
           Appended(k) \/ NotAppended, UNCHANGED dir
    PROVE  Store!Take \/ UNCHANGED <<Held, Released>>
<1>1. \A l : l \in Released' <=> l \in Released
  BY ReleasedIs, ReleasedIsNext
<1>2. k \notin Held \cup Released
  BY HeldIs, ReleasedIs DEF HasLine
<1>3. active'.lines = active.lines \/ active'.lines = active.lines \cup {k}
  BY DEF Appended, EndsTorn, NotAppended, SpoolTypeOK
<1>4. CASE active'.lines = active.lines
  <2>1. \A l : l \in Held' <=> l \in Held
    BY <1>4, HeldIs, HeldIsNext
  <2> QED
    BY <1>1, <2>1
<1>5. CASE active'.lines = active.lines \cup {k}
  <2>1. \A l : l \in Held' <=> l \in Held \cup {k}
    BY <1>5, HeldIs, HeldIsNext
  <2> QED
    BY <1>1, <1>2, <2>1 DEF Store!Take
<1> QED
  BY <1>3, <1>4, <1>5

(* Unlinking a segment releases its lines. *)
LEMMA UnlinkReleases ==
    ASSUME SpoolTypeOK, NEW u \in Segments, NEW why \in Unlinked,
           dir' = Removed(u, why), UNCHANGED active
    PROVE  Store!Release
<1>1. u \in Ulids /\ dir[u].state = "zst"
  BY DEF Segments
<1>2. dir[u] \in File
  BY <1>1 DEF SpoolTypeOK, DirTypeOK
<1>3. dir'[u].state = why /\ dir'[u].recs = dir[u].recs
  BY <1>1, <1>2 DEF Removed, SpoolTypeOK, DirTypeOK, File
<1>4. \A v \in Ulids : v # u => dir'[v] = dir[v]
  BY DEF Removed, SpoolTypeOK, DirTypeOK
<1>5. why # "zst" /\ dir[u].state \notin Unlinked
  BY <1>1 DEF Unlinked
<1>6. Released \subseteq Released'
  BY <1>1, <1>3, <1>4, <1>5, ReleasedIs, ReleasedIsNext
<1>7. Released' \ Released \subseteq Held
  BY <1>1, <1>3, <1>4, <1>5, ReleasedIs, ReleasedIsNext, HeldIs
<1>8. Held' \subseteq Held
  BY <1>1, <1>3, <1>4, <1>5, HeldIs, HeldIsNext
<1>9. Held \ Held' \subseteq Released'
  BY <1>1, <1>3, <1>4, <1>5, HeldIs, HeldIsNext, ReleasedIsNext
<1> QED
  BY <1>6, <1>7, <1>8, <1>9 DEF Store!Release

(***************************************************************************)
(* A step of the spool, of the shipper or of the process that appends      *)
(* nothing releases lines, or cannot be seen in the abstract store.        *)
(***************************************************************************)
LEMMA StepReleases ==
    ASSUME LossInv, [SpoolNext]_svars, ~Append, ~CapWarn
    PROVE  Store!Release \/ UNCHANGED <<Held, Released>>
<1>0. SpoolTypeOK /\ RotationInv
  BY DEF LossInv
<1>1. CASE Open
  <2>1. \A u \in Ulids : \/ dir'[u] = dir[u]
                         \/ /\ dir[u].state \in {"absent", "tmp"}
                            /\ dir'[u].state \in {"absent", "tmp"}
    BY <1>1 DEF Open, WithoutTmps, Tmps, NoFile
  <2> QED
    BY <1>1, <2>1, HiddenStutters DEF Open
<1>2. CASE BeginWrite \/ BeginClose \/ Seal \/ CapList \/ CapStat
           \/ CapCompare \/ CloseFile \/ Crash
  <2>1. UNCHANGED <<dir, active>>
    BY <1>2 DEF BeginWrite, BeginClose, Seal, CapList, CapStat, CapCompare,
                CloseFile, Crash
  <2> QED
    BY <2>1, QuietStutters
<1>3. CASE Create
  <2>1. nextUlid \in Ulids /\ dir[nextUlid].state = "absent"
    BY <1>0, <1>3, SpoolDirAssumption
       DEF Create, SpoolTypeOK, Ulids, RotationInv
  <2>2. CASE UNCHANGED dir
    BY <1>3, <2>2, QuietStutters DEF Create
  <2>3. CASE dir' = [dir EXCEPT ![nextUlid].state = NewName]
    <3>1. dir'[nextUlid].state = "tmp"
      BY <1>0, <2>1, <2>3 DEF NewName, SpoolTypeOK, DirTypeOK, File
    <3>2. \A v \in Ulids : v # nextUlid => dir'[v] = dir[v]
      BY <1>0, <2>3 DEF SpoolTypeOK, DirTypeOK
    <3> QED
      BY <1>3, <2>1, <3>1, <3>2, HiddenStutters DEF Create
  <2> QED
    BY <1>3, <2>2, <2>3 DEF Create
<1>4. CASE Compress
  <2>1. cur \in Ulids /\ dir[cur].state = "tmp" /\ UNCHANGED active
    BY <1>0, <1>4 DEF Compress, RotationInv
  <2>2. CASE UNCHANGED dir
    BY <2>1, <2>2, QuietStutters
  <2>3. ASSUME NEW n \in SegSizes,
               dir' = [dir EXCEPT ![cur] = [@ EXCEPT !.recs = active.lines,
                                                     !.whole = TRUE,
                                                     !.size = n]]
        PROVE  UNCHANGED <<Held, Released>>
    <3>1. dir'[cur].state = "tmp"
      BY <1>0, <2>1, <2>3 DEF SpoolTypeOK, DirTypeOK, File
    <3>2. \A v \in Ulids : v # cur => dir'[v] = dir[v]
      BY <1>0, <2>3 DEF SpoolTypeOK, DirTypeOK
    <3> QED
      BY <2>1, <3>1, <3>2, HiddenStutters
  <2> QED
    BY <1>4, <2>2, <2>3 DEF Compress
<1>5. CASE Publish
  <2>1. /\ cur \in Ulids
        /\ dir[cur].state = "tmp"
        /\ dir[cur].recs = active.lines
        /\ UNCHANGED active
    BY <1>0, <1>5 DEF Publish, RotationInv
  <2>2. CASE UNCHANGED dir
    BY <2>1, <2>2, QuietStutters
  <2>3. CASE dir' = [dir EXCEPT ![cur].state = "zst"]
    <3>1. dir'[cur].state = "zst" /\ dir'[cur].recs = active.lines
      BY <1>0, <2>1, <2>3 DEF SpoolTypeOK, DirTypeOK, File
    <3>2. \A v \in Ulids : v # cur => dir'[v] = dir[v]
      BY <1>0, <2>3 DEF SpoolTypeOK, DirTypeOK
    <3>3. \A l : l \in Held' <=> l \in Held
      BY <2>1, <3>1, <3>2, HeldIs, HeldIsNext
    <3>4. \A l : l \in Released' <=> l \in Released
      BY <2>1, <3>1, <3>2, ReleasedIs, ReleasedIsNext DEF Unlinked
    <3> QED
      BY <3>3, <3>4
  <2> QED
    BY <1>5, <2>2, <2>3 DEF Publish, RenameFails
<1>6. CASE Reopen
  <2>1. /\ cur \in Ulids
        /\ Published(cur)
        /\ dir[cur].recs = active.lines
        /\ UNCHANGED dir
    BY <1>0, <1>6 DEF Reopen, RotationInv
  <2>2. \A l : l \in Released' <=> l \in Released
    BY <2>1, ReleasedIs, ReleasedIsNext
  <2>3. active'.lines = {} \/ active' = active
    BY <1>6 DEF Reopen, Truncated, Empty
  <2>4. Held' \subseteq Held
    BY <2>1, <2>3, HeldIs, HeldIsNext
  <2>5. Held \ Held' \subseteq Released'
    <3> SUFFICES ASSUME NEW l \in Held, l \notin Held' PROVE l \in Released'
      OBVIOUS
    <3>1. l \in dir[cur].recs /\ dir[cur].state # "zst"
      BY <2>1, <2>3, HeldIs, HeldIsNext
    <3> QED
      BY <2>1, <3>1, ReleasedIsNext DEF Published
  <2> QED
    BY <2>2, <2>4, <2>5 DEF Store!Release
<1>7. CASE CapRemove
  <2>1. CASE UNCHANGED dir
    BY <1>7, <2>1, QuietStutters DEF CapRemove
  <2>2. CASE \E u \in Segments : dir' = Removed(u, "evicted")
    <3>1. "evicted" \in Unlinked
      BY DEF Unlinked
    <3> QED
      BY <1>0, <1>7, <2>2, <3>1, UnlinkReleases DEF CapRemove
  <2> QED
    BY <1>7, <2>1, <2>2 DEF CapRemove
<1>8. CASE ShipperRemoves
  <2>1. {"shipped", "rejected"} \subseteq Unlinked
    BY DEF Unlinked
  <2> QED
    BY <1>0, <1>8, <2>1, UnlinkReleases DEF ShipperRemoves, spoolVars
<1>9. CASE UNCHANGED svars
  BY <1>9, QuietStutters DEF svars, dirVars, spoolVars
<1> QED
  BY <1>1, <1>2, <1>3, <1>4, <1>5, <1>6, <1>7, <1>8, <1>9
     DEF SpoolNext, SpoolStep

(***************************************************************************)
(* Every step of the spool, of the shipper and of the process is a step of *)
(* the abstract store, or cannot be seen there.                            *)
(***************************************************************************)
LEMMA StepSimulates ==
    ASSUME LossInv, FreshInv, [SpoolNext]_svars
    PROVE  [Store!Next]_<<Held, Released>>
<1>0. SpoolTypeOK
  BY DEF LossInv
<1>1. CASE Append
  <2>1. arg \in Line /\ ~HasLine(arg) /\ UNCHANGED dir
    BY <1>0, <1>1 DEF Append, SpoolTypeOK, FreshInv, ArgIsNew, ToAppend
  <2> QED
    BY <1>0, <1>1, <2>1, AppendTakes DEF Append, Store!Next
<1>2. CASE CapWarn
  <2>1. Warning(cur) \in Line /\ ~HasLine(Warning(cur)) /\ UNCHANGED dir
    BY <1>2, UlidLines DEF CapWarn, FreshInv, WarningIsNew
  <2> QED
    BY <1>0, <1>2, <2>1, AppendTakes DEF CapWarn, Store!Next
<1> QED
  BY <1>1, <1>2, StepReleases DEF Store!Next

(***************************************************************************)
(* The spool implements the store that never loses a line and never takes  *)
(* one twice: for any number of envelopes, segments, processes, failures   *)
(* and crashes, and whatever the shipper removes meanwhile, rotation is    *)
(* invisible and a line goes only with a segment that was unlinked.        *)
(***************************************************************************)
THEOREM SpoolImplementsStore == SpoolSpec => RefinesLineStore
<1>1. SpoolInit => Store!Init
  BY DEF SpoolInit, DirInit, NoFile, Empty, Held, Released, Segments, Unlinked,
         Store!Init
<1>2. SpoolInit => LossInv
  BY LossBegins
<1>3. SpoolInit => FreshInv
  BY FreshBegins
<1>4. LossInv /\ SpoolTypeOK' /\ [SpoolNext]_svars => LossInv'
  BY LossInductive
<1>5. LossInv /\ FreshInv /\ SpoolTypeOK' /\ [SpoolNext]_svars => FreshInv'
  BY FreshInductive
<1>6. LossInv /\ FreshInv /\ [SpoolNext]_svars
         => [Store!Next]_<<Held, Released>>
  BY StepSimulates
<1> QED
  BY <1>1, <1>2, <1>3, <1>4, <1>5, <1>6, TypeCorrect, PTL
     DEF SpoolSpec, RefinesLineStore, Store!Spec
=============================================================================
