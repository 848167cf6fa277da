---------------------------- MODULE SpoolAccounts ---------------------------
(***************************************************************************)
(* Proofs about what the spool leaves behind and what it says about it,    *)
(* for every value of the constants: what Close flushes, which temporary   *)
(* files and duplicates remain, whether the warnings about evictions are   *)
(* true, and which segment is evicted.                                     *)
(***************************************************************************)
EXTENDS SpoolProofs

(* The steps of enforceCap. *)
Capping == {"capList", "capStat", "capRemove", "capWarn"}

-----------------------------------------------------------------------------
(* What is in the active file. *)

OnlyWarnings == \A l \in active.lines : l.type = "spool_warning"

(***************************************************************************)
(* The counter of the process is about the file it has open: it is zero    *)
(* only if the file has no line, also when the file was there before the   *)
(* process (Open takes the length of the file).  From the truncation on,   *)
(* enforceCap adds warnings and nothing else, so this is what Close finds  *)
(* whether it had to rotate or not.                                        *)
(***************************************************************************)
FlushInv ==
    /\ active.len = 0 => active.lines = {}
    /\ handle = "open" /\ activeSize = 0 => active.lines = {}
    /\ pc \in Capping => handle = "open" /\ OnlyWarnings
    /\ pc = "closeFile" /\ handle = "open" => OnlyWarnings
    /\ result = "ok" => pc = "closed" /\ OnlyWarnings

(* Where rotate and enforceCap return to. *)
LEMMA ReturnOrErr ==
    ASSUME SpoolTypeOK, Return \/ ReturnErr
    PROVE  /\ pc' \in {"append", "idle", "closeFile", "closed"}
           /\ ReturnErr => pc' # "closeFile"
           /\ result' = "ok" => result = "ok"
BY DEF SpoolTypeOK, Return, ReturnErr

(* A step that leaves the file, the handle and the counter alone. *)
LEMMA FlushKept ==
    ASSUME FlushInv, result # "ok", result' # "ok",
           UNCHANGED <<active, handle, activeSize>>,
           pc' \in Capping \cup {"closeFile"} => pc \in Capping
    PROVE  FlushInv'
BY DEF FlushInv, OnlyWarnings, Capping

(* What an append does to the counters, and to a file of warnings. *)
LEMMA AppendCounts ==
    ASSUME SpoolTypeOK, NEW l \in Line, Appended(l) \/ NotAppended
    PROVE  /\ active'.len = 0 => active.len = 0 /\ active'.lines = active.lines
           /\ activeSize' = 0 => activeSize = 0 /\ active'.lines = active.lines
           /\ l.type = "spool_warning" /\ OnlyWarnings => OnlyWarnings'
<1>1. active.len \in Nat /\ activeSize \in Nat
  BY DEF SpoolTypeOK
<1>2. CASE Appended(l)
  <2>1. /\ active'.len = active.len + 1
        /\ activeSize' = activeSize + 1
        /\ active'.lines \subseteq active.lines \cup {l}
    BY <1>2 DEF Appended, EndsTorn
  <2> QED
    BY <1>1, <2>1 DEF OnlyWarnings
<1>3. CASE NotAppended
  <2>1. /\ active' = active \/ active'.len = active.len + 1
        /\ active'.lines = active.lines
        /\ UNCHANGED activeSize
    BY <1>3 DEF NotAppended
  <2> QED
    BY <1>1, <2>1 DEF OnlyWarnings
<1> QED
  BY <1>2, <1>3

(***************************************************************************)
(* The inductive step: every action keeps the counter true to the file,    *)
(* and a file of warnings so from the truncation to the end of Close.      *)
(***************************************************************************)
LEMMA FlushInductive ==
    ASSUME SpoolTypeOK, FlushInv, [SpoolNext]_svars
    PROVE  FlushInv'
<1> USE DEF Capping
<1>0. pc # "closed" => result # "ok"
  BY DEF FlushInv
<1>1. CASE Open
  <2>1. /\ UNCHANGED <<active, result>>
        /\ pc' \in {"idle", "down"}
        /\ pc = "down"
        /\ \/ activeSize' = active.len
           \/ UNCHANGED <<handle, activeSize>>
    BY <1>1 DEF Open
  <2> QED
    BY <1>0, <2>1 DEF FlushInv
<1>2. CASE BeginWrite
  BY <1>0, <1>2, FlushKept DEF BeginWrite
<1>3. CASE BeginClose
  <2>1. /\ UNCHANGED <<active, handle, activeSize, result>>
        /\ pc' = "seal" \/ (pc' = "closeFile" /\ activeSize = 0)
        /\ activeSize \in Nat
        /\ pc = "idle"
    BY <1>3 DEF BeginClose, Pending, SpoolTypeOK
  <2> QED
    BY <1>0, <2>1 DEF FlushInv, OnlyWarnings
<1>4. CASE Append
  <2>1. /\ arg \in Line
        /\ UNCHANGED <<handle, result>>
        /\ pc' \in {"seal", "idle"}
        /\ pc = "append"
        /\ Appended(arg) \/ NotAppended
    BY <1>4 DEF Append, SpoolTypeOK
  <2> QED
    BY <1>0, <2>1, AppendCounts DEF FlushInv
<1>5. CASE Seal
  <2>1. /\ UNCHANGED <<active, activeSize>>
        /\ handle' \in {handle, "closed"}
        /\ result' # "ok"
        /\ pc' \notin Capping \cup {"closeFile"}
    BY <1>0, <1>5, ReturnOrErr DEF Seal
  <2> QED
    BY <2>1 DEF FlushInv
<1>6. CASE Create \/ Compress \/ Publish
  <2>1. /\ UNCHANGED <<active, handle, activeSize>>
        /\ result # "ok" /\ result' # "ok"
        /\ pc' \notin Capping \cup {"closeFile"}
    BY <1>0, <1>6, ReturnOrErr DEF Create, Compress, Publish, RenameFails
  <2> QED
    BY <2>1, FlushKept
<1>7. CASE Reopen
  <2>1. CASE ReturnErr /\ UNCHANGED <<active, handle, activeSize>>
    BY <1>0, <1>7, <2>1, ReturnOrErr, FlushKept DEF Reopen
  <2>2. CASE /\ active' = Empty
             /\ handle' = "open"
             /\ pc' = "capList"
             /\ UNCHANGED result
    BY <1>0, <1>7, <2>2 DEF Reopen, Empty, FlushInv, OnlyWarnings
  <2> QED
    BY <1>7, <2>1, <2>2 DEF Reopen, Truncated
<1>8. CASE CapList \/ CapStat \/ CapCompare \/ CapRemove
  <2>1. /\ UNCHANGED <<active, handle, activeSize>>
        /\ pc \in Capping
    BY <1>8 DEF CapList, CapStat, CapCompare, CapRemove
  <2>2. result # "ok" /\ result' # "ok"
    BY <1>0, <1>8, ReturnOrErr
       DEF CapList, CapStat, CapCompare, CapRemove, RelistVanished
  <2> QED
    BY <2>1, <2>2, FlushKept
<1>9. CASE CapWarn
  <2>1. Warning(cur) \in Line /\ Warning(cur).type = "spool_warning"
    BY LineTypes, SpoolDirAssumption DEF SpoolTypeOK, Ulids, Warning
  <2>2. /\ pc = "capWarn"
        /\ UNCHANGED handle
        /\ Appended(Warning(cur)) \/ NotAppended
    BY <1>9 DEF CapWarn
  <2>3. result' # "ok" /\ pc' # "closeFile"
    BY <1>0, <1>9, ReturnOrErr DEF CapWarn
  <2> QED
    BY <2>1, <2>2, <2>3, AppendCounts DEF FlushInv
<1>10. CASE CloseFile
  <2>1. /\ UNCHANGED active
        /\ handle' = "closed"
        /\ pc' = "closed"
        /\ pc = "closeFile"
        /\ result' = "ok" => handle = "open"
    BY <1>10 DEF CloseFile
  <2> QED
    BY <2>1 DEF FlushInv, OnlyWarnings
<1>11. CASE Crash
  BY <1>11 DEF Crash, FlushInv
<1>12. CASE ShipperRemoves \/ UNCHANGED svars
  <2>1. UNCHANGED <<active, handle, activeSize, pc, result>>
    BY <1>12 DEF ShipperRemoves, svars, spoolVars, memVars
  <2> QED
    BY <2>1 DEF FlushInv, OnlyWarnings
<1> QED
  BY <1>1, <1>2, <1>3, <1>4, <1>5, <1>6, <1>7, <1>8, <1>9, <1>10, <1>11,
     <1>12 DEF SpoolNext, SpoolStep

(***************************************************************************)
(* When Close returns nil, no collected envelope is left in active.jsonl,  *)
(* whatever failed, died or was left by an earlier process before.         *)
(***************************************************************************)
THEOREM CloseFlushes == SpoolSpec => []CloseFlushesEnvelopes
<1>1. SpoolInit => FlushInv
  BY DEF SpoolInit, MemInit, Empty, FlushInv, Capping
<1>2. SpoolTypeOK /\ FlushInv /\ [SpoolNext]_svars => FlushInv'
  BY FlushInductive
<1>3. FlushInv => CloseFlushesEnvelopes
  BY DEF FlushInv, OnlyWarnings, CloseFlushesEnvelopes
<1> QED
  BY <1>1, <1>2, <1>3, TypeCorrect, PTL DEF SpoolSpec

-----------------------------------------------------------------------------
(* Temporary files. *)

(***************************************************************************)
(* A process that can append has no temporary file, and one that has       *)
(* failed to rotate can never append, and so never create one, again.      *)
(***************************************************************************)
TmpInv ==
    /\ OneTmp
    /\ handle = "open" \/ pc \in {"create", "reopen"} => Tmps = {}
    /\ pc = "create" => handle = "closed"
    /\ pc \in {"compress", "publish"} => handle = "closed" /\ Tmps = {cur}

(* A step that makes no temporary file and closes or keeps the handle. *)
LEMMA TmpKept ==
    ASSUME TmpInv, Tmps' \subseteq Tmps,
           handle' \in {handle, "closed"} \/ Tmps = {},
           pc' \in {"create", "reopen"} => Tmps = {},
           pc' = "create" => handle' = "closed",
           pc' \notin {"compress", "publish"}
    PROVE  TmpInv'
BY DEF TmpInv, OneTmp

(* A step that leaves the directory alone makes none. *)
LEMMA QuietTmps ==
    ASSUME UNCHANGED dir
    PROVE  Tmps' = Tmps
BY DEF Tmps

(* Unlinking a segment makes none either. *)
LEMMA UnlinkTmps ==
    ASSUME SpoolTypeOK, NEW u \in Segments, NEW why \in Unlinked,
           dir' = Removed(u, why)
    PROVE  Tmps' = Tmps
<1>1. u \in Ulids /\ dir[u].state = "zst"
  BY DEF Segments
<1>2. dir'[u].state = why
  BY <1>1, FileTypes DEF Removed, SpoolTypeOK, DirTypeOK, File
<1>3. \A v \in Ulids : v # u => dir'[v] = dir[v]
  BY DEF Removed, SpoolTypeOK, DirTypeOK
<1>4. \A v \in Ulids : dir'[v].state = "tmp" <=> dir[v].state = "tmp"
  BY <1>1, <1>2, <1>3 DEF Unlinked
<1> QED
  BY <1>4 DEF Tmps

(***************************************************************************)
(* The inductive step: a temporary file appears only in a process whose    *)
(* handle was open, which has none, and closes it.                         *)
(***************************************************************************)
LEMMA TmpInductive ==
    ASSUME LossInv, TmpInv, [SpoolNext]_svars
    PROVE  TmpInv'
<1>0. SpoolTypeOK /\ RotationInv
  BY DEF LossInv
<1>1. CASE Open
  <2>1. CASE dir' = WithoutTmps(Tmps) /\ pc' = "idle"
    <3>1. Tmps' = {}
      BY <2>1 DEF WithoutTmps, Tmps, NoFile
    <3> QED
      BY <2>1, <3>1 DEF TmpInv, OneTmp
  <2>2. ASSUME NEW gone \in SUBSET Tmps, dir' = WithoutTmps(gone),
               UNCHANGED <<handle, pc>>
        PROVE  TmpInv'
    <3>1. Tmps' \subseteq Tmps
      BY <2>2 DEF WithoutTmps, Tmps, NoFile
    <3> QED
      BY <1>1, <2>2, <3>1, TmpKept DEF Open
  <2> QED
    BY <1>1, <2>1, <2>2 DEF Open
<1>2. CASE BeginWrite \/ BeginClose \/ Append \/ CloseFile \/ Crash
  <2>1. /\ UNCHANGED dir
        /\ handle' \in {handle, "closed"}
        /\ pc' \notin {"create", "reopen", "compress", "publish"}
    BY <1>2 DEF BeginWrite, BeginClose, Append, CloseFile, Crash
  <2> QED
    BY <2>1, QuietTmps, TmpKept
<1>3. CASE Seal
  <2>1. /\ UNCHANGED dir
        /\ handle' \in {handle, "closed"}
        /\ pc' = "create" => handle = "open" /\ handle' = "closed"
        /\ pc' \notin {"reopen", "compress", "publish"}
    BY <1>0, <1>3, ReturnOrErr DEF Seal
  <2>2. pc' = "create" => Tmps = {}
    BY <2>1 DEF TmpInv
  <2> QED
    BY <2>1, <2>2, QuietTmps, TmpKept
<1>4. CASE Create
  <2>1. CASE ReturnErr /\ UNCHANGED <<dir, handle>>
    BY <1>0, <2>1, ReturnOrErr, QuietTmps, TmpKept
  <2>2. CASE /\ dir' = [dir EXCEPT ![nextUlid].state = NewName]
             /\ cur' = nextUlid
             /\ pc' = "compress"
    <3>1. nextUlid \in Ulids
      BY <1>0, <1>4, SpoolDirAssumption DEF Create, SpoolTypeOK, Ulids
    <3>2. dir'[nextUlid].state = "tmp"
      BY <1>0, <2>2, <3>1, FileTypes
         DEF NewName, SpoolTypeOK, DirTypeOK, File
    <3>3. \A v \in Ulids : v # nextUlid => dir'[v] = dir[v]
      BY <1>0, <2>2 DEF SpoolTypeOK, DirTypeOK
    <3>4. Tmps = {}
      BY <1>4 DEF Create, TmpInv
    <3>5. Tmps' = {nextUlid}
      BY <3>1, <3>2, <3>3, <3>4 DEF Tmps
    <3>6. handle' = "closed"
      <4>1. UNCHANGED handle /\ pc = "create"
        BY <1>4 DEF Create
      <4> QED
        BY <4>1 DEF TmpInv
    <3> QED
      BY <2>2, <3>5, <3>6 DEF TmpInv, OneTmp
  <2> QED
    BY <1>4, <2>1, <2>2 DEF Create
<1>5. CASE Compress
  <2>1. /\ cur \in Ulids
        /\ dir[cur].state = "tmp"
        /\ pc = "compress"
        /\ UNCHANGED <<cur, handle>>
    BY <1>0, <1>5 DEF Compress, RotationInv
  <2>2. CASE ReturnErr /\ UNCHANGED dir
    BY <1>0, <2>1, <2>2, ReturnOrErr, QuietTmps, TmpKept
  <2>3. ASSUME NEW n \in SegSizes, pc' = "publish",
               dir' = [dir EXCEPT ![cur] = [@ EXCEPT !.recs = active.lines,
                                                     !.whole = TRUE,
                                                     !.size = n]]
        PROVE  TmpInv'
    <3>1. dir'[cur].state = "tmp"
      BY <1>0, <2>1, <2>3 DEF SpoolTypeOK, DirTypeOK, File
    <3>2. \A v \in Ulids : v # cur => dir'[v] = dir[v]
      BY <1>0, <2>3 DEF SpoolTypeOK, DirTypeOK
    <3>3. Tmps' = Tmps
      BY <2>1, <3>1, <3>2 DEF Tmps
    <3> QED
      BY <2>1, <2>3, <3>3 DEF TmpInv, OneTmp
  <2> QED
    BY <1>5, <2>2, <2>3 DEF Compress
<1>6. CASE Publish
  <2>1. /\ cur \in Ulids
        /\ pc = "publish"
        /\ UNCHANGED <<cur, handle>>
    BY <1>0, <1>6 DEF Publish, RotationInv
  <2>2. CASE ReturnErr /\ UNCHANGED dir
    BY <1>0, <2>1, <2>2, ReturnOrErr, QuietTmps, TmpKept
  <2>3. CASE dir' = [dir EXCEPT ![cur].state = "zst"] /\ pc' = "reopen"
    <3>1. dir'[cur].state = "zst"
      BY <1>0, <2>1, <2>3, FileTypes DEF SpoolTypeOK, DirTypeOK, File
    <3>2. \A v \in Ulids : v # cur => dir'[v] = dir[v]
      BY <1>0, <2>3 DEF SpoolTypeOK, DirTypeOK
    <3>3. Tmps = {cur}
      BY <2>1 DEF TmpInv
    <3>4. Tmps' = {}
      BY <2>1, <3>1, <3>2, <3>3 DEF Tmps
    <3> QED
      BY <2>3, <3>4 DEF TmpInv, OneTmp
  <2> QED
    BY <1>6, <2>2, <2>3 DEF Publish, RenameFails
<1>7. CASE Reopen
  <2>1. UNCHANGED dir /\ pc = "reopen"
    BY <1>7 DEF Reopen
  <2>2. pc' \notin {"create", "reopen", "compress", "publish"}
    BY <1>0, <1>7, ReturnOrErr DEF Reopen
  <2>3. Tmps = {}
    BY <2>1 DEF TmpInv
  <2> QED
    BY <2>1, <2>2, <2>3, QuietTmps, TmpKept
<1>8. CASE CapList \/ CapStat \/ CapCompare \/ CapWarn
  <2>1. UNCHANGED <<dir, handle>>
    BY <1>8 DEF CapList, CapStat, CapCompare, CapWarn
  <2>2. pc' \notin {"create", "reopen", "compress", "publish"}
    BY <1>0, <1>8, ReturnOrErr DEF CapList, CapStat, CapCompare, CapWarn
  <2> QED
    BY <2>1, <2>2, QuietTmps, TmpKept
<1>9. CASE CapRemove
  <2>1. UNCHANGED handle
    BY <1>9 DEF CapRemove
  <2>2. pc' \notin {"create", "reopen", "compress", "publish"}
    BY <1>0, <1>9, ReturnOrErr DEF CapRemove, RelistVanished
  <2>3. Tmps' = Tmps
    <3>1. "evicted" \in Unlinked
      BY DEF Unlinked
    <3> QED
      BY <1>0, <1>9, <3>1, QuietTmps, UnlinkTmps DEF CapRemove
  <2> QED
    BY <2>1, <2>2, <2>3, TmpKept
<1>10. CASE ShipperRemoves
  <2>1. UNCHANGED <<handle, pc, cur>>
    BY <1>10 DEF ShipperRemoves, spoolVars, memVars
  <2>2. Tmps' = Tmps
    <3>1. {"shipped", "rejected"} \subseteq Unlinked
      BY DEF Unlinked
    <3> QED
      BY <1>0, <1>10, <3>1, UnlinkTmps DEF ShipperRemoves
  <2> QED
    BY <2>1, <2>2 DEF TmpInv, OneTmp
<1>11. CASE UNCHANGED svars
  <2>1. UNCHANGED <<dir, handle, pc, cur>>
    BY <1>11 DEF svars, dirVars, spoolVars, memVars
  <2> QED
    BY <2>1, QuietTmps DEF TmpInv, OneTmp
<1> QED
  BY <1>1, <1>2, <1>3, <1>4, <1>5, <1>6, <1>7, <1>8, <1>9, <1>10, <1>11
     DEF SpoolNext, SpoolStep

-----------------------------------------------------------------------------
(* Warnings and duplicates. *)

(***************************************************************************)
(* Before the first process there is no segment, so that a clean process   *)
(* has seen all of them; an accepted warning names an evicted segment, and *)
(* a clean process still has to write at most the one it is about to.      *)
(***************************************************************************)
AccountInv ==
    /\ starts = 0 => pc = "down" /\ \A u \in Ulids : ~Published(u)
    /\ WarningsExact
    /\ SinglePlace

(* Failures are counted. *)
LEMMA FaultsGrow ==
    ASSUME DirTypeOK
    PROVE  /\ Ok => faults' = faults
           /\ \A k : Fails(k) => faults' # 0
BY DEF Ok, Fails, DirTypeOK

(* A step that publishes and evicts nothing, accepts no line, and leaves the *)
(* steps after which something is due only for the one that does it. *)
LEMMA AccountKept ==
    ASSUME AccountInv, UNCHANGED <<accepted, starts>>,
           faults' = 0 => faults = 0,
           active'.lines \subseteq active.lines,
           \A u \in Ulids : Published(u)' => /\ Published(u)
                                            /\ dir'[u].recs = dir[u].recs,
           \A u \in Ulids : dir'[u].state = "evicted" <=>
                                dir[u].state = "evicted",
           pc = "down" => pc' = "down",
           faults' = 0 => \/ pc' = "down"
                          \/ pc \notin {"down", "reopen", "capWarn"}
                          \/ pc = "reopen" /\ active'.lines = {}
                          \/ UNCHANGED <<pc, cur>>
    PROVE  AccountInv'
<1>1. (starts = 0 => pc = "down" /\ \A u \in Ulids : ~Published(u))'
  BY DEF AccountInv
<1>2. WarningsExact'
  BY DEF AccountInv, WarningsExact
<1>3. SinglePlace'
  <2> SUFFICES ASSUME faults' = 0 /\ starts' <= 1,
                      NEW l \in accepted', NEW u \in Ulids,
                      Published(u)' /\ l \in dir'[u].recs
               PROVE  /\ l \in active'.lines => pc' \in {"reopen", "down"}
                      /\ \A v \in Ulids : Published(v)' /\ l \in dir'[v].recs
                                               => u = v
    BY DEF SinglePlace
  <2>1. /\ l \in active.lines => pc \in {"reopen", "down"}
        /\ \A v \in Ulids : Published(v) /\ l \in dir[v].recs => u = v
    BY DEF AccountInv, SinglePlace
  <2> QED
    BY <2>1
<1> QED
  BY <1>1, <1>2, <1>3 DEF AccountInv

(* A step that leaves the directory and the active file alone. *)
LEMMA QuietAccount ==
    ASSUME UNCHANGED <<dir, active>>
    PROVE  /\ active'.lines \subseteq active.lines
           /\ \A u \in Ulids : Published(u)' => /\ Published(u)
                                               /\ dir'[u].recs = dir[u].recs
           /\ \A u \in Ulids : dir'[u].state = "evicted" <=>
                                   dir[u].state = "evicted"
BY DEF Published

(* A step that changes one file, which is not published before or after. *)
LEMMA HiddenAccount ==
    ASSUME NEW u \in Ulids, dir[u].state \in {"absent", "tmp"},
           dir'[u].state \in {"absent", "tmp"},
           \A v \in Ulids : v # u => dir'[v] = dir[v]
    PROVE  /\ \A v \in Ulids : Published(v)' => /\ Published(v)
                                               /\ dir'[v].recs = dir[v].recs
           /\ \A v \in Ulids : dir'[v].state = "evicted" <=>
                                   dir[v].state = "evicted"
BY DEF Published, Unlinked

(***************************************************************************)
(* An append of a line that no file has, in a process that is past its     *)
(* start: the line is in one place, and the account of evictions holds if  *)
(* it held up to this line.                                                *)
(***************************************************************************)
LEMMA AppendAccount ==
    ASSUME SpoolTypeOK, AccountInv, NEW l \in Line, ~HasLine(l),
           Appended(l) \/ NotAppended, UNCHANGED <<dir, starts>>,
           pc \notin {"down", "reopen"},
           WarningsExact'
    PROVE  AccountInv'
<1>1. (starts = 0 => pc = "down" /\ \A u \in Ulids : ~Published(u))'
  BY DEF AccountInv
<1>2. /\ active'.lines \subseteq active.lines \cup {l}
      /\ accepted' \subseteq accepted \cup {l}
      /\ faults' = 0 => faults = 0
  BY FaultsGrow DEF Appended, EndsTorn, NotAppended, SpoolTypeOK
<1>3. SinglePlace'
  <2> SUFFICES ASSUME faults' = 0 /\ starts' <= 1,
                      NEW k \in accepted', NEW u \in Ulids,
                      Published(u)' /\ k \in dir'[u].recs
               PROVE  /\ k \in active'.lines => pc' \in {"reopen", "down"}
                      /\ \A v \in Ulids : Published(v)' /\ k \in dir'[v].recs
                                               => u = v
    BY DEF SinglePlace
  <2>1. k # l
    BY DEF HasLine
  <2>2. Published(u) /\ k \in dir[u].recs /\ k \in accepted
    BY <1>2, <2>1 DEF Published
  <2>3. /\ k \notin active.lines
        /\ \A v \in Ulids : Published(v) /\ k \in dir[v].recs => u = v
    BY <1>2, <2>2 DEF AccountInv, SinglePlace
  <2> QED
    BY <1>2, <2>1, <2>3 DEF Published
<1> QED
  BY <1>1, <1>3 DEF AccountInv

(***************************************************************************)
(* The inductive step: every action keeps the account of what was evicted, *)
(* and the lines of a clean process in one place.                          *)
(***************************************************************************)
LEMMA AccountInductive ==
    ASSUME LossInv, FreshInv, FlushInv, AccountInv, [SpoolNext]_svars
    PROVE  AccountInv'
<1>0. SpoolTypeOK /\ RotationInv /\ DirTypeOK
  BY DEF LossInv, SpoolTypeOK
<1>1. CASE Open
  <2>1. /\ UNCHANGED <<active, accepted>>
        /\ starts' = starts + 1
        /\ starts \in Nat
        /\ \A u \in Ulids : dir'[u] = dir[u] \/ dir'[u].state = "absent"
        /\ \A u \in Ulids : dir[u].state \in {"zst"} \cup Unlinked
                                 => dir'[u] = dir[u]
    BY <1>0, <1>1 DEF Open, WithoutTmps, Tmps, NoFile, SpoolTypeOK, DirTypeOK,
                      Unlinked
  <2>2. starts' <= 1 => \A u \in Ulids : ~Published(u)
    BY <2>1 DEF AccountInv
  <2>3. \A u \in Ulids : Published(u)' => Published(u)
    BY <2>1 DEF Published, Unlinked
  <2>4. WarningsExact'
    <3>1. \A u \in Ulids : Warning(u) \in accepted => dir'[u].state = "evicted"
      BY <2>1 DEF AccountInv, WarningsExact, Unlinked
    <3>2. starts' <= 1 => \A u \in Ulids : dir'[u].state # "evicted"
      BY <2>2, <2>3 DEF Published, Unlinked
    <3> QED
      BY <2>1, <3>1, <3>2 DEF WarningsExact
  <2>5. SinglePlace'
    BY <2>2, <2>3 DEF SinglePlace
  <2> QED
    BY <2>1, <2>4, <2>5 DEF AccountInv
<1>2. CASE BeginWrite \/ BeginClose \/ CapList \/ CapStat \/ CapCompare
           \/ CloseFile \/ Seal
  <2>1. /\ UNCHANGED <<dir, active, accepted, starts>>
        /\ pc \notin {"down", "reopen", "capWarn"}
    BY <1>2 DEF BeginWrite, BeginClose, CapList, CapStat, CapCompare,
                CloseFile, Seal, envVars
  <2>2. faults' = 0 => faults = 0
    BY <1>0, <1>2, FaultsGrow
       DEF BeginWrite, BeginClose, CapList, CapStat, CapCompare, CloseFile,
           Seal
  <2> QED
    BY <2>1, <2>2, QuietAccount, AccountKept
<1>3. CASE Crash
  BY <1>3, QuietAccount, AccountKept DEF Crash, envVars
<1>4. CASE Append
  <2>1. /\ arg \in Line
        /\ ~HasLine(arg)
        /\ arg = Collected(nextRec - 1)
        /\ Appended(arg) \/ NotAppended
        /\ UNCHANGED <<dir, starts>>
        /\ pc = "append"
    BY <1>0, <1>4 DEF Append, SpoolTypeOK, FreshInv, ArgIsNew, ToAppend
  <2>2. \A u \in Ulids : Warning(u) # arg
    BY <2>1 DEF Collected, Warning
  <2>3. accepted \subseteq accepted' /\ accepted' \subseteq accepted \cup {arg}
    BY <2>1 DEF Appended, NotAppended
  <2>4. faults' = 0 => faults = 0
    BY <1>0, <2>1, FaultsGrow DEF Appended, NotAppended
  <2>5. WarningsExact'
    BY <2>1, <2>2, <2>3, <2>4 DEF AccountInv, WarningsExact
  <2> QED
    BY <1>0, <2>1, <2>5, AppendAccount
<1>5. CASE Create
  <2>1. /\ nextUlid \in Ulids
        /\ dir[nextUlid].state = "absent"
        /\ UNCHANGED <<active, accepted, starts>>
        /\ pc = "create"
    BY <1>0, <1>5, SpoolDirAssumption
       DEF Create, SpoolTypeOK, Ulids, RotationInv
  <2>2. dir'[nextUlid].state \in {"absent", "tmp"}
    BY <1>0, <1>5, <2>1, FileTypes
       DEF Create, NewName, SpoolTypeOK, DirTypeOK, File
  <2>3. \A v \in Ulids : v # nextUlid => dir'[v] = dir[v]
    BY <1>0, <1>5 DEF Create, SpoolTypeOK, DirTypeOK
  <2>4. faults' = 0 => faults = 0
    BY <1>0, <1>5, FaultsGrow DEF Create
  <2> QED
    BY <2>1, <2>2, <2>3, <2>4, HiddenAccount, AccountKept
<1>6. CASE Compress
  <2>1. /\ cur \in Ulids
        /\ dir[cur].state = "tmp"
        /\ UNCHANGED <<active, accepted, starts>>
        /\ pc = "compress"
    BY <1>0, <1>6 DEF Compress, RotationInv
  <2>2. dir'[cur].state = "tmp"
    <3>1. ASSUME NEW n \in SegSizes,
                 dir' = [dir EXCEPT ![cur] = [@ EXCEPT !.recs = active.lines,
                                                       !.whole = TRUE,
                                                       !.size = n]]
          PROVE  dir'[cur].state = "tmp"
      BY <1>0, <2>1, <3>1 DEF SpoolTypeOK, DirTypeOK, File
    <3> QED
      BY <1>6, <2>1, <3>1 DEF Compress
  <2>3. \A v \in Ulids : v # cur => dir'[v] = dir[v]
    BY <1>0, <1>6 DEF Compress, SpoolTypeOK, DirTypeOK
  <2>4. faults' = 0 => faults = 0
    BY <1>0, <1>6, FaultsGrow DEF Compress
  <2> QED
    BY <2>1, <2>2, <2>3, <2>4, HiddenAccount, AccountKept
<1>7. CASE Publish
  <2>1. /\ cur \in Ulids
        /\ dir[cur].state = "tmp"
        /\ dir[cur].recs = active.lines
        /\ UNCHANGED <<active, accepted, starts>>
        /\ pc = "publish"
    BY <1>0, <1>7 DEF Publish, RotationInv
  <2>2. CASE Fails("rename") /\ UNCHANGED dir
    BY <1>0, <2>1, <2>2, FaultsGrow, QuietAccount, AccountKept
  <2>3. CASE /\ Ok
             /\ dir' = [dir EXCEPT ![cur].state = "zst"]
             /\ pc' = "reopen"
    <3>1. dir'[cur].state = "zst" /\ dir'[cur].recs = active.lines
      BY <1>0, <2>1, <2>3, FileTypes DEF SpoolTypeOK, DirTypeOK, File
    <3>2. \A v \in Ulids : v # cur => dir'[v] = dir[v]
      BY <1>0, <2>3 DEF SpoolTypeOK, DirTypeOK
    <3>3. faults' = faults
      BY <2>3 DEF Ok
    <3>4. WarningsExact'
      BY <2>1, <3>1, <3>2, <3>3 DEF AccountInv, WarningsExact
    <3>5. SinglePlace'
      <4> SUFFICES ASSUME faults' = 0 /\ starts' <= 1,
                          NEW l \in accepted', NEW u \in Ulids,
                          Published(u)' /\ l \in dir'[u].recs
                   PROVE  \A v \in Ulids : Published(v)' /\ l \in dir'[v].recs
                                               => u = v
        BY <2>3 DEF SinglePlace
      <4>1. \A v \in Ulids : Published(v) /\ l \in dir[v].recs
                                 => /\ l \notin active.lines
                                    /\ \A w \in Ulids :
                                         Published(w) /\ l \in dir[w].recs
                                             => v = w
        BY <2>1, <3>3 DEF AccountInv, SinglePlace
      <4>2. \A v \in Ulids \ {cur} : Published(v)' /\ l \in dir'[v].recs
                                 => Published(v) /\ l \in dir[v].recs
        BY <3>2 DEF Published
      <4> QED
        BY <3>1, <4>1, <4>2
    <3>6. (starts = 0 => pc = "down" /\ \A u \in Ulids : ~Published(u))'
      BY <2>1 DEF AccountInv
    <3> QED
      BY <3>4, <3>5, <3>6 DEF AccountInv
  <2> QED
    BY <1>7, <2>2, <2>3 DEF Publish, RenameFails
<1>8. CASE Reopen
  <2>1. /\ UNCHANGED <<dir, accepted, starts>>
        /\ pc = "reopen"
        /\ \/ Fails("reopen") /\ UNCHANGED active
           \/ Ok /\ active'.lines = {}
    BY <1>8 DEF Reopen, Truncated, Empty
  <2> QED
    BY <1>0, <2>1, FaultsGrow, AccountKept DEF Published
<1>9. CASE CapRemove
  <2>1. UNCHANGED <<active, accepted, starts>> /\ pc = "capRemove"
    BY <1>9 DEF CapRemove
  <2>2. faults' = 0 => faults = 0
    BY <1>0, <1>9, FaultsGrow DEF CapRemove
  <2>3. CASE UNCHANGED dir
    BY <2>1, <2>2, <2>3, QuietAccount, AccountKept
  <2>4. CASE \E u \in Segments : /\ dir' = Removed(u, "evicted")
                                 /\ cur' = u
                                 /\ pc' = "capWarn"
    <3>1. PICK u \in Ulids : /\ dir[u].state = "zst"
                             /\ dir' = Removed(u, "evicted")
                             /\ cur' = u
                             /\ pc' = "capWarn"
      BY <2>4 DEF Segments
    <3>2. dir'[u].state = "evicted" /\ dir'[u].recs = dir[u].recs
      BY <1>0, <3>1, FileTypes DEF Removed, SpoolTypeOK, DirTypeOK, File
    <3>3. \A v \in Ulids : v # u => dir'[v] = dir[v]
      BY <1>0, <3>1 DEF Removed, SpoolTypeOK, DirTypeOK
    <3>4. WarningsExact'
      BY <2>1, <2>2, <3>1, <3>2, <3>3 DEF AccountInv, WarningsExact
    <3>5. \A v \in Ulids : /\ Published(v)' => Published(v)
                           /\ dir'[v].recs = dir[v].recs
      BY <3>1, <3>2, <3>3 DEF Published
    <3>6. SinglePlace'
      BY <2>1, <2>2, <3>5 DEF AccountInv, SinglePlace
    <3>7. (starts = 0 => pc = "down" /\ \A v \in Ulids : ~Published(v))'
      BY <2>1 DEF AccountInv
    <3> QED
      BY <3>4, <3>6, <3>7 DEF AccountInv
  <2> QED
    BY <1>9, <2>3, <2>4 DEF CapRemove
<1>10. CASE CapWarn
  <2>1. /\ cur \in Ulids
        /\ Warning(cur) \in Line
        /\ ~HasLine(Warning(cur))
        /\ dir[cur].state = "evicted"
        /\ handle = "open"
    BY <1>10, UlidLines
       DEF CapWarn, FreshInv, WarningIsNew, FlushInv, Capping
  <2>2. /\ Appended(Warning(cur)) \/ NotAppended
        /\ UNCHANGED <<dir, starts>>
        /\ pc = "capWarn"
    BY <1>10 DEF CapWarn
  <2>3. \A u \in Ulids : Warning(u) = Warning(cur) => u = cur
    BY DEF Warning
  <2>4. CASE Appended(Warning(cur))
    <3>1. accepted' = accepted \cup {Warning(cur)} /\ faults' = faults
      BY <2>4 DEF Appended, Ok
    <3>2. WarningsExact'
      BY <2>1, <2>2, <2>3, <3>1 DEF AccountInv, WarningsExact
    <3> QED
      BY <1>0, <2>1, <2>2, <3>2, AppendAccount
  <2>5. CASE NotAppended
    <3>1. accepted' = accepted /\ faults' # 0
      BY <1>0, <2>1, <2>5, FaultsGrow DEF NotAppended
    <3>2. WarningsExact'
      BY <2>2, <3>1 DEF AccountInv, WarningsExact
    <3> QED
      BY <1>0, <2>1, <2>2, <3>2, AppendAccount
  <2> QED
    BY <2>2, <2>4, <2>5
<1>11. CASE ShipperRemoves
  <2>1. /\ UNCHANGED <<active, accepted, starts, faults, pc, cur>>
        /\ \E u \in Segments, why \in {"shipped", "rejected"} :
              dir' = Removed(u, why)
    BY <1>11 DEF ShipperRemoves, spoolVars, memVars, envVars
  <2>2. PICK u \in Ulids, why \in {"shipped", "rejected"} :
            dir[u].state = "zst" /\ dir' = Removed(u, why)
    BY <2>1 DEF Segments
  <2>3. dir'[u].state = why /\ dir'[u].recs = dir[u].recs
    BY <1>0, <2>2, FileTypes DEF Removed, SpoolTypeOK, DirTypeOK, File
  <2>4. \A v \in Ulids : v # u => dir'[v] = dir[v]
    BY <1>0, <2>2 DEF Removed, SpoolTypeOK, DirTypeOK
  <2>5. /\ \A v \in Ulids : Published(v)' => /\ Published(v)
                                            /\ dir'[v].recs = dir[v].recs
        /\ \A v \in Ulids : dir'[v].state = "evicted" <=>
                                dir[v].state = "evicted"
    BY <2>2, <2>3, <2>4 DEF Published, Unlinked
  <2> QED
    BY <2>1, <2>5, AccountKept
<1>12. CASE UNCHANGED svars
  <2>1. UNCHANGED <<dir, active, accepted, starts, faults, pc, cur>>
    BY <1>12 DEF svars, dirVars, spoolVars, memVars, envVars
  <2> QED
    BY <2>1, QuietAccount, AccountKept
<1> QED
  BY <1>1, <1>2, <1>3, <1>4, <1>5, <1>6, <1>7, <1>8, <1>9, <1>10, <1>11,
     <1>12 DEF SpoolNext, SpoolStep

(***************************************************************************)
(* What the proofs above establish together holds in every behaviour.      *)
(***************************************************************************)
SpoolInv == LossInv /\ FreshInv /\ FlushInv /\ TmpInv /\ AccountInv

(* It holds at the start... *)
LEMMA SpoolInvBegins ==
    ASSUME SpoolInit
    PROVE  SpoolInv
<1>1. LossInv
  BY LossBegins
<1>2. FreshInv
  BY FreshBegins
<1>3. FlushInv
  BY DEF SpoolInit, MemInit, Empty, FlushInv, Capping
<1>4. TmpInv
  BY DEF SpoolInit, MemInit, DirInit, NoFile, TmpInv, OneTmp, Tmps
<1>5. AccountInv
  BY DEF SpoolInit, MemInit, DirInit, NoFile, AccountInv, Published, Unlinked,
         WarningsExact, SinglePlace
<1> QED
  BY <1>1, <1>2, <1>3, <1>4, <1>5 DEF SpoolInv

(* ...and every step keeps it. *)
LEMMA SpoolInvInductive ==
    ASSUME SpoolInv, [SpoolNext]_svars
    PROVE  SpoolInv'
<1>1. SpoolTypeOK /\ SpoolTypeOK'
  BY TypeInductive DEF SpoolInv, LossInv
<1> QED
  BY <1>1, LossInductive, FreshInductive, FlushInductive, TmpInductive,
     AccountInductive DEF SpoolInv

(***************************************************************************)
(* However many rotations fail and processes die in the middle of one, at  *)
(* most one temporary file is left, and a process that has met no failure  *)
(* never has a line in two files, save between the rename and the reopen.  *)
(***************************************************************************)
THEOREM NothingIsLeftOver == SpoolSpec => []NoLeftovers
<1>1. SpoolInit => SpoolInv
  BY SpoolInvBegins
<1>2. SpoolInv /\ [SpoolNext]_svars => SpoolInv'
  BY SpoolInvInductive
<1>3. SpoolInv => NoLeftovers
  BY DEF SpoolInv, TmpInv, AccountInv, NoLeftovers
<1> QED
  BY <1>1, <1>2, <1>3, PTL DEF SpoolSpec

(***************************************************************************)
(* The warnings are true: one that was written names a segment that the    *)
(* cap evicted and never one that the shipper took in the meantime; and    *)
(* the first process, as long as nothing fails, warns of every eviction.   *)
(***************************************************************************)
THEOREM WarningsAreExact == SpoolSpec => []WarningsExact
<1>1. SpoolInit => SpoolInv
  BY SpoolInvBegins
<1>2. SpoolInv /\ [SpoolNext]_svars => SpoolInv'
  BY SpoolInvInductive
<1>3. SpoolInv => WarningsExact
  BY DEF SpoolInv, AccountInv
<1> QED
  BY <1>1, <1>2, <1>3, PTL DEF SpoolSpec

-----------------------------------------------------------------------------
(* The listing of enforceCap. *)

(* Only the shipper touches the segments while enforceCap looks at them: no *)
(* segment comes up behind the back of the listing. *)
ListedInv == pc \in {"capStat", "capRemove"} => Segments \subseteq listed

(* Every step keeps it. *)
LEMMA ListedInductive ==
    ASSUME SpoolTypeOK, ListedInv, [SpoolNext]_svars
    PROVE  ListedInv'
<1>1. CASE Open \/ BeginWrite \/ BeginClose \/ Append \/ Seal \/ Create
           \/ Compress \/ Publish \/ Reopen \/ CapWarn \/ CloseFile \/ Crash
  <2>1. pc' \notin {"capStat", "capRemove"}
    BY <1>1, ReturnOrErr
       DEF Open, BeginWrite, BeginClose, Append, Seal, Create, Compress,
           Publish, RenameFails, Reopen, CapWarn, CloseFile, Crash
  <2> QED
    BY <2>1 DEF ListedInv
<1>2. CASE CapList
  BY <1>2, ReturnOrErr DEF CapList, ListedInv, Segments
<1>3. CASE CapStat \/ CapCompare
  <2>1. UNCHANGED <<dir, listed>> /\ pc = "capStat"
    BY <1>3 DEF CapStat, CapCompare
  <2> QED
    BY <2>1 DEF ListedInv, Segments
<1>4. CASE CapRemove
  <2>1. pc' \notin {"capStat", "capRemove"}
    BY <1>4, ReturnOrErr DEF CapRemove, RelistVanished
  <2> QED
    BY <2>1 DEF ListedInv
<1>5. CASE ShipperRemoves
  <2>1. UNCHANGED <<pc, listed>>
    BY <1>5 DEF ShipperRemoves, spoolVars, memVars
  <2>2. PICK u \in Ulids, why \in {"shipped", "rejected"} :
            dir[u].state = "zst" /\ dir' = Removed(u, why)
    BY <1>5 DEF ShipperRemoves, Segments
  <2>3. \A v \in Ulids : v # u => dir'[v] = dir[v]
    BY <2>2 DEF Removed, SpoolTypeOK, DirTypeOK
  <2>4. Segments' \subseteq Segments
    BY <2>2, <2>3 DEF Segments
  <2> QED
    BY <2>1, <2>4 DEF ListedInv
<1>6. CASE UNCHANGED svars
  BY <1>6 DEF svars, dirVars, spoolVars, memVars, ListedInv, Segments
<1> QED
  BY <1>1, <1>2, <1>3, <1>4, <1>5, <1>6 DEF SpoolNext, SpoolStep

(* Only os.Remove in enforceCap makes a segment an evicted one. *)
LEMMA OnlyCapEvicts ==
    ASSUME LossInv, [SpoolNext]_svars,
           NEW u \in Segments, dir'[u].state = "evicted"
    PROVE  pc = "capRemove" /\ Victim(u)
<1>0. SpoolTypeOK /\ RotationInv /\ u \in Ulids /\ dir[u].state = "zst"
  BY DEF LossInv, Segments
<1>1. CASE CapRemove
  <2>1. PICK w \in Ulids : /\ Victim(w)
                           /\ UNCHANGED dir \/ dir' = Removed(w, "evicted")
    BY <1>1 DEF CapRemove
  <2>2. dir' = Removed(w, "evicted")
    BY <1>0, <2>1
  <2>3. u = w
    BY <1>0, <2>2 DEF Removed, SpoolTypeOK, DirTypeOK
  <2> QED
    BY <1>1, <2>1, <2>3 DEF CapRemove
<1>2. CASE ~CapRemove
  <2>1. CASE UNCHANGED dir
    BY <1>0, <2>1
  <2>2. CASE Open
    BY <1>0, <2>2 DEF Open, WithoutTmps, Tmps, NoFile
  <2>3. CASE Create
    <3>1. nextUlid \in Ulids /\ dir[nextUlid].state = "absent"
      BY <1>0, <2>3, SpoolDirAssumption
         DEF Create, SpoolTypeOK, Ulids, RotationInv
    <3> QED
      BY <1>0, <2>1, <2>3, <3>1 DEF Create, SpoolTypeOK, DirTypeOK
  <2>4. CASE Compress \/ Publish
    <3>1. cur \in Ulids /\ dir[cur].state = "tmp"
      BY <1>0, <2>4 DEF Compress, Publish, RotationInv
    <3> QED
      BY <1>0, <2>1, <2>4, <3>1
         DEF Compress, Publish, RenameFails, SpoolTypeOK, DirTypeOK
  <2>5. CASE ShipperRemoves
    <3>1. PICK w \in Ulids, why \in {"shipped", "rejected"} :
              dir' = Removed(w, why)
      BY <2>5 DEF ShipperRemoves, Segments
    <3>2. CASE w = u
      BY <1>0, <3>1, <3>2, FileTypes
         DEF Removed, SpoolTypeOK, DirTypeOK, File
    <3>3. CASE w # u
      BY <1>0, <3>1, <3>3 DEF Removed, SpoolTypeOK, DirTypeOK
    <3> QED
      BY <3>2, <3>3
  <2>6. CASE BeginWrite \/ BeginClose \/ Append \/ Seal \/ Reopen \/ CapList
             \/ CapStat \/ CapCompare \/ CapWarn \/ CloseFile \/ Crash
             \/ UNCHANGED svars
    BY <2>1, <2>6 DEF BeginWrite, BeginClose, Append, Seal, Reopen, CapList,
       CapStat, CapCompare, CapWarn, CloseFile, Crash, svars, dirVars
  <2> QED
    BY <1>2, <2>2, <2>3, <2>4, <2>5, <2>6 DEF SpoolNext, SpoolStep
<1> QED
  BY <1>1, <1>2

(* It takes the first of its listing, which has every segment there is. *)
LEMMA EvictsListed ==
    ASSUME LossInv, ListedInv, [SpoolNext]_svars,
           NEW u \in Segments, dir'[u].state = "evicted"
    PROVE  \A v \in Segments : u <= v \/ u \in Behind
<1>1. pc = "capRemove" /\ Victim(u)
  BY OnlyCapEvicts
<1>2. Segments \subseteq listed
  BY <1>1 DEF ListedInv
<1>3. u \in Ulids /\ Segments \subseteq Ulids
  BY DEF Segments
<1>4. \A v \in Segments : NameLeq(u, v)
  BY <1>1, <1>2 DEF Victim, IsOldest
<1> QED
  BY <1>3, <1>4, SpoolDirAssumption DEF NameLeq, Behind, Ulids

(***************************************************************************)
(* The cap takes the oldest segment of all that are there when it unlinks  *)
(* it, although it chose it from a listing the shipper may have changed    *)
(* since; a clock that was set back excepted.                              *)
(***************************************************************************)
THEOREM CapEvictsOldest == SpoolSpec => EvictsOldest
<1>1. SpoolInit => LossInv /\ ListedInv
  BY LossBegins DEF SpoolInit, MemInit, ListedInv
<1>2. LossInv /\ SpoolTypeOK' /\ [SpoolNext]_svars => LossInv'
  BY LossInductive
<1>3. LossInv /\ ListedInv /\ [SpoolNext]_svars => ListedInv'
  BY ListedInductive DEF LossInv
<1>4. LossInv /\ ListedInv /\ [SpoolNext]_svars
        => [\A u \in Segments : dir'[u].state = "evicted"
               => \A v \in Segments : u <= v \/ u \in Behind]_svars
  BY EvictsListed
<1> QED
  BY <1>1, <1>2, <1>3, <1>4, TypeCorrect, PTL DEF SpoolSpec, EvictsOldest

-----------------------------------------------------------------------------
(* What enforceCap adds up. *)

(***************************************************************************)
(* total is never less than the bytes of the segments that are there and   *)
(* have been passed to os.Stat: a size does not change once the segment is *)
(* published, and the shipper only takes segments away.  It may be more,   *)
(* by the segments that went after they were counted.                      *)
(***************************************************************************)
SumInv == pc = "capStat" =>
              /\ IsFiniteSet(BytesOf(Segments \ todo))
              /\ Cardinality(BytesOf(Segments \ todo)) <= total

(* No segment takes no bytes. *)
LEMMA BytesOfNone == BytesOf({}) = {}
BY DEF BytesOf

(* The bytes of a segment are as many as its size. *)
LEMMA BytesOfOne ==
    ASSUME SpoolTypeOK, NEW u \in Ulids
    PROVE  /\ IsFiniteSet(BytesOf({u}))
           /\ Cardinality(BytesOf({u})) = dir[u].size
<1>1. dir[u].size \in Nat
  BY DEF SpoolTypeOK, DirTypeOK, File
<1>2. /\ IsFiniteSet(1 .. dir[u].size)
      /\ Cardinality(1 .. dir[u].size) = dir[u].size
  <2> DEFINE n == dir[u].size
  <2>1. n \in Nat
    BY <1>1
  <2> HIDE DEF n
  <2>2. /\ IsFiniteSet(1 .. n)
        /\ Cardinality(1 .. n) = IF 1 > n THEN 0 ELSE n - 1 + 1
    BY <2>1, FS_Interval
  <2>3. Cardinality(1 .. n) = n
    BY <2>1, <2>2
  <2> QED
    BY <2>2, <2>3 DEF n
<1>3. IsFiniteSet({u}) /\ Cardinality({u}) = 1
  BY FS_Singleton
<1>4. /\ IsFiniteSet({u} \X (1 .. dir[u].size))
      /\ Cardinality({u} \X (1 .. dir[u].size)) = dir[u].size
  <2> DEFINE n == dir[u].size
             T == 1 .. n
             S == {u}
  <2>1. n \in Nat /\ IsFiniteSet(T) /\ Cardinality(T) = n
    BY <1>1, <1>2
  <2>2. IsFiniteSet(S) /\ Cardinality(S) = 1
    BY <1>3
  <2> HIDE DEF n, T, S
  <2>3. /\ IsFiniteSet(S \X T)
        /\ Cardinality(S \X T) = Cardinality(S) * Cardinality(T)
    BY <2>1, <2>2, FS_Product
  <2>4. Cardinality(S \X T) = n
    BY <2>1, <2>2, <2>3
  <2> QED
    BY <2>3, <2>4 DEF n, T, S
<1>5. BytesOf({u}) = {u} \X (1 .. dir[u].size)
  BY DEF BytesOf
<1> QED
  BY <1>4, <1>5

(* One more segment adds its size. *)
LEMMA BytesOfMore ==
    ASSUME SpoolTypeOK, NEW segs \in SUBSET Ulids, NEW u \in Ulids \ segs,
           IsFiniteSet(BytesOf(segs))
    PROVE  /\ IsFiniteSet(BytesOf(segs \cup {u}))
           /\ Cardinality(BytesOf(segs \cup {u}))
                 = Cardinality(BytesOf(segs)) + dir[u].size
<1>1. BytesOf(segs \cup {u}) = BytesOf(segs) \cup BytesOf({u})
  BY DEF BytesOf
<1>2. /\ IsFiniteSet(BytesOf({u}))
      /\ Cardinality(BytesOf({u})) = dir[u].size
  BY BytesOfOne
<1>3. BytesOf(segs) \cap BytesOf({u}) = {}
  BY DEF BytesOf
<1>4. Cardinality(BytesOf(segs) \cap BytesOf({u})) = 0
  BY <1>3, FS_EmptySet
<1>5. /\ IsFiniteSet(BytesOf(segs) \cup BytesOf({u}))
      /\ Cardinality(BytesOf(segs) \cup BytesOf({u}))
            = Cardinality(BytesOf(segs)) + Cardinality(BytesOf({u}))
                 - Cardinality(BytesOf(segs) \cap BytesOf({u}))
  BY <1>2, FS_Union
<1>6. /\ Cardinality(BytesOf(segs)) \in Nat
      /\ Cardinality(BytesOf({u})) \in Nat
  BY <1>2, FS_CardinalityType
<1>7. Cardinality(BytesOf(segs) \cup BytesOf({u}))
         = Cardinality(BytesOf(segs)) + Cardinality(BytesOf({u}))
  BY <1>4, <1>5, <1>6
<1> QED
  BY <1>1, <1>2, <1>5, <1>7

(* Segments that go take their bytes with them. *)
LEMMA BytesOfFewer ==
    ASSUME SpoolTypeOK, SpoolTypeOK', NEW segs, NEW fewer,
           fewer \subseteq segs, segs \subseteq Ulids,
           \A v \in Ulids : dir'[v].size = dir[v].size
    PROVE  UNION {{u} \X (1 .. dir'[u].size) : u \in fewer}
              \subseteq BytesOf(segs)
BY DEF BytesOf

(* Every step keeps it. *)
LEMMA SumInductive ==
    ASSUME SpoolTypeOK, SpoolTypeOK', SumInv, [SpoolNext]_svars
    PROVE  SumInv'
<1>1. CASE Open \/ BeginWrite \/ BeginClose \/ Append \/ Seal \/ Create
           \/ Compress \/ Publish \/ Reopen \/ CapRemove \/ CapWarn
           \/ CloseFile \/ Crash
  <2>1. pc' # "capStat"
    BY <1>1, ReturnOrErr
       DEF Open, BeginWrite, BeginClose, Append, Seal, Create, Compress,
           Publish, RenameFails, Reopen, CapRemove, RelistVanished, CapWarn,
           CloseFile, Crash
  <2> QED
    BY <2>1 DEF SumInv
<1>2. CASE CapList
  <2>1. CASE pc' # "capStat"
    BY <2>1 DEF SumInv
  <2>2. CASE pc' = "capStat"
    <3>1. total' = 0 /\ todo' = Segments /\ dir' = dir
      BY <1>2, <2>2, ReturnOrErr DEF CapList
    <3>2. (Segments \ todo)' = {}
      BY <3>1 DEF Segments
    <3>3. BytesOf(Segments \ todo)' = {}
      BY <3>2 DEF BytesOf
    <3> QED
      BY <3>1, <3>3, FS_EmptySet DEF SumInv
  <2> QED
    BY <2>1, <2>2
<1>3. CASE CapStat
  <2>1. CASE pc' # "capStat"
    BY <2>1 DEF SumInv
  <2>2. CASE pc' = "capStat"
    <3>1. PICK u \in Ulids : /\ u \in todo
                             /\ todo' = todo \ {u}
                             /\ total' = AddSize(u)
      BY <1>3, <2>2, ReturnOrErr DEF CapStat, IsOldest
    <3>2. dir' = dir /\ pc = "capStat" /\ Segments' = Segments
      BY <1>3 DEF CapStat, Segments
    <3>3. CASE u \in Segments
      <4>1. (Segments \ todo)' = (Segments \ todo) \cup {u}
        BY <3>1, <3>2, <3>3
      <4>2. BytesOf(Segments \ todo)' = BytesOf((Segments \ todo) \cup {u})
        BY <3>2, <4>1 DEF BytesOf
      <4>3. Segments \ todo \in SUBSET Ulids
        BY DEF Segments
      <4>4. /\ IsFiniteSet(BytesOf((Segments \ todo) \cup {u}))
            /\ Cardinality(BytesOf((Segments \ todo) \cup {u}))
                  = Cardinality(BytesOf(Segments \ todo)) + dir[u].size
        BY <3>1, <3>2, <4>3, BytesOfMore DEF SumInv
      <4>5. total' = total + dir[u].size
        BY <3>1, <3>3 DEF AddSize
      <4>6. /\ Cardinality(BytesOf(Segments \ todo)) \in Nat
            /\ Cardinality(BytesOf(Segments \ todo)) <= total
            /\ Cardinality(BytesOf((Segments \ todo) \cup {u})) \in Nat
        BY <3>2, <4>4, FS_CardinalityType DEF SumInv
      <4>7. total \in Nat /\ dir[u].size \in Nat
        BY DEF SpoolTypeOK, DirTypeOK, File
      <4>8. Cardinality(BytesOf((Segments \ todo) \cup {u})) <= total'
        BY <4>4, <4>5, <4>6, <4>7
      <4> QED
        BY <4>2, <4>4, <4>8 DEF SumInv
    <3>4. CASE u \notin Segments
      <4>1. (Segments \ todo)' = Segments \ todo
        BY <3>1, <3>2, <3>4
      <4>2. BytesOf(Segments \ todo)' = BytesOf(Segments \ todo)
        BY <3>2, <4>1 DEF BytesOf
      <4>3. total' = total
        BY <3>1, <3>4 DEF AddSize
      <4> QED
        BY <3>2, <4>2, <4>3 DEF SumInv
    <3> QED
      BY <3>3, <3>4
  <2> QED
    BY <2>1, <2>2
<1>4. CASE CapCompare
  <2>1. pc' # "capStat"
    BY <1>4, ReturnOrErr DEF CapCompare
  <2> QED
    BY <2>1 DEF SumInv
<1>5. CASE ShipperRemoves
  <2>1. UNCHANGED <<pc, todo, total>>
    BY <1>5 DEF ShipperRemoves, spoolVars, memVars
  <2>2. PICK u \in Ulids, why \in {"shipped", "rejected"} :
            dir[u].state = "zst" /\ dir' = Removed(u, why)
    BY <1>5 DEF ShipperRemoves, Segments
  <2>3. \A v \in Ulids : v # u => dir'[v] = dir[v]
    BY <2>2 DEF Removed, SpoolTypeOK, DirTypeOK
  <2>4. \A v \in Ulids : dir'[v].size = dir[v].size
    BY <2>2 DEF Removed, SpoolTypeOK, DirTypeOK, File
  <2>5. (Segments \ todo)' \subseteq Segments \ todo
    BY <2>1, <2>2, <2>3 DEF Segments
  <2>6. Segments \ todo \subseteq Ulids
    BY DEF Segments
  <2>7. BytesOf(Segments \ todo)' \subseteq BytesOf(Segments \ todo)
    <3>1. UNION {{v} \X (1 .. dir'[v].size) : v \in (Segments \ todo)'}
             \subseteq BytesOf(Segments \ todo)
      BY <2>4, <2>5, <2>6, BytesOfFewer
    <3> QED
      BY <3>1 DEF BytesOf
  <2>8. CASE pc = "capStat"
    <3>1. /\ IsFiniteSet(BytesOf(Segments \ todo)')
          /\ Cardinality(BytesOf(Segments \ todo)')
                <= Cardinality(BytesOf(Segments \ todo))
      BY <2>7, <2>8, FS_Subset DEF SumInv
    <3>2. /\ Cardinality(BytesOf(Segments \ todo)') \in Nat
          /\ Cardinality(BytesOf(Segments \ todo)) \in Nat
          /\ total \in Nat
      BY <2>8, <3>1, FS_CardinalityType DEF SumInv, SpoolTypeOK
    <3> QED
      BY <2>1, <2>8, <3>1, <3>2 DEF SumInv
  <2>9. CASE pc # "capStat"
    BY <2>1, <2>9 DEF SumInv
  <2> QED
    BY <2>8, <2>9
<1>6. CASE UNCHANGED svars
  BY <1>6 DEF svars, dirVars, spoolVars, memVars, SumInv, BytesOf, Segments
<1> QED
  BY <1>1, <1>2, <1>3, <1>4, <1>5, <1>6 DEF SpoolNext, SpoolStep

(* enforceCap returns nil only when it has found the segments in bounds. *)
LEMMA ReturnsInBounds ==
    ASSUME SpoolTypeOK, ListedInv, SumInv, [SpoolNext]_svars,
           pc \in {"capList", "capStat"},
           pc' \in {"append", "idle", "closeFile"}, faults' = faults
    PROVE  DirBytes' <= MaxBytes
<1>0. \A k : ~Fails(k)
  BY DEF Fails, SpoolTypeOK, DirTypeOK
<1>1. CASE CapList
  <2>1. Segments = {} /\ dir' = dir
    BY <1>0, <1>1 DEF CapList
  <2>2. BytesOf(Segments)' = {}
    BY <2>1 DEF BytesOf, Segments
  <2> QED
    BY <2>2, FS_EmptySet, SpoolAssumption DEF DirBytes
<1>2. CASE CapStat
  BY <1>0, <1>2 DEF CapStat
<1>3. CASE CapCompare
  <2>1. todo = {} /\ total <= MaxBytes /\ dir' = dir /\ pc = "capStat"
    BY <1>3, SpoolAssumption DEF CapCompare, OverCap, SpoolTypeOK
  <2>2. Segments \ todo = Segments
    BY <2>1
  <2>3. Cardinality(BytesOf(Segments)) <= total
    BY <2>1, <2>2 DEF SumInv
  <2>4. DirBytes' = Cardinality(BytesOf(Segments))
    BY <2>1 DEF DirBytes, BytesOf, Segments
  <2>5. Cardinality(BytesOf(Segments)) \in Nat
    BY <2>1, <2>2, FS_CardinalityType DEF SumInv
  <2> QED
    BY <2>1, <2>3, <2>4, <2>5, SpoolAssumption DEF SpoolTypeOK
<1>4. CASE ~CapList /\ ~CapStat /\ ~CapCompare
  BY <1>4 DEF SpoolNext, SpoolStep, Open, BeginWrite, BeginClose, Append,
     Seal, Create, Compress, Publish, Reopen, CapRemove, CapWarn, CloseFile,
     Crash, ShipperRemoves, svars, spoolVars, memVars
<1> QED
  BY <1>1, <1>2, <1>3, <1>4

(***************************************************************************)
(* The cap holds: whenever enforceCap returns without an error, the        *)
(* segments that are there take no more than MaxBytes, although it read    *)
(* their sizes one by one while the shipper was removing files.            *)
(***************************************************************************)
THEOREM CapIsEnforced == SpoolSpec => CapEnforced
<1>1. SpoolInit => ListedInv /\ SumInv
  BY DEF SpoolInit, MemInit, ListedInv, SumInv
<1>2. SpoolTypeOK /\ ListedInv /\ [SpoolNext]_svars => ListedInv'
  BY ListedInductive
<1>3. SpoolTypeOK /\ SpoolTypeOK' /\ SumInv /\ [SpoolNext]_svars => SumInv'
  BY SumInductive
<1>4. SpoolTypeOK /\ ListedInv /\ SumInv /\ [SpoolNext]_svars
        => [(/\ pc \in {"capList", "capStat"}
             /\ pc' \in {"append", "idle", "closeFile"}
             /\ faults' = faults)
              => DirBytes' <= MaxBytes]_svars
  BY ReturnsInBounds
<1> QED
  BY <1>1, <1>2, <1>3, <1>4, TypeCorrect, PTL DEF SpoolSpec, CapEnforced

-----------------------------------------------------------------------------
(* The rounds of enforceCap. *)

(* A round has ended: of the segments that it listed at least one has gone, *)
(* and none has come. *)
Shrunk == Segments \subseteq listed /\ Segments # listed

(* Every step keeps it while the warning is written. *)
LEMMA ShrunkInductive ==
    ASSUME SpoolTypeOK, ListedInv, pc = "capWarn" => Shrunk,
           [SpoolNext]_svars
    PROVE  /\ pc' = "capWarn" => Shrunk'
           /\ pc \in {"capRemove", "capWarn"} /\ pc' = "capList" => Shrunk'
<1>1. CASE CapRemove
  <2>1. CASE pc' \in {"capWarn", "capList"}
    <3>1. PICK u \in Ulids :
              /\ u \in listed
              /\ UNCHANGED listed
              /\ \/ u \in Segments /\ dir' = Removed(u, "evicted")
                 \/ u \notin Segments /\ UNCHANGED dir
      BY <1>1, <2>1, ReturnOrErr
         DEF CapRemove, Victim, IsOldest, RelistVanished
    <3>2. Segments \subseteq listed
      BY <1>1 DEF CapRemove, ListedInv
    <3>3. CASE u \in Segments /\ dir' = Removed(u, "evicted")
      <4>1. /\ dir'[u].state = "evicted"
            /\ \A v \in Ulids \ {u} : dir'[v] = dir[v]
        BY <3>3 DEF Removed, SpoolTypeOK, DirTypeOK, File
      <4>2. Segments' = Segments \ {u}
        BY <4>1 DEF Segments
      <4> QED
        BY <3>1, <3>2, <4>2 DEF Shrunk
    <3>4. CASE u \notin Segments /\ UNCHANGED dir
      <4>1. Segments' = Segments
        BY <3>4 DEF Segments
      <4> QED
        BY <3>1, <3>2, <3>4, <4>1 DEF Shrunk
    <3> QED
      BY <3>1, <3>3, <3>4
  <2> QED
    BY <2>1
<1>2. CASE CapWarn
  <2>1. UNCHANGED <<dir, listed>> /\ pc = "capWarn"
    BY <1>2 DEF CapWarn
  <2> QED
    BY <2>1 DEF Shrunk, Segments
<1>3. CASE ShipperRemoves
  <2>1. UNCHANGED <<pc, listed>>
    BY <1>3 DEF ShipperRemoves, spoolVars, memVars
  <2>2. PICK u \in Ulids, why \in {"shipped", "rejected"} :
            u \in Segments /\ dir' = Removed(u, why)
    BY <1>3 DEF ShipperRemoves, Segments
  <2>3. /\ dir'[u].state = why
        /\ \A v \in Ulids \ {u} : dir'[v] = dir[v]
    BY <2>2 DEF Removed, SpoolTypeOK, DirTypeOK, File
  <2>4. Segments' = Segments \ {u}
    BY <2>2, <2>3 DEF Segments
  <2> QED
    BY <2>1, <2>2, <2>4 DEF Shrunk
<1>4. CASE UNCHANGED svars
  BY <1>4 DEF svars, dirVars, spoolVars, memVars, Shrunk, Segments
<1>5. CASE Open \/ BeginWrite \/ BeginClose \/ Append \/ Seal \/ Create
           \/ Compress \/ Publish \/ Reopen \/ CapList \/ CapStat
           \/ CapCompare \/ CloseFile \/ Crash
  <2>1. pc \notin {"capRemove", "capWarn"} \/ pc' = "down"
    BY <1>5 DEF Open, BeginWrite, BeginClose, Append, Seal, Create, Compress,
                Publish, Reopen, CapList, CapStat, CapCompare, CloseFile,
                Crash
  <2>2. pc' # "capWarn"
    BY <1>5, ReturnOrErr
       DEF Open, BeginWrite, BeginClose, Append, Seal, Create, Compress,
           Publish, RenameFails, Reopen, CapList, CapStat, CapCompare,
           CloseFile, Crash
  <2> QED
    BY <2>1, <2>2
<1> QED
  BY <1>1, <1>2, <1>3, <1>4, <1>5 DEF SpoolNext, SpoolStep

(***************************************************************************)
(* Why the loop of enforceCap ends: whenever it starts over, because it    *)
(* has dropped a segment or because the one it chose had vanished, fewer   *)
(* segments are left than its last listing had, and none is new.           *)
(***************************************************************************)
THEOREM CapRoundsShrink ==
    SpoolSpec => [][(pc \in {"capRemove", "capWarn"} /\ pc' = "capList")
                       => Shrunk']_svars
<1>1. SpoolInit => ListedInv /\ (pc = "capWarn" => Shrunk)
  BY DEF SpoolInit, MemInit, ListedInv
<1>2. SpoolTypeOK /\ ListedInv /\ [SpoolNext]_svars => ListedInv'
  BY ListedInductive
<1>3. SpoolTypeOK /\ ListedInv /\ (pc = "capWarn" => Shrunk)
         /\ [SpoolNext]_svars => (pc = "capWarn" => Shrunk)'
  BY ShrunkInductive
<1>4. SpoolTypeOK /\ ListedInv /\ (pc = "capWarn" => Shrunk)
         /\ [SpoolNext]_svars
         => [(pc \in {"capRemove", "capWarn"} /\ pc' = "capList")
                => Shrunk']_svars
  BY ShrunkInductive
<1> QED
  BY <1>1, <1>2, <1>3, <1>4, TypeCorrect, PTL DEF SpoolSpec
=============================================================================
