-------------------------------- MODULE Spool -------------------------------
(***************************************************************************)
(* internal/spool: envelopes are appended to active.jsonl; rotate turns    *)
(* that file into a compressed segment and enforceCap drops the oldest     *)
(* segments when their total size passes MaxBytes.                         *)
(*                                                                         *)
(* A call of Write or Close is a sequence of steps, one per system call    *)
(* that another process, or a crash, can get in between; pc is the step    *)
(* the call is at.  Every step that can fail may fail (Faults, MaxFaults). *)
(* A crash is the end of the process, which loses the variables of the     *)
(* *Spool and keeps the files.                                             *)
(***************************************************************************)
EXTENDS SpoolDir, FiniteSets

CONSTANTS
    RotateBytes,   \* Options.RotateBytes, a line counting for one
    MaxBytes,      \* Options.MaxBytes
    MaxRecs,       \* bound: envelopes written
    MaxStarts      \* bound: processes started on the directory

ASSUME SpoolAssumption ==
    /\ RotateBytes \in Nat \ {0}
    /\ MaxBytes \in Nat \ {0}
    /\ MaxRecs \in Nat
    /\ MaxStarts \in Nat

VARIABLES
    active,       \* active.jsonl on disk: its lines, its length, and whether
                  \* it ends in the middle of a line
    handle,       \* s.active: is the descriptor usable?
    activeSize,   \* s.activeSize
    pc,           \* the step of the call in progress
    cont,         \* what rotate returns to
    arg,          \* the envelope Write was called with
    cur,          \* the segment being rotated or evicted
    listed,       \* enforceCap: segs
    todo,         \* enforceCap: the part of segs not yet passed to os.Stat
    total,        \* enforceCap: total
    result,       \* what Close returned
    nextUlid,     \* the next ULID
    nextRec,      \* the next envelope
    accepted,     \* history: lines whose append succeeded
    glued,        \* history: those of them appended to a torn line
    starts        \* processes started so far

memVars == <<handle, activeSize, pc, cont, arg, cur, listed, todo, total,
             result>>
envVars == <<nextUlid, nextRec, accepted, glued, starts>>
spoolVars == <<active, memVars, envVars>>

Pcs == {"down", "idle", "append", "seal", "create", "compress", "publish",
        "reopen", "capList", "capStat", "capRemove", "capWarn", "closeFile",
        "closed"}

Empty == [lines |-> {}, len |-> 0, torn |-> FALSE]

-----------------------------------------------------------------------------
(* Returning, and appending. *)

(***************************************************************************)
(* rotate (and enforceCap, its last call) goes back to its caller: to      *)
(* Write before the append (age rotation), to Write at its end (size       *)
(* rotation), or to Close.  An error ends the caller too.                  *)
(***************************************************************************)
Return == /\ pc' = CASE cont = "append" -> "append"
                     [] cont = "return" -> "idle"
                     [] cont = "close"  -> "closeFile"
          /\ UNCHANGED result

ReturnErr == /\ pc' = IF cont = "close" THEN "closed" ELSE "idle"
             /\ result' = IF cont = "close" THEN "err" ELSE result

(* Mutation: a line is written without its newline. *)
NoNewline == TRUE

(* line = append(line, '\n'). *)
EndsTorn == FALSE

(***************************************************************************)
(* s.active.Write(line): all of it, nothing, or a first part of it (a disk *)
(* that fills up); the counter moves only when all was written.  A line    *)
(* that follows a torn one shares its text line and cannot be decoded.     *)
(***************************************************************************)
Appended(l) == /\ handle = "open"
               /\ Ok
               /\ active' = [lines |-> IF active.torn THEN active.lines
                                       ELSE active.lines \cup {l},
                             len   |-> active.len + 1,
                             torn  |-> EndsTorn]
               /\ activeSize' = activeSize + 1
               /\ accepted' = accepted \cup {l}
               /\ glued' = IF active.torn THEN glued \cup {l} ELSE glued

NotAppended == /\ \/ handle = "closed" /\ Ok /\ UNCHANGED active
                  \/ handle = "open" /\ Fails("append") /\ UNCHANGED active
                  \/ handle = "open" /\ Fails("short")
                     /\ active' = [lines |-> active.lines,
                                   len   |-> active.len + 1,
                                   torn  |-> TRUE]
               /\ UNCHANGED <<activeSize, accepted, glued>>

-----------------------------------------------------------------------------
(* Open. *)

Tmps == {u \in Ulids : dir[u].state = "tmp"}

(* Mutation: the temporary files of earlier runs stay. *)
KeepsTmps(gone) == dir

WithoutTmps(gone) == [u \in Ulids |-> IF u \in gone THEN NoFile ELSE dir[u]]

Open ==
    /\ pc = "down"
    /\ starts < MaxStarts
    /\ nextUlid <= MaxSegs
    /\ \/ /\ Ok
          /\ dir' = WithoutTmps(Tmps)
          /\ handle' = "open"
          /\ activeSize' = active.len
          /\ pc' = "idle"
       \/ /\ Fails("open")
          /\ \E gone \in SUBSET Tmps : dir' = WithoutTmps(gone)
          /\ UNCHANGED <<handle, activeSize, pc>>
    /\ starts' = starts + 1
    /\ UNCHANGED <<active, cont, arg, cur, listed, todo, total, result,
                   nextUlid, nextRec, accepted, glued>>

-----------------------------------------------------------------------------
(* Write. *)

(* The age check; whether the active file is too old is up to the clock. *)
BeginWrite ==
    /\ pc = "idle"
    /\ nextRec <= MaxRecs
    /\ nextUlid + 2 <= MaxSegs     \* bound: ULIDs for this call and for Close
    /\ arg' = Collected(nextRec)
    /\ nextRec' = nextRec + 1
    /\ \/ pc' = "append" /\ UNCHANGED cont
       \/ activeSize > 0 /\ pc' = "seal" /\ cont' = "append"
    /\ UNCHANGED <<dir, active, handle, activeSize, cur, listed, todo, total,
                   result, nextUlid, accepted, glued, faults, starts>>

(* The append and the size check. *)
Append ==
    /\ pc = "append"
    /\ \/ /\ Appended(arg)
          /\ IF activeSize' >= RotateBytes
             THEN pc' = "seal" /\ cont' = "return"
             ELSE pc' = "idle" /\ UNCHANGED cont
       \/ /\ NotAppended
          /\ pc' = "idle"
          /\ UNCHANGED cont
    /\ UNCHANGED <<dir, handle, arg, cur, listed, todo, total, result,
                   nextUlid, nextRec, starts>>

-----------------------------------------------------------------------------
(* rotate. *)

(* Sync, Close and ReadFile of the active file. *)
Seal ==
    /\ pc = "seal"
    /\ \/ /\ handle = "open"
          /\ Ok
          /\ handle' = "closed"
          /\ pc' = "create"
          /\ UNCHANGED result
       \/ /\ \/ handle = "closed" /\ Ok
             \/ handle = "open" /\ Fails("sync")
          /\ ReturnErr
          /\ UNCHANGED handle
       \/ /\ handle = "open"
          /\ Fails("close") \/ Fails("read")
          /\ ReturnErr
          /\ handle' = "closed"
    /\ UNCHANGED <<dir, active, activeSize, cont, arg, cur, listed, todo,
                   total, nextUlid, nextRec, accepted, glued, starts>>

(* Mutation: the segment is written under its final name. *)
FinalName == "zst"

(* segPath + ".tmp". *)
NewName == "tmp"

(* newULID and the creation of <ulid>.jsonl.zst.tmp. *)
Create ==
    /\ pc = "create"
    /\ nextUlid <= MaxSegs
    /\ nextUlid' = nextUlid + 1
    /\ \/ /\ Ok
          /\ dir' = [dir EXCEPT ![nextUlid].state = NewName]
          /\ cur' = nextUlid
          /\ pc' = "compress"
          /\ UNCHANGED result
       \/ /\ Fails("create")
          /\ ReturnErr
          /\ UNCHANGED <<dir, cur>>
    /\ UNCHANGED <<active, handle, activeSize, cont, arg, listed, todo, total,
                   nextRec, accepted, glued, starts>>

(* The zstd stream is written, closed and synced. *)
Compress ==
    /\ pc = "compress"
    /\ \/ /\ Ok
          /\ \E n \in SegSizes :
                dir' = [dir EXCEPT ![cur] = [@ EXCEPT !.recs = active.lines,
                                                      !.whole = TRUE,
                                                      !.size = n]]
          /\ pc' = "publish"
          /\ UNCHANGED result
       \/ /\ Fails("compress")
          /\ ReturnErr
          /\ UNCHANGED dir
    /\ UNCHANGED <<active, handle, activeSize, cont, arg, cur, listed, todo,
                   total, nextUlid, nextRec, accepted, glued, starts>>

(* Mutation: the error of os.Rename is ignored. *)
RenameErrorIgnored ==
    Fails("rename") /\ pc' = "reopen" /\ UNCHANGED <<dir, result>>

RenameFails == Fails("rename") /\ ReturnErr /\ UNCHANGED dir

(* The rename that makes the segment visible to the shipper. *)
Publish ==
    /\ pc = "publish"
    /\ \/ /\ Ok
          /\ dir' = [dir EXCEPT ![cur].state = "zst"]
          /\ pc' = "reopen"
          /\ UNCHANGED result
       \/ RenameFails
    /\ UNCHANGED <<active, handle, activeSize, cont, arg, cur, listed, todo,
                   total, nextUlid, nextRec, accepted, glued, starts>>

(* Mutation: the active file is reopened without O_TRUNC. *)
NotTruncated == active

(* What O_TRUNC leaves of the active file. *)
Truncated == Empty

(* The active file is opened again. *)
Reopen ==
    /\ pc = "reopen"
    /\ \/ /\ Ok
          /\ active' = Truncated
          /\ handle' = "open"
          /\ activeSize' = 0
          /\ pc' = "capList"
          /\ UNCHANGED result
       \/ /\ Fails("reopen")
          /\ ReturnErr
          /\ UNCHANGED <<active, handle, activeSize>>
    /\ UNCHANGED <<dir, cont, arg, cur, listed, todo, total,
                   nextUlid, nextRec, accepted, glued, starts>>

-----------------------------------------------------------------------------
(* enforceCap. *)

CapList ==
    /\ pc = "capList"
    /\ \/ /\ Ok
          /\ Segments = {}
          /\ Return
          /\ UNCHANGED <<listed, todo, total>>
       \/ /\ Ok
          /\ Segments # {}
          /\ listed' = Segments
          /\ todo' = Segments
          /\ total' = 0
          /\ pc' = "capStat"
          /\ UNCHANGED result
       \/ /\ Fails("list")
          /\ ReturnErr
          /\ UNCHANGED <<listed, todo, total>>
    /\ UNCHANGED <<dir, active, handle, activeSize, cont, arg, cur,
                   nextUlid, nextRec, accepted, glued, starts>>

(* A segment that has vanished counts for nothing. *)
AddSize(u) == IF u \in Segments THEN total + dir[u].size ELSE total

(* One os.Stat. *)
CapStat ==
    /\ pc = "capStat"
    /\ \E u \in Ulids :
          /\ IsOldest(u, todo)
          /\ \/ /\ Ok
                /\ todo' = todo \ {u}
                /\ total' = AddSize(u)
                /\ UNCHANGED <<pc, result>>
             \/ /\ Fails("stat")
                /\ ReturnErr
                /\ UNCHANGED <<todo, total>>
    /\ UNCHANGED <<dir, active, handle, activeSize, cont, arg, cur, listed,
                   nextUlid, nextRec, accepted, glued, starts>>

(* Mutation: off by one. *)
WellOverCap == total > MaxBytes + 1

OverCap == total > MaxBytes

(* The comparison of the total with the cap. *)
CapCompare ==
    /\ pc = "capStat"
    /\ todo = {}
    /\ IF OverCap
       THEN pc' = "capRemove" /\ UNCHANGED result
       ELSE Return
    /\ UNCHANGED <<dir, active, handle, activeSize, cont, arg, cur, listed,
                   todo, total, faults, envVars>>

(* Mutation: the newest segment is dropped. *)
NewestListed(u) == u \in listed /\ \A v \in listed : NameLeq(v, u)

(* segs[0]. *)
Victim(u) == IsOldest(u, listed)

(* Mutation: a vanished segment is reported as dropped. *)
ReportVanished(u) == /\ u \notin Segments
                     /\ pc' = "capWarn"
                     /\ cur' = u

(* Mutation: os.Remove of a vanished segment is tried again. *)
RetryVanished(u) == /\ u \notin Segments
                    /\ UNCHANGED <<pc, cur>>

(* A vanished segment leads to a new listing. *)
RelistVanished(u) == /\ u \notin Segments
                     /\ pc' = "capList"
                     /\ UNCHANGED cur

(* os.Remove(segs[0]). *)
CapRemove ==
    /\ pc = "capRemove"
    /\ \E u \in Ulids :
          /\ Victim(u)
          /\ \/ /\ Ok
                /\ u \in Segments
                /\ dir' = Removed(u, "evicted")
                /\ cur' = u
                /\ pc' = "capWarn"
                /\ UNCHANGED result
             \/ /\ Ok
                /\ RelistVanished(u)
                /\ UNCHANGED <<dir, result>>
             \/ /\ Fails("remove")
                /\ ReturnErr
                /\ UNCHANGED <<dir, cur>>
    /\ UNCHANGED <<active, handle, activeSize, cont, arg, listed, todo, total,
                   nextUlid, nextRec, accepted, glued, starts>>

(* writeWarning. *)
CapWarn ==
    /\ pc = "capWarn"
    /\ \/ /\ Appended(Warning(cur))
          /\ pc' = "capList"
          /\ UNCHANGED result
       \/ /\ NotAppended
          /\ ReturnErr
    /\ UNCHANGED <<dir, handle, cont, arg, cur, listed, todo, total,
                   nextUlid, nextRec, starts>>

-----------------------------------------------------------------------------
(* Close. *)

(* Mutation: a small active file is not rotated. *)
FullPending == activeSize >= RotateBytes

Pending == activeSize > 0

BeginClose ==
    /\ pc = "idle"
    /\ IF Pending
       THEN pc' = "seal" /\ cont' = "close"
       ELSE pc' = "closeFile" /\ UNCHANGED cont
    /\ UNCHANGED <<dir, active, handle, activeSize, arg, cur, listed, todo,
                   total, result, faults, envVars>>

CloseFile ==
    /\ pc = "closeFile"
    /\ pc' = "closed"
    /\ handle' = "closed"
    /\ \/ handle = "open" /\ Ok /\ result' = "ok"
       \/ handle = "closed" /\ Ok /\ result' = "err"
       \/ handle = "open" /\ Fails("close") /\ result' = "err"
    /\ UNCHANGED <<dir, active, activeSize, cont, arg, cur, listed, todo,
                   total, nextUlid, nextRec, accepted, glued, starts>>

-----------------------------------------------------------------------------
(* The process. *)

SpoolStep == \/ Append \/ Seal \/ Create \/ Compress \/ Publish \/ Reopen
             \/ CapList \/ CapStat \/ CapCompare \/ CapRemove \/ CapWarn
             \/ CloseFile

MemInit ==
    /\ handle = "closed"
    /\ activeSize = 0
    /\ pc = "down"
    /\ cont = "return"
    /\ arg = Collected(0)
    /\ cur = 0
    /\ listed = {}
    /\ todo = {}
    /\ total = 0
    /\ result = "none"

(* The process ends, killed at any step or on its own after Close. *)
Crash ==
    /\ pc # "down"
    /\ handle' = "closed"
    /\ activeSize' = 0
    /\ pc' = "down"
    /\ cont' = "return"
    /\ arg' = Collected(0)
    /\ cur' = 0
    /\ listed' = {}
    /\ todo' = {}
    /\ total' = 0
    /\ result' = "none"
    /\ UNCHANGED <<dir, active, faults, envVars>>

SpoolInit ==
    /\ DirInit
    /\ active = Empty
    /\ MemInit
    /\ nextUlid = 1
    /\ nextRec = 1
    /\ accepted = {}
    /\ glued = {}
    /\ starts = 0

(* The shipper, seen from the spool: any segment may go at any time. *)
ShipperRemoves ==
    /\ \E u \in Segments, why \in {"shipped", "rejected"} :
          dir' = Removed(u, why)
    /\ UNCHANGED <<faults, spoolVars>>

SpoolNext == \/ Open \/ BeginWrite \/ BeginClose \/ SpoolStep
             \/ Crash \/ ShipperRemoves

svars == <<dirVars, spoolVars>>

(* A call that has begun goes on: a goroutine that is not blocked runs. *)
SpoolSpec == SpoolInit /\ [][SpoolNext]_svars /\ WF_svars(SpoolStep)

-----------------------------------------------------------------------------
(* Properties. *)

(* The type invariant: every variable has its type. *)
SpoolTypeOK ==
    /\ DirTypeOK
    /\ active \in [lines : SUBSET Line, len : Nat, torn : BOOLEAN]
    /\ handle \in {"open", "closed"}
    /\ activeSize \in Nat
    /\ pc \in Pcs
    /\ cont \in {"append", "return", "close"}
    /\ arg \in Line
    /\ cur \in Ulids \cup {0}
    /\ listed \subseteq Ulids
    /\ todo \subseteq Ulids
    /\ total \in Nat
    /\ result \in {"none", "ok", "err"}
    /\ nextUlid \in 1 .. (MaxSegs + 1)
    /\ nextRec \in Nat
    /\ accepted \subseteq Line
    /\ glued \subseteq Line
    /\ starts \in Nat

(* Segment u is on disk, or was unlinked by someone who may. *)
Published(u) == dir[u].state \in {"zst"} \cup Unlinked

(***************************************************************************)
(* No line is lost: once Write's append, or writeWarning's, has succeeded, *)
(* the line is in active.jsonl or in a segment that was published, through *)
(* every failure of every call of rotate and every crash in between.  Only *)
(* the shipper and enforceCap make it go away, with its segment.  The      *)
(* exception is a line appended after a torn one (glued).                  *)
(***************************************************************************)
NoLoss ==
    \A l \in accepted \ glued :
        \/ l \in active.lines
        \/ \E u \in Ulids : Published(u) /\ l \in dir[u].recs

(***************************************************************************)
(* A write of part of a line spoils at most one line that Write accepts    *)
(* later, whatever runs, fails or dies in between: nothing repairs the     *)
(* file, but the newline of the next line ends the torn one too.           *)
(***************************************************************************)
OneLinePerShortWrite ==
    Cardinality(glued) + (IF active.torn THEN 1 ELSE 0) <= faults

(***************************************************************************)
(* What is listed can be read: a file under its final name is a complete   *)
(* zstd stream, at every moment a concurrent shipper may look (the comment *)
(* in rotate about the temporary name).                                    *)
(***************************************************************************)
WholeSegments == \A u \in Ulids : Published(u) => dir[u].whole

(***************************************************************************)
(* At most one .tmp file exists, however many rotations fail and however   *)
(* many processes die in the middle of one: it is not counted against the  *)
(* cap, so any number of them would break the bound on the directory.      *)
(***************************************************************************)
OneTmp == \A u, v \in Tmps : u = v

(***************************************************************************)
(* A line is in two places only after a process died, or the reopening of  *)
(* the active file failed, right after a rename.  In a process that has    *)
(* met no failure a line is in exactly one file, save between the two.     *)
(***************************************************************************)
SinglePlace ==
    faults = 0 /\ starts <= 1 =>
        \A l \in accepted, u \in Ulids :
            Published(u) /\ l \in dir[u].recs =>
                /\ l \in active.lines => pc \in {"reopen", "down"}
                /\ \A v \in Ulids : Published(v) /\ l \in dir[v].recs
                                       => u = v

(***************************************************************************)
(* Failing and dying rotations leave neither temporary files that add up   *)
(* nor, without a failure, a line to be shipped twice.                     *)
(***************************************************************************)
NoLeftovers == OneTmp /\ SinglePlace

(***************************************************************************)
(* The spool's own account of what it dropped is exact: a warning names    *)
(* only segments that enforceCap unlinked, never one the shipper removed   *)
(* while enforceCap was looking at it (the comment at the os.Remove); and  *)
(* an eviction without its warning needs a failure or a death in between.  *)
(***************************************************************************)
WarningsExact ==
    \A u \in Ulids :
        /\ Warning(u) \in accepted => dir[u].state = "evicted"
        /\ dir[u].state = "evicted" /\ faults = 0 /\ starts <= 1
              => \/ Warning(u) \in accepted
                 \/ pc = "capWarn" /\ cur = u
                 \/ pc = "down"

(***************************************************************************)
(* When Close returns nil every collected envelope has left active.jsonl   *)
(* for a segment: what may stay behind is warnings, or part of a line.     *)
(***************************************************************************)
CloseFlushesEnvelopes ==
    result = "ok" => \A l \in active.lines : l.type = "spool_warning"

(***************************************************************************)
(* "A collect or spool-write failure is logged and skipped - one bad tick  *)
(* never stops the loop." (the comment on runSource): after a Write that   *)
(* failed, the next one finds a file it can append to.                     *)
(***************************************************************************)
BadTickIsSkipped == pc = "append" => handle = "open"

(***************************************************************************)
(* Eviction takes the oldest segment there is, although the listing it was *)
(* chosen from may be stale by then; only a segment that a clock which was *)
(* set back has dated goes before an older one.                            *)
(***************************************************************************)
EvictsOldest ==
    [][\A u \in Segments : dir'[u].state = "evicted"
            => \A v \in Segments : u <= v \/ u \in Behind]_svars

(* The bytes that segments take on the disk, byte n of segment u as <<u, n>>. *)
BytesOf(segs) == UNION {{u} \X (1 .. dir[u].size) : u \in segs}

DirBytes == Cardinality(BytesOf(Segments))

(***************************************************************************)
(* The cap: when enforceCap returns nil, the segments are within MaxBytes, *)
(* although the sizes it added up were read one by one while the shipper   *)
(* was removing files.                                                     *)
(***************************************************************************)
CapEnforced ==
    [][(/\ pc \in {"capList", "capStat"}
        /\ pc' \in {"append", "idle", "closeFile"}
        /\ faults' = faults)
          => DirBytes' <= MaxBytes]_svars

(***************************************************************************)
(* Every call of Write and Close returns: enforceCap's loop, which starts  *)
(* over whenever a segment vanishes or is dropped, comes to an end.        *)
(***************************************************************************)
CallsReturn == pc \notin {"down", "idle", "closed"}
                   ~> pc \in {"down", "idle", "closed"}

-----------------------------------------------------------------------------
(* The abstract store. *)

Held == active.lines \cup UNION {dir[u].recs : u \in Segments}

Released == UNION {dir[u].recs : u \in {v \in Ulids :
                                            dir[v].state \in Unlinked}}

Store == INSTANCE LineStore WITH held <- Held, released <- Released

(***************************************************************************)
(* The spool implements the store that never loses a line: with every      *)
(* failure, every crash and a concurrent shipper, each step of it takes a  *)
(* new line, releases the lines of an unlinked segment, or changes nothing *)
(* that the store can see (rotation is invisible).                         *)
(***************************************************************************)
RefinesLineStore == Store!Spec
=============================================================================
