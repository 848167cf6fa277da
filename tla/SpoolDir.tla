------------------------------ MODULE SpoolDir ------------------------------
(***************************************************************************)
(* The spool directory of memauditd: the one piece of state that the spool *)
(* (internal/spool) and the shipper (internal/ship) share.  They run on    *)
(* different goroutines, hold no common lock, and talk only through the    *)
(* files named <ulid>.jsonl.zst.                                           *)
(*                                                                         *)
(* A segment is identified by its ULID, a number here: the n-th ULID drawn *)
(* is n.  A ULID begins with the time, so the order of the names is the    *)
(* order of creation, which is what spool.Segments relies on, as long as   *)
(* the clock goes forward.  Date is what the clock said at each: any       *)
(* function, so a ULID drawn after the clock was set back sorts anywhere   *)
(* among the earlier ones.                                                 *)
(***************************************************************************)
EXTENDS Naturals

CONSTANTS
    MaxSegs,     \* bound: how many ULIDs a behaviour may draw
    Date,        \* the time at which each of them is drawn
    SegSizes,    \* the sizes a compressed segment can have
    Faults,      \* the system calls that may fail, by the names below
    MaxFaults    \* bound: failures in a behaviour

SpoolFaults == {"open", "append", "short", "sync", "close", "read", "create",
                "compress", "rename", "reopen", "list", "stat", "remove"}

ShipFaults == {"shipList", "shipRead", "shipRemove"}

Ulids == 1 .. MaxSegs

ASSUME SpoolDirAssumption ==
    /\ MaxSegs \in Nat
    /\ Date \in [Ulids -> Nat]
    /\ SegSizes \subseteq Nat
    /\ Faults \subseteq SpoolFaults \cup ShipFaults
    /\ MaxFaults \in Nat

VARIABLES
    dir,       \* the segment files, by ULID
    faults     \* failures of system calls so far

dirVars == <<dir, faults>>

(***************************************************************************)
(* One JSON line of a segment.  A collected envelope is known by its       *)
(* number; a spool_warning envelope by the segment it reports as dropped.  *)
(***************************************************************************)
Line == [type : {"collected", "spool_warning"}, id : Nat]

Collected(n) == [type |-> "collected", id |-> n]

Warning(u) == [type |-> "spool_warning", id |-> u]

(***************************************************************************)
(* state is the name the file has: none yet ("absent"), <ulid>.jsonl.zst   *)
(* .tmp ("tmp"), <ulid>.jsonl.zst ("zst").  The other three are all        *)
(* "unlinked" to the program; they record, for the properties, who did it: *)
(* the shipper after a 2xx, the shipper after a 4xx, or enforceCap.        *)
(* recs are the lines that can be decoded from the file, whole whether its *)
(* zstd stream is complete.                                                *)
(***************************************************************************)
Unlinked == {"shipped", "rejected", "evicted"}

File == [state : {"absent", "tmp", "zst"} \cup Unlinked,
         recs  : SUBSET Line,
         whole : BOOLEAN,
         size  : Nat]

NoFile == [state |-> "absent", recs |-> {}, whole |-> FALSE, size |-> 0]

(* spool.Segments: the names that end in ".jsonl.zst", so never a .tmp. *)
Segments == {u \in Ulids : dir[u].state = "zst"}

(***************************************************************************)
(* sort.Strings: u's name is v's or sorts before it.  ulid.Make makes the  *)
(* ULIDs of one millisecond ascending.                                     *)
(***************************************************************************)
NameLeq(u, v) == Date[u] < Date[v] \/ (Date[u] = Date[v] /\ u <= v)

(* The ULIDs dated before an earlier one, by a clock that was set back. *)
Behind == {u \in Ulids : \E v \in 1 .. u - 1 : Date[u] < Date[v]}

(* segs[0] of the sorted listing. *)
IsOldest(u, segs) == u \in segs /\ \A v \in segs : NameLeq(u, v)

(* os.Remove of an existing segment, for the reason given. *)
Removed(u, why) == [dir EXCEPT ![u].state = why]

(* A system call that succeeds, and one of kind k that fails. *)
Ok == UNCHANGED faults

Fails(k) == /\ k \in Faults
            /\ faults < MaxFaults
            /\ faults' = faults + 1

DirTypeOK == /\ dir \in [Ulids -> File]
             /\ faults \in Nat

DirInit == /\ dir = [u \in Ulids |-> NoFile]
           /\ faults = 0

-----------------------------------------------------------------------------
(***************************************************************************)
(* Clocks for TLC: one that goes forward, and three that are set back for  *)
(* one ULID, to before the first or to between the first and the second.   *)
(***************************************************************************)
ForwardClock == [u \in Ulids |-> u]

SecondBefore == [u \in Ulids |-> IF u = 2 THEN 0 ELSE u]

ThirdBefore == [u \in Ulids |-> IF u = 3 THEN 0 ELSE u]

ThirdBetween == [u \in Ulids |-> IF u = 3 THEN 1 ELSE u]
=============================================================================
