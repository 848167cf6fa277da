------------------------------- MODULE Collect ------------------------------
(***************************************************************************)
(* internal/collector: one tick of a collector that reads procfs and sysfs *)
(* (Meminfo, Vmstat, PSI, Numa, Hugepages), on a host where what is read   *)
(* comes and goes between two system calls.                                *)
(*                                                                         *)
(* A path is <<root, n, s, f>>: node, device or endpoint n, page size or   *)
(* process s, file or metric f; 0 and "" where there is none.  The host is *)
(* the set of the paths that exist.  A record names the path it is about   *)
(* and holds the paths its values were read from: a field whose file was   *)
(* missing is zero, and has none.                                          *)
(***************************************************************************)
EXTENDS Naturals, Sequences, FiniteSetsExt

CONSTANTS
    Paths,       \* everything that may exist
    Hosts,       \* the hosts there may be to begin with
    MaxChurn,    \* bound: how often something comes or goes
    MaxFaults    \* bound: failing reads, hanging peers, non-finite values

VARIABLES
    host,       \* external: what exists
    stable,     \* history: what has existed since the tick began
    seen,       \* history: what existed at some moment of the tick
    churn,      \* comings and goings so far
    faults,     \* failures so far
    faulted,    \* history: did a call fail in this tick?
    kind,       \* the collector whose tick it is
    pc,         \* its step
    sizes,      \* page sizes left
    nodes,      \* the nodes listed
    left,       \* nodes, or endpoints, left
    dir,        \* the directory being read
    files,      \* its files left to read
    got,        \* its files read
    recs,       \* the records of this tick
    result      \* how it ended

hostVars == <<host, stable, seen, churn>>
loopVars == <<sizes, nodes, left, dir, files, got>>
collectVars == <<hostVars, faults, faulted, kind, pc, loopVars, recs, result>>

Proc(f) == <<f, 0, 0, "">>
NodeRoot == <<"node", 0, 0, "">>
Node(n) == <<"node", n, 0, "">>
NodePages(n, s) == <<"node", n, s, "">>
HugeRoot == <<"huge", 0, 0, "">>
HostPages(s) == <<"huge", 0, s, "">>
File(d, f) == <<d[1], d[2], d[3], f>>

(* q is p, or below p. *)
Under(p, q) == /\ q[1] = p[1]
               /\ p[2] = 0 \/ q[2] = p[2]
               /\ p[3] = 0 \/ q[3] = p[3]
               /\ p[4] = "" \/ q[4] = p[4]

(* The directory a path is in; an endpoint is in none. *)
ParentOf(p) == IF p[4] # "" THEN File(p, "")
               ELSE IF p[3] # 0 THEN <<p[1], p[2], 0, "">>
               ELSE IF p[1] = "vllm" THEN p
               ELSE <<p[1], 0, 0, "">>

(* What is there is in directories that are, and a node's directory has    *)
(* the two files that Numa reads.                                          *)
Sound(h) ==
    /\ \A p \in h : ParentOf(p) \in h
    /\ \A p \in h : p[1] = "node" /\ p[2] # 0 =>
          {File(Node(p[2]), "meminfo"), File(Node(p[2]), "numastat")}
             \subseteq h

(* The files that are not read are left out of Paths. *)
ASSUME CollectAssumption ==
    /\ IsFiniteSet(Paths)
    /\ Paths \subseteq STRING \X Nat \X Nat \X STRING
    /\ \A p \in Paths :
          /\ p[1] = "node" /\ p[2] = 0 => p = NodeRoot
          /\ p[1] = "node" /\ p[3] = 0 => p[4] \in {"", "meminfo", "numastat"}
          /\ p[1] = "node" /\ p[3] # 0 => p[4] \in {"", "nr", "resv"}
          /\ p[1] = "huge" => p[2] = 0 /\ p[4] \in {"", "nr", "resv"}
          /\ p[1] = "huge" /\ p[3] = 0 => p[4] = ""
    /\ Sound(Paths)
    /\ \A h \in Hosts : h \subseteq Paths /\ Sound(h)
    /\ MaxChurn \in Nat
    /\ MaxFaults \in Nat

Rec(d, values, finite) == [of |-> d, got |-> values, finite |-> finite]

-----------------------------------------------------------------------------
(* How a collector returns. *)

Lose == pc' = "idle" /\ result' = "err" /\ recs' = <<>>

(* nil, nil: there is nothing of the kind on this host. *)
Absent == pc' = "idle" /\ result' = "ok" /\ recs' = <<>>

Collected(rs) == pc' = "envelopes" /\ recs' = rs /\ UNCHANGED result

-----------------------------------------------------------------------------
(* Meminfo, Vmstat, PSI. *)

ProcFile(k) == Proc(CASE k = "host_mem" -> "meminfo" [] OTHER -> k)

PSIStat ==
    /\ pc = "stat"
    /\ IF ProcFile(kind) \notin host THEN Absent
       ELSE pc' = "proc" /\ UNCHANGED <<recs, result>>
    /\ UNCHANGED <<hostVars, faults, faulted, kind, loopVars>>

(* Meminfo reads its file again, for KReclaimable. *)
ReadProc ==
    /\ pc \in {"proc", "again"}
    /\ \/ /\ ProcFile(kind) \notin host
          /\ Lose
       \/ /\ ProcFile(kind) \in host
          /\ kind = "host_mem" /\ pc = "proc"
          /\ pc' = "again"
          /\ UNCHANGED <<recs, result>>
       \/ /\ ProcFile(kind) \in host
          /\ kind # "host_mem" \/ pc = "again"
          /\ Collected(<<Rec(ProcFile(kind), {ProcFile(kind)}, TRUE)>>)
    /\ UNCHANGED <<hostVars, faults, faulted, kind, loopVars>>

-----------------------------------------------------------------------------
(* Numa and Hugepages. *)

NodesThere == {p[2] : p \in {q \in host : q[1] = "node" /\ q[2] # 0}}

(* sort.Slice: by page size, then by node; the host-level record is first. *)
Before(r, q) == \/ r.of[3] < q.of[3]
                \/ r.of[3] = q.of[3] /\ r.of[2] < q.of[2]

Sorted(rs) == \A i, j \in 1 .. Len(rs) : i < j => ~Before(rs[j], rs[i])

CollectedSorted ==
    \E place \in Bijection(1 .. Len(recs), 1 .. Len(recs)) :
        LET rs == [i \in 1 .. Len(recs) |-> recs[place[i]]]
        IN  Sorted(rs) /\ Collected(rs)

ReadDirOf(d, fs) == dir' = d /\ files' = fs /\ got' = {} /\ pc' = "file"

NumaList ==
    /\ pc = "numa"
    /\ \/ NodeRoot \notin host /\ Absent /\ UNCHANGED nodes
       \/ /\ NodeRoot \in host
          /\ nodes' = NodesThere
          /\ pc' = "node"
          /\ UNCHANGED <<recs, result>>
    /\ UNCHANGED <<hostVars, faults, faulted, kind, sizes, left, dir, files,
                   got>>

(* The next entry; os.ReadDir sorts node10 before node2. *)
NumaNode ==
    /\ pc = "node"
    /\ \/ /\ nodes = {}
          /\ CollectedSorted
          /\ UNCHANGED <<nodes, dir, files, got>>
       \/ \E n \in nodes :
             /\ nodes' = nodes \ {n}
             /\ ReadDirOf(Node(n), {"meminfo", "numastat"})
             /\ UNCHANGED <<recs, result>>
    /\ UNCHANGED <<hostVars, faults, faulted, kind, sizes, left>>

HugeSizes ==
    /\ pc = "sizes"
    /\ \/ HugeRoot \notin host /\ Absent /\ UNCHANGED sizes
       \/ /\ HugeRoot \in host
          /\ sizes' = {p[3] : p \in {q \in host : q[1] = "huge"}} \ {0}
          /\ pc' = "nodes"
          /\ UNCHANGED <<recs, result>>
    /\ UNCHANGED <<hostVars, faults, faulted, kind, nodes, left, dir, files,
                   got>>

(* listHugepageNodes: none on a host without NUMA. *)
HugeNodes ==
    /\ pc = "nodes"
    /\ nodes' = NodesThere
    /\ left' = NodesThere
    /\ pc' = "size"
    /\ UNCHANGED <<hostVars, faults, faulted, kind, sizes, dir, files, got,
                   recs, result>>

(* Mutation: the host's own directory is read whether or not a node's was. *)
NeverRecorded(s) == /\ HostPages(s) \in {recs[i].of : i \in 1 .. Len(recs)}

Recorded(s) == \E i \in 1 .. Len(recs) : recs[i].of[3] = s

(***************************************************************************)
(* The two nested loops: the next node that has the size, the next size,   *)
(* or the host's own directory when no node has it.                        *)
(***************************************************************************)
HugeStat ==
    /\ pc = "size"
    /\ \/ /\ sizes = {}
          /\ CollectedSorted
          /\ UNCHANGED <<sizes, left, dir, files, got>>
       \/ /\ sizes # {} /\ left # {}
          /\ left' = left \ {Min(left)}
          /\ LET d == NodePages(Min(left), Min(sizes))
             IN  IF d \in host THEN ReadDirOf(d, {"nr", "resv"})
                 ELSE UNCHANGED <<pc, dir, files, got>>
          /\ UNCHANGED <<sizes, recs, result>>
       \/ /\ sizes # {} /\ left = {} /\ Recorded(Min(sizes))
          /\ sizes' = sizes \ {Min(sizes)}
          /\ left' = nodes
          /\ UNCHANGED <<pc, dir, files, got, recs, result>>
       \/ /\ sizes # {} /\ left = {} /\ ~Recorded(Min(sizes))
          /\ ReadDirOf(HostPages(Min(sizes)), {"nr", "resv"})
          /\ UNCHANGED <<sizes, left, recs, result>>
    /\ UNCHANGED <<hostVars, faults, faulted, kind, nodes>>

(***************************************************************************)
(* collectNode and readHugepagesDir, a file at a time: a missing file is   *)
(* an error to Numa and zero to Hugepages, which takes the files in the    *)
(* order of a Go map.                                                      *)
(***************************************************************************)
ReadFile ==
    /\ pc = "file"
    /\ \E f \in files :
       /\ kind = "numa_mem" /\ f = "numastat" => "meminfo" \notin files
       /\ \/ /\ kind = "numa_mem" /\ File(dir, f) \notin host
             /\ Lose
             /\ UNCHANGED <<files, got>>
          \/ /\ kind = "hugepages" \/ File(dir, f) \in host
             /\ files' = files \ {f}
             /\ got' = got \cup ({File(dir, f)} \cap host)
             /\ IF files' # {} THEN UNCHANGED <<pc, recs>>
                ELSE /\ recs' = Append(recs, Rec(dir, got', TRUE))
                     /\ pc' = IF kind = "numa_mem" THEN "node" ELSE "size"
             /\ UNCHANGED result
    /\ UNCHANGED <<hostVars, faults, faulted, kind, sizes, nodes, left, dir>>

FilePCs == {"stat", "proc", "again", "numa", "file", "sizes", "nodes",
            "snapshot"}

(* A read, or the parsing of what was read, fails. *)
ReadFails ==
    /\ pc \in FilePCs
    /\ faults < MaxFaults
    /\ faults' = faults + 1
    /\ faulted' = TRUE
    /\ Lose
    /\ UNCHANGED <<hostVars, kind, loopVars>>

-----------------------------------------------------------------------------
(***************************************************************************)
(* The host.  A directory goes with all that is in it: to a reader that    *)
(* takes the files one by one it makes no difference in which order they   *)
(* went.  What this tick does not look at changes in another one.          *)
(***************************************************************************)

Roots(k) == CASE k = "numa_mem" -> {"node"}
              [] k = "hugepages" -> {"node", "huge"}
              [] k = "gpu_mem" -> {"gpu"}
              [] k = "vllm" -> {"vllm"}
              [] k = "damon_hist" -> {}
              [] OTHER -> {ProcFile(k)[1]}

(* Files do not go alone; the metrics of an endpoint do. *)
Units(k) == {p \in Paths : p[1] \in Roots(k) /\ (p[4] = "" \/ k = "vllm")}

Churn ==
    /\ pc # "idle"
    /\ churn < MaxChurn
    /\ churn' = churn + 1
    /\ \E p \in Units(kind) :
          LET below == {q \in Paths : Under(p, q)}
          IN  \/ /\ p \in host
                 /\ host' = host \ below
                 /\ stable' = stable \ below
                 /\ UNCHANGED seen
              \/ /\ p \notin host
                 /\ ParentOf(p) \in host \cup {p}
                 /\ host' = host \cup below
                 /\ seen' = seen \cup below
                 /\ UNCHANGED stable
    /\ UNCHANGED <<faults, faulted, kind, pc, loopVars, recs, result>>
=============================================================================
