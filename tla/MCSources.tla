------------------------------ MODULE MCSources -----------------------------
(***************************************************************************)
(* The sources for TLC: two nodes, two page sizes, two devices with a      *)
(* process each, two endpoints with two metrics.                           *)
(***************************************************************************)
EXTENDS Sources

Dirs == {NodePages(n, s) : n \in 1 .. 2, s \in 1 .. 2}
            \cup {HostPages(s) : s \in 1 .. 2}

NodeTree == {NodeRoot} \cup {Node(n) : n \in 1 .. 2}
               \cup {File(Node(n), f) : n \in 1 .. 2,
                                        f \in {"meminfo", "numastat"}}

PageTree == {HugeRoot} \cup Dirs
               \cup {File(d, f) : d \in Dirs, f \in {"nr", "resv"}}

GPUTree == {GPURoot} \cup {Device(u) : u \in 1 .. 2}
              \cup {<<"gpu", u, u, "">> : u \in 1 .. 2}

VLLMTree == {Endpoint(e) : e \in 1 .. 2}
               \cup {Metric(e, m) : e \in 1 .. 2, m \in {"running", "waiting"}}

ProcTree == {Proc(f) : f \in {"meminfo", "vmstat", "psi", "osrelease",
                              "cgroup.controllers"}}

MCPaths == NodeTree \cup PageTree \cup GPUTree \cup VLLMTree \cup ProcTree
              \cup {Proc("kdamonds"), Proc("release6.2")}

(* Node directories need not have resv_hugepages. *)
NoResv == {p \in PageTree : p[1] = "node" /\ p[4] = "resv"}

(***************************************************************************)
(* A bare container; a host with DAMON; one with NUMA, whose nodes do not  *)
(* have all the page sizes; one with accelerators and without NUMA, whose  *)
(* endpoints lack a metric; one without /proc/meminfo.                     *)
(***************************************************************************)
MCHosts == {ProcTree \ {Proc("psi"), Proc("cgroup.controllers")},
            ProcTree \cup {Proc("kdamonds"), Proc("release6.2")},
            (NodeTree \cup PageTree \cup ProcTree) \
                 (NoResv \cup {p \in PageTree : p[2] = 2 /\ p[3] = 2}),
            ({p \in PageTree : p[1] = "huge"} \cup GPUTree \cup VLLMTree
                 \cup ProcTree) \ {Metric(1, "waiting"), Metric(2, "waiting")},
            {Proc("vmstat"), Proc("psi")}}
=============================================================================
