------------------------------- MODULE Sources ------------------------------
(***************************************************************************)
(* internal/agent buildSources, single, multi and envelopes: the ticks of  *)
(* the sources, from the collector to the envelopes handed to the spool,   *)
(* and the selftest, which looks at the same host.                         *)
(*                                                                         *)
(* CgroupWalk models the cgroup_mem source.  Sources share no state, so    *)
(* their ticks follow one another here.                                    *)
(***************************************************************************)
EXTENDS Scrape, MCHistogram

CONSTANTS
    NVML,        \* collectors.nvml.enabled
    MaxTicks     \* bound: ticks and selftests

ASSUME SourcesAssumption == MaxTicks \in Nat

VARIABLES
    srcs,     \* the sources that were built
    test,     \* the last selftest: the host it saw, the rows that are OK
    ticks     \* ticks and selftests so far

vars == <<tickVars, histVars, srcs, test, ticks>>

HostKinds == {"host_mem", "vmstat", "psi", "numa_mem", "hugepages"}

(* DAMON's source is there when its session could be started. *)
buildSources(damon) ==
    HostKinds \cup (IF NVML \in {"auto", "true"} THEN {"gpu_mem"} ELSE {})
              \cup (IF Endpoints # {} THEN {"vllm"} ELSE {})
              \cup (IF damon THEN {"damon_hist"} ELSE {})

FirstStep(k) == CASE k = "psi" -> "stat"
                  [] k = "numa_mem" -> "numa"
                  [] k = "hugepages" -> "sizes"
                  [] k = "gpu_mem" -> "gpu"
                  [] k = "vllm" -> "vllm"
                  [] k = "damon_hist" -> "snapshot"
                  [] OTHER -> "proc"

(* The tick of a source calls its collect function. *)
BeginTick(k) ==
    /\ pc = "idle"
    /\ ticks < MaxTicks
    /\ ticks' = ticks + 1
    /\ kind' = k
    /\ pc' = FirstStep(k)
    /\ stable' = host
    /\ seen' = host
    /\ faulted' = FALSE
    /\ left' = IF k = "vllm" THEN Endpoints ELSE {}
    /\ sizes' = {} /\ nodes' = {}
    /\ dir' = NodeRoot /\ files' = {} /\ got' = {}
    /\ skipped' = {}
    /\ recs' = <<>>
    /\ result' = "none"
    /\ UNCHANGED <<host, churn, faults, hung, warnVars, histVars, srcs, test>>

(* Damon.Collect: the snapshot, and bucketRegions on it. *)
DamonSnapshot ==
    /\ pc = "snapshot"
    /\ pc' = "regions"
    /\ UNCHANGED <<hostVars, faults, faulted, kind, loopVars, recs, result,
                   scrapeVars, histVars, srcs, test, ticks>>

DamonRegion ==
    /\ pc = "regions"
    /\ NextRegion
    /\ UNCHANGED <<tickVars, srcs, test, ticks>>

DamonCollected ==
    /\ pc = "regions"
    /\ hist' = ZeroHist /\ regions' = {} /\ upTo' = 0
    /\ Collected(<<Rec(Proc("kdamonds"), {}, TRUE)>>)
    /\ UNCHANGED <<hostVars, faults, faulted, kind, loopVars, scrapeVars,
                   srcs, test, ticks>>

(* Mutation: what does not marshal is left out, silently. *)
LeaveOut(rs) == /\ pc' = "idle" /\ result' = "ok"
                /\ recs' = SelectSeq(rs, LAMBDA r : r.finite)

(* json.Marshal refuses a NaN: the whole tick is lost. *)
MarshalAll(rs) == IF \E i \in 1 .. Len(rs) : ~rs[i].finite THEN Lose
                  ELSE pc' = "idle" /\ result' = "ok" /\ UNCHANGED recs

envelopes ==
    /\ pc = "envelopes"
    /\ MarshalAll(recs)
    /\ UNCHANGED <<hostVars, faults, faulted, kind, loopVars, scrapeVars,
                   histVars, srcs, test, ticks>>

-----------------------------------------------------------------------------
(* Selftest. *)

(* DetectAt: no DAMON, a release that cannot be read, or one before 6.2. *)
DetectAt ==
    IF Proc("kdamonds") \notin host \/ Proc("osrelease") \notin host THEN {}
    ELSE {"DAMON sysfs", "DAMON paddr"} \cup
         (IF Proc("release6.2") \in host THEN {"DAMON tried_regions"} ELSE {})

(* Mutation: /proc/vmstat is looked for. *)
vmstatCheck == Proc("vmstat") \in host

hostMemCheck == Proc("meminfo") \in host

Rows == (IF hostMemCheck THEN {"host memory"} ELSE {})
        \cup {r \in {"osrelease", "cgroup.controllers", "psi"} :
                                                      Proc(r) \in host}
        \cup DetectAt

Failed == "host memory" \notin test.ok

Selftest ==
    /\ pc = "idle"
    /\ ticks < MaxTicks
    /\ ticks' = ticks + 1
    /\ test' = [ran |-> TRUE, host |-> host, ok |-> Rows]
    /\ UNCHANGED <<tickVars, histVars, srcs>>

-----------------------------------------------------------------------------

FileStep == \/ PSIStat \/ ReadProc \/ NumaList \/ NumaNode \/ HugeSizes
            \/ HugeNodes \/ HugeStat \/ ReadFile

ScrapeStep == GPULook \/ GPUQuery \/ GPUApps \/ VLLMScrape \/ Timeout

(* What the program does once a tick has begun. *)
TickStep ==
    \/ FileStep /\ UNCHANGED <<scrapeVars, histVars, srcs, test, ticks>>
    \/ ScrapeStep /\ UNCHANGED <<histVars, srcs, test, ticks>>
    \/ DamonSnapshot \/ DamonCollected
    \/ envelopes

(* What may happen to it. *)
Disturbance ==
    \/ (ReadFails \/ Churn) /\ UNCHANGED scrapeVars
    \/ GPUFails \/ VLLMFails \/ Hang

Init ==
    /\ host \in Hosts
    /\ stable = host /\ seen = host
    /\ churn = 0 /\ faults = 0 /\ faulted = FALSE
    /\ kind = "host_mem" /\ pc = "idle"
    /\ sizes = {} /\ nodes = {} /\ left = {}
    /\ dir = NodeRoot /\ files = {} /\ got = {}
    /\ recs = <<>> /\ result = "none"
    /\ hung = FALSE /\ skipped = {}
    /\ warned = {} /\ missed = {} /\ warnings = [m \in Metrics |-> 0]
    /\ HistInit
    /\ \E started \in BOOLEAN :
          /\ started => {Proc("kdamonds"), Proc("osrelease")} \subseteq host
          /\ srcs = buildSources(started)
    /\ test = [ran |-> FALSE, host |-> {}, ok |-> {}]
    /\ ticks = 0

Next ==
    \/ \E k \in srcs : BeginTick(k)
    \/ TickStep
    \/ DamonRegion
    \/ Disturbance /\ UNCHANGED <<histVars, srcs, test, ticks>>
    \/ Selftest

Spec == Init /\ [][Next]_vars /\ WF_vars(TickStep)

-----------------------------------------------------------------------------
(* Properties. *)

Ended(r) == pc = "idle" /\ result = r

RecordsOf(d) == {i \in 1 .. Len(recs) : recs[i].of = d}

(* What a tick has to report: what was there all the time. *)
Due ==
    CASE kind = "numa_mem" -> {p \in stable : p[1] = "node" /\ p = Node(p[2])}
                                 \ {NodeRoot}
      [] kind = "hugepages" ->
            {p \in stable : /\ p[1] \in {"node", "huge"}
                            /\ p[3] # 0 /\ p[4] = ""
                            /\ HostPages(p[3]) \in stable
                            /\ p[1] = "huge" =>
                                  \A q \in seen : q[1] = "node" => q[3] # p[3]}
      [] kind = "gpu_mem" -> {p \in stable : p[1] = "gpu" /\ p = Device(p[2])}
                                 \ {GPURoot}
      [] kind = "vllm" -> {Endpoint(e) : e \in Endpoints \ skipped} \cap stable
      [] kind = "damon_hist" -> {}
      [] OTHER -> {ProcFile(kind)} \cap stable

(* The files, processes and metrics that are fields of a record about d. *)
FieldsOf(d) == {p \in Paths : /\ Under(d, p) /\ p # d
                              /\ kind = "numa_mem" => p[3] = 0}

(***************************************************************************)
(* A tick that ends without an error has exactly one record of everything  *)
(* that was there from its beginning to its end, with a value for every    *)
(* file, process or metric that was: a node, device or endpoint that comes *)
(* or goes next to it, a feature the host lacks, and a failing endpoint    *)
(* cost no other record, and no field of a thing that stays reads as zero. *)
(***************************************************************************)
StableReported ==
    Ended("ok") =>
        \A d \in Due :
            /\ Cardinality(RecordsOf(d)) = 1
            /\ \A i \in RecordsOf(d) :
                  FieldsOf(d) \cap stable \subseteq recs[i].got

(***************************************************************************)
(* No value is attributed to another node, device or endpoint than the one *)
(* it was read from, whatever happened between nvidia-smi's two runs or    *)
(* between the listing and the reading of a directory; and no memory is    *)
(* counted twice: the huge pages of a size are reported by node or for the *)
(* host, never both.                                                       *)
(***************************************************************************)
ValuesAttributed ==
    \A i, j \in 1 .. Len(recs) :
        /\ recs[i].got \subseteq {p \in seen : Under(recs[i].of, p)}
        /\ recs[i].of = recs[j].of => i = j
        /\ kind = "hugepages" /\ recs[i].of[3] = recs[j].of[3]
              => recs[i].of[1] = recs[j].of[1]

(***************************************************************************)
(* What a tick may be lost to: "one down vLLM instance shouldn't lose      *)
(* records from the others", and "absence is fine" in every collector but  *)
(* those of /proc/meminfo and /proc/vmstat.  So a lost tick had a call     *)
(* that failed, a record that does not marshal, or a file that went (to    *)
(* Hugepages not even that).                                               *)
(***************************************************************************)
LossHasCause ==
    Ended("err") =>
        \/ faulted
        \/ kind = "numa_mem" /\ \E p \in seen \ stable : p[1] = "node"
        \/ kind = "gpu_mem" /\ GPURoot \notin stable
        \/ /\ kind \in {"host_mem", "vmstat", "psi"}
           /\ ProcFile(kind) \notin stable

(***************************************************************************)
(* A configured metric that scrapes lack is warned about once in the life  *)
(* of the process: "logs once, not every tick", and not never.             *)
(***************************************************************************)
WarnedOnce ==
    \A m \in Metrics : warnings[m] = IF m \in missed THEN 1 ELSE 0

(***************************************************************************)
(* The selftest's report is what the collectors then do on a host that has *)
(* not changed: host_mem ticks succeed exactly when it does not fail, but  *)
(* for a failing read, and psi yields records exactly when its row is OK.  *)
(***************************************************************************)
SelftestTells ==
    test.ran /\ stable = test.host /\ seen = test.host =>
        /\ kind = "host_mem" /\ Ended("ok") => ~Failed
        /\ kind = "host_mem" /\ Ended("err") => Failed \/ faulted
        /\ kind = "psi" /\ Ended("ok") =>
              (recs # <<>> <=> "psi" \in test.ok)

(***************************************************************************)
(* A tick comes to an end, also when nvidia-smi or an endpoint hangs: "a   *)
(* hung driver shouldn't be able to stall a tick indefinitely".            *)
(***************************************************************************)
TickEnds == pc # "idle" ~> pc = "idle"
=============================================================================
