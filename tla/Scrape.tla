------------------------------- MODULE Scrape -------------------------------
(***************************************************************************)
(* internal/collector GPU and VLLM: two runs of nvidia-smi, and a scrape   *)
(* of each configured endpoint, with peers that fail or hang.              *)
(*                                                                         *)
(* nvidia-smi on PATH is GPURoot; a device is a path of a number, which    *)
(* stands for its UUID, and a process on it one below it.  An endpoint is  *)
(* a path while it answers, and its mapped metrics are below it.           *)
(***************************************************************************)
EXTENDS Collect, SequencesExt

CONSTANTS
    Endpoints,   \* the positions of collectors.vllm.endpoints, a list that
                 \* may name a URL twice and is scraped for each
    Metrics      \* the names in collectors.vllm.metric_map

VARIABLES
    hung,      \* external: the peer of the call in progress does not answer
    warned,    \* VLLM.warned
    warnings,  \* history: how often each metric was warned about
    missed,    \* history: metrics that a scrape was without
    skipped    \* history: endpoints skipped in this tick

scrapeVars == <<hung, warned, warnings, missed, skipped>>
warnVars == <<warned, warnings, missed>>
tickVars == <<collectVars, scrapeVars>>

GPURoot == <<"gpu", 0, 0, "">>
Device(u) == <<"gpu", u, 0, "">>
Endpoint(e) == <<"vllm", e, 0, "">>
Metric(e, m) == <<"vllm", e, 0, m>>

(* What is left is in /proc and /sys. *)
ASSUME ScrapeAssumption ==
    /\ Endpoints \subseteq Nat \ {0}
    /\ Metrics \subseteq STRING \ {""}
    /\ \A p \in Paths :
          /\ p[1] = "gpu" => p[4] = "" /\ (p[2] = 0 => p = GPURoot)
          /\ p[1] = "vllm" => /\ p[2] \in Endpoints /\ p[3] = 0
                              /\ p[4] \in Metrics \cup {""}
          /\ p[1] \notin {"node", "huge", "gpu", "vllm"} => p = Proc(p[1])

-----------------------------------------------------------------------------
(* GPU. *)

GPULook ==
    /\ pc = "gpu"
    /\ IF GPURoot \notin host THEN Absent
       ELSE pc' = "query" /\ UNCHANGED <<recs, result>>
    /\ UNCHANGED <<hostVars, faults, faulted, kind, loopVars, scrapeVars>>

(* The devices there are, in the order of their indices. *)
DeviceLists ==
    LET there == {p \in host : p[1] = "gpu" /\ p[2] # 0 /\ p[3] = 0}
    IN  {s \in [1 .. Cardinality(there) -> there] :
            \A i, j \in DOMAIN s : i < j => s[i][2] < s[j][2]}

GPUQuery ==
    /\ pc = "query"
    /\ ~hung
    /\ \/ GPURoot \notin host /\ Lose
       \/ /\ GPURoot \in host
          /\ \E devices \in DeviceLists :
                recs' = [i \in 1 .. Len(devices) |->
                                 Rec(devices[i], {devices[i]}, TRUE)]
          /\ pc' = "apps"
          /\ UNCHANGED result
    /\ UNCHANGED <<hostVars, faults, faulted, kind, loopVars, scrapeVars>>

Processes(d) == {p \in host : Under(d, p) /\ p[3] # 0}

(* Mutation: by the device's place in the list. *)
JoinByPlace(i) == UNION {Processes(s[i]) : s \in {t \in DeviceLists :
                                                    i \in DOMAIN t}}

(* procsByUUID[devices[i].UUID]. *)
JoinByUUID(i) == Processes(recs[i].of)

GPUApps ==
    /\ pc = "apps"
    /\ ~hung
    /\ \/ GPURoot \notin host /\ Lose
       \/ /\ GPURoot \in host
          /\ Collected([i \in 1 .. Len(recs) |->
                          [recs[i] EXCEPT !.got = @ \cup JoinByUUID(i)]])
    /\ UNCHANGED <<hostVars, faults, faulted, kind, loopVars, scrapeVars>>

(* nvidia-smi exits with an error, or what it prints does not parse. *)
GPUFails ==
    /\ pc \in {"query", "apps"}
    /\ ~hung
    /\ faults < MaxFaults
    /\ faults' = faults + 1
    /\ faulted' = TRUE
    /\ Lose
    /\ UNCHANGED <<hostVars, kind, loopVars, scrapeVars>>

-----------------------------------------------------------------------------
(* VLLM. *)

(* Mutation: a metric that was warned about is not remembered. *)
ForgetWarned(missing) == UNCHANGED warned

RememberWarned(missing) == warned' = warned \cup missing

(* warnUnmatchedOnce, for the metrics that are not there. *)
warnUnmatchedOnce(missing) ==
    /\ RememberWarned(missing)
    /\ missed' = missed \cup missing
    /\ warnings' = [m \in Metrics |-> IF m \in missing \ warned
                                      THEN warnings[m] + 1 ELSE warnings[m]]

(* buildRecord; a value may be NaN or infinite. *)
buildRecord(e) ==
    /\ LET there == {Metric(e, m) : m \in Metrics} \cap host
       IN  \/ /\ recs' = Append(recs, Rec(Endpoint(e), there, TRUE))
              /\ UNCHANGED <<faults, faulted>>
           \/ /\ there # {}
              /\ faults < MaxFaults
              /\ faults' = faults + 1
              /\ faulted' = TRUE
              /\ recs' = Append(recs, Rec(Endpoint(e), there, FALSE))
    /\ warnUnmatchedOnce({m \in Metrics : Metric(e, m) \notin host})

(* Mutation: one endpoint that cannot be scraped ends the tick. *)
ScrapeFailureLoses(e) == Lose /\ UNCHANGED skipped

(* Logged, and on to the next. *)
SkipEndpoint(e) == /\ skipped' = skipped \cup {e}
                   /\ UNCHANGED <<pc, recs, result>>

VLLMScrape ==
    /\ pc = "vllm"
    /\ ~hung
    /\ \/ /\ left = {}
          /\ Collected(recs)
          /\ UNCHANGED <<faults, faulted, left, warnVars, skipped>>
       \/ /\ left # {} /\ Endpoint(Min(left)) \in host
          /\ left' = left \ {Min(left)}
          /\ buildRecord(Min(left))
          /\ UNCHANGED <<pc, result, skipped>>
       \/ /\ left # {} /\ Endpoint(Min(left)) \notin host
          /\ left' = left \ {Min(left)}
          /\ SkipEndpoint(Min(left))
          /\ UNCHANGED <<faults, faulted, warnVars>>
    /\ UNCHANGED <<hostVars, kind, sizes, nodes, dir, files, got, hung>>

(* A status other than 200, or a body that does not parse. *)
VLLMFails ==
    /\ pc = "vllm"
    /\ ~hung /\ left # {}
    /\ faults < MaxFaults
    /\ faults' = faults + 1
    /\ left' = left \ {Min(left)}
    /\ SkipEndpoint(Min(left))
    /\ UNCHANGED <<hostVars, faulted, kind, sizes, nodes, dir, files, got,
                   hung, warnVars>>

-----------------------------------------------------------------------------
(* Peers that do not answer. *)

Hang ==
    /\ pc \in {"query", "apps"} \/ (pc = "vllm" /\ left # {})
    /\ ~hung
    /\ faults < MaxFaults
    /\ faults' = faults + 1
    /\ hung' = TRUE
    /\ UNCHANGED <<hostVars, faulted, kind, pc, loopVars, recs, result,
                   warnVars, skipped>>

(* Mutation: only the HTTP client has a timeout. *)
HTTPTimeout == hung /\ kind = "vllm"

(* gpuCollectTimeout, httpClientTimeout. *)
TimesOut == hung

(* nvidia-smi is killed, or the request is given up. *)
Timeout ==
    /\ TimesOut
    /\ hung' = FALSE
    /\ \/ /\ kind = "gpu_mem"
          /\ faulted' = TRUE
          /\ Lose
          /\ UNCHANGED <<left, skipped>>
       \/ /\ kind = "vllm"
          /\ left' = left \ {Min(left)}
          /\ SkipEndpoint(Min(left))
          /\ UNCHANGED faulted
    /\ UNCHANGED <<hostVars, faults, kind, sizes, nodes, dir, files, got,
                   warnVars>>
=============================================================================
