------------------------------ MODULE SourcesProofs -------------------------
(***************************************************************************)
(* Proofs about the sources: what bucketRegions computes, for any regions, *)
(* any increasing thresholds and any memory that 64 bits can address; and  *)
(* what the ticks of all sources and the selftest have to do with each     *)
(* other, for any host and whatever comes and goes.                        *)
(***************************************************************************)
EXTENDS Sources, FiniteSetTheorems, SequenceTheorems, WellFoundedInduction,
        TLAPS

-----------------------------------------------------------------------------
(* bucketRegions: the record is consistent. *)

(* A sum that stays below Limit is the sum that uint64 arithmetic yields. *)
LEMMA NoWrap ==
    ASSUME NEW x \in Nat, x < Limit
    PROVE  x % Limit = x
BY HistogramAssumption, SMT

(***************************************************************************)
(* A region that is idle long enough for a bucket is so for every warmer   *)
(* bucket: the thresholds increase.                                        *)
(***************************************************************************)
LEMMA IdleCumulative ==
    ASSUME NEW r \in Region, NEW i \in 1 .. Buckets, NEW j \in 1 .. Buckets,
           i <= j, Idle(r, j)
    PROVE  Idle(r, i)
<1>1. (r.age * AggrUS) % Limit \in Nat
  <2>1. r.age \in Nat
    BY HistogramAssumption DEF Region
  <2>2. r.age * AggrUS \in Nat
    BY <2>1, HistogramAssumption
  <2> QED
    BY <2>2, HistogramAssumption, SMT
<1>2. Thresholds[i] \in Nat /\ Thresholds[j] \in Nat
  BY HistogramAssumption
<1>3. Thresholds[i] <= Thresholds[j]
  <2>1. CASE i = j
    BY <2>1, <1>2
  <2>2. CASE i # j
    BY <2>2, <1>2, HistogramAssumption
  <2> QED
    BY <2>1, <2>2
<1> QED
  BY <1>1, <1>2, <1>3 DEF Idle

(* The inductive invariant: the fields have their types and are consistent. *)
HistInv == HistTypeOK /\ HistConsistent

(* Initially everything is zero. *)
LEMMA HistInvInit == HistInit => HistInv
BY HistogramAssumption DEF HistInit, HistInv, HistTypeOK, HistConsistent,
   ZeroHist, Hist

(***************************************************************************)
(* One round adds the size of the region to the total, and to the buckets  *)
(* it has been idle for: no sum wraps around.                              *)
(***************************************************************************)
LEMMA RoundAdds ==
    ASSUME HistInv, NEW r \in Region, upTo <= r.start, r.start < r.end,
           hist' = Bucketed(hist, r)
    PROVE  /\ Size(r) \in Nat /\ upTo + Size(r) <= r.end
           /\ hist.monitored \in Nat
           /\ hist.monitored + Size(r) <= r.end
           /\ hist'.monitored = hist.monitored + Size(r)
           /\ \A i \in 1 .. Buckets :
                 /\ hist.cold[i] \in Nat
                 /\ hist.cold[i] <= hist.monitored
                 /\ hist'.cold[i] = IF Idle(r, i) THEN hist.cold[i] + Size(r)
                                    ELSE hist.cold[i]
<1> DEFINE sz == Size(r)
<1>1. /\ hist.monitored \in Nat
      /\ \A i \in 1 .. Buckets : hist.cold[i] \in Nat
      /\ upTo \in Nat
  BY HistogramAssumption DEF HistInv, HistTypeOK, Hist
<1>2. sz \in Nat /\ upTo + sz <= r.end /\ r.end \in 0 .. MaxAddr
  BY <1>1, HistogramAssumption DEF Region, Size
<1> HIDE DEF sz
<1>3. \A i \in 1 .. Buckets : hist.cold[i] <= hist.monitored
  <2> TAKE i \in 1 .. Buckets
  <2>1. 1 \in 1 .. Buckets /\ 1 <= i
    BY HistogramAssumption
  <2>2. hist.cold[i] <= hist.cold[1] /\ hist.cold[1] <= hist.monitored
    BY <2>1 DEF HistInv, HistConsistent
  <2> QED
    BY <1>1, <2>1, <2>2
<1>4. /\ hist.monitored + sz \in Nat
      /\ hist.monitored + sz < Limit
      /\ hist.monitored + sz <= r.end
  BY <1>1, <1>2, HistogramAssumption DEF HistInv, HistConsistent
<1>5. hist'.monitored = hist.monitored + sz
  BY <1>4, NoWrap DEF Bucketed, sz
<1>6. ASSUME NEW i \in 1 .. Buckets
      PROVE  hist'.cold[i] = IF Idle(r, i) THEN hist.cold[i] + sz
                             ELSE hist.cold[i]
  <2>1. hist.cold[i] + sz \in Nat /\ hist.cold[i] + sz < Limit
    <3>1. hist.cold[i] \in Nat /\ hist.cold[i] <= hist.monitored
      BY <1>1, <1>3
    <3>2. Limit \in Nat
      BY HistogramAssumption
    <3> QED
      BY <1>1, <1>2, <1>4, <3>1, <3>2
  <2> QED
    BY <2>1, NoWrap DEF Bucketed, sz
<1> QED
  BY <1>1, <1>2, <1>3, <1>4, <1>5, <1>6 DEF sz

(* One round of the loop keeps the record consistent. *)
LEMMA HistInvStep ==
    ASSUME HistInv, NextRegion
    PROVE  HistInv'
<1>1. PICK r \in Region : /\ upTo <= r.start
                          /\ r.start < r.end
                          /\ hist' = Bucketed(hist, r)
                          /\ regions' = regions \cup {r}
                          /\ upTo' = r.end
  BY DEF NextRegion
<1> DEFINE sz == Size(r)
<1>2. /\ sz \in Nat
      /\ hist.monitored \in Nat
      /\ hist.monitored + sz <= r.end
      /\ hist'.monitored = hist.monitored + sz
      /\ \A i \in 1 .. Buckets :
            /\ hist.cold[i] \in Nat
            /\ hist.cold[i] <= hist.monitored
            /\ hist'.cold[i] = IF Idle(r, i) THEN hist.cold[i] + sz
                               ELSE hist.cold[i]
  BY <1>1, RoundAdds
<1> HIDE DEF sz
<1>3. HistTypeOK'
  <2>1. hist' = [monitored |-> hist'.monitored, cold |-> hist'.cold]
    BY <1>1 DEF Bucketed
  <2>2. hist'.cold \in [1 .. Buckets -> Nat]
    <3>1. hist'.cold = [i \in 1 .. Buckets |-> hist'.cold[i]]
      BY <1>1 DEF Bucketed
    <3>2. \A i \in 1 .. Buckets : hist'.cold[i] \in Nat
      BY <1>2
    <3> QED
      BY <3>1, <3>2
  <2>3. r.end \in 0 .. MaxAddr
    BY DEF Region
  <2> QED
    BY <1>1, <1>2, <2>1, <2>2, <2>3 DEF HistInv, HistTypeOK, Hist
<1>4. ASSUME NEW i \in 1 .. Buckets, NEW j \in 1 .. Buckets, i <= j
      PROVE  hist'.cold[j] <= hist'.cold[i]
  <2>1. hist.cold[j] <= hist.cold[i]
    BY <1>4 DEF HistInv, HistConsistent
  <2>2. Idle(r, j) => Idle(r, i)
    BY <1>1, <1>4, IdleCumulative
  <2> QED
    BY <1>2, <2>1, <2>2
<1>5. hist'.cold[1] <= hist'.monitored
  <2>1. 1 \in 1 .. Buckets
    BY HistogramAssumption
  <2>2. hist.cold[1] \in Nat /\ hist.cold[1] <= hist.monitored
    BY <1>2, <2>1
  <2>3. hist'.cold[1] \in {hist.cold[1], hist.cold[1] + sz}
    BY <1>2, <2>1
  <2> QED
    BY <1>2, <2>2, <2>3
<1> QED
  BY <1>1, <1>2, <1>3, <1>4, <1>5 DEF HistInv, HistConsistent

-----------------------------------------------------------------------------
(* bucketRegions: the record is exact. *)

(* The regions that were counted lie below upTo. *)
Behind == \A q \in regions : q.end <= upTo

ExactInv == HistInv /\ Behind /\ HistExact

(* An age that is measured in microseconds fits. *)
LEMMA AgeFits ==
    ASSUME NEW r \in Region
    PROVE  (r.age * AggrUS) % Limit = r.age * AggrUS
<1>1. r.age \in Nat /\ r.age <= MaxAge
  BY HistogramAssumption DEF Region
<1>2. r.age * AggrUS \in Nat /\ r.age * AggrUS <= MaxAge * AggrUS
  BY <1>1, HistogramAssumption
<1>3. r.age * AggrUS < Limit
  BY <1>2, AgeAssumption, HistogramAssumption
<1> QED
  BY <1>2, <1>3, NoWrap

(* The bytes of a region, and how many they are. *)
LEMMA BytesOf ==
    ASSUME NEW r \in Region, r.start < r.end
    PROVE  /\ IsFiniteSet(Bytes(r))
           /\ Cardinality(Bytes(r)) = Size(r)
<1>1. r.start \in Int /\ r.end - 1 \in Int /\ ~(r.start > r.end - 1)
  BY HistogramAssumption DEF Region
<1>2. /\ IsFiniteSet(r.start .. r.end - 1)
      /\ Cardinality(r.start .. r.end - 1) = (r.end - 1) - r.start + 1
  BY <1>1, FS_Interval
<1>3. (r.end - 1) - r.start + 1 = Size(r)
  BY HistogramAssumption DEF Size, Region
<1> QED
  BY <1>2, <1>3 DEF Bytes

(* The bytes counted so far are addresses below upTo. *)
LEMMA BytesBehind ==
    ASSUME HistTypeOK, Behind
    PROVE  /\ AllBytes \subseteq 0 .. upTo - 1
           /\ IsFiniteSet(AllBytes)
           /\ \A t : IdleBytes(t) \subseteq AllBytes
           /\ \A t : IsFiniteSet(IdleBytes(t))
<1>1. \A q \in regions : Bytes(q) \subseteq 0 .. upTo - 1
  BY HistogramAssumption DEF HistTypeOK, Behind, Region, Bytes
<1>2. AllBytes \subseteq 0 .. upTo - 1
  BY <1>1 DEF AllBytes
<1>3. IsFiniteSet(0 .. upTo - 1)
  BY FS_Interval, HistogramAssumption DEF HistTypeOK
<1>4. \A t : IdleBytes(t) \subseteq AllBytes
  BY DEF IdleBytes, AllBytes
<1>5. IsFiniteSet(AllBytes)
  BY <1>2, <1>3, FS_Subset
<1> QED
  BY <1>2, <1>4, <1>5, FS_Subset

(* A set and a region that lies beyond it. *)
LEMMA AddsBytes ==
    ASSUME NEW B, NEW r \in Region, r.start < r.end, NEW u \in Nat,
           u <= r.start, B \subseteq 0 .. u - 1, IsFiniteSet(B)
    PROVE  Cardinality(B \cup Bytes(r)) = Cardinality(B) + Size(r)
<1>1. IsFiniteSet(Bytes(r)) /\ Cardinality(Bytes(r)) = Size(r)
  BY BytesOf
<1>2. B \cap Bytes(r) = {}
  BY HistogramAssumption DEF Bytes, Region
<1>3. Cardinality(B) \in Nat /\ Size(r) \in Int
  BY <1>1, FS_CardinalityType DEF Size, Region
<1>4. Cardinality(B \cap Bytes(r)) = 0
  BY <1>2, FS_EmptySet
<1>5. Cardinality(B \cup Bytes(r)) =
         Cardinality(B) + Cardinality(Bytes(r)) - Cardinality(B \cap Bytes(r))
  BY <1>1, FS_Union
<1> QED
  BY <1>1, <1>3, <1>4, <1>5

(* The difference that yields hot_bytes, when nothing wraps around. *)
LEMMA HotIsRest ==
    ASSUME NEW h \in Hist, NEW all, IsFiniteSet(all), NEW idle \in SUBSET all,
           h.monitored = Cardinality(all), h.cold[1] = Cardinality(idle),
           h.monitored < Limit
    PROVE  HotBytes(h) = Cardinality(all \ idle)
<1>1. IsFiniteSet(idle) /\ h.cold[1] <= h.monitored
  BY FS_Subset
<1>2. all \cap idle = idle
  OBVIOUS
<1>3. Cardinality(all \ idle) = h.monitored - h.cold[1]
  <2>1. Cardinality(all \ idle) = Cardinality(all) - Cardinality(all \cap idle)
    BY FS_Difference
  <2> QED
    BY <1>2, <2>1, Zenon
<1>4. h.monitored \in Nat /\ h.cold[1] \in Nat
  BY <1>1, FS_CardinalityType
<1> DEFINE d == h.monitored - h.cold[1]
<1>5. d \in Nat /\ d < Limit /\ Limit + h.monitored - h.cold[1] = Limit + d
  BY <1>1, <1>4, HistogramAssumption
<1>6. Cardinality(all \ idle) = d
  BY <1>3
<1> HIDE DEF d
<1>7. (Limit + d) % Limit = d
  BY <1>5, HistogramAssumption, SMT
<1> QED
  BY <1>5, <1>6, <1>7 DEF HotBytes

(* One round of the loop counts every byte of the region once. *)
LEMMA ExactStep ==
    ASSUME ExactInv, NextRegion
    PROVE  ExactInv'
<1> USE DEF ExactInv
<1>1. PICK r \in Region : /\ upTo <= r.start
                          /\ r.start < r.end
                          /\ hist' = Bucketed(hist, r)
                          /\ regions' = regions \cup {r}
                          /\ upTo' = r.end
  BY DEF NextRegion
<1>2. HistInv'
  BY HistInvStep
<1>3. Behind'
  <2>1. upTo <= r.end /\ r.end \in Nat /\ upTo \in Nat
    BY <1>1, HistogramAssumption DEF HistInv, HistTypeOK, Region
  <2>2. \A q \in regions : q.end \in Nat
    BY HistogramAssumption DEF HistInv, HistTypeOK, Region
  <2> QED
    BY <1>1, <2>1, <2>2 DEF Behind
<1>4. upTo \in Nat /\ HistTypeOK
  BY HistogramAssumption DEF HistInv, HistTypeOK
<1>5. hist'.monitored = Cardinality(AllBytes)'
  <2>1. AllBytes' = AllBytes \cup Bytes(r)
    BY <1>1 DEF AllBytes
  <2>2. Cardinality(AllBytes \cup Bytes(r)) = Cardinality(AllBytes) + Size(r)
    BY <1>1, <1>4, BytesBehind, AddsBytes
  <2> QED
    BY <1>1, <2>1, <2>2, RoundAdds DEF HistExact
<1>6. ASSUME NEW i \in 1 .. Buckets
      PROVE  hist'.cold[i] = Cardinality(IdleBytes(Thresholds[i]))'
  <2> DEFINE t == Thresholds[i]
  <2>1. Idle(r, i) <=> r.nrAccesses = 0 /\ r.age * AggrUS >= t
    BY AgeFits DEF Idle
  <2>2. hist.cold[i] = Cardinality(IdleBytes(t))
    BY DEF HistExact
  <2>3. hist'.cold[i] = IF Idle(r, i) THEN hist.cold[i] + Size(r)
                        ELSE hist.cold[i]
    BY <1>1, RoundAdds
  <2>4. IdleBytes(t) \subseteq 0 .. upTo - 1 /\ IsFiniteSet(IdleBytes(t))
    BY <1>4, BytesBehind
  <2> HIDE DEF t
  <2>5. CASE Idle(r, i)
    <3>1. IdleBytes(t)' = IdleBytes(t) \cup Bytes(r)
      BY <1>1, <2>1, <2>5 DEF IdleBytes
    <3>2. Cardinality(IdleBytes(t) \cup Bytes(r)) =
             Cardinality(IdleBytes(t)) + Size(r)
      BY <1>1, <1>4, <2>4, AddsBytes
    <3> QED
      BY <2>2, <2>3, <2>5, <3>1, <3>2 DEF t
  <2>6. CASE ~Idle(r, i)
    <3>1. IdleBytes(t)' = IdleBytes(t)
      BY <1>1, <2>1, <2>6 DEF IdleBytes
    <3> QED
      BY <2>2, <2>3, <2>6, <3>1 DEF t
  <2> QED
    BY <2>5, <2>6
<1>7. 1 \in 1 .. Buckets
  BY HistogramAssumption
<1>8. HotBytes(hist)' = Cardinality(AllBytes \ IdleBytes(Thresholds[1]))'
  <2>1. IsFiniteSet(AllBytes')
    <3>1. AllBytes' = AllBytes \cup Bytes(r)
      BY <1>1 DEF AllBytes
    <3> QED
      BY <1>1, <1>4, <3>1, BytesBehind, BytesOf, FS_Union
  <2>2. IdleBytes(Thresholds[1])' \in SUBSET AllBytes'
    BY DEF IdleBytes, AllBytes
  <2>3. hist' \in Hist /\ hist'.monitored < Limit
    BY <1>2, HistogramAssumption DEF HistInv, HistTypeOK, HistConsistent, Hist
  <2>4. hist'.cold[1] = Cardinality(IdleBytes(Thresholds[1]))'
    BY <1>6, <1>7
  <2> QED
    BY <1>5, <2>1, <2>2, <2>3, <2>4, HotIsRest
<1> QED
  BY <1>2, <1>3, <1>5, <1>6, <1>8 DEF HistExact

(* What the other steps of the sources do to the record: nothing, but that *)
(* Collect begins with a new one. *)
LEMMA HistSteps ==
    ASSUME [Next]_vars
    PROVE  NextRegion \/ HistInit' \/ UNCHANGED histVars
<1>1. CASE \E k \in srcs : BeginTick(k)
  BY <1>1 DEF BeginTick
<1>2. CASE TickStep
  BY <1>2 DEF TickStep, DamonSnapshot, DamonCollected, envelopes, HistInit
<1>3. CASE DamonRegion
  BY <1>3 DEF DamonRegion
<1>4. CASE Disturbance /\ UNCHANGED <<histVars, srcs, test, ticks>>
  BY <1>4
<1>5. CASE Selftest \/ UNCHANGED vars
  BY <1>5 DEF Selftest, vars
<1> QED
  BY <1>1, <1>2, <1>3, <1>4, <1>5 DEF Next

(* An empty record is exact. *)
LEMMA ExactInit ==
    ASSUME HistInit
    PROVE  ExactInv
<1>1. HistInv
  BY HistInvInit
<1>2. AllBytes = {} /\ \A t : IdleBytes(t) = {}
  BY DEF HistInit, AllBytes, IdleBytes
<1>3. hist.monitored = 0 /\ \A i \in 1 .. Buckets : hist.cold[i] = 0
  BY DEF HistInit, ZeroHist
<1>4. Limit % Limit = 0 /\ 1 \in 1 .. Buckets
  BY HistogramAssumption, SMT
<1>5. HotBytes(hist) = 0
  BY <1>3, <1>4, HistogramAssumption DEF HotBytes
<1> QED
  BY <1>1, <1>2, <1>3, <1>5, FS_EmptySet
     DEF ExactInv, HistExact, Behind, HistInit

(* The invariant holds in every run of the sources. *)
LEMMA ExactInvariant == Spec => []ExactInv
<1>1. Init => ExactInv
  BY ExactInit DEF Init
<1>2. ExactInv /\ UNCHANGED histVars => ExactInv'
  BY DEF histVars, ExactInv, HistInv, HistTypeOK, HistConsistent, Behind,
         HistExact, AllBytes, IdleBytes, HotBytes
<1>3. HistInit' => ExactInv'
  <2>1. HistInit => ExactInv
    BY ExactInit
  <2> QED
    BY <2>1, PTL
<1>4. ExactInv /\ [Next]_vars => ExactInv'
  BY <1>2, <1>3, HistSteps, ExactStep
<1> QED
  BY <1>1, <1>4, PTL DEF Spec

(***************************************************************************)
(* The damon_hist record is consistent, whatever regions DAMON reports:    *)
(* the buckets are cumulative, and the subtraction for HotBytes never      *)
(* wraps (bucketRegions).                                                  *)
(***************************************************************************)
THEOREM HistogramConsistent == Spec => []HistConsistent
<1>1. ExactInv => HistConsistent
  BY DEF ExactInv, HistInv
<1> QED
  BY <1>1, ExactInvariant, PTL

(***************************************************************************)
(* It is exact: every byte of the regions is counted once, in monitored    *)
(* bytes, in each bucket it is idle long enough for, and in hot bytes when *)
(* it is in none (bucketRegions).                                          *)
(***************************************************************************)
THEOREM HistogramExact == Spec => []HistExact
<1>1. ExactInv => HistExact
  BY DEF ExactInv
<1> QED
  BY <1>1, ExactInvariant, PTL
-----------------------------------------------------------------------------
(* The ticks: what holds at each step of one. *)

Kinds == HostKinds \cup {"gpu_mem", "vllm", "damon_hist"}

(* The steps of a collector. *)
StepsOf(k) ==
    {"idle", "envelopes"} \cup
    (CASE k = "host_mem" -> {"proc", "again"}
       [] k = "vmstat" -> {"proc"}
       [] k = "psi" -> {"stat", "proc"}
       [] k = "numa_mem" -> {"numa", "node", "file"}
       [] k = "hugepages" -> {"sizes", "nodes", "size", "file"}
       [] k = "gpu_mem" -> {"gpu", "query", "apps"}
       [] k = "vllm" -> {"vllm"}
       [] OTHER -> {"snapshot", "regions"})

(* Those before which nothing is recorded. *)
EarlySteps == {"stat", "proc", "again", "numa", "sizes", "nodes", "gpu",
               "query", "snapshot", "regions"}

(* The words of paths. *)
Words == {"", "node", "huge", "gpu", "vllm", "meminfo", "vmstat", "psi",
          "numastat", "nr", "resv", "kdamonds"}
         \cup {p[1] : p \in Paths} \cup {p[4] : p \in Paths}

PathSpace == Words \X Nat \X Nat \X Words

Records == [of : PathSpace, got : SUBSET PathSpace, finite : BOOLEAN]

TickTypeOK ==
    /\ srcs \subseteq Kinds /\ kind \in Kinds /\ pc \in StepsOf(kind)
    /\ sizes \subseteq Nat \ {0}
    /\ nodes \subseteq Nat \ {0}
    /\ left \subseteq Nat \ {0}
    /\ dir \in PathSpace
    /\ recs \in Seq(Records)
    /\ pc \in EarlySteps \/ (pc = "idle" /\ result # "ok") => recs = <<>>
    /\ hung => pc \in {"query", "apps"} \/ (pc = "vllm" /\ left # {})

(* The host, and what was there all the time or at some time of the tick. *)
HostInv == /\ stable \subseteq host
           /\ host \subseteq seen
           /\ seen \subseteq Paths
           /\ Sound(host)

(* Only a value that was injected does not marshal. *)
FiniteInv == faulted \/ \A i \in 1 .. Len(recs) : recs[i].finite

(* Meminfo, Vmstat and PSI. *)
ProcInv ==
    kind \in {"host_mem", "vmstat", "psi"} =>
       /\ pc = "envelopes" \/ Ended("ok") =>
             \/ /\ recs = <<Rec(ProcFile(kind), {ProcFile(kind)}, TRUE)>>
                /\ ProcFile(kind) \in seen
             \/ /\ kind = "psi" /\ recs = <<>>
                /\ ProcFile(kind) \notin stable
       /\ Ended("err") => faulted \/ ProcFile(kind) \notin stable

(* The files that are read of a directory. *)
FilesOf(k) == IF k = "numa_mem" THEN {"meminfo", "numastat"}
              ELSE {"nr", "resv"}

(* A directory that is being read. *)
ReadInv ==
    pc = "file" =>
       /\ dir[4] = "" /\ files \subseteq FilesOf(kind)
       /\ got \subseteq {p \in seen : Under(dir, p)}
       /\ \A f \in FilesOf(kind) \ files :
             File(dir, f) \in stable => File(dir, f) \in got
       /\ \A i \in 1 .. Len(recs) : recs[i].of # dir

NodeFiles(n) == {File(Node(n), "meminfo"), File(Node(n), "numastat")}

(* Numa: the nodes that are left were there, and have no record. *)
NumaInv ==
    kind = "numa_mem" /\ pc \in {"node", "file"} =>
       /\ \A n \in nodes : NodeFiles(n) \subseteq seen
       /\ \A i \in 1 .. Len(recs) : recs[i].of[2] \notin nodes
       /\ pc = "file" => /\ dir = Node(dir[2]) /\ dir[2] \notin nodes
                         /\ NodeFiles(dir[2]) \subseteq seen

(***************************************************************************)
(* Hugepages: of the sizes that are left only the first has records: those *)
(* of the nodes that were visited, or that of the host when all were.      *)
(***************************************************************************)
HugeInv ==
    kind = "hugepages" /\ pc \in {"size", "file"} =>
       /\ \A i \in 1 .. Len(recs) :
             LET d == recs[i].of
             IN  /\ d[3] \in sizes =>
                       /\ d[3] = Min(sizes)
                       /\ \/ d[1] = "node" /\ d[2] \notin left
                          \/ d[1] = "huge" /\ left = {}
                 /\ (d[1] = "node" /\ d \in seen) \/ d = HostPages(d[3])
       /\ pc = "file" =>
             /\ sizes # {} /\ dir[3] = Min(sizes)
             /\ \/ /\ dir[1] = "node" /\ dir[2] \notin left /\ dir \in seen
                   /\ \A i \in 1 .. Len(recs) :
                         recs[i].of[3] = dir[3] => recs[i].of[1] = "node"
                \/ /\ dir = HostPages(dir[3]) /\ left = {}
                   /\ ~Recorded(dir[3])

(* VLLM: the endpoints that are left have no record. *)
VLLMInv == pc = "vllm" =>
              \A i \in 1 .. Len(recs) : recs[i].of[2] \notin left

(* What a tick has still to report at a step. *)
Pending(p) ==
    \/ pc \in EarlySteps \ {"nodes"}
    \/ pc = "nodes" /\ p[3] \in sizes
    \/ pc = "apps" /\ RecordsOf(p) # {}
    \/ pc = "vllm" /\ p[2] \in left
    \/ pc = "file" /\ dir = p
    \/ kind = "numa_mem" /\ pc \in {"node", "file"} /\ p[2] \in nodes
    \/ /\ kind = "hugepages" /\ pc \in {"size", "file"}
       /\ p[3] \in sizes
       /\ \/ /\ p[1] = "node" /\ p[2] \in nodes
             /\ p[3] = Min(sizes) => p[2] \in left
          \/ p[1] = "huge" /\ RecordsOf(p) = {}

Reported(p) ==
    \E i \in RecordsOf(p) : FieldsOf(p) \cap stable \subseteq recs[i].got

ReportInv == pc # "idle" \/ result = "ok" =>
                \A p \in Due : Pending(p) \/ Reported(p)

(* The selftest's rows. *)
TestInv ==
    test.ran =>
       /\ "host memory" \in test.ok <=> Proc("meminfo") \in test.host
       /\ "psi" \in test.ok <=> Proc("psi") \in test.host

-----------------------------------------------------------------------------
(* Paths, and the least of a set. *)

(* A nonempty set of natural numbers has its least element. *)
LEMMA MinIn ==
    ASSUME NEW S \in SUBSET Nat, S # {}
    PROVE  Min(S) \in S
<1> DEFINE R == {ss \in Nat \X Nat : ss[1] < ss[2]}
<1>1. IsWellFoundedOn(R, Nat)
  BY NatLessThanWellFounded DEF OpToRel
<1> HIDE DEF R
<1>2. PICK x \in S : \A y \in S : ~(<<y, x>> \in R)
  BY <1>1, WFMin
<1>3. ASSUME NEW y \in S
      PROVE  x =< y
  <2>1. x \in Nat /\ y \in Nat
    OBVIOUS
  <2>2. <<y, x>> \in Nat \X Nat /\ <<y, x>>[1] = y /\ <<y, x>>[2] = x
    BY <2>1
  <2>3. ~(y < x)
    BY <1>2, <2>2 DEF R
  <2> QED
    BY <2>1, <2>3
<1> QED
  BY <1>3 DEF Min

(* A path has its four parts. *)
LEMMA PathIs ==
    ASSUME NEW p \in Paths
    PROVE  /\ p \in PathSpace
           /\ p[2] \in Nat /\ p[3] \in Nat
           /\ p = <<p[1], p[2], p[3], p[4]>>
<1>1. p \in STRING \X Nat \X Nat \X STRING
  BY CollectAssumption
<1>2. p[1] \in Words /\ p[4] \in Words
  BY DEF Words
<1> QED
  BY <1>1, <1>2 DEF PathSpace

(* A file is in its directory. *)
LEMMA FileIs ==
    ASSUME NEW d \in PathSpace, NEW f \in Words
    PROVE  /\ File(d, f) = <<d[1], d[2], d[3], f>>
           /\ File(d, f) \in PathSpace
           /\ d[4] = "" => Under(d, File(d, f))
BY DEF PathSpace, File, Under

(* The parts of the directory a path is in. *)
LEMMA ParentParts ==
    ASSUME NEW p \in PathSpace
    PROVE  /\ ParentOf(p)[1] = p[1]
           /\ ParentOf(p)[2] =
                 IF p[4] # "" \/ p[3] # 0 \/ p[1] = "vllm" THEN p[2] ELSE 0
           /\ ParentOf(p)[3] = IF p[4] # "" THEN p[3] ELSE 0
           /\ ParentOf(p)[4] = ""
<1> DEFINE r == ParentOf(p)
<1>1. r = IF p[4] # "" THEN <<p[1], p[2], p[3], "">>
          ELSE IF p[3] # 0 THEN <<p[1], p[2], 0, "">>
          ELSE IF p[1] = "vllm" THEN p
          ELSE <<p[1], 0, 0, "">>
  BY Zenon DEF ParentOf, File
<1> HIDE DEF r
<1>2. /\ r[1] = p[1]
      /\ r[2] = IF p[4] # "" \/ p[3] # 0 \/ p[1] = "vllm" THEN p[2] ELSE 0
      /\ r[3] = IF p[4] # "" THEN p[3] ELSE 0
      /\ r[4] = ""
  BY <1>1
<1> QED
  BY <1>2 DEF r

(* The files of a node. *)
LEMMA NodeFileIs ==
    ASSUME NEW n, NEW f \in NodeFiles(n)
    PROVE  f[1] = "node" /\ f[2] = n /\ f[3] = 0
<1>1. f = <<"node", n, 0, "meminfo">> \/ f = <<"node", n, 0, "numastat">>
  BY DEF NodeFiles, File, Node
<1> QED
  BY <1>1

(* Two paths are the same when they agree on the four parts. *)
LEMMA SamePath ==
    ASSUME NEW p \in PathSpace, NEW q \in PathSpace,
           p[1] = q[1], p[2] = q[2], p[3] = q[3], p[4] = q[4]
    PROVE  p = q
<1>1. p = <<p[1], p[2], p[3], p[4]>> /\ q = <<q[1], q[2], q[3], q[4]>>
  BY DEF PathSpace
<1> QED
  BY <1>1

-----------------------------------------------------------------------------
(* The steps. *)

(* Nothing of a tick changes. *)
Quiet == UNCHANGED <<tickVars, srcs>>

(* A call fails, and the tick with it. *)
Fails == /\ pc # "idle" /\ Lose /\ faulted' = TRUE /\ ~hung'
         /\ UNCHANGED <<hostVars, kind, loopVars, warnVars, skipped, srcs>>

(* An endpoint is skipped. *)
Skips == /\ pc = "vllm" /\ left # {} /\ ~hung'
         /\ left' = left \ {Min(left)}
         /\ SkipEndpoint(Min(left))
         /\ UNCHANGED <<hostVars, faulted, kind, sizes, nodes, dir, files,
                        got, warnVars, srcs>>

(* A step of a collector that reads files, or a change of the host. *)
Reading(A) == A /\ UNCHANGED <<scrapeVars, srcs>>

(* The steps there are, as far as a tick is concerned. *)
LEMMA StepCases ==
    ASSUME TickTypeOK, [Next]_vars
    PROVE  \/ \E k \in srcs : BeginTick(k)
           \/ Quiet
           \/ Fails
           \/ Skips
           \/ Reading(Churn)
           \/ Hang /\ UNCHANGED srcs
           \/ Reading(FileStep)
           \/ (GPULook \/ GPUQuery \/ GPUApps) /\ UNCHANGED srcs
           \/ VLLMScrape /\ UNCHANGED srcs
           \/ DamonSnapshot \/ DamonCollected
           \/ envelopes
<1>1. CASE TickStep
  <2>1. CASE Timeout /\ UNCHANGED srcs
    <3>1. hung /\ pc # "idle" /\ (kind = "vllm" => pc = "vllm" /\ left # {})
      BY <2>1 DEF TickTypeOK, Timeout, TimesOut, StepsOf
    <3> QED
      BY <2>1, <3>1 DEF Timeout, TimesOut, Fails, Skips, loopVars, warnVars
  <2> QED
    BY <1>1, <2>1 DEF TickStep, ScrapeStep, Reading
<1>2. CASE Disturbance /\ UNCHANGED <<histVars, srcs, test, ticks>>
  <2>1. CASE ReadFails /\ UNCHANGED <<scrapeVars, srcs>>
    <3>1. pc # "idle" /\ ~hung
      BY <2>1 DEF ReadFails, FilePCs, TickTypeOK
    <3> QED
      BY <2>1, <3>1 DEF ReadFails, Fails, scrapeVars, warnVars
  <2>2. CASE GPUFails /\ UNCHANGED srcs
    BY <2>2 DEF GPUFails, Fails, scrapeVars, warnVars
  <2>3. CASE VLLMFails /\ UNCHANGED srcs
    BY <2>3 DEF VLLMFails, Skips
  <2> QED
    BY <1>2, <2>1, <2>2, <2>3 DEF Disturbance, Reading
<1>3. CASE DamonRegion \/ Selftest \/ UNCHANGED vars
  BY <1>3 DEF DamonRegion, Selftest, vars, Quiet
<1> QED
  BY <1>1, <1>2, <1>3 DEF Next

(* Whatever comes or goes, directories go with what is in them. *)
LEMMA SoundKept ==
    ASSUME HostInv, Churn
    PROVE  /\ Sound(host)' /\ host' \subseteq Paths
           /\ stable' \subseteq host' /\ host' \subseteq seen'
           /\ seen' \subseteq Paths
           /\ stable' \subseteq stable /\ seen \subseteq seen'
<1>1. PICK p \in Units(kind) :
          LET below == {q \in Paths : Under(p, q)}
          IN  \/ /\ p \in host
                 /\ host' = host \ below
                 /\ stable' = stable \ below
                 /\ UNCHANGED seen
              \/ /\ p \notin host
                 /\ ParentOf(p) \in host \cup {p}
                 /\ host' = host \cup below
                 /\ seen' = seen \cup below
                 /\ UNCHANGED stable
  BY DEF Churn
<1> DEFINE below == {q \in Paths : Under(p, q)}
<1>2. host \subseteq Paths /\ Sound(host) /\ Sound(Paths)
  BY CollectAssumption DEF HostInv
<1>3. p \in Paths /\ (p[4] = "" \/ (kind = "vllm" /\ p[1] = "vllm"))
  BY <1>1 DEF Units, Roots
<1>4. /\ host' \subseteq Paths
      /\ stable' \subseteq host' /\ host' \subseteq seen'
      /\ seen' \subseteq Paths
      /\ stable' \subseteq stable /\ seen \subseteq seen'
  BY <1>1, <1>2 DEF HostInv
<1>5. ASSUME NEW q \in Paths
      PROVE  /\ ParentOf(q) \in Paths
             /\ Under(p, ParentOf(q)) => Under(p, q)
             /\ Under(p, q) => q = p \/ Under(p, ParentOf(q))
  <2>1. ParentOf(q) \in Paths
    BY <1>2 DEF Sound
  <2> DEFINE r == ParentOf(q)
  <2>2. p \in PathSpace /\ q \in PathSpace
    BY <1>3, PathIs
  <2>3. /\ r[1] = q[1]
        /\ r[2] = IF q[4] # "" \/ q[3] # 0 \/ q[1] = "vllm" THEN q[2] ELSE 0
        /\ r[3] = IF q[4] # "" THEN q[3] ELSE 0
        /\ r[4] = ""
    BY <2>2, ParentParts
  <2> HIDE DEF r
  <2>4. Under(p, r) => Under(p, q)
    BY <2>3 DEF Under
  <2>5. ASSUME Under(p, q), ~Under(p, r)
        PROVE  q = p
    <3>1. CASE p[4] # ""
      <4>1. p[1] = "vllm" /\ q[1] = "vllm" /\ q[4] = p[4]
        BY <1>3, <2>5, <3>1 DEF Under
      <4>2. p[2] \in Endpoints /\ p[3] = 0 /\ q[3] = 0
        BY <1>3, <4>1, ScrapeAssumption
      <4>3. p[2] # 0
        BY <4>2, ScrapeAssumption
      <4> QED
        BY <2>2, <2>5, <4>1, <4>2, <4>3, SamePath DEF Under
    <3>2. CASE p[4] = "" /\ p[2] # 0
      <4>1. q[1] = p[1] /\ q[2] = p[2] /\ q[4] = "" /\ q[3] = p[3]
        BY <2>3, <2>5, <3>2 DEF Under
      <4> QED
        BY <2>2, <3>2, <4>1, SamePath
    <3>3. CASE p[4] = "" /\ p[2] = 0
      <4>1. p[3] # 0 /\ q[3] = p[3] /\ q[4] = "" /\ q[1] = p[1]
        BY <2>3, <2>5, <3>3 DEF Under
      <4>2. p[1] = "huge"
        <5>1. ASSUME NEW root, p = <<root, 0, 0, "">>
              PROVE  FALSE
          BY <4>1, <5>1
        <5>2. p[1] # "node"
          BY <1>3, <3>3, <5>1, CollectAssumption DEF NodeRoot
        <5>3. p[1] # "gpu"
          BY <1>3, <3>3, <5>1, ScrapeAssumption DEF GPURoot
        <5>4. p[1] # "vllm" /\ p[1] \in {"node", "huge", "gpu", "vllm"}
          BY <1>3, <4>1, <5>1, ScrapeAssumption DEF Proc
        <5> QED
          BY <4>1, <5>1, <5>2, <5>3, <5>4
      <4>3. q[2] = 0
        BY <4>1, <4>2, CollectAssumption
      <4> QED
        BY <2>2, <3>3, <4>1, <4>3, SamePath
    <3> QED
      BY <3>1, <3>2, <3>3
  <2> QED
    BY <2>1, <2>4, <2>5 DEF r
<1>6. ASSUME NEW q \in host'
      PROVE  ParentOf(q) \in host'
  <2>1. q \in Paths
    BY <1>4
  <2>2. q \in host => ParentOf(q) \in host
    BY <1>2 DEF Sound
  <2> QED
    BY <1>1, <1>5, <2>1, <2>2
<1>7. ASSUME NEW q \in host', q[1] = "node", q[2] # 0
      PROVE  NodeFiles(q[2]) \subseteq host'
  <2>1. q \in Paths
    BY <1>4, <1>7
  <2>2. NodeFiles(q[2]) \subseteq Paths
    BY <1>2, <1>7, <2>1 DEF Sound, NodeFiles
  <2>3. q \in host => NodeFiles(q[2]) \subseteq host
    BY <1>2, <1>7 DEF Sound, NodeFiles
  <2>4. p[1] = "node" => p[4] = ""
    BY <1>3
  <2>5. CASE host' = host \ below
    <3>1. \A f \in NodeFiles(q[2]) : Under(p, f) => Under(p, q)
      BY <1>7, <2>4, NodeFileIs DEF Under
    <3> QED
      BY <2>1, <2>3, <2>5, <3>1
  <2>6. CASE host' = host \cup below /\ ParentOf(p) \in host \cup {p}
                                     /\ q \notin host
    <3>1. Under(p, q)
      BY <2>6
    <3>2. CASE p[3] = 0
      <4>1. \A f \in NodeFiles(q[2]) : Under(p, f)
        BY <1>7, <2>4, <3>1, <3>2, NodeFileIs DEF Under
      <4> QED
        BY <2>2, <2>6, <4>1
    <3>3. CASE p[3] # 0
      <4>1. p[1] = "node" /\ p[2] # 0 /\ p[2] = q[2] /\ p[4] = ""
        <5>1. p[1] = "node" /\ p[4] = ""
          BY <1>7, <2>4, <3>1 DEF Under
        <5>2. ASSUME p = <<"node", 0, 0, "">>
              PROVE  FALSE
          BY <3>3, <5>2
        <5>3. p[2] # 0
          BY <1>3, <3>3, <5>1, <5>2, CollectAssumption DEF NodeRoot
        <5> QED
          BY <3>1, <5>1, <5>3 DEF Under
      <4>2. ParentOf(p) = Node(q[2]) /\ ParentOf(p) # p
        <5>1. ParentOf(p) = <<"node", q[2], 0, "">>
          BY <3>3, <4>1, Zenon DEF ParentOf
        <5>2. <<"node", q[2], 0, "">>[3] = 0
          OBVIOUS
        <5> QED
          BY <3>3, <5>1, <5>2 DEF Node
      <4>3. NodeFiles(q[2]) \subseteq host
        <5> DEFINE d == Node(q[2])
        <5>1. d \in host
          BY <2>6, <4>2
        <5>2. d[1] = "node" /\ d[2] = q[2]
          BY DEF Node
        <5> HIDE DEF d
        <5> QED
          BY <1>2, <1>7, <5>1, <5>2 DEF Sound, NodeFiles
      <4> QED
        BY <2>6, <4>3
    <3> QED
      BY <3>2, <3>3
  <2> QED
    BY <1>1, <2>3, <2>5, <2>6
<1> QED
  BY <1>4, <1>6, <1>7 DEF Sound, NodeFiles

(* Whose step it is. *)
LEMMA StepKinds ==
    ASSUME TickTypeOK
    PROVE  /\ pc = "stat" => kind = "psi"
           /\ pc = "again" => kind = "host_mem"
           /\ pc = "proc" => kind \in {"host_mem", "vmstat", "psi"}
           /\ pc \in {"numa", "node"} => kind = "numa_mem"
           /\ pc \in {"sizes", "nodes", "size"} => kind = "hugepages"
           /\ pc = "file" => kind \in {"numa_mem", "hugepages"}
           /\ pc \in {"gpu", "query", "apps"} => kind = "gpu_mem"
           /\ pc = "vllm" => kind = "vllm"
           /\ pc \in {"snapshot", "regions"} => kind = "damon_hist"
BY DEF TickTypeOK, StepsOf, Kinds, HostKinds

(* The steps of each kind. *)
LEMMA StepsOfKinds ==
    /\ {"idle", "envelopes", "proc", "again"} \subseteq StepsOf("host_mem")
    /\ {"idle", "envelopes", "proc"} \subseteq StepsOf("vmstat")
    /\ {"idle", "envelopes", "stat", "proc"} \subseteq StepsOf("psi")
    /\ {"idle", "envelopes", "numa", "node", "file"} \subseteq StepsOf("numa_mem")
    /\ {"idle", "envelopes", "sizes", "nodes", "size", "file"}
          \subseteq StepsOf("hugepages")
    /\ {"idle", "envelopes", "gpu", "query", "apps"} \subseteq StepsOf("gpu_mem")
    /\ {"idle", "envelopes", "vllm"} \subseteq StepsOf("vllm")
    /\ {"idle", "envelopes", "snapshot", "regions"} \subseteq StepsOf("damon_hist")
    /\ \A k : {"idle", "envelopes"} \subseteq StepsOf(k)
BY DEF StepsOf

(* The fields of a record. *)
LEMMA RecIs ==
    ASSUME NEW d \in PathSpace, NEW v \in SUBSET PathSpace, NEW f \in BOOLEAN
    PROVE  /\ Rec(d, v, f) \in Records
           /\ Rec(d, v, f).of = d /\ Rec(d, v, f).got = v
           /\ Rec(d, v, f).finite = f
BY DEF Rec, Records

(* A tick with a single record. *)
LEMMA OneRecord ==
    ASSUME NEW r \in Records
    PROVE  <<r>> \in Seq(Records) /\ Len(<<r>>) = 1 /\ <<r>>[1] = r
OBVIOUS

(* The paths that records are about. *)
LEMMA Places ==
    /\ NodeRoot \in PathSpace
    /\ \A f \in Words : Proc(f) \in PathSpace
    /\ \A n \in Nat : /\ Node(n) \in PathSpace
                      /\ HostPages(n) \in PathSpace
                      /\ Endpoint(n) \in PathSpace
    /\ \A n, s \in Nat : NodePages(n, s) \in PathSpace
<1>0. {"", "node", "huge", "vllm"} \subseteq Words
  BY DEF Words
<1>1. NodeRoot \in PathSpace
  BY <1>0 DEF PathSpace, NodeRoot
<1>2. ASSUME NEW f \in Words
      PROVE  Proc(f) \in PathSpace
  BY <1>0 DEF PathSpace, Proc
<1>3. ASSUME NEW n \in Nat
      PROVE  Node(n) \in PathSpace
  BY <1>0 DEF PathSpace, Node
<1>4. ASSUME NEW n \in Nat
      PROVE  HostPages(n) \in PathSpace
  BY <1>0 DEF PathSpace, HostPages
<1>5. ASSUME NEW n \in Nat
      PROVE  Endpoint(n) \in PathSpace
  BY <1>0 DEF PathSpace, Endpoint
<1>6. ASSUME NEW n \in Nat, NEW s \in Nat
      PROVE  NodePages(n, s) \in PathSpace
  BY <1>0 DEF PathSpace, NodePages
<1> QED
  BY <1>1, <1>2, <1>3, <1>4, <1>5, <1>6

(* One more record. *)
LEMMA OneMore ==
    ASSUME recs \in Seq(Records), NEW r \in Records, recs' = Append(recs, r)
    PROVE  /\ recs' \in Seq(Records)
           /\ Len(recs) \in Nat /\ Len(recs') = Len(recs) + 1
           /\ \A i \in 1 .. Len(recs) : recs'[i] = recs[i]
           /\ recs'[Len(recs) + 1] = r
           /\ 1 .. Len(recs') = (1 .. Len(recs)) \cup {Len(recs) + 1}
<1>1. /\ recs' \in Seq(Records) /\ Len(recs') = Len(recs) + 1
      /\ \A i \in 1 .. Len(recs) : recs'[i] = recs[i]
      /\ recs'[Len(recs) + 1] = r
  BY AppendProperties
<1>2. Len(recs) \in Nat
  BY LenProperties
<1> QED
  BY <1>1, <1>2

(* sort.Slice reorders the records. *)
LEMMA SortedRecords ==
    ASSUME recs \in Seq(Records), CollectedSorted
    PROVE  /\ recs' \in Seq(Records)
           /\ pc' = "envelopes" /\ result' = result
           /\ \E place \in Bijection(1 .. Len(recs), 1 .. Len(recs)) :
                 /\ 1 .. Len(recs') = 1 .. Len(recs)
                 /\ \A i \in 1 .. Len(recs) : recs'[i] = recs[place[i]]
<1>1. PICK place \in Bijection(1 .. Len(recs), 1 .. Len(recs)) :
         Collected([i \in 1 .. Len(recs) |-> recs[place[i]]])
  BY DEF CollectedSorted
<1> DEFINE rs == [i \in 1 .. Len(recs) |-> recs[place[i]]]
<1>2. \A i \in 1 .. Len(recs) : place[i] \in 1 .. Len(recs)
  BY DEF Bijection, Injection
<1>3. Len(recs) \in Nat /\ \A i \in 1 .. Len(recs) : recs[i] \in Records
  BY LenProperties, ElementOfSeq
<1>4. rs \in [1 .. Len(recs) -> Records]
  BY <1>2, <1>3
<1>5. rs \in Seq(Records) /\ Len(rs) = Len(recs)
  BY <1>3, <1>4, SeqDef, LenProperties
<1>6. recs' = rs /\ pc' = "envelopes" /\ result' = result
  BY <1>1 DEF Collected
<1> QED
  BY <1>5, <1>6

(* What nvidia-smi's first run yields. *)
LEMMA DevicesRecorded ==
    ASSUME HostInv, NEW devices \in DeviceLists,
           recs' = [i \in 1 .. Len(devices) |->
                         Rec(devices[i], {devices[i]}, TRUE)]
    PROVE  /\ recs' \in Seq(Records)
           /\ DOMAIN devices = 1 .. Len(devices)
           /\ 1 .. Len(recs') = 1 .. Len(devices)
           /\ \A i \in 1 .. Len(devices) :
                 /\ recs'[i].of = devices[i] /\ recs'[i].got = {devices[i]}
                 /\ recs'[i].finite = TRUE
                 /\ devices[i] \in host
<1> DEFINE there == {p \in host : p[1] = "gpu" /\ p[2] # 0 /\ p[3] = 0}
           n == Cardinality(there)
<1>1. devices \in [1 .. n -> there]
  BY DEF DeviceLists
<1>2. n \in Nat
  <2>1. IsFiniteSet(there)
    BY CollectAssumption, FS_Subset DEF HostInv
  <2> QED
    BY <2>1, FS_CardinalityType
<1> HIDE DEF n
<1>3. devices \in Seq(there) /\ Len(devices) = n
  BY <1>1, <1>2
<1>4. ASSUME NEW i \in 1 .. n
      PROVE  /\ Rec(devices[i], {devices[i]}, TRUE) \in Records
             /\ recs'[i] = Rec(devices[i], {devices[i]}, TRUE)
             /\ recs'[i].of = devices[i] /\ recs'[i].got = {devices[i]}
             /\ recs'[i].finite = TRUE
             /\ devices[i] \in host
  <2>1. devices[i] \in host
    BY <1>1
  <2>2. devices[i] \in PathSpace /\ {devices[i]} \in SUBSET PathSpace
    BY <2>1, PathIs DEF HostInv
  <2>3. recs'[i] = Rec(devices[i], {devices[i]}, TRUE)
    BY <1>3
  <2>4. /\ Rec(devices[i], {devices[i]}, TRUE) \in Records
        /\ Rec(devices[i], {devices[i]}, TRUE).of = devices[i]
        /\ Rec(devices[i], {devices[i]}, TRUE).got = {devices[i]}
        /\ Rec(devices[i], {devices[i]}, TRUE).finite = TRUE
    BY <2>2, RecIs
  <2> QED
    BY <2>1, <2>3, <2>4, Zenon
<1> DEFINE rs == [i \in 1 .. Len(devices) |->
                         Rec(devices[i], {devices[i]}, TRUE)]
<1>5. rs \in [1 .. n -> Records]
  BY <1>3, <1>4
<1> HIDE DEF rs
<1>6. rs \in Seq(Records) /\ Len(rs) = n
  BY <1>2, <1>5, SeqDef, LenProperties
<1>7. recs' = rs
  BY DEF rs
<1> QED
  BY <1>1, <1>3, <1>4, <1>6, <1>7

(* The second run adds the processes of each. *)
LEMMA AppsRecorded ==
    ASSUME HostInv, recs \in Seq(Records),
           recs' = [i \in 1 .. Len(recs) |->
                          [recs[i] EXCEPT !.got = @ \cup JoinByUUID(i)]]
    PROVE  /\ recs' \in Seq(Records)
           /\ 1 .. Len(recs') = 1 .. Len(recs)
           /\ \A i \in 1 .. Len(recs) :
                 /\ recs'[i].of = recs[i].of
                 /\ recs'[i].got = recs[i].got \cup Processes(recs[i].of)
                 /\ recs'[i].finite = recs[i].finite
<1>1. Len(recs) \in Nat /\ \A i \in 1 .. Len(recs) : recs[i] \in Records
  BY LenProperties, ElementOfSeq
<1>2. ASSUME NEW i \in 1 .. Len(recs)
      PROVE  /\ recs'[i] \in Records
             /\ recs'[i].of = recs[i].of
             /\ recs'[i].got = recs[i].got \cup Processes(recs[i].of)
             /\ recs'[i].finite = recs[i].finite
  <2>1. recs'[i] = [recs[i] EXCEPT !.got = @ \cup Processes(recs[i].of)]
    BY DEF JoinByUUID
  <2>2. recs[i] \in Records
    BY <1>1
  <2>3. Processes(recs[i].of) \subseteq PathSpace
    BY PathIs DEF Processes, HostInv
  <2> QED
    BY <2>1, <2>2, <2>3 DEF Records
<1> DEFINE rs == [i \in 1 .. Len(recs) |->
                          [recs[i] EXCEPT !.got = @ \cup JoinByUUID(i)]]
<1>3. rs \in [1 .. Len(recs) -> Records]
  BY <1>2
<1> HIDE DEF rs
<1>4. rs \in Seq(Records) /\ Len(rs) = Len(recs)
  BY <1>1, <1>3, SeqDef, LenProperties
<1>5. recs' = rs
  BY DEF rs
<1> QED
  BY <1>2, <1>4, <1>5

(* An endpoint that answers has one more record. *)
LEMMA EndpointRecorded ==
    ASSUME TickTypeOK, HostInv, left # {}, buildRecord(Min(left))
    PROVE  \E r \in Records :
              /\ recs' = Append(recs, r)
              /\ r.of = Endpoint(Min(left))
              /\ r.got = {Metric(Min(left), m) : m \in Metrics} \cap host
              /\ (faulted' = faulted /\ r.finite) \/ faulted'
<1> DEFINE there == {Metric(Min(left), m) : m \in Metrics} \cap host
<1>1. there \in SUBSET PathSpace
  BY PathIs DEF HostInv
<1>2. Endpoint(Min(left)) \in PathSpace
  BY MinIn, Places DEF TickTypeOK
<1>3. PICK f \in BOOLEAN :
             /\ recs' = Append(recs, Rec(Endpoint(Min(left)), there, f))
             /\ (faulted' = faulted /\ f) \/ faulted'
  BY DEF buildRecord
<1> HIDE DEF there
<1>4. Rec(Endpoint(Min(left)), there, f) \in Records
  BY <1>1, <1>2, RecIs
<1> QED
  BY <1>1, <1>2, <1>3, <1>4, RecIs DEF there

(* Types. *)
LEMMA TypeStep ==
    ASSUME TickTypeOK, HostInv, ReadInv, [Next]_vars
    PROVE  TickTypeOK'
<1> USE DEF EarlySteps
<1>0. /\ \A k \in Kinds : FirstStep(k) \in StepsOf(k) /\ FirstStep(k) # "idle"
      /\ NodeRoot \in PathSpace
      /\ <<>> \in Seq(Records)
  <2>1. \A k \in Kinds : FirstStep(k) \in StepsOf(k) /\ FirstStep(k) # "idle"
    BY StepsOfKinds DEF FirstStep, Kinds, HostKinds
  <2> QED
    BY <2>1, Places
<1>1. CASE \E k \in srcs : BeginTick(k)
  <2>1. PICK k \in srcs : BeginTick(k)
    BY <1>1
  <2>2. k \in Kinds /\ FirstStep(k) \in StepsOf(k)
    BY <1>0 DEF TickTypeOK
  <2> QED
    <3>1. ~hung /\ UNCHANGED <<hung, srcs>>
      BY <2>1 DEF BeginTick, TickTypeOK
    <3>2. left' \subseteq Nat \ {0} /\ sizes' = {} /\ nodes' = {}
      BY <2>1, ScrapeAssumption DEF BeginTick
    <3>3. recs' = <<>> /\ kind' = k /\ pc' = FirstStep(k) /\ dir' = NodeRoot
      BY <2>1 DEF BeginTick
    <3> QED
      BY <1>0, <2>2, <3>1, <3>2, <3>3 DEF TickTypeOK
<1>2. CASE Quiet
  BY <1>2 DEF Quiet, TickTypeOK, tickVars, collectVars, loopVars, scrapeVars
<1>3. CASE Fails
  BY <1>0, <1>3, StepsOfKinds DEF Fails, Lose, TickTypeOK, loopVars
<1>4. CASE Skips
  BY <1>4 DEF Skips, SkipEndpoint, TickTypeOK
<1>5. CASE Reading(Churn)
  BY <1>5 DEF Reading, Churn, TickTypeOK, scrapeVars, loopVars
<1>6. CASE Hang /\ UNCHANGED srcs
  BY <1>6 DEF Hang, TickTypeOK, loopVars
<1>7. CASE Reading(FileStep)
  <2>0. NodesThere \subseteq Nat \ {0}
    BY PathIs DEF NodesThere, HostInv
  <2>1. CASE Reading(PSIStat \/ ReadProc)
    <3>1. kind \in {"host_mem", "vmstat", "psi"}
      BY <2>1, StepKinds DEF Reading, PSIStat, ReadProc
    <3>2. ProcFile(kind) \in PathSpace
      <4>1. ProcFile(kind) \in {Proc("meminfo"), Proc("vmstat"), Proc("psi")}
        BY <3>1 DEF ProcFile
      <4>2. {"meminfo", "vmstat", "psi"} \subseteq Words
        BY DEF Words
      <4> QED
        BY <4>1, <4>2, Places
    <3>3. <<Rec(ProcFile(kind), {ProcFile(kind)}, TRUE)>> \in Seq(Records)
      <4>1. {ProcFile(kind)} \in SUBSET PathSpace
        BY <3>2
      <4>2. Rec(ProcFile(kind), {ProcFile(kind)}, TRUE) \in Records
        BY <3>2, <4>1, RecIs
      <4> QED
        BY <4>2, OneRecord
    <3>4. /\ UNCHANGED <<loopVars, kind, scrapeVars, srcs>>
          /\ pc \in {"stat", "proc", "again"} /\ ~hung
      BY <2>1 DEF Reading, PSIStat, ReadProc, TickTypeOK
    <3>5. CASE (Lose \/ Absent)
      BY <1>0, <3>4, <3>5, StepsOfKinds
         DEF TickTypeOK, Lose, Absent, loopVars, scrapeVars
    <3>6. CASE Collected(<<Rec(ProcFile(kind), {ProcFile(kind)}, TRUE)>>)
      BY <3>3, <3>4, <3>6, StepsOfKinds
         DEF TickTypeOK, Collected, loopVars, scrapeVars
    <3>7. CASE /\ pc' = "proc" \/ (pc' = "again" /\ kind = "host_mem")
               /\ UNCHANGED <<recs, result>>
      BY <3>1, <3>4, <3>7, StepsOfKinds DEF TickTypeOK, loopVars, scrapeVars
    <3> QED
      BY <2>1, <3>5, <3>6, <3>7 DEF Reading, PSIStat, ReadProc
  <2>2. CASE Reading(NumaList)
    BY <1>0, <2>0, <2>2, StepKinds, StepsOfKinds
       DEF Reading, NumaList, Absent, TickTypeOK, scrapeVars
  <2>3. CASE Reading(NumaNode)
    <3>1. kind = "numa_mem" /\ pc = "node"
      BY <2>3, StepKinds DEF Reading, NumaNode
    <3>2. CASE nodes = {} /\ CollectedSorted /\ UNCHANGED <<nodes, dir, files, got>>
      BY <2>3, <3>1, <3>2, SortedRecords, StepsOfKinds
         DEF Reading, NumaNode, TickTypeOK, scrapeVars
    <3>3. CASE \E n \in nodes :
                  /\ nodes' = nodes \ {n}
                  /\ ReadDirOf(Node(n), {"meminfo", "numastat"})
                  /\ UNCHANGED <<recs, result>>
      <4>1. PICK n \in nodes :
                  /\ nodes' = nodes \ {n}
                  /\ ReadDirOf(Node(n), {"meminfo", "numastat"})
                  /\ UNCHANGED <<recs, result>>
        BY <3>3
      <4>2. Node(n) \in PathSpace
        BY Places DEF TickTypeOK
      <4> QED
        BY <2>3, <3>1, <4>1, <4>2, StepsOfKinds
           DEF Reading, NumaNode, ReadDirOf, TickTypeOK, scrapeVars
    <3> QED
      BY <2>3, <3>2, <3>3 DEF Reading, NumaNode
  <2>4. CASE Reading(HugeSizes)
    <3>1. {p[3] : p \in {q \in host : q[1] = "huge"}} \ {0} \subseteq Nat \ {0}
      BY PathIs DEF HostInv
    <3> QED
      BY <1>0, <2>4, <3>1, StepKinds, StepsOfKinds
         DEF Reading, HugeSizes, Absent, TickTypeOK, scrapeVars
  <2>5. CASE Reading(HugeNodes)
    BY <2>0, <2>5, StepKinds, StepsOfKinds
       DEF Reading, HugeNodes, TickTypeOK, scrapeVars
  <2>6. CASE Reading(HugeStat)
    <3>1. /\ kind = "hugepages" /\ pc = "size" /\ ~hung
          /\ UNCHANGED <<kind, nodes, scrapeVars, srcs>>
      BY <2>6, StepKinds DEF Reading, HugeStat, TickTypeOK
    <3>2. CASE CollectedSorted /\ UNCHANGED <<sizes, left, dir, files, got>>
      BY <3>1, <3>2, SortedRecords, StepsOfKinds DEF TickTypeOK, scrapeVars
    <3>3. CASE /\ sizes' \subseteq sizes
               /\ left' = nodes \/ left' \subseteq left
               /\ pc' \in {"size", "file"}
               /\ dir' = dir \/ dir' \in PathSpace
               /\ UNCHANGED <<recs, result>>
      BY <3>1, <3>3, StepsOfKinds DEF TickTypeOK, scrapeVars
    <3>4. sizes # {} => /\ HostPages(Min(sizes)) \in PathSpace
                        /\ left # {} => NodePages(Min(left), Min(sizes))
                                           \in PathSpace
      <4>1. sizes # {} => Min(sizes) \in Nat
        BY MinIn DEF TickTypeOK
      <4>2. left # {} => Min(left) \in Nat
        BY MinIn DEF TickTypeOK
      <4> QED
        BY <4>1, <4>2, Places
    <3> QED
      BY <2>6, <3>1, <3>2, <3>3, <3>4 DEF Reading, HugeStat, ReadDirOf
  <2>7. CASE Reading(ReadFile)
    <3>1. PICK f \in files :
             \/ Lose
             \/ /\ files' = files \ {f}
                /\ got' = got \cup ({File(dir, f)} \cap host)
                /\ IF files' # {} THEN UNCHANGED <<pc, recs>>
                   ELSE /\ recs' = Append(recs, Rec(dir, got', TRUE))
                        /\ pc' = IF kind = "numa_mem" THEN "node" ELSE "size"
                /\ UNCHANGED result
      BY <2>7 DEF Reading, ReadFile
    <3>2. /\ kind \in {"numa_mem", "hugepages"} /\ pc = "file" /\ ~hung
          /\ UNCHANGED <<kind, sizes, nodes, left, dir, scrapeVars, srcs>>
      BY <2>7, StepKinds DEF Reading, ReadFile, TickTypeOK
    <3>3. CASE Lose
      BY <1>0, <3>2, <3>3, StepsOfKinds DEF Lose, TickTypeOK, scrapeVars
    <3>4. CASE UNCHANGED <<pc, recs, result>>
      BY <3>2, <3>4 DEF TickTypeOK, scrapeVars
    <3>5. CASE /\ recs' = Append(recs, Rec(dir, got', TRUE))
               /\ got' = got \cup ({File(dir, f)} \cap host)
               /\ pc' = IF kind = "numa_mem" THEN "node" ELSE "size"
      <4>1. got' \in SUBSET PathSpace
        BY <3>2, <3>5, PathIs DEF ReadInv, HostInv
      <4>2. Rec(dir, got', TRUE) \in Records
        BY <4>1, RecIs DEF TickTypeOK
      <4>3. recs' \in Seq(Records)
        BY <3>5, <4>2, OneMore DEF TickTypeOK
      <4> QED
        BY <3>2, <3>5, <4>3, StepsOfKinds DEF TickTypeOK, scrapeVars
    <3> QED
      BY <3>1, <3>3, <3>4, <3>5
  <2> QED
    BY <1>7, <2>1, <2>2, <2>3, <2>4, <2>5, <2>6, <2>7 DEF Reading, FileStep
<1>8. CASE (GPULook \/ GPUQuery \/ GPUApps) /\ UNCHANGED srcs
  <2>0. /\ kind = "gpu_mem" /\ pc \in {"gpu", "query", "apps"}
        /\ UNCHANGED <<kind, loopVars, scrapeVars, srcs>>
        /\ pc' # "apps" => ~hung
    BY <1>8, StepKinds DEF GPULook, GPUQuery, GPUApps, TickTypeOK
  <2>1. CASE Lose \/ Absent
    BY <1>0, <2>0, <2>1, StepsOfKinds
       DEF TickTypeOK, Lose, Absent, loopVars, scrapeVars
  <2>2. CASE pc = "gpu" /\ pc' = "query" /\ UNCHANGED <<recs, result>>
    <3>1. recs = <<>>
      BY <2>2 DEF TickTypeOK
    <3> QED
      BY <2>0, <2>2, <3>1, StepsOfKinds DEF TickTypeOK, loopVars, scrapeVars
  <2>3. CASE recs' \in Seq(Records) /\ pc' \in {"apps", "envelopes"}
    BY <2>0, <2>3, StepsOfKinds DEF TickTypeOK, loopVars, scrapeVars
  <2>4. ASSUME NEW devices \in DeviceLists,
               recs' = [i \in 1 .. Len(devices) |->
                             Rec(devices[i], {devices[i]}, TRUE)]
        PROVE  recs' \in Seq(Records)
    BY <2>4, DevicesRecorded
  <2>5. ASSUME recs' = [i \in 1 .. Len(recs) |->
                          [recs[i] EXCEPT !.got = @ \cup JoinByUUID(i)]]
        PROVE  recs' \in Seq(Records)
    BY <2>5, AppsRecorded DEF TickTypeOK
  <2> QED
    BY <1>8, <2>1, <2>2, <2>3, <2>4, <2>5
       DEF GPULook, GPUQuery, GPUApps, Collected
<1>9. CASE VLLMScrape /\ UNCHANGED srcs
  <2>0. /\ kind = "vllm" /\ pc = "vllm" /\ ~hung /\ left' \subseteq left
        /\ UNCHANGED <<kind, sizes, nodes, dir, hung, srcs>>
    BY <1>9, StepKinds DEF VLLMScrape
  <2>1. CASE Collected(recs)
    BY <2>0, <2>1, StepsOfKinds DEF TickTypeOK, Collected
  <2>2. CASE UNCHANGED <<pc, recs, result>>
    BY <2>0, <2>2 DEF TickTypeOK
  <2>3. ASSUME left # {}, buildRecord(Min(left)), UNCHANGED pc
        PROVE  TickTypeOK'
    <3>1. recs' \in Seq(Records)
      BY <2>3, EndpointRecorded, OneMore DEF TickTypeOK
    <3> QED
      BY <2>0, <2>3, <3>1, StepsOfKinds DEF TickTypeOK
  <2> QED
    BY <1>9, <2>1, <2>2, <2>3 DEF VLLMScrape, SkipEndpoint
<1>10. CASE DamonSnapshot
  BY <1>10, StepKinds, StepsOfKinds
     DEF DamonSnapshot, TickTypeOK, loopVars, scrapeVars
<1>11. CASE DamonCollected
  <2>1. /\ kind = "damon_hist" /\ pc = "regions" /\ pc' = "envelopes" /\ ~hung
        /\ recs' = <<Rec(Proc("kdamonds"), {}, TRUE)>>
        /\ UNCHANGED <<kind, loopVars, scrapeVars, srcs>>
    BY <1>11, StepKinds DEF DamonCollected, Collected, TickTypeOK
  <2>2. recs' \in Seq(Records)
    <3>1. Proc("kdamonds") \in PathSpace /\ {} \in SUBSET PathSpace
      <4>1. "kdamonds" \in Words
        BY DEF Words
      <4> QED
        BY <4>1, Places
    <3>2. Rec(Proc("kdamonds"), {}, TRUE) \in Records
      BY <3>1, RecIs
    <3> QED
      BY <2>1, <3>2, OneRecord
  <2> QED
    BY <2>1, <2>2, StepsOfKinds DEF TickTypeOK, loopVars, scrapeVars
<1>12. CASE envelopes
  BY <1>0, <1>12, StepsOfKinds
     DEF envelopes, MarshalAll, Lose, TickTypeOK, loopVars, scrapeVars
<1> QED
  BY <1>1, <1>2, <1>3, <1>4, <1>5, <1>6, <1>7, <1>8, <1>9, <1>10, <1>11,
     <1>12, StepCases

-----------------------------------------------------------------------------
(* The steps keep the invariant. *)

(* What holds of the records and of the loops. *)
CollectInv == /\ FiniteInv /\ ProcInv /\ ReadInv /\ NumaInv /\ HugeInv
              /\ VLLMInv /\ ValuesAttributed /\ LossHasCause /\ ReportInv

(* The history of the host grows, or begins with a tick. *)
LEMMA HostStep ==
    ASSUME TickTypeOK, HostInv, [Next]_vars
    PROVE  HostInv'
<1>1. CASE Reading(Churn)
  BY <1>1, SoundKept DEF Reading, HostInv
<1>2. CASE \E k \in srcs : BeginTick(k)
  BY <1>2 DEF BeginTick, HostInv, Sound
<1>3. CASE UNCHANGED hostVars
  BY <1>3 DEF hostVars, HostInv, Sound
<1>4. Reading(FileStep) => UNCHANGED hostVars
  BY DEF Reading, FileStep, PSIStat, ReadProc, NumaList, NumaNode, HugeSizes,
         HugeNodes, HugeStat, ReadFile
<1>5. Quiet \/ Fails \/ Skips \/ Hang => UNCHANGED hostVars
  BY DEF Quiet, Fails, Skips, Hang, tickVars, collectVars
<1>6. GPULook \/ GPUQuery \/ GPUApps \/ VLLMScrape \/ DamonSnapshot
         \/ DamonCollected \/ envelopes => UNCHANGED hostVars
  BY DEF GPULook, GPUQuery, GPUApps, VLLMScrape, DamonSnapshot,
         DamonCollected, envelopes
<1> QED
  BY <1>1, <1>2, <1>3, <1>4, <1>5, <1>6, StepCases

(* The longer a tick takes the less it has to report. *)
LEMMA DueShrinks ==
    ASSUME kind' = kind, stable' \subseteq stable, seen \subseteq seen',
           skipped \subseteq skipped'
    PROVE  Due' \subseteq Due
<1>1. CASE kind = "numa_mem"
  BY <1>1 DEF Due
<1>2. CASE kind = "hugepages"
  BY <1>2 DEF Due
<1>3. CASE kind = "gpu_mem"
  BY <1>3 DEF Due
<1>4. CASE kind = "vllm"
  BY <1>4 DEF Due
<1>5. CASE kind = "damon_hist"
  BY <1>5 DEF Due
<1>6. CASE kind \notin {"numa_mem", "hugepages", "gpu_mem", "vllm", "damon_hist"}
  BY <1>6 DEF Due
<1> QED
  BY <1>1, <1>2, <1>3, <1>4, <1>5, <1>6

(* What was reported is so as long as no record is lost. *)
LEMMA ReportedKept ==
    ASSUME NEW p, Reported(p), kind' = kind, stable' \subseteq stable,
           \A i \in 1 .. Len(recs) : \E j \in 1 .. Len(recs') :
              recs'[j].of = recs[i].of /\ recs[i].got \subseteq recs'[j].got
    PROVE  Reported(p)'
<1>1. FieldsOf(p)' = FieldsOf(p)
  BY DEF FieldsOf
<1> QED
  BY <1>1 DEF Reported, RecordsOf

(* Outside the loops there is nothing to say about them. *)
LEMMA NoLoop ==
    ASSUME pc' \notin {"file", "node", "size", "vllm"}
    PROVE  ReadInv' /\ NumaInv' /\ HugeInv' /\ VLLMInv'
BY DEF ReadInv, NumaInv, HugeInv, VLLMInv

(* A tick without records, and not at an end that owes any. *)
LEMMA Nothing ==
    ASSUME recs' = <<>>
    PROVE  FiniteInv' /\ ValuesAttributed'
<1>1. 1 .. Len(recs') = {}
  OBVIOUS
<1> QED
  BY <1>1 DEF FiniteInv, ValuesAttributed

(* A tick begins. *)
LEMMA BeginStep ==
    ASSUME NEW k \in Kinds, BeginTick(k)
    PROVE  CollectInv'
<1>1. recs' = <<>> /\ result' = "none" /\ pc' = FirstStep(k) /\ kind' = k
  BY DEF BeginTick
<1>2. CASE k = "vllm"
  <2>1. pc' = "vllm" /\ left' = Endpoints /\ kind' = "vllm"
    BY <1>1, <1>2 DEF FirstStep, BeginTick
  <2>2. 1 .. Len(recs') = {}
    BY <1>1
  <2>3. ReadInv' /\ NumaInv' /\ HugeInv' /\ VLLMInv'
    BY <2>1, <2>2 DEF ReadInv, NumaInv, HugeInv, VLLMInv
  <2>4. \A p \in Due' : p[2] \in left'
    <3>1. Due' \subseteq {Endpoint(e) : e \in Endpoints}
      BY <2>1 DEF Due
    <3>2. \A e \in Endpoints : Endpoint(e)[2] = e
      BY DEF Endpoint
    <3> QED
      BY <2>1, <3>1, <3>2
  <2>5. ReportInv'
    BY <2>1, <2>4 DEF ReportInv, Pending
  <2>6. ProcInv' /\ LossHasCause'
    BY <1>1, <2>1 DEF ProcInv, LossHasCause, Ended
  <2> QED
    BY <1>1, <2>3, <2>5, <2>6, Nothing DEF CollectInv
<1>3. CASE k # "vllm"
  <2>1. pc' \in EarlySteps \ {"nodes"} /\ pc' # "idle" /\ pc' # "envelopes"
    BY <1>1, <1>3 DEF FirstStep, Kinds, HostKinds, EarlySteps
  <2>2. pc' \notin {"file", "node", "size", "vllm"}
    BY <2>1 DEF EarlySteps
  <2>3. ReportInv'
    BY <2>1 DEF ReportInv, Pending
  <2>4. ProcInv' /\ LossHasCause'
    BY <1>1, <2>1 DEF ProcInv, LossHasCause, Ended
  <2> QED
    BY <1>1, <2>2, <2>3, <2>4, NoLoop, Nothing DEF CollectInv
<1> QED
  BY <1>2, <1>3

(* Nothing that the invariant is about changes. *)
LEMMA StillStep ==
    ASSUME CollectInv, Quiet \/ Hang
    PROVE  CollectInv'
<1>1. UNCHANGED <<host, stable, seen, faulted, kind, pc, sizes, nodes, left,
                  dir, files, got, recs, result, skipped>>
  BY DEF Quiet, Hang, tickVars, collectVars, hostVars, loopVars, scrapeVars
<1>2. FiniteInv' /\ ProcInv' /\ ReadInv' /\ NumaInv' /\ HugeInv' /\ VLLMInv'
  BY <1>1 DEF CollectInv, FiniteInv, ProcInv, ReadInv, NumaInv, HugeInv,
              VLLMInv, Recorded, Ended
<1>3. ValuesAttributed' /\ LossHasCause'
  BY <1>1 DEF CollectInv, ValuesAttributed, LossHasCause, Ended
<1>4. Due' = Due /\ (\A p : Pending(p)' = Pending(p))
                 /\ (\A p : Reported(p)' = Reported(p))
  BY <1>1 DEF Due, Pending, Reported, RecordsOf, FieldsOf
<1> QED
  BY <1>1, <1>2, <1>3, <1>4 DEF CollectInv, ReportInv

(* A failure costs the tick. *)
LEMMA FailStep ==
    ASSUME Fails
    PROVE  CollectInv'
<1>1. /\ pc' = "idle" /\ result' = "err" /\ recs' = <<>> /\ faulted' = TRUE
  BY DEF Fails, Lose
<1>2. ProcInv' /\ LossHasCause' /\ ReportInv'
  BY <1>1 DEF ProcInv, LossHasCause, ReportInv, Ended
<1> QED
  BY <1>1, <1>2, NoLoop, Nothing DEF CollectInv

(* Something comes or goes. *)
LEMMA ChurnStep ==
    ASSUME TickTypeOK, HostInv, CollectInv, Reading(Churn)
    PROVE  CollectInv'
<1>1. /\ UNCHANGED <<faulted, kind, pc, sizes, nodes, left, dir, files, got,
                     recs, result, skipped>>
      /\ pc # "idle"
  BY DEF Reading, Churn, loopVars, scrapeVars
<1>2. stable' \subseteq stable /\ seen \subseteq seen'
  BY SoundKept DEF Reading
<1>3. FiniteInv' /\ VLLMInv'
  BY <1>1 DEF CollectInv, FiniteInv, VLLMInv
<1>4. ProcInv'
  BY <1>1, <1>2 DEF CollectInv, ProcInv, Ended
<1>5. ReadInv'
  BY <1>1, <1>2 DEF CollectInv, ReadInv
<1>6. NumaInv'
  BY <1>1, <1>2 DEF CollectInv, NumaInv
<1>7. HugeInv'
  BY <1>1, <1>2 DEF CollectInv, HugeInv, Recorded
<1>8. ValuesAttributed'
  BY <1>1, <1>2 DEF CollectInv, ValuesAttributed
<1>9. LossHasCause'
  BY <1>1 DEF LossHasCause, Ended
<1>10. ReportInv'
  <2>1. Due' \subseteq Due
    BY <1>1, <1>2, DueShrinks
  <2>2. \A p : Pending(p)' = Pending(p)
    BY <1>1 DEF Pending, RecordsOf
  <2>3. \A p : Reported(p) => Reported(p)'
    BY <1>1, <1>2, ReportedKept
  <2> QED
    BY <1>1, <2>1, <2>2, <2>3 DEF CollectInv, ReportInv
<1> QED
  BY <1>3, <1>4, <1>5, <1>6, <1>7, <1>8, <1>9, <1>10 DEF CollectInv

(* An endpoint that is skipped is not due. *)
LEMMA SkipStep ==
    ASSUME TickTypeOK, CollectInv, Skips
    PROVE  CollectInv'
<1>1. /\ UNCHANGED <<stable, seen, faulted, kind, pc, recs, result>>
      /\ pc = "vllm" /\ kind = "vllm"
      /\ left' = left \ {Min(left)} /\ skipped' = skipped \cup {Min(left)}
  BY StepKinds DEF Skips, SkipEndpoint, hostVars
<1>2. FiniteInv' /\ VLLMInv' /\ ReadInv' /\ NumaInv' /\ HugeInv'
  BY <1>1 DEF CollectInv, FiniteInv, VLLMInv, ReadInv, NumaInv, HugeInv
<1>3. ProcInv' /\ LossHasCause' /\ ValuesAttributed'
  BY <1>1 DEF CollectInv, ProcInv, LossHasCause, ValuesAttributed, Ended
<1>4. ReportInv'
  <2>1. Due' \subseteq Due
    BY <1>1, DueShrinks
  <2>2. ASSUME NEW p \in Due', Pending(p)
        PROVE  Pending(p)'
    <3>1. PICK e \in Endpoints \ skipped' : p = Endpoint(e)
      BY <1>1 DEF Due
    <3>2. p[2] = e
      BY <3>1 DEF Endpoint
    <3>3. e # Min(left)
      BY <1>1, <3>1
    <3>4. p[2] \in left
      BY <1>1, <2>2 DEF Pending, EarlySteps
    <3> QED
      BY <1>1, <3>2, <3>3, <3>4 DEF Pending
  <2>3. \A p : Reported(p) => Reported(p)'
    BY <1>1, ReportedKept
  <2> QED
    BY <1>1, <2>1, <2>2, <2>3 DEF CollectInv, ReportInv
<1> QED
  BY <1>2, <1>3, <1>4 DEF CollectInv

(* DAMON's source has nothing due. *)
LEMMA DamonStep ==
    ASSUME TickTypeOK, CollectInv, DamonSnapshot \/ DamonCollected
    PROVE  CollectInv'
<1>1. /\ kind = "damon_hist" /\ kind' = kind
      /\ pc' \in {"regions", "envelopes"} /\ faulted' = faulted
      /\ \/ recs' = <<>>
         \/ recs' = <<Rec(Proc("kdamonds"), {}, TRUE)>>
  BY StepKinds DEF DamonSnapshot, DamonCollected, Collected, TickTypeOK,
                   EarlySteps
<1>2. ReadInv' /\ NumaInv' /\ HugeInv' /\ VLLMInv'
  BY <1>1, NoLoop
<1>3. ProcInv' /\ LossHasCause' /\ ReportInv'
  BY <1>1 DEF ProcInv, LossHasCause, ReportInv, Ended, Due
<1>4. FiniteInv' /\ ValuesAttributed'
  <2>1. CASE recs' = <<>>
    BY <2>1, Nothing
  <2>2. CASE recs' = <<Rec(Proc("kdamonds"), {}, TRUE)>>
    <3>1. /\ 1 .. Len(recs') = {1} /\ recs'[1].got = {} /\ recs'[1].finite = TRUE
      BY <2>2 DEF Rec
    <3> QED
      BY <1>1, <3>1 DEF FiniteInv, ValuesAttributed
  <2> QED
    BY <1>1, <2>1, <2>2
<1> QED
  BY <1>2, <1>3, <1>4 DEF CollectInv

(* The records are marshalled, or the tick is lost to one of them. *)
LEMMA EnvelopesStep ==
    ASSUME TickTypeOK, CollectInv, envelopes
    PROVE  CollectInv'
<1>1. /\ UNCHANGED <<stable, seen, faulted, kind, skipped>>
      /\ pc = "envelopes" /\ pc' = "idle"
  BY DEF envelopes, MarshalAll, Lose, hostVars, scrapeVars
<1>2. ReadInv' /\ NumaInv' /\ HugeInv' /\ VLLMInv'
  BY <1>1, NoLoop
<1>3. CASE \E i \in 1 .. Len(recs) : ~recs[i].finite
  <2>1. faulted' /\ recs' = <<>> /\ result' = "err"
    BY <1>1, <1>3 DEF CollectInv, FiniteInv, envelopes, MarshalAll, Lose
  <2>2. ProcInv' /\ LossHasCause' /\ ReportInv'
    BY <1>1, <2>1 DEF ProcInv, LossHasCause, ReportInv, Ended
  <2> QED
    BY <1>2, <2>1, <2>2, Nothing DEF CollectInv
<1>4. CASE UNCHANGED recs /\ result' = "ok"
  <2>1. FiniteInv' /\ ValuesAttributed'
    BY <1>1, <1>4 DEF CollectInv, FiniteInv, ValuesAttributed
  <2>2. ProcInv' /\ LossHasCause'
    BY <1>1, <1>4 DEF CollectInv, ProcInv, LossHasCause, Ended
  <2>3. ReportInv'
    <3>1. Due' \subseteq Due
      BY <1>1, DueShrinks
    <3>2. \A p : ~Pending(p)
      BY <1>1 DEF Pending, EarlySteps
    <3>3. \A p : Reported(p) => Reported(p)'
      BY <1>1, <1>4, ReportedKept
    <3> QED
      BY <1>1, <3>1, <3>2, <3>3 DEF CollectInv, ReportInv
  <2> QED
    BY <1>2, <2>1, <2>2, <2>3 DEF CollectInv
<1> QED
  BY <1>3, <1>4 DEF envelopes, MarshalAll

(* Meminfo, Vmstat and PSI. *)
LEMMA ProcStep ==
    ASSUME TickTypeOK, HostInv, CollectInv, Reading(PSIStat \/ ReadProc)
    PROVE  CollectInv'
<1> DEFINE F == ProcFile(kind)
<1>1. /\ kind \in {"host_mem", "vmstat", "psi"} /\ pc \in {"stat", "proc", "again"}
      /\ UNCHANGED <<host, stable, seen, faulted, kind, skipped>>
      /\ pc = "stat" => kind = "psi"
      /\ recs = <<>>
  BY StepKinds DEF Reading, PSIStat, ReadProc, hostVars, scrapeVars,
                   TickTypeOK, EarlySteps
<1>2. pc' \notin {"file", "node", "size", "vllm"}
  BY DEF Reading, PSIStat, ReadProc, Lose, Absent, Collected
<1>3. ReadInv' /\ NumaInv' /\ HugeInv' /\ VLLMInv'
  BY <1>2, NoLoop
<1>4. F \in {Proc("meminfo"), Proc("vmstat"), Proc("psi")} /\ F' = F
  BY <1>1 DEF ProcFile
<1>5. Due \subseteq {F} \cap stable /\ Due' \subseteq Due
  <2>1. Due' \subseteq Due
    BY <1>1, DueShrinks
  <2> QED
    BY <1>1, <2>1 DEF Due
<1>6. FieldsOf(F)' \subseteq {F}
  <2>0. \A f : Proc(f)[1] = f
    BY DEF Proc
  <2>1. F[1] \in {"meminfo", "vmstat", "psi"}
    BY <1>4, <2>0, Zenon
  <2>2. ASSUME NEW p \in Paths, Under(F, p)
        PROVE  p = F
    <3>1. p[1] = F[1]
      BY <2>2 DEF Under
    <3>2. p = Proc(p[1])
      BY <2>1, <3>1, ScrapeAssumption
    <3>3. F = Proc(F[1])
      BY <1>4, <2>0, Zenon
    <3> QED
      BY <3>1, <3>2, <3>3
  <2> QED
    BY <1>4, <2>2 DEF FieldsOf
<1>7. CASE Lose /\ F \notin host
  <2>1. F' \notin stable'
    BY <1>1, <1>4, <1>7 DEF HostInv
  <2>2. ProcInv' /\ LossHasCause' /\ ReportInv'
    BY <1>1, <1>7, <2>1 DEF Lose, ProcInv, LossHasCause, ReportInv, Ended
  <2> QED
    BY <1>3, <1>7, <2>2, Nothing DEF CollectInv, Lose
<1>8. CASE Absent /\ F \notin host /\ pc = "stat"
  <2>1. F' \notin stable'
    BY <1>1, <1>4, <1>8 DEF HostInv
  <2>2. ProcInv' /\ LossHasCause'
    BY <1>1, <1>8, <2>1 DEF Absent, ProcInv, LossHasCause, Ended
  <2>3. Due' = {}
    BY <1>1, <1>4, <1>5, <2>1
  <2>4. ReportInv'
    BY <2>3 DEF ReportInv
  <2> QED
    BY <1>3, <1>8, <2>2, <2>4, Nothing DEF CollectInv, Absent
<1>9. CASE pc' \in {"proc", "again"} /\ UNCHANGED <<recs, result>>
  <2>1. ProcInv' /\ LossHasCause' /\ ReportInv'
    BY <1>9 DEF ProcInv, LossHasCause, ReportInv, Ended, Pending, EarlySteps
  <2> QED
    BY <1>1, <1>3, <1>9, <2>1, Nothing DEF CollectInv
<1>10. CASE Collected(<<Rec(F, {F}, TRUE)>>) /\ F \in host
  <2>1. /\ recs' = <<Rec(F, {F}, TRUE)>> /\ pc' = "envelopes"
        /\ 1 .. Len(recs') = {1}
        /\ recs'[1].of = F /\ recs'[1].got = {F} /\ recs'[1].finite = TRUE
    BY <1>10 DEF Collected, Rec
  <2>2. F \in seen'
    BY <1>1, <1>10 DEF HostInv
  <2>3. ProcInv' /\ LossHasCause'
    BY <1>1, <1>4, <2>1, <2>2 DEF ProcInv, LossHasCause, Ended
  <2>4. FiniteInv'
    BY <2>1 DEF FiniteInv
  <2>5. ValuesAttributed'
    <3>1. Under(F, F) /\ kind' # "hugepages"
      BY <1>1 DEF Under
    <3> QED
      BY <2>1, <2>2, <3>1 DEF ValuesAttributed
  <2>6. ReportInv'
    <3>1. Reported(F)'
      BY <1>4, <1>6, <2>1 DEF Reported, RecordsOf
    <3>2. \A p \in Due' : p = F'
      BY <1>4, <1>5
    <3>3. \A p \in Due' : Reported(p)'
      BY <3>1, <3>2
    <3> QED
      BY <3>3 DEF ReportInv
  <2> QED
    BY <1>3, <2>3, <2>4, <2>5, <2>6 DEF CollectInv
<1> QED
  BY <1>1, <1>7, <1>8, <1>9, <1>10 DEF Reading, PSIStat, ReadProc

(* The devices that are due, and their processes. *)
LEMMA DevicesDue ==
    ASSUME HostInv, kind = "gpu_mem", NEW p \in Due
    PROVE  /\ p \in host /\ p[1] = "gpu" /\ p[2] # 0 /\ p[3] = 0
           /\ GPURoot \in host
           /\ FieldsOf(p) \cap host \subseteq Processes(p)
<1>1. p \in stable /\ p[1] = "gpu" /\ p = Device(p[2]) /\ p # GPURoot
  BY DEF Due
<1>2. p \in host /\ p \in Paths /\ p \in PathSpace
  BY <1>1, PathIs DEF HostInv
<1>3. p[3] = 0 /\ p[4] = ""
  <2>1. \A u : Device(u)[3] = 0 /\ Device(u)[4] = ""
    BY DEF Device
  <2> QED
    BY <1>1, <2>1, Zenon
<1>4. p[2] # 0
  BY <1>1, <1>2, ScrapeAssumption
<1>5. GPURoot \in host
  <2>1. ParentOf(p) \in host
    BY <1>2 DEF HostInv, Sound
  <2>2. ParentOf(p) = <<p[1], 0, 0, "">>
    BY <1>1, <1>3, Zenon DEF ParentOf
  <2> QED
    BY <1>1, <2>1, <2>2 DEF GPURoot
<1>6. ASSUME NEW q \in FieldsOf(p), q \in host
      PROVE  q \in Processes(p)
  <2>1. q \in Paths /\ Under(p, q) /\ q # p
    BY DEF FieldsOf
  <2>2. q[1] = "gpu" /\ q[2] = p[2] /\ q[4] = "" /\ q \in PathSpace
    BY <1>1, <1>4, <2>1, PathIs, ScrapeAssumption DEF Under
  <2>3. q[3] # 0
    BY <1>1, <1>2, <1>3, <2>1, <2>2, SamePath
  <2> QED
    BY <1>6, <2>1, <2>3 DEF Processes
<1> QED
  BY <1>1, <1>2, <1>3, <1>4, <1>5, <1>6

(* The list has every device. *)
LEMMA AllListed ==
    ASSUME HostInv, NEW devices \in DeviceLists,
           NEW p \in host, p[1] = "gpu", p[2] # 0, p[3] = 0
    PROVE  \E i \in DOMAIN devices : devices[i] = p
<1> DEFINE there == {q \in host : q[1] = "gpu" /\ q[2] # 0 /\ q[3] = 0}
           n == Cardinality(there)
<1>1. /\ devices \in [1 .. n -> there]
      /\ \A i, j \in DOMAIN devices : i < j => devices[i][2] < devices[j][2]
  BY DEF DeviceLists
<1>2. IsFiniteSet(there)
  BY CollectAssumption, FS_Subset DEF HostInv
<1>3. n \in Nat
  BY <1>2, FS_CardinalityType
<1>4. \A q \in there : q[2] \in Nat
  BY PathIs DEF HostInv
<1> HIDE DEF n, there
<1>5. ASSUME NEW i \in 1 .. n, NEW j \in 1 .. n, devices[i] = devices[j]
      PROVE  i = j
  <2>1. DOMAIN devices = 1 .. n /\ devices[i] \in there
    BY <1>1
  <2>2. ~(devices[i][2] < devices[j][2]) /\ ~(devices[j][2] < devices[i][2])
    BY <1>4, <1>5, <2>1
  <2>3. ~(i < j) /\ ~(j < i)
    BY <1>1, <2>1, <2>2
  <2> QED
    BY <1>3, <2>3
<1>6. devices \in Injection(1 .. n, there)
  <2>1. DOMAIN devices = 1 .. n
    BY <1>1
  <2> QED
    BY <1>1, <1>5, <2>1 DEF Injection, IsInjective
<1>7. IsFiniteSet(1 .. n) /\ Cardinality(1 .. n) = n
  BY <1>3, FS_Interval
<1>8. devices \in Surjection(1 .. n, there)
  BY <1>2, <1>6, <1>7, FS_Injection DEF n
<1>9. p \in there
  BY DEF there
<1> QED
  BY <1>1, <1>8, <1>9 DEF Surjection

(* GPU. *)
LEMMA GPUStep ==
    ASSUME TickTypeOK, HostInv, CollectInv, GPULook \/ GPUQuery \/ GPUApps
    PROVE  CollectInv'
<1>1. /\ kind = "gpu_mem" /\ pc \in {"gpu", "query", "apps"}
      /\ UNCHANGED <<host, stable, seen, faulted, kind, skipped>>
      /\ pc # "apps" => recs = <<>>
  BY StepKinds DEF GPULook, GPUQuery, GPUApps, hostVars, scrapeVars,
                   TickTypeOK, EarlySteps
<1>2. pc' \notin {"file", "node", "size", "vllm"}
  BY DEF GPULook, GPUQuery, GPUApps, Lose, Absent, Collected
<1>3. ReadInv' /\ NumaInv' /\ HugeInv' /\ VLLMInv' /\ ProcInv'
  BY <1>1, <1>2, NoLoop DEF ProcInv
<1>4. Due' \subseteq Due
  BY <1>1, DueShrinks
<1>5. CASE Lose /\ GPURoot \notin host
  <2>1. LossHasCause' /\ ReportInv'
    BY <1>1, <1>5 DEF Lose, LossHasCause, ReportInv, Ended, HostInv
  <2> QED
    BY <1>3, <1>5, <2>1, Nothing DEF CollectInv, Lose
<1>6. CASE Absent /\ GPURoot \notin host
  <2>1. Due' = {}
    BY <1>1, <1>4, <1>6, DevicesDue
  <2>2. LossHasCause' /\ ReportInv'
    BY <1>6, <2>1 DEF Absent, LossHasCause, ReportInv, Ended
  <2> QED
    BY <1>3, <1>6, <2>2, Nothing DEF CollectInv, Absent
<1>7. CASE pc = "gpu" /\ pc' = "query" /\ UNCHANGED <<recs, result>>
  <2>1. LossHasCause' /\ ReportInv'
    BY <1>7 DEF LossHasCause, ReportInv, Ended, Pending, EarlySteps
  <2> QED
    BY <1>1, <1>3, <1>7, <2>1, Nothing DEF CollectInv
<1>8. ASSUME pc' = "apps", NEW devices \in DeviceLists,
             recs' = [i \in 1 .. Len(devices) |->
                           Rec(devices[i], {devices[i]}, TRUE)]
      PROVE  CollectInv'
  <2>1. /\ DOMAIN devices = 1 .. Len(devices)
        /\ 1 .. Len(recs') = 1 .. Len(devices)
        /\ \A i \in 1 .. Len(devices) :
              /\ recs'[i].of = devices[i] /\ recs'[i].got = {devices[i]}
              /\ recs'[i].finite = TRUE
              /\ devices[i] \in host
    BY <1>8, DevicesRecorded
  <2>2. ASSUME NEW i \in 1 .. Len(recs'), NEW j \in 1 .. Len(recs'),
               recs'[i].of = recs'[j].of
        PROVE  i = j
    <3>1. devices[i] = devices[j] /\ devices[i] \in host /\ devices[j] \in host
      BY <2>1, <2>2
    <3>2. devices[i][2] \in Nat /\ devices[j][2] \in Nat
      BY <3>1, PathIs DEF HostInv
    <3>3. ~(i < j) /\ ~(j < i)
      <4>1. \A a, b \in DOMAIN devices : a < b => devices[a][2] < devices[b][2]
        BY DEF DeviceLists
      <4>2. devices[i][2] = devices[j][2]
        BY <3>1
      <4> QED
        BY <2>1, <3>2, <4>1, <4>2
    <3>4. i \in Int /\ j \in Int
      OBVIOUS
    <3> QED
      BY <3>3, <3>4
  <2>3. ValuesAttributed'
    <3>1. ASSUME NEW i \in 1 .. Len(recs')
          PROVE  recs'[i].got \subseteq {q \in seen' : Under(recs'[i].of, q)}
      <4>1. recs'[i].of = devices[i] /\ recs'[i].got = {devices[i]}
        BY <2>1
      <4>2. devices[i] \in seen'
        BY <1>1, <2>1 DEF HostInv
      <4>3. Under(devices[i], devices[i])
        BY DEF Under
      <4> QED
        BY <4>1, <4>2, <4>3
    <3> QED
      BY <1>1, <2>2, <3>1 DEF ValuesAttributed
  <2>4. FiniteInv' /\ LossHasCause'
    BY <1>8, <2>1 DEF FiniteInv, LossHasCause, Ended
  <2>5. ASSUME NEW p \in Due'
        PROVE  Pending(p)'
    <3>1. p \in host /\ p[1] = "gpu" /\ p[2] # 0 /\ p[3] = 0
      BY <1>1, <1>4, DevicesDue
    <3>2. PICK i \in DOMAIN devices : devices[i] = p
      BY <3>1, AllListed
    <3>3. i \in RecordsOf(p)'
      BY <2>1, <3>2 DEF RecordsOf
    <3> QED
      BY <1>8, <3>3 DEF Pending
  <2>6. ReportInv'
    BY <2>5 DEF ReportInv
  <2> QED
    BY <1>3, <2>3, <2>4, <2>6 DEF CollectInv
<1>9. ASSUME pc = "apps", pc' = "envelopes",
             recs' = [i \in 1 .. Len(recs) |->
                          [recs[i] EXCEPT !.got = @ \cup JoinByUUID(i)]]
      PROVE  CollectInv'
  <2>1. /\ 1 .. Len(recs') = 1 .. Len(recs)
        /\ \A i \in 1 .. Len(recs) :
              /\ recs'[i].of = recs[i].of
              /\ recs'[i].got = recs[i].got \cup Processes(recs[i].of)
              /\ recs'[i].finite = recs[i].finite
    BY <1>9, AppsRecorded DEF TickTypeOK
  <2>2. ValuesAttributed'
    <3>1. ASSUME NEW i \in 1 .. Len(recs)
          PROVE  recs'[i].got \subseteq {q \in seen' : Under(recs'[i].of, q)}
      <4>1. recs[i].got \subseteq {q \in seen : Under(recs[i].of, q)}
        BY DEF CollectInv, ValuesAttributed
      <4>2. Processes(recs[i].of) \subseteq {q \in seen : Under(recs[i].of, q)}
        BY DEF Processes, HostInv
      <4> QED
        BY <1>1, <2>1, <4>1, <4>2
    <3> QED
      BY <1>1, <2>1, <3>1 DEF CollectInv, ValuesAttributed
  <2>3. FiniteInv' /\ LossHasCause'
    BY <1>1, <1>9, <2>1 DEF CollectInv, FiniteInv, LossHasCause, Ended
  <2>4. ASSUME NEW p \in Due'
        PROVE  Reported(p)'
    <3>1. RecordsOf(p) # {}
      BY <1>4, <1>9 DEF CollectInv, ReportInv, Pending, Reported, EarlySteps
    <3>2. PICK i \in 1 .. Len(recs) : recs[i].of = p
      BY <3>1 DEF RecordsOf
    <3>3. FieldsOf(p) \cap host \subseteq Processes(p)
      BY <1>1, <1>4, DevicesDue
    <3>4. FieldsOf(p)' = FieldsOf(p) /\ stable' \subseteq host
      BY <1>1 DEF FieldsOf, HostInv
    <3>5. i \in RecordsOf(p)' /\ Processes(p) \subseteq recs'[i].got
      BY <2>1, <3>2 DEF RecordsOf
    <3> QED
      BY <3>3, <3>4, <3>5 DEF Reported
  <2>5. ReportInv'
    BY <2>4 DEF ReportInv
  <2> QED
    BY <1>3, <2>2, <2>3, <2>5 DEF CollectInv
<1> QED
  BY <1>5, <1>6, <1>7, <1>8, <1>9 DEF GPULook, GPUQuery, GPUApps, Collected

(* An endpoint that is due, and its metrics. *)
LEMMA EndpointsDue ==
    ASSUME kind = "vllm", NEW p \in Due
    PROVE  /\ p[2] \in Endpoints /\ p = Endpoint(p[2])
           /\ FieldsOf(p) \subseteq {Metric(p[2], m) : m \in Metrics}
<1>1. PICK e \in Endpoints : p = Endpoint(e)
  BY DEF Due
<1>2. p[1] = "vllm" /\ p[2] = e /\ p[3] = 0 /\ p[4] = ""
  BY <1>1 DEF Endpoint
<1>3. e # 0 /\ e \in Nat
  BY ScrapeAssumption
<1>4. ASSUME NEW q \in FieldsOf(p)
      PROVE  q \in {Metric(e, m) : m \in Metrics}
  <2>1. q \in Paths /\ Under(p, q) /\ q # p
    BY DEF FieldsOf
  <2>2. q[1] = "vllm" /\ q[2] = e /\ q[3] = 0 /\ q[4] \in Metrics \cup {""}
    BY <1>2, <1>3, <2>1, ScrapeAssumption DEF Under
  <2>3. q = <<"vllm", e, 0, q[4]>>
    BY <2>1, <2>2, PathIs
  <2>4. q[4] # ""
    BY <1>1, <2>1, <2>3 DEF Endpoint
  <2> QED
    BY <2>2, <2>3, <2>4 DEF Metric
<1> QED
  BY <1>1, <1>2, <1>4

(* VLLM. *)
LEMMA VLLMStep ==
    ASSUME TickTypeOK, HostInv, CollectInv, VLLMScrape, UNCHANGED srcs
    PROVE  CollectInv'
<1>1. /\ kind = "vllm" /\ pc = "vllm" /\ ~hung
      /\ UNCHANGED <<host, stable, seen, kind>>
  BY StepKinds DEF VLLMScrape, hostVars
<1>2. CASE left = {} /\ Collected(recs) /\ UNCHANGED <<faulted, skipped>>
  <2>1. UNCHANGED recs /\ pc' = "envelopes"
    BY <1>2 DEF Collected
  <2>2. ReadInv' /\ NumaInv' /\ HugeInv' /\ VLLMInv' /\ ProcInv'
    BY <1>1, <2>1, NoLoop DEF ProcInv
  <2>3. FiniteInv' /\ ValuesAttributed' /\ LossHasCause'
    BY <1>1, <1>2, <2>1
       DEF CollectInv, FiniteInv, ValuesAttributed, LossHasCause, Ended
  <2>4. ReportInv'
    <3>1. Due' \subseteq Due
      BY <1>1, <1>2, DueShrinks
    <3>2. \A p : ~Pending(p)
      BY <1>1, <1>2 DEF Pending, EarlySteps
    <3>3. \A p : Reported(p) => Reported(p)'
      BY <1>1, <2>1, ReportedKept
    <3> QED
      BY <1>1, <3>1, <3>2, <3>3 DEF CollectInv, ReportInv
  <2> QED
    BY <2>2, <2>3, <2>4 DEF CollectInv
<1>3. CASE /\ left # {} /\ left' = left \ {Min(left)}
           /\ buildRecord(Min(left))
           /\ UNCHANGED <<pc, result, skipped>>
  <2> DEFINE e == Min(left)
             n == Len(recs) + 1
  <2>1. PICK r \in Records : /\ recs' = Append(recs, r)
                             /\ r.of = Endpoint(e)
                             /\ r.got = {Metric(e, m) : m \in Metrics} \cap host
                             /\ (faulted' = faulted /\ r.finite) \/ faulted'
    BY <1>3, EndpointRecorded
  <2>2. /\ \A i \in 1 .. Len(recs) : recs'[i] = recs[i]
        /\ recs'[n] = r
        /\ 1 .. Len(recs') = (1 .. Len(recs)) \cup {n}
        /\ n \notin 1 .. Len(recs)
    <3>1. Len(recs) \in Nat
      BY <2>1, OneMore DEF TickTypeOK
    <3> QED
      BY <2>1, <3>1, OneMore DEF TickTypeOK
  <2>3. e \in left /\ e \in Nat
    BY <1>3, MinIn DEF TickTypeOK
  <2> HIDE DEF e, n
  <2>4. Endpoint(e)[2] = e
    BY DEF Endpoint
  <2>5. VLLMInv'
    <3>1. \A i \in 1 .. Len(recs) : recs[i].of[2] \notin left
      BY <1>1 DEF CollectInv, VLLMInv
    <3>2. left' \subseteq left /\ e \notin left'
      BY <1>3 DEF e
    <3>3. recs'[n].of[2] = e
      BY <2>1, <2>2, <2>4
    <3> QED
      BY <2>2, <3>1, <3>2, <3>3 DEF VLLMInv
  <2>6. \A i \in 1 .. Len(recs) : recs[i].of # r.of
    BY <1>1, <2>1, <2>3, <2>4 DEF CollectInv, VLLMInv
  <2>7. r.got \subseteq {q \in seen : Under(r.of, q)}
    <3>1. \A m \in Metrics : Under(Endpoint(e), Metric(e, m))
      BY DEF Under, Endpoint, Metric
    <3> QED
      BY <2>1, <3>1 DEF HostInv
  <2>8. ValuesAttributed'
    BY <1>1, <2>2, <2>6, <2>7 DEF CollectInv, ValuesAttributed
  <2>9. FiniteInv'
    BY <2>1, <2>2 DEF CollectInv, FiniteInv
  <2>10. ReadInv' /\ NumaInv' /\ HugeInv' /\ ProcInv' /\ LossHasCause'
    BY <1>1, <1>3
       DEF ReadInv, NumaInv, HugeInv, ProcInv, LossHasCause, Ended
  <2>11. ASSUME NEW p \in Due'
         PROVE  Pending(p)' \/ Reported(p)'
    <3>1. p \in Due
      BY <1>1, <1>3, DueShrinks
    <3>2. p = Endpoint(p[2])
          /\ FieldsOf(p) \subseteq {Metric(p[2], m) : m \in Metrics}
      BY <1>1, <3>1, EndpointsDue
    <3>3. CASE Reported(p)
      <4>1. \A i \in 1 .. Len(recs) : i \in 1 .. Len(recs') /\ recs'[i] = recs[i]
        BY <2>2
      <4> QED
        BY <1>1, <3>3, <4>1, ReportedKept
    <3>4. CASE p[2] \in left /\ p[2] # e
      BY <1>1, <1>3, <3>4 DEF Pending, e
    <3>5. CASE p[2] = e
      <4>1. n \in RecordsOf(p)'
        BY <2>1, <2>2, <3>2, <3>5 DEF RecordsOf
      <4>2. FieldsOf(p)' = FieldsOf(p) /\ stable' \subseteq host
        BY <1>1 DEF FieldsOf, HostInv
      <4>3. FieldsOf(p) \cap host \subseteq recs'[n].got
        BY <2>1, <2>2, <3>2, <3>5
      <4> QED
        BY <4>1, <4>2, <4>3 DEF Reported
    <3>6. Pending(p) => p[2] \in left
      BY <1>1 DEF Pending, EarlySteps
    <3> QED
      BY <1>1, <3>1, <3>3, <3>4, <3>5, <3>6 DEF CollectInv, ReportInv
  <2>12. ReportInv'
    BY <2>11 DEF ReportInv
  <2> QED
    BY <2>5, <2>8, <2>9, <2>10, <2>12 DEF CollectInv
<1>4. CASE /\ left # {} /\ left' = left \ {Min(left)}
           /\ SkipEndpoint(Min(left))
           /\ UNCHANGED <<faults, faulted, warnVars>>
  <2>1. Skips
    BY <1>1, <1>4 DEF VLLMScrape, Skips
  <2> QED
    BY <2>1, SkipStep
<1> QED
  BY <1>2, <1>3, <1>4 DEF VLLMScrape

(* sort.Slice keeps the records, and what holds of them. *)
LEMMA SortStep ==
    ASSUME TickTypeOK, CollectInv, CollectedSorted,
           kind \in {"numa_mem", "hugepages"}, \A p : ~Pending(p), pc # "idle",
           UNCHANGED <<host, stable, seen, faulted, kind, skipped>>
    PROVE  CollectInv'
<1>1. pc' = "envelopes" /\ result' = result
  BY SortedRecords DEF TickTypeOK
<1>2. PICK place \in Bijection(1 .. Len(recs), 1 .. Len(recs)) :
         /\ 1 .. Len(recs') = 1 .. Len(recs)
         /\ \A i \in 1 .. Len(recs) : recs'[i] = recs[place[i]]
  BY SortedRecords DEF TickTypeOK
<1>3. /\ \A i \in 1 .. Len(recs) : place[i] \in 1 .. Len(recs)
      /\ \A i, j \in 1 .. Len(recs) : place[i] = place[j] => i = j
      /\ \A j \in 1 .. Len(recs) : \E i \in 1 .. Len(recs) : place[i] = j
  BY DEF Bijection, Injection, Surjection, IsInjective
<1>4. ReadInv' /\ NumaInv' /\ HugeInv' /\ VLLMInv' /\ ProcInv'
  BY <1>1, NoLoop DEF ProcInv
<1>5. FiniteInv' /\ LossHasCause'
  BY <1>1, <1>2, <1>3 DEF CollectInv, FiniteInv, LossHasCause, Ended
<1>6. ValuesAttributed'
  <2> SUFFICES ASSUME NEW i \in 1 .. Len(recs), NEW j \in 1 .. Len(recs)
               PROVE  /\ recs'[i].got \subseteq
                            {p \in seen' : Under(recs'[i].of, p)}
                      /\ recs'[i].of = recs'[j].of => i = j
                      /\ kind' = "hugepages" /\ recs'[i].of[3] = recs'[j].of[3]
                            => recs'[i].of[1] = recs'[j].of[1]
    BY <1>2 DEF ValuesAttributed
  <2>1. /\ recs'[i] = recs[place[i]] /\ recs'[j] = recs[place[j]]
        /\ place[i] \in 1 .. Len(recs) /\ place[j] \in 1 .. Len(recs)
    BY <1>2, <1>3
  <2>2. /\ recs[place[i]].got \subseteq
              {p \in seen : Under(recs[place[i]].of, p)}
        /\ recs[place[i]].of = recs[place[j]].of => place[i] = place[j]
        /\ kind = "hugepages" /\ recs[place[i]].of[3] = recs[place[j]].of[3]
              => recs[place[i]].of[1] = recs[place[j]].of[1]
    BY <2>1 DEF CollectInv, ValuesAttributed
  <2> QED
    BY <1>3, <2>1, <2>2
<1>7. ReportInv'
  <2>1. Due' \subseteq Due
    BY DueShrinks
  <2>2. ASSUME NEW i \in 1 .. Len(recs)
        PROVE  \E j \in 1 .. Len(recs') : recs'[j] = recs[i]
    <3>1. PICK j \in 1 .. Len(recs) : place[j] = i
      BY <1>3
    <3>2. recs'[j] = recs[i] /\ j \in 1 .. Len(recs')
      BY <1>2, <3>1
    <3> QED
      BY <3>2
  <2>3. \A p : Reported(p) => Reported(p)'
    BY <2>2, ReportedKept
  <2> QED
    BY <2>1, <2>3 DEF CollectInv, ReportInv
<1> QED
  BY <1>4, <1>5, <1>6, <1>7 DEF CollectInv

(* The node directories that are due to Numa. *)
LEMMA NodesDue ==
    ASSUME HostInv, kind = "numa_mem", NEW p \in Due
    PROVE  /\ p \in host /\ p[1] = "node" /\ p = Node(p[2])
           /\ p[2] \in NodesThere /\ NodeRoot \in host
           /\ FieldsOf(p) \subseteq {File(p, f) : f \in FilesOf(kind)}
<1>1. p \in stable /\ p[1] = "node" /\ p = Node(p[2]) /\ p # NodeRoot
  BY DEF Due
<1>2. p \in host /\ p \in Paths /\ p \in PathSpace
  BY <1>1, PathIs DEF HostInv
<1>3. p[3] = 0 /\ p[4] = ""
  <2>1. \A n : Node(n)[3] = 0 /\ Node(n)[4] = ""
    BY DEF Node
  <2> QED
    BY <1>1, <2>1, Zenon
<1>4. p[2] # 0
  BY <1>1, <1>2, CollectAssumption
<1>5. NodeRoot \in host
  <2>1. ParentOf(p) \in host
    BY <1>2 DEF HostInv, Sound
  <2>2. ParentOf(p) = <<p[1], 0, 0, "">>
    BY <1>1, <1>3, Zenon DEF ParentOf
  <2> QED
    BY <1>1, <2>1, <2>2 DEF NodeRoot
<1>6. ASSUME NEW q \in FieldsOf(p)
      PROVE  q \in {File(p, f) : f \in FilesOf(kind)}
  <2>1. q \in Paths /\ Under(p, q) /\ q # p /\ q[3] = 0
    BY DEF FieldsOf
  <2>2. q[1] = "node" /\ q[2] = p[2] /\ q \in PathSpace
    BY <1>1, <1>4, <2>1, PathIs DEF Under
  <2>3. q[4] \in {"", "meminfo", "numastat"}
    BY <2>1, <2>2, CollectAssumption
  <2>4. q[4] # ""
    BY <1>1, <1>2, <1>3, <2>1, <2>2, SamePath
  <2>5. q = <<p[1], p[2], p[3], q[4]>>
    BY <1>1, <1>3, <2>1, <2>2, PathIs
  <2> QED
    BY <2>3, <2>4, <2>5 DEF File, FilesOf
<1>7. p[2] \in NodesThere
  BY <1>1, <1>2, <1>4 DEF NodesThere
<1> QED
  BY <1>1, <1>2, <1>5, <1>6, <1>7

(* The nodes that are listed were there with their files. *)
LEMMA ListedNodes ==
    ASSUME HostInv, NEW n \in NodesThere
    PROVE  NodeFiles(n) \subseteq seen
<1>1. PICK q \in host : q[1] = "node" /\ q[2] # 0 /\ q[2] = n
  BY DEF NodesThere
<1>2. NodeFiles(n) \subseteq host
  BY <1>1 DEF HostInv, Sound, NodeFiles
<1> QED
  BY <1>2 DEF HostInv

(* Numa's listing and loop. *)
LEMMA NumaStep ==
    ASSUME TickTypeOK, HostInv, CollectInv, Reading(NumaList \/ NumaNode)
    PROVE  CollectInv'
<1>1. /\ kind = "numa_mem" /\ pc \in {"numa", "node"}
      /\ UNCHANGED <<host, stable, seen, faulted, kind, skipped>>
      /\ pc = "numa" => recs = <<>>
  BY StepKinds DEF Reading, NumaList, NumaNode, hostVars, scrapeVars,
                   TickTypeOK, EarlySteps
<1>2. ProcInv' /\ HugeInv'
  BY <1>1 DEF ProcInv, HugeInv
<1>3. Due' \subseteq Due
  BY <1>1, DueShrinks
<1>4. CASE Absent /\ NodeRoot \notin host
  <2>1. Due' = {}
    BY <1>1, <1>3, <1>4, NodesDue
  <2>2. LossHasCause' /\ ReportInv'
    BY <1>4, <2>1 DEF Absent, LossHasCause, ReportInv, Ended
  <2>3. pc' \notin {"file", "node", "size", "vllm"} /\ recs' = <<>>
    BY <1>4 DEF Absent
  <2> QED
    BY <1>2, <2>2, <2>3, NoLoop, Nothing DEF CollectInv
<1>5. CASE /\ pc = "numa" /\ nodes' = NodesThere /\ pc' = "node"
           /\ UNCHANGED <<recs, result>>
  <2>1. 1 .. Len(recs') = {} /\ recs' = <<>>
    BY <1>1, <1>5
  <2>2. NumaInv' /\ ReadInv' /\ VLLMInv' /\ LossHasCause'
    BY <1>1, <1>5, <2>1, ListedNodes
       DEF NumaInv, ReadInv, VLLMInv, LossHasCause, Ended
  <2>3. ReportInv'
    BY <1>1, <1>3, <1>5, NodesDue DEF ReportInv, Pending
  <2> QED
    BY <1>2, <2>1, <2>2, <2>3, Nothing DEF CollectInv
<1>6. CASE pc = "node" /\ nodes = {} /\ CollectedSorted
  <2>1. \A p : ~Pending(p)
    BY <1>1, <1>6 DEF Pending, EarlySteps
  <2> QED
    BY <1>1, <1>6, <2>1, SortStep
<1>7. ASSUME pc = "node", NEW n \in nodes, nodes' = nodes \ {n},
             ReadDirOf(Node(n), {"meminfo", "numastat"}),
             UNCHANGED <<recs, result>>
      PROVE  CollectInv'
  <2>1. /\ pc' = "file" /\ dir' = Node(n) /\ files' = {"meminfo", "numastat"}
        /\ got' = {}
    BY <1>7 DEF ReadDirOf
  <2>2. Node(n)[2] = n /\ Node(n)[4] = ""
    BY DEF Node
  <2>3. \A i \in 1 .. Len(recs) : recs[i].of[2] \notin nodes
    BY <1>1, <1>7 DEF CollectInv, NumaInv
  <2>4. ReadInv'
    BY <1>1, <1>7, <2>1, <2>2, <2>3 DEF ReadInv, FilesOf
  <2>5. NumaInv'
    BY <1>1, <1>7, <2>1, <2>2, <2>3 DEF CollectInv, NumaInv
  <2>6. VLLMInv' /\ LossHasCause' /\ FiniteInv' /\ ValuesAttributed'
    BY <1>1, <1>7, <2>1 DEF CollectInv, VLLMInv, LossHasCause, Ended,
                            FiniteInv, ValuesAttributed
  <2>7. ASSUME NEW p \in Due'
        PROVE  Pending(p)' \/ Reported(p)'
    <3>1. p \in Due /\ p = Node(p[2])
      BY <1>1, <1>3, NodesDue
    <3>2. Pending(p) => p[2] \in nodes
      BY <1>1, <1>7 DEF Pending, EarlySteps
    <3>3. p[2] \in nodes => Pending(p)'
      BY <1>1, <1>7, <2>1, <3>1 DEF Pending
    <3>4. Reported(p) => Reported(p)'
      BY <1>1, <1>7, ReportedKept
    <3> QED
      BY <1>7, <3>1, <3>2, <3>3, <3>4 DEF CollectInv, ReportInv
  <2>8. ReportInv'
    BY <2>7 DEF ReportInv
  <2> QED
    BY <1>2, <2>4, <2>5, <2>6, <2>8 DEF CollectInv
<1> QED
  BY <1>4, <1>5, <1>6, <1>7 DEF Reading, NumaList, NumaNode

(* The page directories that are due to Hugepages. *)
LEMMA PagesDue ==
    ASSUME HostInv, kind = "hugepages", NEW p \in Due
    PROVE  /\ p \in host /\ p[1] \in {"node", "huge"} /\ p[3] # 0
           /\ HostPages(p[3]) \in host /\ HugeRoot \in host
           /\ p[1] = "node" => /\ p = NodePages(p[2], p[3])
                               /\ p[2] \in NodesThere
           /\ p[1] = "huge" => /\ p = HostPages(p[3])
                               /\ \A q \in seen : q[1] = "node" => q[3] # p[3]
           /\ FieldsOf(p) \subseteq {File(p, f) : f \in FilesOf(kind)}
<1>1. /\ p \in stable /\ p[1] \in {"node", "huge"} /\ p[3] # 0 /\ p[4] = ""
      /\ HostPages(p[3]) \in stable
      /\ p[1] = "huge" => \A q \in seen : q[1] = "node" => q[3] # p[3]
  BY DEF Due
<1>2. /\ p \in host /\ p \in Paths /\ p \in PathSpace
      /\ p = <<p[1], p[2], p[3], p[4]>>
  BY <1>1, PathIs DEF HostInv
<1>3. p[1] = "node" => p[2] # 0
  <2>1. NodeRoot[3] = 0
    BY DEF NodeRoot
  <2> QED
    BY <1>1, <1>2, <2>1, CollectAssumption
<1>4. p[1] = "huge" => p[2] = 0
  BY <1>2, CollectAssumption
<1>5. HostPages(p[3]) \in host /\ HugeRoot \in host
  <2> DEFINE d == HostPages(p[3])
  <2>1. d \in host
    BY <1>1 DEF HostInv
  <2>2. ParentOf(d) \in host
    BY <2>1 DEF HostInv, Sound
  <2>3. d[1] = "huge" /\ d[3] = p[3] /\ d[4] = ""
    BY DEF HostPages
  <2> HIDE DEF d
  <2>4. ParentOf(d) = <<d[1], d[2], 0, "">>
    BY <1>1, <2>3, Zenon DEF ParentOf
  <2>5. d \in Paths
    BY <2>1 DEF HostInv
  <2>6. d[2] = 0
    BY <2>3, <2>5, CollectAssumption
  <2> QED
    BY <2>1, <2>2, <2>3, <2>4, <2>6 DEF d, HugeRoot
<1>6. ASSUME NEW q \in FieldsOf(p)
      PROVE  q \in {File(p, f) : f \in FilesOf(kind)}
  <2>1. q \in Paths /\ Under(p, q) /\ q # p
    BY DEF FieldsOf
  <2>2. q[1] = p[1] /\ q[3] = p[3] /\ q \in PathSpace
    BY <1>1, <2>1, PathIs DEF Under
  <2>3. q[2] = p[2]
    BY <1>1, <1>3, <1>4, <2>1, <2>2, CollectAssumption DEF Under
  <2>4. q[4] \in {"", "nr", "resv"}
    BY <1>1, <2>1, <2>2, CollectAssumption
  <2>5. q[4] # ""
    BY <1>1, <1>2, <2>1, <2>2, <2>3, SamePath
  <2>6. q = <<p[1], p[2], p[3], q[4]>>
    BY <2>1, <2>2, <2>3, PathIs
  <2> QED
    BY <2>4, <2>5, <2>6 DEF File, FilesOf
<1>7. p[1] = "node" => p = NodePages(p[2], p[3]) /\ p[2] \in NodesThere
  BY <1>1, <1>2, <1>3 DEF NodePages, NodesThere
<1>8. p[1] = "huge" => p = HostPages(p[3])
  BY <1>1, <1>2, <1>4 DEF HostPages
<1> QED
  BY <1>1, <1>2, <1>5, <1>6, <1>7, <1>8

(* Hugepages' listings. *)
LEMMA HugeListStep ==
    ASSUME TickTypeOK, HostInv, CollectInv, Reading(HugeSizes \/ HugeNodes)
    PROVE  CollectInv'
<1>1. /\ kind = "hugepages" /\ pc \in {"sizes", "nodes"}
      /\ UNCHANGED <<host, stable, seen, faulted, kind, skipped>>
      /\ recs = <<>>
  BY StepKinds DEF Reading, HugeSizes, HugeNodes, hostVars, scrapeVars,
                   TickTypeOK, EarlySteps
<1>2. ProcInv' /\ NumaInv'
  BY <1>1 DEF ProcInv, NumaInv
<1>3. Due' \subseteq Due
  BY <1>1, DueShrinks
<1>4. CASE Absent /\ HugeRoot \notin host
  <2>1. Due' = {}
    BY <1>1, <1>3, <1>4, PagesDue
  <2>2. LossHasCause' /\ ReportInv'
    BY <1>4, <2>1 DEF Absent, LossHasCause, ReportInv, Ended
  <2>3. pc' \notin {"file", "node", "size", "vllm"} /\ recs' = <<>>
    BY <1>4 DEF Absent
  <2> QED
    BY <1>2, <2>2, <2>3, NoLoop, Nothing DEF CollectInv
<1>5. CASE /\ pc' = "nodes" /\ UNCHANGED <<recs, result>>
           /\ sizes' = {p[3] : p \in {q \in host : q[1] = "huge"}} \ {0}
  <2>1. ASSUME NEW p \in Due'
        PROVE  p[3] \in sizes'
    <3>1. p[3] # 0 /\ HostPages(p[3]) \in host
      BY <1>1, <1>3, PagesDue
    <3>2. HostPages(p[3])[1] = "huge" /\ HostPages(p[3])[3] = p[3]
      BY DEF HostPages
    <3> QED
      BY <1>5, <3>1, <3>2
  <2>2. LossHasCause' /\ ReportInv'
    BY <1>5, <2>1 DEF LossHasCause, ReportInv, Ended, Pending
  <2> QED
    BY <1>1, <1>2, <1>5, <2>2, NoLoop, Nothing DEF CollectInv
<1>6. CASE /\ pc = "nodes" /\ pc' = "size" /\ UNCHANGED <<sizes, recs, result>>
           /\ nodes' = NodesThere /\ left' = NodesThere
  <2>1. 1 .. Len(recs') = {} /\ recs' = <<>>
    BY <1>1, <1>6
  <2>2. ReadInv' /\ HugeInv' /\ VLLMInv' /\ LossHasCause'
    BY <1>6, <2>1 DEF ReadInv, HugeInv, VLLMInv, LossHasCause, Ended
  <2>3. ASSUME NEW p \in Due'
        PROVE  Pending(p)'
    <3>1. /\ p \in Due /\ p[1] \in {"node", "huge"}
          /\ p[1] = "node" => p[2] \in NodesThere
      BY <1>1, <1>3, PagesDue
    <3>2. p[3] \in sizes
      <4>1. ~Reported(p)
        BY <1>1 DEF Reported, RecordsOf
      <4> QED
        BY <1>1, <1>6, <3>1, <4>1 DEF CollectInv, ReportInv, Pending, EarlySteps
    <3>3. RecordsOf(p)' = {}
      BY <2>1 DEF RecordsOf
    <3> QED
      BY <1>1, <1>6, <3>1, <3>2, <3>3 DEF Pending
  <2>4. ReportInv'
    BY <2>3 DEF ReportInv
  <2> QED
    BY <1>2, <2>1, <2>2, <2>4, Nothing DEF CollectInv
<1> QED
  BY <1>4, <1>5, <1>6 DEF Reading, HugeSizes, HugeNodes

(* The next step of the two loops, when records stay as they are. *)
LEMMA HugeStatStep ==
    ASSUME TickTypeOK, HostInv, CollectInv, Reading(HugeStat)
    PROVE  CollectInv'
<1> DEFINE s == Min(sizes)
           m == Min(left)
<1>1. /\ kind = "hugepages" /\ pc = "size"
      /\ UNCHANGED <<host, stable, seen, faulted, kind, skipped, nodes>>
  BY StepKinds DEF Reading, HugeStat, hostVars, scrapeVars
<1>2. /\ sizes # {} => s \in sizes
      /\ left # {} => m \in left
  BY MinIn DEF TickTypeOK
<1>3. \A i \in 1 .. Len(recs) :
         /\ recs[i].of[3] \in sizes =>
               /\ recs[i].of[3] = s
               /\ \/ recs[i].of[1] = "node" /\ recs[i].of[2] \notin left
                  \/ recs[i].of[1] = "huge" /\ left = {}
         /\ \/ recs[i].of[1] = "node" /\ recs[i].of \in seen
            \/ recs[i].of = HostPages(recs[i].of[3])
  BY <1>1 DEF CollectInv, HugeInv
<1>4. ASSUME NEW p \in Due
      PROVE  \/ Reported(p)
             \/ /\ p[3] \in sizes
                /\ \/ /\ p[1] = "node" /\ p[2] \in nodes
                      /\ p[3] = s => p[2] \in left
                   \/ p[1] = "huge" /\ RecordsOf(p) = {}
  BY <1>1 DEF CollectInv, ReportInv, Pending, EarlySteps
<1> HIDE DEF s, m
<1>5. Due' \subseteq Due
  BY <1>1, DueShrinks
<1>6. CASE sizes = {} /\ CollectedSorted
  <2>1. \A p : ~Pending(p)
    BY <1>1, <1>6 DEF Pending, EarlySteps
  <2> QED
    BY <1>1, <1>6, <2>1, SortStep
<1>7. ASSUME UNCHANGED <<recs, result>>, pc' \in {"size", "file"},
             ReadInv', HugeInv',
             \A p \in Due' : ~Reported(p) => Pending(p)'
      PROVE  CollectInv'
  <2>1. ProcInv' /\ NumaInv' /\ VLLMInv' /\ LossHasCause'
    BY <1>1, <1>7 DEF ProcInv, NumaInv, VLLMInv, LossHasCause, Ended
  <2>2. FiniteInv' /\ ValuesAttributed'
    BY <1>1, <1>7 DEF CollectInv, FiniteInv, ValuesAttributed
  <2>3. \A p : Reported(p) => Reported(p)'
    BY <1>1, <1>7, ReportedKept
  <2>4. ReportInv'
    BY <1>7, <2>3 DEF ReportInv
  <2> QED
    BY <1>7, <2>1, <2>2, <2>4 DEF CollectInv
<1>8. \A p : UNCHANGED recs => RecordsOf(p)' = RecordsOf(p)
  BY DEF RecordsOf
<1>9. CASE /\ sizes # {} /\ left # {} /\ left' = left \ {m}
           /\ NodePages(m, s) \in host /\ ReadDirOf(NodePages(m, s), {"nr", "resv"})
           /\ UNCHANGED <<sizes, recs, result>>
  <2> DEFINE d == NodePages(m, s)
  <2>1. d[1] = "node" /\ d[2] = m /\ d[3] = s /\ d[4] = ""
    BY DEF NodePages
  <2>2. /\ pc' = "file" /\ dir' = d /\ files' = {"nr", "resv"} /\ got' = {}
        /\ d \in seen'
    BY <1>1, <1>9 DEF ReadDirOf, HostInv
  <2> HIDE DEF d
  <2>3. \A i \in 1 .. Len(recs) : recs[i].of # d
    BY <1>2, <1>3, <1>9, <2>1
  <2>4. ReadInv'
    BY <1>1, <1>9, <2>1, <2>2, <2>3 DEF ReadInv, FilesOf
  <2>5. HugeInv'
    <3>1. s = Min(sizes')
      BY <1>9 DEF s
    <3>2. m \notin left' /\ left' \subseteq left
      BY <1>9
    <3>3. \A i \in 1 .. Len(recs) : recs[i].of[3] = s => recs[i].of[1] = "node"
      BY <1>2, <1>3, <1>9
    <3>4. \A i \in 1 .. Len(recs') :
             /\ recs'[i].of[3] \in sizes' =>
                   /\ recs'[i].of[3] = Min(sizes')
                   /\ recs'[i].of[1] = "node" /\ recs'[i].of[2] \notin left'
             /\ \/ recs'[i].of[1] = "node" /\ recs'[i].of \in seen'
                \/ recs'[i].of = HostPages(recs'[i].of[3])
      BY <1>1, <1>3, <1>9, <3>1, <3>2
    <3> QED
      BY <1>9, <2>1, <2>2, <3>1, <3>2, <3>3, <3>4 DEF HugeInv
  <2>6. ASSUME NEW p \in Due', ~Reported(p)
        PROVE  Pending(p)'
    <3>1. p \in Due /\ (p[1] = "node" => p = NodePages(p[2], p[3]))
      BY <1>1, <1>5, PagesDue
    <3>2. CASE p[1] = "node" /\ p[2] = m /\ p[3] = s
      BY <2>2, <3>1, <3>2 DEF Pending, d
    <3>3. CASE ~(p[1] = "node" /\ p[2] = m /\ p[3] = s)
      BY <1>1, <1>4, <1>8, <1>9, <2>2, <2>6, <3>1, <3>3 DEF Pending, s
    <3> QED
      BY <3>2, <3>3
  <2> QED
    BY <1>7, <1>9, <2>2, <2>4, <2>5, <2>6
<1>10. CASE /\ sizes # {} /\ left # {} /\ left' = left \ {m}
            /\ NodePages(m, s) \notin host
            /\ UNCHANGED <<pc, sizes, dir, files, got, recs, result>>
  <2>1. ReadInv'
    BY <1>1, <1>10 DEF ReadInv
  <2>2. HugeInv'
    <3>1. s = Min(sizes')
      BY <1>10 DEF s
    <3>2. left' \subseteq left
      BY <1>10
    <3>3. \A i \in 1 .. Len(recs') :
             /\ recs'[i].of[3] \in sizes' =>
                   /\ recs'[i].of[3] = Min(sizes')
                   /\ recs'[i].of[1] = "node" /\ recs'[i].of[2] \notin left'
             /\ \/ recs'[i].of[1] = "node" /\ recs'[i].of \in seen'
                \/ recs'[i].of = HostPages(recs'[i].of[3])
      BY <1>1, <1>3, <1>10, <3>1, <3>2
    <3> QED
      BY <1>1, <1>10, <3>3 DEF HugeInv
  <2>3. ASSUME NEW p \in Due', ~Reported(p)
        PROVE  Pending(p)'
    <3>1. /\ p \in Due /\ p \in host
          /\ p[1] = "node" => p = NodePages(p[2], p[3])
      BY <1>1, <1>5, PagesDue
    <3>2. ~(p[1] = "node" /\ p[2] = m /\ p[3] = s)
      BY <1>10, <3>1
    <3> QED
      BY <1>1, <1>4, <1>8, <1>10, <2>3, <3>1, <3>2 DEF Pending, s
  <2> QED
    BY <1>1, <1>7, <1>10, <2>1, <2>2, <2>3
<1>11. CASE /\ sizes # {} /\ left = {} /\ Recorded(s)
            /\ sizes' = sizes \ {s} /\ left' = nodes
            /\ UNCHANGED <<pc, dir, files, got, recs, result>>
  <2>1. ReadInv'
    BY <1>1, <1>11 DEF ReadInv
  <2>2. HugeInv'
    <3>1. \A i \in 1 .. Len(recs') :
             /\ recs'[i].of[3] \notin sizes'
             /\ \/ recs'[i].of[1] = "node" /\ recs'[i].of \in seen'
                \/ recs'[i].of = HostPages(recs'[i].of[3])
      BY <1>1, <1>3, <1>11
    <3> QED
      BY <1>1, <1>11, <3>1 DEF HugeInv
  <2>3. ASSUME NEW p \in Due', ~Reported(p)
        PROVE  Pending(p)'
    <3>1. /\ p \in Due
          /\ p[1] = "huge" => /\ p = HostPages(p[3])
                              /\ \A q \in seen : q[1] = "node" => q[3] # p[3]
      BY <1>1, <1>5, PagesDue
    <3>2. p[1] = "huge" /\ RecordsOf(p) = {} => p[3] # s
      <4>1. PICK i \in 1 .. Len(recs) : recs[i].of[3] = s
        BY <1>11 DEF Recorded
      <4> QED
        BY <1>3, <3>1, <4>1 DEF RecordsOf
    <3> QED
      BY <1>1, <1>4, <1>8, <1>11, <2>3, <3>1, <3>2 DEF Pending
  <2> QED
    BY <1>1, <1>7, <1>11, <2>1, <2>2, <2>3
<1>12. CASE /\ sizes # {} /\ left = {} /\ ~Recorded(s)
            /\ ReadDirOf(HostPages(s), {"nr", "resv"})
            /\ UNCHANGED <<sizes, left, recs, result>>
  <2> DEFINE d == HostPages(s)
  <2>1. d[3] = s /\ d[4] = ""
    BY DEF HostPages
  <2>2. pc' = "file" /\ dir' = d /\ files' = {"nr", "resv"} /\ got' = {}
    BY <1>12 DEF ReadDirOf
  <2>3. \A i \in 1 .. Len(recs) : recs[i].of[3] # s
    BY <1>12 DEF Recorded
  <2>4. d = HostPages(d[3])
    BY <2>1
  <2> HIDE DEF d
  <2>5. ReadInv'
    BY <1>1, <1>12, <2>1, <2>2, <2>3 DEF ReadInv, FilesOf
  <2>6. HugeInv'
    <3>1. s = Min(sizes')
      BY <1>12 DEF s
    <3>2. \A i \in 1 .. Len(recs') :
             /\ recs'[i].of[3] \notin sizes'
             /\ \/ recs'[i].of[1] = "node" /\ recs'[i].of \in seen'
                \/ recs'[i].of = HostPages(recs'[i].of[3])
      BY <1>1, <1>3, <1>12, <2>3
    <3>3. ~Recorded(dir[3])'
      BY <1>12, <2>1, <2>2, <2>3 DEF Recorded
    <3> QED
      BY <1>12, <2>1, <2>2, <2>4, <3>1, <3>2, <3>3 DEF HugeInv
  <2>7. ASSUME NEW p \in Due', ~Reported(p)
        PROVE  Pending(p)'
    BY <1>1, <1>4, <1>5, <1>8, <1>12, <2>2, <2>7 DEF Pending, s
  <2> QED
    BY <1>7, <1>12, <2>2, <2>5, <2>6, <2>7
<1> QED
  BY <1>6, <1>9, <1>10, <1>11, <1>12 DEF Reading, HugeStat, s, m

(* A file of a directory is read. *)
LEMMA ReadStep ==
    ASSUME TickTypeOK, HostInv, CollectInv, Reading(ReadFile)
    PROVE  CollectInv'
<1>1. /\ kind \in {"numa_mem", "hugepages"} /\ pc = "file"
      /\ UNCHANGED <<host, stable, seen, faulted, kind, sizes, nodes, left,
                     dir, skipped>>
  BY StepKinds DEF Reading, ReadFile, hostVars, scrapeVars
<1>2. /\ dir[4] = "" /\ files \subseteq FilesOf(kind)
      /\ got \subseteq {p \in seen : Under(dir, p)}
      /\ \A f \in FilesOf(kind) \ files :
            File(dir, f) \in stable => File(dir, f) \in got
      /\ \A i \in 1 .. Len(recs) : recs[i].of # dir
  BY <1>1 DEF CollectInv, ReadInv
<1>3. PICK f \in files :
         \/ kind = "numa_mem" /\ File(dir, f) \notin host /\ Lose
         \/ /\ files' = files \ {f}
            /\ got' = got \cup ({File(dir, f)} \cap host)
            /\ IF files' # {} THEN UNCHANGED <<pc, recs>>
               ELSE /\ recs' = Append(recs, Rec(dir, got', TRUE))
                    /\ pc' = IF kind = "numa_mem" THEN "node" ELSE "size"
            /\ UNCHANGED result
  BY DEF Reading, ReadFile
<1>4. ProcInv' /\ VLLMInv'
  BY <1>1, <1>3 DEF ProcInv, VLLMInv, Lose
<1>5. Due' \subseteq Due
  BY <1>1, DueShrinks
<1>6. CASE kind = "numa_mem" /\ File(dir, f) \notin host /\ Lose
  <2>1. dir = Node(dir[2]) /\ NodeFiles(dir[2]) \subseteq seen
    BY <1>1, <1>6 DEF CollectInv, NumaInv
  <2>2. f \in {"meminfo", "numastat"}
    BY <1>2, <1>6 DEF FilesOf
  <2>3. File(dir, f) \in NodeFiles(dir[2])
    BY <2>1, <2>2, Zenon DEF NodeFiles
  <2>4. File(dir, f) \in seen \ stable /\ File(dir, f)[1] = "node"
    BY <1>6, <2>1, <2>3, NodeFileIs DEF HostInv
  <2>5. LossHasCause'
    BY <1>1, <1>6, <2>4 DEF LossHasCause
  <2>6. ReportInv'
    BY <1>6 DEF ReportInv, Lose
  <2>7. pc' \notin {"file", "node", "size", "vllm"} /\ recs' = <<>>
    BY <1>6 DEF Lose
  <2> QED
    BY <1>4, <2>5, <2>6, <2>7, NoLoop, Nothing DEF CollectInv
<1>7. ASSUME files' = files \ {f}, got' = got \cup ({File(dir, f)} \cap host)
      PROVE  /\ got' \subseteq {p \in seen : Under(dir, p)}
             /\ \A g \in FilesOf(kind) \ files' :
                   File(dir, g) \in stable => File(dir, g) \in got'
  <2>1. f \in FilesOf(kind) /\ FilesOf(kind) \subseteq Words
    BY <1>2 DEF FilesOf, Words
  <2>2. Under(dir, File(dir, f))
    BY <1>2, <2>1, FileIs DEF TickTypeOK
  <2>3. host \subseteq seen /\ stable \subseteq host
    BY DEF HostInv
  <2> QED
    BY <1>2, <1>7, <2>2, <2>3
<1>8. CASE /\ files' = files \ {f} /\ got' = got \cup ({File(dir, f)} \cap host)
           /\ UNCHANGED <<pc, recs, result>>
  <2>1. ReadInv'
    BY <1>1, <1>2, <1>7, <1>8 DEF ReadInv
  <2>2. NumaInv' /\ HugeInv'
    BY <1>1, <1>8 DEF CollectInv, NumaInv, HugeInv, Recorded
  <2>3. FiniteInv' /\ ValuesAttributed' /\ LossHasCause'
    BY <1>1, <1>8
       DEF CollectInv, FiniteInv, ValuesAttributed, LossHasCause, Ended
  <2>4. ReportInv'
    <3>1. \A p : Pending(p)' = Pending(p)
      BY <1>1, <1>8 DEF Pending, RecordsOf
    <3>2. \A p : Reported(p) => Reported(p)'
      BY <1>1, <1>8, ReportedKept
    <3> QED
      BY <1>1, <1>5, <3>1, <3>2 DEF CollectInv, ReportInv
  <2> QED
    BY <1>4, <2>1, <2>2, <2>3, <2>4 DEF CollectInv
<1>9. CASE /\ files' = files \ {f} /\ got' = got \cup ({File(dir, f)} \cap host)
           /\ files' = {}
           /\ recs' = Append(recs, Rec(dir, got', TRUE))
           /\ pc' = IF kind = "numa_mem" THEN "node" ELSE "size"
           /\ UNCHANGED result
  <2> DEFINE n == Len(recs) + 1
             r == Rec(dir, got', TRUE)
  <2>1. /\ got' \subseteq {p \in seen : Under(dir, p)}
        /\ \A g \in FilesOf(kind) : File(dir, g) \in stable => File(dir, g) \in got'
    BY <1>7, <1>9
  <2>2. r \in Records /\ r.of = dir /\ r.got = got' /\ r.finite = TRUE
    <3>1. got' \in SUBSET PathSpace
      BY <2>1, PathIs DEF HostInv
    <3> QED
      BY <3>1, RecIs DEF TickTypeOK
  <2>3. recs' = Append(recs, r)
    BY <1>9
  <2> HIDE DEF r
  <2>4. /\ \A i \in 1 .. Len(recs) : recs'[i] = recs[i]
        /\ recs'[n] = r
        /\ 1 .. Len(recs') = (1 .. Len(recs)) \cup {n}
        /\ n \notin 1 .. Len(recs)
    <3>1. Len(recs) \in Nat
      BY <2>2, <2>3, OneMore DEF TickTypeOK
    <3> QED
      BY <2>2, <2>3, <3>1, OneMore DEF TickTypeOK
  <2> HIDE DEF n
  <2>5. recs'[n].of = dir /\ recs'[n].got = got' /\ recs'[n].finite = TRUE
    BY <2>2, <2>4
  <2>6. ReadInv' /\ LossHasCause' /\ FiniteInv'
    BY <1>1, <1>9, <2>4, <2>5
       DEF CollectInv, ReadInv, LossHasCause, Ended, FiniteInv
  <2>7. NumaInv'
    <3>1. CASE kind = "numa_mem"
      <4>1. /\ \A i \in 1 .. Len(recs) : recs[i].of[2] \notin nodes
            /\ dir[2] \notin nodes
            /\ \A k \in nodes : NodeFiles(k) \subseteq seen
        BY <1>1, <3>1 DEF CollectInv, NumaInv
      <4> QED
        BY <1>1, <1>9, <2>4, <2>5, <3>1, <4>1 DEF NumaInv
    <3> QED
      BY <1>1, <3>1 DEF NumaInv
  <2>8. /\ kind = "hugepages" => HugeInv'
        /\ kind = "hugepages" => \A i \in 1 .. Len(recs) :
                 recs[i].of[3] = dir[3] => recs[i].of[1] = dir[1]
    <3>1. SUFFICES ASSUME kind = "hugepages"
                   PROVE  /\ HugeInv'
                          /\ \A i \in 1 .. Len(recs) :
                                recs[i].of[3] = dir[3] => recs[i].of[1] = dir[1]
      OBVIOUS
    <3>2. \A i \in 1 .. Len(recs) :
             LET d == recs[i].of
             IN  /\ d[3] \in sizes =>
                       /\ d[3] = Min(sizes)
                       /\ \/ d[1] = "node" /\ d[2] \notin left
                          \/ d[1] = "huge" /\ left = {}
                 /\ (d[1] = "node" /\ d \in seen) \/ d = HostPages(d[3])
      BY <1>1, <3>1 DEF CollectInv, HugeInv
    <3>3. /\ sizes # {} /\ dir[3] = Min(sizes)
          /\ \/ /\ dir[1] = "node" /\ dir[2] \notin left /\ dir \in seen
                /\ \A i \in 1 .. Len(recs) :
                      recs[i].of[3] = dir[3] => recs[i].of[1] = "node"
             \/ /\ dir = HostPages(dir[3]) /\ left = {}
                /\ ~Recorded(dir[3])
      BY <1>1, <3>1 DEF CollectInv, HugeInv
    <3>4. dir = HostPages(dir[3]) => dir[1] = "huge"
      <4>1. HostPages(dir[3])[1] = "huge"
        BY DEF HostPages
      <4> QED
        BY <4>1, Zenon
    <3>5. \A i \in 1 .. Len(recs) :
             recs[i].of[3] = dir[3] => recs[i].of[1] = dir[1]
      BY <3>3 DEF Recorded
    <3>6. \A i \in 1 .. Len(recs') :
             LET d == recs'[i].of
             IN  /\ d[3] \in sizes =>
                       /\ d[3] = Min(sizes)
                       /\ \/ d[1] = "node" /\ d[2] \notin left
                          \/ d[1] = "huge" /\ left = {}
                 /\ (d[1] = "node" /\ d \in seen) \/ d = HostPages(d[3])
      BY <2>4, <2>5, <3>2, <3>3, <3>4
    <3>7. pc' = "size"
      BY <1>9, <3>1
    <3> QED
      BY <1>1, <3>5, <3>6, <3>7 DEF HugeInv
  <2>9. HugeInv'
    BY <1>1, <2>8 DEF HugeInv
  <2>10. ValuesAttributed'
    <3>1. \A i \in 1 .. Len(recs') :
             recs'[i].got \subseteq {p \in seen' : Under(recs'[i].of, p)}
      BY <1>1, <2>1, <2>4, <2>5 DEF CollectInv, ValuesAttributed
    <3>2. \A i, j \in 1 .. Len(recs') : recs'[i].of = recs'[j].of => i = j
      <4>1. \A i, j \in 1 .. Len(recs) : recs[i].of = recs[j].of => i = j
        BY DEF CollectInv, ValuesAttributed
      <4> QED
        BY <1>2, <2>4, <2>5, <4>1
    <3>3. \A i, j \in 1 .. Len(recs') :
             kind' = "hugepages" /\ recs'[i].of[3] = recs'[j].of[3]
                => recs'[i].of[1] = recs'[j].of[1]
      <4>1. kind = "hugepages" => \A i, j \in 1 .. Len(recs) :
               recs[i].of[3] = recs[j].of[3] => recs[i].of[1] = recs[j].of[1]
        BY DEF CollectInv, ValuesAttributed
      <4> QED
        BY <1>1, <2>4, <2>5, <2>8, <4>1
    <3> QED
      BY <3>1, <3>2, <3>3 DEF ValuesAttributed
  <2>11. ASSUME NEW p \in Due'
         PROVE  Pending(p)' \/ Reported(p)'
    <3>1. p \in Due /\ FieldsOf(p) \subseteq {File(p, g) : g \in FilesOf(kind)}
      BY <1>1, <1>5, NodesDue, PagesDue
    <3>2. CASE Reported(p)
      <4>1. \A i \in 1 .. Len(recs) : i \in 1 .. Len(recs') /\ recs'[i] = recs[i]
        BY <2>4
      <4> QED
        BY <1>1, <3>2, <4>1, ReportedKept
    <3>3. CASE dir = p
      <4>1. n \in RecordsOf(p)'
        BY <2>4, <2>5, <3>3 DEF RecordsOf
      <4>2. FieldsOf(p)' = FieldsOf(p)
        BY <1>1 DEF FieldsOf
      <4>3. FieldsOf(p) \cap stable \subseteq got'
        BY <2>1, <3>1, <3>3
      <4> QED
        BY <1>1, <2>5, <4>1, <4>2, <4>3 DEF Reported
    <3>4. CASE dir # p /\ Pending(p)
      <4>1. RecordsOf(p)' = RecordsOf(p)
        BY <2>4, <2>5, <3>4 DEF RecordsOf
      <4>2. pc' \in {"node", "size"} /\ (pc' = "node" <=> kind = "numa_mem")
        BY <1>1, <1>9
      <4> QED
        BY <1>1, <3>4, <4>1, <4>2 DEF Pending, EarlySteps
    <3> QED
      BY <1>1, <3>1, <3>2, <3>3, <3>4 DEF CollectInv, ReportInv
  <2>12. ReportInv'
    BY <2>11 DEF ReportInv
  <2> QED
    BY <1>4, <2>6, <2>7, <2>9, <2>10, <2>12 DEF CollectInv
<1> QED
  BY <1>3, <1>6, <1>8, <1>9

(***************************************************************************)
(* The inductive invariant of the ticks.                                   *)
(***************************************************************************)
TickInv == TickTypeOK /\ HostInv /\ CollectInv

(* Every step of the sources keeps it. *)
LEMMA TickStepKept ==
    ASSUME TickInv, [Next]_vars
    PROVE  TickInv'
<1> USE DEF TickInv
<1>1. TickTypeOK'
  BY TypeStep DEF CollectInv
<1>2. HostInv'
  BY HostStep
<1>3. CASE \E k \in srcs : BeginTick(k)
  <2>1. srcs \subseteq Kinds
    BY DEF TickTypeOK
  <2> QED
    BY <1>1, <1>2, <1>3, <2>1, BeginStep
<1>4. CASE Quiet \/ (Hang /\ UNCHANGED srcs)
  BY <1>1, <1>2, <1>4, StillStep
<1>5. CASE Fails \/ Skips
  BY <1>1, <1>2, <1>5, FailStep, SkipStep
<1>6. CASE Reading(Churn)
  BY <1>1, <1>2, <1>6, ChurnStep
<1>7. CASE Reading(FileStep)
  <2>1. \/ Reading(PSIStat \/ ReadProc) \/ Reading(NumaList \/ NumaNode)
        \/ Reading(HugeSizes \/ HugeNodes) \/ Reading(HugeStat)
        \/ Reading(ReadFile)
    BY <1>7 DEF Reading, FileStep
  <2> QED
    BY <1>1, <1>2, <2>1, ProcStep, NumaStep, HugeListStep, HugeStatStep,
       ReadStep
<1>8. CASE (GPULook \/ GPUQuery \/ GPUApps) /\ UNCHANGED srcs
  BY <1>1, <1>2, <1>8, GPUStep
<1>9. CASE VLLMScrape /\ UNCHANGED srcs
  BY <1>1, <1>2, <1>9, VLLMStep
<1>10. CASE DamonSnapshot \/ DamonCollected \/ envelopes
  BY <1>1, <1>2, <1>10, DamonStep, EnvelopesStep
<1> QED
  BY <1>3, <1>4, <1>5, <1>6, <1>7, <1>8, <1>9, <1>10, StepCases

(* It holds when the agent starts. *)
LEMMA TickInit ==
    ASSUME Init
    PROVE  TickInv
<1>1. /\ kind = "host_mem" /\ pc = "idle" /\ recs = <<>> /\ result = "none"
      /\ hung = FALSE /\ dir = NodeRoot
      /\ sizes = {} /\ nodes = {} /\ left = {}
      /\ host \in Hosts /\ stable = host /\ seen = host
  BY DEF Init
<1>2. srcs \subseteq Kinds
  BY DEF Init, buildSources, Kinds
<1>3. TickTypeOK
  <2>1. "idle" \in StepsOf("host_mem") /\ "host_mem" \in Kinds
    BY StepsOfKinds DEF Kinds, HostKinds
  <2> QED
    BY <1>1, <1>2, <2>1, Places DEF TickTypeOK, EarlySteps
<1>4. HostInv
  BY <1>1, CollectAssumption DEF HostInv
<1>5. 1 .. Len(recs) = {}
  BY <1>1
<1>6. CollectInv
  BY <1>1, <1>5 DEF CollectInv, FiniteInv, ProcInv, ReadInv, NumaInv, HugeInv,
     VLLMInv, ValuesAttributed, LossHasCause, ReportInv, Ended
<1> QED
  BY <1>3, <1>4, <1>6 DEF TickInv

(* It holds in every run of the sources. *)
LEMMA TickInvariant == Spec => []TickInv
<1>1. Init => TickInv
  BY TickInit
<1>2. TickInv /\ [Next]_vars => TickInv'
  BY TickStepKept
<1> QED
  BY <1>1, <1>2, PTL DEF Spec

-----------------------------------------------------------------------------
(* What follows. *)

(***************************************************************************)
(* A tick that ends well has one record of everything that was there all   *)
(* the time, with a value for every file, process or metric that was, for  *)
(* any host and whatever else comes, goes or fails during the tick.        *)
(***************************************************************************)
THEOREM StableIsReported == Spec => []StableReported
<1>1. ASSUME TickInv, Ended("ok"), NEW d \in Due
      PROVE  /\ Cardinality(RecordsOf(d)) = 1
             /\ \A i \in RecordsOf(d) :
                   FieldsOf(d) \cap stable \subseteq recs[i].got
  <2>1. ~Pending(d)
    BY <1>1 DEF Ended, Pending, EarlySteps
  <2>2. Reported(d)
    BY <1>1, <2>1 DEF TickInv, CollectInv, ReportInv, Ended
  <2>3. PICK i \in RecordsOf(d) : FieldsOf(d) \cap stable \subseteq recs[i].got
    BY <2>2 DEF Reported
  <2>4. \A j \in RecordsOf(d) : j = i
    BY <1>1 DEF RecordsOf, TickInv, CollectInv, ValuesAttributed
  <2>5. RecordsOf(d) = {i}
    BY <2>4
  <2> QED
    BY <2>3, <2>5, FS_Singleton
<1>2. TickInv => StableReported
  BY <1>1 DEF StableReported
<1> QED
  BY <1>2, TickInvariant, PTL

(***************************************************************************)
(* No value is attributed to anything but what it was read from, and no    *)
(* memory is counted twice, for any host and whatever comes and goes       *)
(* (Numa, Hugepages, GPU, VLLM).                                           *)
(***************************************************************************)
THEOREM ValuesAreAttributed == Spec => []ValuesAttributed
<1>1. TickInv => ValuesAttributed
  BY DEF TickInv, CollectInv
<1> QED
  BY <1>1, TickInvariant, PTL

(***************************************************************************)
(* A tick is lost to a call that failed, to a record that does not marshal *)
(* or to a file that went, and to nothing else.                            *)
(***************************************************************************)
THEOREM LossesHaveCause == Spec => []LossHasCause
<1>1. TickInv => LossHasCause
  BY DEF TickInv, CollectInv
<1> QED
  BY <1>1, TickInvariant, PTL

(* VLLM.warned holds the metrics that scrapes were without. *)
WarnInv == /\ warned = missed /\ missed \subseteq Metrics
           /\ warnings \in [Metrics -> Nat]
           /\ WarnedOnce

(* Only warnUnmatchedOnce warns. *)
LEMMA WarnSteps ==
    ASSUME TickInv, [Next]_vars
    PROVE  \/ UNCHANGED warnVars
           \/ \E missing \in SUBSET Metrics : warnUnmatchedOnce(missing)
<1>1. Reading(Churn) \/ Reading(FileStep) \/ Quiet \/ Fails \/ Skips \/ Hang
         => UNCHANGED warnVars
  BY DEF Reading, Quiet, Fails, Skips, Hang, tickVars, scrapeVars, warnVars
<1>2. GPULook \/ GPUQuery \/ GPUApps \/ DamonSnapshot \/ DamonCollected
         \/ envelopes \/ (\E k \in srcs : BeginTick(k)) => UNCHANGED warnVars
  BY DEF GPULook, GPUQuery, GPUApps, DamonSnapshot, DamonCollected, envelopes,
         BeginTick, scrapeVars, warnVars
<1>3. ASSUME NEW e, buildRecord(e)
      PROVE  \E missing \in SUBSET Metrics : warnUnmatchedOnce(missing)
  <2> DEFINE missing == {m \in Metrics : Metric(e, m) \notin host}
  <2>1. warnUnmatchedOnce(missing)
    BY <1>3 DEF buildRecord
  <2>2. missing \in SUBSET Metrics
    OBVIOUS
  <2> QED
    BY <2>1, <2>2
<1>4. VLLMScrape => \/ UNCHANGED warnVars
                    \/ \E missing \in SUBSET Metrics : warnUnmatchedOnce(missing)
  BY <1>3 DEF VLLMScrape
<1> QED
  BY <1>1, <1>2, <1>4, StepCases DEF TickInv

(***************************************************************************)
(* A metric that scrapes lack is warned about once in the life of the      *)
(* process, for any metric map and any endpoints (warnUnmatchedOnce).      *)
(***************************************************************************)
THEOREM MetricsAreWarnedOnce == Spec => []WarnedOnce
<1>1. Init => WarnInv
  BY DEF Init, WarnInv, WarnedOnce
<1>2. ASSUME WarnInv, NEW missing \in SUBSET Metrics, warnUnmatchedOnce(missing)
      PROVE  WarnInv'
  <2>1. /\ warned' = warned \cup missing /\ missed' = missed \cup missing
        /\ warnings' = [m \in Metrics |-> IF m \in missing \ warned
                                          THEN warnings[m] + 1 ELSE warnings[m]]
    BY <1>2 DEF warnUnmatchedOnce, RememberWarned
  <2> QED
    BY <1>2, <2>1 DEF WarnInv, WarnedOnce
<1>3. WarnInv /\ UNCHANGED warnVars => WarnInv'
  BY DEF warnVars, WarnInv, WarnedOnce
<1>4. TickInv /\ WarnInv /\ [Next]_vars => WarnInv'
  BY <1>2, <1>3, WarnSteps
<1>5. WarnInv => WarnedOnce
  BY DEF WarnInv
<1> QED
  BY <1>1, <1>4, <1>5, TickInvariant, PTL DEF Spec

(* The rows of the selftest stay what they were when it ran. *)
LEMMA TestSteps ==
    ASSUME TestInv, [Next]_vars
    PROVE  TestInv'
<1>1. CASE Selftest
  <2>1. test' = [ran |-> TRUE, host |-> host, ok |-> Rows]
    BY <1>1 DEF Selftest
  <2>2. /\ "host memory" \in Rows <=> Proc("meminfo") \in host
        /\ "psi" \in Rows <=> Proc("psi") \in host
    BY DEF Rows, hostMemCheck, DetectAt
  <2> QED
    BY <2>1, <2>2 DEF TestInv
<1>2. CASE UNCHANGED test
  BY <1>2 DEF TestInv
<1>3. ~Selftest => UNCHANGED test
  BY DEF Next, BeginTick, TickStep, DamonSnapshot, DamonCollected, envelopes,
         DamonRegion, vars
<1> QED
  BY <1>1, <1>2, <1>3

(***************************************************************************)
(* The selftest's report is what the collectors then do, on any host.      *)
(***************************************************************************)
THEOREM SelftestIsTrue == Spec => []SelftestTells
<1>1. Init => TestInv
  BY DEF Init, TestInv
<1>2. TestInv /\ [Next]_vars => TestInv'
  BY TestSteps
<1>3. ASSUME TickInv, TestInv, test.ran, stable = test.host, seen = test.host
      PROVE  /\ kind = "host_mem" /\ Ended("ok") => ~Failed
             /\ kind = "host_mem" /\ Ended("err") => Failed \/ faulted
             /\ kind = "psi" /\ Ended("ok") =>
                   (recs # <<>> <=> "psi" \in test.ok)
  <2>1. kind = "host_mem" => ProcFile(kind) = Proc("meminfo")
    BY DEF ProcFile
  <2>2. kind = "psi" => ProcFile(kind) = Proc("psi")
    BY DEF ProcFile
  <2>3. recs = <<Rec(ProcFile(kind), {ProcFile(kind)}, TRUE)>> => recs # <<>>
    OBVIOUS
  <2> QED
    BY <1>3, <2>1, <2>2, <2>3
       DEF TickInv, CollectInv, ProcInv, TestInv, Failed
<1>4. TickInv /\ TestInv => SelftestTells
  BY <1>3 DEF SelftestTells
<1> QED
  BY <1>1, <1>2, <1>4, TickInvariant, PTL DEF Spec
=============================================================================
