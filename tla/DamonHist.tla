------------------------------ MODULE DamonHist -----------------------------
(***************************************************************************)
(* internal/collector/damon.go: one round of the loop in bucketRegions,    *)
(* which adds a region of a DAMON snapshot to the damon_hist record.  The  *)
(* arithmetic is that of uint64 (Limit is 2^64, or less for TLC).          *)
(***************************************************************************)
EXTENDS Naturals

CONSTANTS
    Limit,        \* the integers are modulo this
    Buckets,      \* how many cold buckets there are
    Thresholds,   \* coldThresholdsUS
    AggrUS,       \* the aggregation interval
    MaxAge,       \* bound: Region.Age
    MaxAddr       \* the end of physical memory

ASSUME HistogramAssumption ==
    /\ Limit \in Nat \ {0}
    /\ Buckets \in Nat \ {0}
    /\ Thresholds \in [1 .. Buckets -> Nat]
    /\ \A i, j \in 1 .. Buckets : i < j => Thresholds[i] < Thresholds[j]
    /\ AggrUS \in Nat
    /\ MaxAge \in Nat
    /\ MaxAddr \in Nat
    /\ MaxAddr < Limit

Region == [start : 0 .. MaxAddr, end : 0 .. MaxAddr, nrAccesses : 0 .. 1,
           age : 0 .. MaxAge]

Hist == [monitored : Nat, cold : [1 .. Buckets -> Nat]]

ZeroHist == [monitored |-> 0, cold |-> [i \in 1 .. Buckets |-> 0]]

Size(r) == r.end - r.start

(* Mutation: the threshold itself is left out. *)
OlderThan(r, i) == /\ r.nrAccesses = 0
                   /\ (r.age * AggrUS) % Limit > Thresholds[i]

(* Mutation: a region counts for the coldest bucket it belongs to only. *)
OnlyColdest(r, i) ==
    /\ r.nrAccesses = 0
    /\ (r.age * AggrUS) % Limit >= Thresholds[i]
    /\ i < Buckets => (r.age * AggrUS) % Limit < Thresholds[i + 1]

(* Idle for Thresholds[i] or longer, and not touched right now. *)
Idle(r, i) == /\ r.nrAccesses = 0
              /\ (r.age * AggrUS) % Limit >= Thresholds[i]

(* One round of the loop. *)
Bucketed(h, r) ==
    [monitored |-> (h.monitored + Size(r)) % Limit,
     cold |-> [i \in 1 .. Buckets |-> IF Idle(r, i)
                                      THEN (h.cold[i] + Size(r)) % Limit
                                      ELSE h.cold[i]]]

HotBytes(h) == (Limit + h.monitored - h.cold[1]) % Limit
=============================================================================
