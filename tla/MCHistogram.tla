----------------------------- MODULE MCHistogram ----------------------------
(***************************************************************************)
(* The histogram for TLC, against a count of the bytes one by one.         *)
(***************************************************************************)
EXTENDS Histogram, FiniteSets

MCThresholds == <<2, 4>>

(* The bytes of a region. *)
Bytes(r) == r.start .. r.end - 1

(* All of them, and those of regions that are idle for t or longer. *)
AllBytes == UNION {Bytes(r) : r \in regions}

IdleBytes(t) == UNION {Bytes(r) : r \in {q \in regions :
                             q.nrAccesses = 0 /\ q.age * AggrUS >= t}}

(* An age is a uint32, and intervals are far below 2^32 microseconds. *)
ASSUME AgeAssumption == MaxAge * AggrUS < Limit

(***************************************************************************)
(* Every byte is counted exactly once in monitored_bytes, once in each     *)
(* cold bucket it has been idle long enough for, and in hot_bytes exactly  *)
(* when it is in no cold bucket at all.                                    *)
(***************************************************************************)
HistExact ==
    /\ hist.monitored = Cardinality(AllBytes)
    /\ \A i \in 1 .. Buckets :
          hist.cold[i] = Cardinality(IdleBytes(Thresholds[i]))
    /\ HotBytes(hist) = Cardinality(AllBytes \ IdleBytes(Thresholds[1]))
=============================================================================
