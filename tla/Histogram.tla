------------------------------ MODULE Histogram -----------------------------
(***************************************************************************)
(* internal/collector bucketRegions: the loop over the regions of a DAMON  *)
(* snapshot, one step per region.  Regions come in address order and do    *)
(* not overlap, as DAMON reports them.                                     *)
(***************************************************************************)
EXTENDS DamonHist

VARIABLES
    hist,      \* hist and cold
    regions,   \* history: the regions seen
    upTo       \* the end of the last one

histVars == <<hist, regions, upTo>>

HistInit == hist = ZeroHist /\ regions = {} /\ upTo = 0

NextRegion ==
    \E r \in Region :
        /\ upTo <= r.start
        /\ r.start < r.end
        /\ hist' = Bucketed(hist, r)
        /\ regions' = regions \cup {r}
        /\ upTo' = r.end

-----------------------------------------------------------------------------
(* Properties. *)

(* The type invariant: the record's fields are natural numbers. *)
HistTypeOK == /\ hist \in Hist
              /\ regions \subseteq Region
              /\ upTo \in 0 .. MaxAddr

(***************************************************************************)
(* The record is consistent, at every round and for any regions: a colder  *)
(* bucket never holds more than a warmer one ("Buckets are cumulative"),   *)
(* none more than what is monitored, nothing exceeds physical memory, and  *)
(* so the subtraction that yields HotBytes does not go below zero.         *)
(***************************************************************************)
HistConsistent ==
    /\ \A i, j \in 1 .. Buckets : i <= j => hist.cold[j] <= hist.cold[i]
    /\ hist.cold[1] <= hist.monitored
    /\ hist.monitored <= upTo
=============================================================================
