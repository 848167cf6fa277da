---------------------------- MODULE ShipperProofs ---------------------------
(***************************************************************************)
(* Proofs about the shipper, for every number of segments and failures,    *)
(* any backoff bounds, and any URL.                                        *)
(***************************************************************************)
EXTENDS Shipper, TLAPS

(* ShipStep only groups the steps of Run; the proofs look through it. *)
USE DEF ShipStep

-----------------------------------------------------------------------------
(* Types. *)

(* os.Remove leaves the directory in its type. *)
LEMMA UnlinkType ==
    ASSUME DirTypeOK, NEW u \in Ulids, NEW why \in Unlinked
    PROVE  Removed(u, why) \in [Ulids -> File]
BY DEF DirTypeOK, File, Removed

(* So does a new segment, as the spool publishes it. *)
LEMMA PublishedType ==
    ASSUME DirTypeOK, NEW u \in Ulids
    PROVE  [dir EXCEPT ![u] = [state |-> "zst", recs |-> {Collected(u)},
                               whole |-> TRUE, size |-> 1]] \in [Ulids -> File]
<1>1. u \in Nat
  BY SpoolDirAssumption DEF Ulids
<1>2. Collected(u) \in Line
  BY <1>1 DEF Collected, Line
<1> QED
  BY <1>2 DEF DirTypeOK, File

(* The body that is sent for a segment is a batch. *)
LEMMA BatchType ==
    ASSUME DirTypeOK, NEW u \in Ulids
    PROVE  BatchOf(u) \in Batch
<1>1. u \in Nat
  BY SpoolDirAssumption DEF Ulids
<1>2. dir[u].recs \in SUBSET Line /\ dir[u].whole \in BOOLEAN
  BY DEF DirTypeOK, File
<1> QED
  BY <1>1, <1>2 DEF BatchOf, Batch

(* The doubled backoff stays within its bounds. *)
LEMMA BackoffBounded ==
    ASSUME backoff \in MinBackoff .. MaxBackoff
    PROVE  NextBackoff \in MinBackoff .. MaxBackoff
BY ShipperAssumption DEF NextBackoff

(* Every step of the shipper and of what is around it preserves the types. *)
LEMMA ShipTypeInductive ==
    ASSUME ShipTypeOK, [ShipperNext]_hvars
    PROVE  ShipTypeOK'
<1> USE DEF ShipTypeOK, DirTypeOK, Ok, Fails
<1>0. MinBackoff \in MinBackoff .. MaxBackoff
  BY ShipperAssumption
<1>1. CASE SpoolPublishes
  BY <1>1, PublishedType DEF SpoolPublishes, shipVars, runVars
<1>2. CASE SpoolEvicts
  BY <1>2, UnlinkType DEF SpoolEvicts, Segments, Unlinked, shipVars, runVars
<1>3. CASE CallRun
  BY <1>3 DEF CallRun, ShipBegin, dirVars
<1>4. CASE Cancel
  BY <1>4 DEF Cancel, dirVars, runVars
<1>5. CASE RunDone
  BY <1>5 DEF RunDone, dirVars
<1>6. CASE ShipList
  BY <1>6 DEF ShipList, RunReturns, Segments
<1>7. CASE ShipNext
  BY <1>7 DEF ShipNext, dirVars
<1>8. CASE ShipRead
  BY <1>8, <1>0, BatchType DEF ShipRead, PassOver, Settled, Segments
<1>9. CASE ShipPost
  BY <1>9 DEF ShipPost, Answered, dirVars
<1>10. CASE ShipRemove
  BY <1>10, <1>0, UnlinkType DEF ShipRemove, Settled, Segments, Unlinked
<1>11. CASE ShipRetry
  BY <1>11, BackoffBounded DEF ShipRetry, dirVars
<1>12. CASE ShipAbort
  BY <1>12 DEF ShipAbort, RunReturns, dirVars
<1>13. CASE UNCHANGED hvars
  BY <1>13 DEF hvars, dirVars, shipVars, runVars
<1> QED
  BY <1>1, <1>2, <1>3, <1>4, <1>5, <1>6, <1>7, <1>8, <1>9, <1>10, <1>11,
     <1>12, <1>13 DEF ShipperNext

(* The types hold at the start. *)
LEMMA ShipTypeBegins ==
    ASSUME ShipperInit
    PROVE  ShipTypeOK
<1> USE DEF ShipTypeOK, DirTypeOK
<1>1. DirTypeOK
  BY DEF ShipperInit, DirInit, NoFile, File
<1>2. body \in Batch
  BY DEF ShipperInit, ShipInit, NoBatch, Batch
<1>3. backoff \in MinBackoff .. MaxBackoff
  BY ShipperAssumption DEF ShipperInit, ShipInit
<1> QED
  BY <1>1, <1>2, <1>3 DEF ShipperInit, ShipInit

(***************************************************************************)
(* The type invariant of the shipper holds in every behaviour: the backoff *)
(* stays between MinBackoff and MaxBackoff however often a segment is      *)
(* retried.                                                                *)
(***************************************************************************)
THEOREM ShipperTypeCorrect == ShipperSpec => []ShipTypeOK
<1>1. ShipperInit => ShipTypeOK
  BY ShipTypeBegins
<1>2. ShipTypeOK /\ [ShipperNext]_hvars => ShipTypeOK'
  BY ShipTypeInductive
<1> QED
  BY <1>1, <1>2, PTL DEF ShipperSpec

-----------------------------------------------------------------------------
(* What is removed as shipped has been ingested. *)

(* The file has, or had until it was unlinked, its final name. *)
Visible(u) == dir[u].state \in {"zst"} \cup Unlinked

(* The segment that is being sent is, or was, a file with what is sent. *)
InFlight ==
    shp \in {"post", "remove"} =>
        /\ seg \in Ulids
        /\ Visible(seg)
        /\ body = BatchOf(seg)

(* A segment is about to be removed only because of an answer, and after a *)
(* 2xx the endpoint has what was sent. *)
Acknowledged ==
    shp = "remove" => /\ reply \in {"2xx", "4xx"}
                      /\ reply = "2xx" => body \in ingest

(* Every batch the endpoint has is the content of a segment of that name. *)
IngestIsContent ==
    \A b \in ingest : /\ b.id \in Ulids
                      /\ Visible(b.id)
                      /\ b = BatchOf(b.id)

ShippingInv ==
    /\ ShipTypeOK
    /\ InFlight
    /\ Acknowledged
    /\ IngestIsContent
    /\ ShippedIsIngested

(* A segment, once it is there, keeps its content and does not come back as *)
(* another file, whoever unlinks it and when. *)
ContentStays ==
    \A u \in Ulids : Visible(u) => Visible(u)' /\ BatchOf(u)' = BatchOf(u)

(* Unlinking keeps the content on record. *)
LEMMA RemovalKeepsContent ==
    ASSUME ShipTypeOK, NEW u \in Ulids, NEW why \in Unlinked,
           dir' = Removed(u, why)
    PROVE  /\ ContentStays
           /\ dir'[u].state = why
           /\ \A v \in Ulids \ {u} : dir'[v] = dir[v]
<1>1. dir' = [dir EXCEPT ![u] = [dir[u] EXCEPT !.state = why]]
  BY DEF Removed
<1>2. dir[u] \in File
  BY DEF ShipTypeOK, DirTypeOK
<1>3. /\ dir'[u].state = why
      /\ dir'[u].recs = dir[u].recs
      /\ dir'[u].whole = dir[u].whole
  BY <1>1, <1>2 DEF ShipTypeOK, DirTypeOK, File
<1>4. \A v \in Ulids \ {u} : dir'[v] = dir[v]
  BY <1>1 DEF ShipTypeOK, DirTypeOK
<1> QED
  BY <1>3, <1>4 DEF ContentStays, Visible, BatchOf, Unlinked

(* So does creating a new segment, which takes a name that was not in use. *)
LEMMA PublishKeepsContent ==
    ASSUME ShipTypeOK, SpoolPublishes
    PROVE  /\ ContentStays
           /\ \A u \in Ulids : dir'[u].state = "shipped" =>
                                 dir[u].state = "shipped"
<1>1. PICK u \in Ulids :
        /\ dir[u].state = "absent"
        /\ dir' = [dir EXCEPT ![u] = [state |-> "zst", recs |-> {Collected(u)},
                                     whole |-> TRUE, size |-> 1]]
  BY DEF SpoolPublishes, IsOldest
<1>2. \A v \in Ulids \ {u} : dir'[v] = dir[v]
  BY <1>1 DEF ShipTypeOK, DirTypeOK
<1>3. dir'[u].state = "zst"
  BY <1>1 DEF ShipTypeOK, DirTypeOK
<1> QED
  BY <1>1, <1>2, <1>3 DEF ContentStays, Visible, BatchOf, Unlinked

(* What is left alone in a step that only changes the directory. *)
LEMMA DirOnlyStep ==
    ASSUME ShippingInv, ShipTypeOK', ContentStays,
           UNCHANGED <<shp, seg, body, reply, ingest>>,
           \A u \in Ulids : dir'[u].state = "shipped" =>
                             dir[u].state = "shipped"
    PROVE  ShippingInv'
<1> USE DEF ShippingInv
<1>1. InFlight'
  BY DEF InFlight, ContentStays, BatchOf, Visible
<1>2. Acknowledged'
  BY DEF Acknowledged
<1>3. IngestIsContent'
  BY DEF IngestIsContent, ContentStays, BatchOf, Visible
<1>4. ShippedIsIngested'
  BY DEF ShippedIsIngested, ContentStays, Visible, Unlinked, BatchOf
<1> QED
  BY <1>1, <1>2, <1>3, <1>4

(* And in one that changes neither the directory nor what the endpoint has, *)
(* and does not get the shipper to a POST or to a removal. *)
LEMMA RunOnlyStep ==
    ASSUME ShippingInv, ShipTypeOK', UNCHANGED <<dir, ingest>>,
           shp' \notin {"post", "remove"}
    PROVE  ShippingInv'
BY DEF ShippingInv, InFlight, Acknowledged, IngestIsContent, ShippedIsIngested,
       BatchOf, Visible

(* The inductive step: every action preserves the inductive invariant. *)
LEMMA ShippingInductive ==
    ASSUME ShippingInv, ShipTypeOK', [ShipperNext]_hvars
    PROVE  ShippingInv'
<1>0. ShipTypeOK
  BY DEF ShippingInv
<1>1. CASE SpoolPublishes
  BY <1>0, <1>1, PublishKeepsContent, DirOnlyStep
     DEF SpoolPublishes, shipVars, runVars
<1>2. CASE SpoolEvicts
  <2>1. PICK u \in Ulids : dir' = Removed(u, "evicted")
    BY <1>2 DEF SpoolEvicts, Segments
  <2>2. /\ ContentStays
        /\ dir'[u].state = "evicted"
        /\ \A v \in Ulids \ {u} : dir'[v] = dir[v]
    BY <1>0, <2>1, RemovalKeepsContent DEF Unlinked
  <2> QED
    BY <1>2, <2>2, DirOnlyStep DEF SpoolEvicts, shipVars, runVars
<1>3. CASE CallRun
  BY <1>3, RunOnlyStep DEF CallRun, ShipBegin, dirVars
<1>4. CASE Cancel
  BY <1>4 DEF Cancel, dirVars, runVars, ShippingInv, InFlight, Acknowledged,
              IngestIsContent, ShippedIsIngested, BatchOf, Visible
<1>5. CASE RunDone
  BY <1>5, RunOnlyStep DEF RunDone, dirVars
<1>6. CASE ShipList
  BY <1>6, RunOnlyStep DEF ShipList, RunReturns
<1>7. CASE ShipNext
  BY <1>7, RunOnlyStep DEF ShipNext, dirVars
<1>8. CASE ShipRead
  <2>1. CASE shp' = "post"
    <3>1. /\ seg \in Segments
          /\ body' = BatchOf(seg)
          /\ UNCHANGED <<dir, seg, ingest>>
      BY <1>8, <2>1 DEF ShipRead, PassOver, Settled
    <3>2. InFlight'
      BY <3>1 DEF InFlight, Segments, BatchOf, Visible
    <3> QED
      BY <2>1, <3>1, <3>2 DEF ShippingInv, Acknowledged, IngestIsContent,
                              ShippedIsIngested, BatchOf, Visible
  <2>2. CASE shp' = "next"
    BY <1>8, <2>2, RunOnlyStep DEF ShipRead
  <2> QED
    BY <1>8, <2>1, <2>2 DEF ShipRead, PassOver, Settled
<1>9. CASE ShipPost
  <2>1. /\ UNCHANGED <<dir, seg, body>>
        /\ ingest' \in {ingest, ingest \cup {body}}
        /\ shp' = "remove" => reply' \in {"2xx", "4xx"}
        /\ shp' = "remove" /\ reply' = "2xx" => body \in ingest'
    BY <1>9 DEF ShipPost, Answered, dirVars
  <2>2. /\ seg \in Ulids
        /\ Visible(seg)
        /\ body = BatchOf(seg)
        /\ body.id = seg
    BY <1>9 DEF ShipPost, ShippingInv, InFlight, BatchOf, Visible
  <2>3. InFlight'
    BY <2>1, <2>2 DEF InFlight, BatchOf, Visible
  <2>4. Acknowledged'
    BY <2>1 DEF Acknowledged
  <2>5. IngestIsContent'
    BY <2>1, <2>2 DEF ShippingInv, IngestIsContent, BatchOf, Visible
  <2>6. ShippedIsIngested'
    BY <2>1 DEF ShippingInv, ShippedIsIngested, BatchOf, Visible
  <2> QED
    BY <2>3, <2>4, <2>5, <2>6 DEF ShippingInv
<1>10. CASE ShipRemove
  <2>0. shp' = "next" /\ UNCHANGED ingest
    BY <1>10 DEF ShipRemove, Settled
  <2>1. CASE UNCHANGED dir
    BY <2>0, <2>1, RunOnlyStep
  <2>2. CASE dir' = Removed(seg, IF reply = "4xx" THEN "rejected"
                                 ELSE "shipped")
    <3>1. /\ seg \in Ulids
          /\ reply # "4xx" => BatchOf(seg) \in ingest
      BY <1>10 DEF ShipRemove, ShippingInv, InFlight, Acknowledged
    <3>2. /\ ContentStays
          /\ dir'[seg].state = IF reply = "4xx" THEN "rejected" ELSE "shipped"
          /\ \A v \in Ulids \ {seg} : dir'[v] = dir[v]
      BY <1>0, <2>2, <3>1, RemovalKeepsContent DEF Unlinked
    <3>3. IngestIsContent'
      BY <2>0, <3>2 DEF ShippingInv, IngestIsContent, ContentStays
    <3>4. Visible(seg)
      BY <1>10 DEF ShipRemove, ShippingInv, InFlight
    <3>5. ShippedIsIngested'
      BY <2>0, <3>1, <3>2, <3>4
         DEF ShippingInv, ShippedIsIngested, ContentStays, Visible, Unlinked
    <3> QED
      BY <2>0, <3>3, <3>5 DEF ShippingInv, InFlight, Acknowledged
  <2> QED
    BY <1>10, <2>1, <2>2 DEF ShipRemove
<1>11. CASE ShipRetry
  BY <1>11, RunOnlyStep DEF ShipRetry, dirVars
<1>12. CASE ShipAbort
  BY <1>12, RunOnlyStep DEF ShipAbort, RunReturns, dirVars
<1>13. CASE UNCHANGED hvars
  BY <1>13 DEF hvars, dirVars, shipVars, runVars, ShippingInv, InFlight,
               Acknowledged, IngestIsContent, ShippedIsIngested, BatchOf,
               Visible
<1> QED
  BY <1>1, <1>2, <1>3, <1>4, <1>5, <1>6, <1>7, <1>8, <1>9, <1>10, <1>11,
     <1>12, <1>13 DEF ShipperNext

(* The invariant holds at the start. *)
LEMMA ShippingBegins ==
    ASSUME ShipperInit
    PROVE  ShippingInv
BY ShipTypeBegins
   DEF ShipperInit, ShipInit, DirInit, NoFile, ShippingInv, InFlight,
       Acknowledged, IngestIsContent, ShippedIsIngested

(***************************************************************************)
(* Whatever the endpoint answers, loses or delays, whatever the cap evicts *)
(* and whichever reads and removals fail: a segment is unlinked as shipped *)
(* only when the endpoint has all of it under its own batch id, and no     *)
(* batch id ever stands for two different contents.                        *)
(***************************************************************************)
THEOREM ShippingIsSound ==
    ShipperSpec => [](ShippedIsIngested /\ BatchIdsStable)
<1>1. ShipperInit => ShippingInv
  BY ShippingBegins
<1>2. ShippingInv /\ ShipTypeOK' /\ [ShipperNext]_hvars => ShippingInv'
  BY ShippingInductive
<1>3. ShippingInv => ShippedIsIngested /\ BatchIdsStable
  BY DEF ShippingInv, IngestIsContent, BatchIdsStable
<1> QED
  BY <1>1, <1>2, <1>3, ShipperTypeCorrect, PTL DEF ShipperSpec

-----------------------------------------------------------------------------
(* The order of shipping. *)

(* The steps of shipWithRetry, from the reading of a segment on. *)
Sending == {"read", "post", "remove", "sleep"}

(* What Run still has of its listing, the segment it is at included. *)
Queue == IF shp \in Sending THEN work \cup {seg} ELSE work

(* ULIDs are used in order. *)
Dense == \A u, v \in Ulids : dir[u].state = "absent" /\ u <= v
                                 => dir[v].state = "absent"

(* The listing has only names of segments that are there or were. *)
QueueVisible == /\ \A u \in work : Visible(u)
                /\ shp \in Sending => seg \in Ulids /\ Visible(seg)

(***************************************************************************)
(* A segment that is on disk is still in the queue, or is newer than all   *)
(* of it: Run goes on from a segment only when it is gone, unless one of   *)
(* its own calls failed or it cannot send at all.                          *)
(***************************************************************************)
RestIsNewer ==
    faults = 0 /\ UrlOK =>
        /\ shp \in Sending => \A v \in work : NameLeq(seg, v)
        /\ shp \in Sending \cup {"next"} =>
              \A v \in Segments : v \in Queue \/ \A w \in Queue : w < v

(* http.NewRequest needs a URL that parses. *)
CanSend == shp \in {"post", "remove", "sleep"} => UrlOK

QueueInv == QueueVisible /\ RestIsNewer /\ CanSend

OrderInv == Dense /\ QueueInv

(* A step takes no segment from the directory and adds none. *)
SameSegments == /\ UNCHANGED Segments
                /\ \A u \in Ulids : Visible(u) => Visible(u)'

(* The directory is the same. *)
LEMMA SameDir ==
    ASSUME UNCHANGED dir
    PROVE  SameSegments
BY DEF SameSegments, Segments, Visible

(* Nothing changes the order but a listing, a move to the next segment, and *)
(* a segment that comes or goes. *)
LEMMA QueueKept ==
    ASSUME ShipTypeOK, QueueInv, SameSegments, UNCHANGED <<work, seg>>,
           faults' = 0 => faults = 0,
           shp' \in Sending => shp \in Sending,
           shp' \in {"post", "remove", "sleep"} =>
               shp \in {"post", "remove", "sleep"} \/ UrlOK,
           shp' = "next" => \/ shp = "next"
                            \/ shp \in Sending /\ faults' # 0
                            \/ shp \in Sending /\ seg \notin Segments
                            \/ ~UrlOK
    PROVE  QueueInv'
<1>1. QueueVisible'
  BY DEF QueueInv, QueueVisible, SameSegments, ShipTypeOK
<1>2. Segments' = Segments
  BY DEF SameSegments
<1>3. RestIsNewer'
  BY <1>2 DEF QueueInv, RestIsNewer, Queue, Sending
<1> QED
  BY <1>1, <1>3 DEF QueueInv, CanSend

(* Nor does the unlinking of a segment, by whomever. *)
LEMMA QueueUnlink ==
    ASSUME ShipTypeOK, QueueInv, NEW u \in Segments, NEW why \in Unlinked,
           dir' = Removed(u, why), UNCHANGED <<faults, work, seg>>,
           \/ UNCHANGED shp
           \/ shp \in Sending /\ shp' = "next" /\ u = seg
    PROVE  QueueInv'
<1>1. u \in Ulids /\ dir[u].state = "zst"
  BY DEF Segments
<1>2. /\ dir'[u].state = why
      /\ \A v \in Ulids \ {u} : dir'[v] = dir[v]
  BY <1>1, RemovalKeepsContent
<1>3. \A v \in Ulids : Visible(v) => Visible(v)'
  BY <1>1, <1>2 DEF Visible
<1>4. Segments' = Segments \ {u}
  BY <1>1, <1>2 DEF Segments, Unlinked
<1>5. work \subseteq Ulids
  BY DEF ShipTypeOK
<1>6. QueueVisible'
  BY <1>3, <1>5 DEF QueueInv, QueueVisible, Sending
<1>7. RestIsNewer'
  BY <1>4 DEF QueueInv, RestIsNewer, Queue, Sending
<1> QED
  BY <1>6, <1>7 DEF QueueInv, CanSend

(* The next segment of a listing is the oldest of it. *)
LEMMA QueueNext ==
    ASSUME ShipTypeOK, QueueInv, ShipNext
    PROVE  QueueInv'
<1>0. UNCHANGED <<dir, faults>> /\ work \subseteq Ulids /\ shp = "next"
  BY DEF ShipNext, dirVars, ShipTypeOK
<1>1. Segments' = Segments
  BY <1>0 DEF Segments
<1>2. CASE shp' = "list" /\ UNCHANGED <<work, seg>>
  BY <1>0, <1>2, SameDir, QueueKept DEF Sending
<1>3. ASSUME NEW u \in work, IsOldest(u, work), shp' = "read", seg' = u,
             work' = work \ {u}
      PROVE  QueueInv'
  <2>1. QueueVisible'
    BY <1>0, <1>3 DEF QueueInv, QueueVisible, Visible
  <2>2. Queue' = Queue
    BY <1>0, <1>3 DEF Queue, Sending
  <2>3. \A v \in work' : NameLeq(u, v)
    BY <1>3 DEF IsOldest
  <2>4. RestIsNewer'
    BY <1>0, <1>1, <1>3, <2>2, <2>3
       DEF QueueInv, RestIsNewer, Sending, NameLeq
  <2> QED
    BY <1>3, <2>1, <2>4 DEF QueueInv, CanSend
<1> QED
  BY <1>2, <1>3 DEF ShipNext, FirstPath

(* A segment comes that is newer than every other there is or was. *)
LEMMA QueuePublish ==
    ASSUME ShipTypeOK, QueueInv, NEW u \in Ulids, dir'[u].state = "zst",
           \A v \in Ulids \ {u} : dir'[v] = dir[v],
           \A v \in Ulids : Visible(v) => v < u,
           UNCHANGED <<faults, shp, work, seg>>
    PROVE  QueueInv'
<1>1. work \subseteq Ulids
  BY DEF ShipTypeOK
<1>2. \A v \in Ulids : Visible(v) => Visible(v)'
  BY DEF Visible
<1>3. QueueVisible'
  BY <1>1, <1>2 DEF QueueInv, QueueVisible
<1>4. Segments' = Segments \cup {u}
  BY DEF Segments
<1>5. Queue' = Queue
  BY DEF Queue
<1>6. \A w \in Queue : w < u
  BY <1>1 DEF Queue, QueueInv, QueueVisible
<1>7. RestIsNewer'
  BY <1>4, <1>5, <1>6 DEF QueueInv, RestIsNewer, NameLeq
<1> QED
  BY <1>3, <1>7 DEF QueueInv, CanSend

(* The steps of Run. *)
LEMMA QueueInRun ==
    ASSUME ShipTypeOK, QueueInv, ShipStep \/ ShipPost \/ ShipAbort
    PROVE  QueueInv'
<1>0. faults \in Nat
  BY DEF ShipTypeOK, DirTypeOK
<1>1. CASE ShipList
  <2>1. UNCHANGED <<dir, seg>> /\ (faults' = 0 => faults = 0)
    BY <1>0, <1>1 DEF ShipList, Ok, Fails
  <2>2. CASE shp' = "returned" /\ UNCHANGED work
    BY <2>1, <2>2, SameDir, QueueKept DEF Sending
  <2>3. CASE shp' = "next" /\ work' = Segments
    <3>1. QueueVisible'
      BY <2>1, <2>3 DEF QueueVisible, Visible, Segments, Sending
    <3>2. RestIsNewer'
      BY <2>1, <2>3 DEF RestIsNewer, Queue, Segments, Sending
    <3> QED
      BY <2>3, <3>1, <3>2 DEF QueueInv, CanSend
  <2> QED
    BY <1>1, <2>2, <2>3 DEF ShipList, RunReturns
<1>2. CASE ShipNext
  BY <1>2, QueueNext
<1>3. CASE ShipRead
  <2>1. UNCHANGED <<dir, work, seg>> /\ shp = "read"
    BY <1>3 DEF ShipRead
  <2>2. /\ faults' = 0 => faults = 0
        /\ \/ shp' = "post" /\ UrlOK
           \/ /\ shp' = "next"
              /\ seg \notin Segments \/ ~UrlOK \/ faults' # 0
    BY <1>0, <1>3 DEF ShipRead, PassOver, Settled, Ok, Fails
  <2> QED
    BY <2>1, <2>2, SameDir, QueueKept DEF Sending
<1>4. CASE ShipPost
  BY <1>4, SameDir, QueueKept DEF ShipPost, Answered, dirVars, Sending
<1>5. CASE ShipRemove
  <2>1. UNCHANGED <<work, seg>> /\ shp = "remove" /\ shp' = "next"
    BY <1>5 DEF ShipRemove, Settled
  <2>2. CASE UNCHANGED dir /\ (faults' # 0 \/ (Ok /\ seg \notin Segments))
    BY <2>1, <2>2, SameDir, QueueKept DEF Sending, Ok
  <2>3. CASE /\ Ok
             /\ seg \in Segments
             /\ \E why \in Unlinked : dir' = Removed(seg, why)
    BY <2>1, <2>3, QueueUnlink DEF Sending, Ok
  <2> QED
    BY <1>0, <1>5, <2>2, <2>3 DEF ShipRemove, Ok, Fails, Unlinked
<1>6. CASE ShipRetry \/ ShipAbort
  BY <1>6, SameDir, QueueKept
     DEF ShipRetry, ShipAbort, RunReturns, dirVars, Sending
<1> QED
  BY <1>1, <1>2, <1>3, <1>4, <1>5, <1>6 DEF ShipStep

(* Seen from the shipper, a new segment is newer than every other. *)
LEMMA OrderPublish ==
    ASSUME ShipTypeOK, OrderInv, SpoolPublishes
    PROVE  OrderInv'
<1>1. PICK u \in Ulids :
        /\ dir[u].state = "absent"
        /\ \A v \in Ulids : dir[v].state = "absent" => u <= v
        /\ dir' = [dir EXCEPT ![u] = [state |-> "zst", recs |-> {Collected(u)},
                                     whole |-> TRUE, size |-> 1]]
  BY DEF SpoolPublishes
<1>2. \A v \in Ulids \ {u} : dir'[v] = dir[v]
  BY <1>1 DEF ShipTypeOK, DirTypeOK
<1>3. dir'[u].state = "zst"
  BY <1>1 DEF ShipTypeOK, DirTypeOK
<1>4. UNCHANGED <<faults, shp, work, seg>>
  BY DEF SpoolPublishes, shipVars, runVars
<1>5. \A v \in Ulids : dir[v].state # "absent" => v < u
  <2> SUFFICES ASSUME NEW v \in Ulids, ~(v < u)
               PROVE  dir[v].state = "absent"
    OBVIOUS
  <2>1. u <= v
    BY SpoolDirAssumption DEF Ulids
  <2> QED
    BY <1>1, <2>1 DEF OrderInv, Dense
<1>6. Dense'
  <2>1. ASSUME NEW v \in Ulids, NEW w \in Ulids, dir'[v].state = "absent",
               v <= w
        PROVE  dir'[w].state = "absent"
    <3>1. v # u /\ dir[v].state = "absent" /\ u <= v
      BY <1>1, <1>2, <1>3, <2>1
    <3>2. w # u
      BY <2>1, <3>1, SpoolDirAssumption DEF Ulids
    <3> QED
      BY <1>2, <2>1, <3>1, <3>2 DEF OrderInv, Dense
  <2> QED
    BY <2>1 DEF Dense
<1>7. \A v \in Ulids : Visible(v) => v < u
  BY <1>5 DEF Visible, Unlinked
<1>8. QueueInv'
  BY <1>2, <1>3, <1>4, <1>7, QueuePublish DEF OrderInv
<1> QED
  BY <1>6, <1>8 DEF OrderInv

(* No ULID is freed when a segment is unlinked. *)
LEMMA DenseUnlink ==
    ASSUME ShipTypeOK, Dense, NEW u \in Segments, NEW why \in Unlinked,
           dir' = Removed(u, why)
    PROVE  Dense'
<1>1. u \in Ulids /\ dir[u].state = "zst"
  BY DEF Segments
<1>2. /\ dir'[u].state = why
      /\ \A v \in Ulids \ {u} : dir'[v] = dir[v]
  BY <1>1, RemovalKeepsContent
<1>3. \A v \in Ulids : dir'[v].state = "absent" <=> dir[v].state = "absent"
  BY <1>1, <1>2 DEF Unlinked
<1> QED
  BY <1>3 DEF Dense

(* The inductive step. *)
LEMMA OrderInductive ==
    ASSUME ShipTypeOK, OrderInv, [ShipperNext]_hvars
    PROVE  OrderInv'
<1>1. CASE SpoolPublishes
  BY <1>1, OrderPublish
<1>2. CASE SpoolEvicts
  BY <1>2, QueueUnlink, DenseUnlink
     DEF OrderInv, SpoolEvicts, Unlinked, shipVars, runVars
<1>3. CASE CallRun \/ Cancel \/ RunDone \/ UNCHANGED hvars
  <2>1. UNCHANGED <<dir, faults, work, seg>> /\ shp' \in {shp, "list", "idle"}
    BY <1>3 DEF CallRun, Cancel, RunDone, ShipBegin, hvars, dirVars, shipVars,
                runVars
  <2>2. QueueInv'
    BY <2>1, SameDir, QueueKept DEF OrderInv, Sending
  <2> QED
    BY <2>1, <2>2 DEF OrderInv, Dense
<1>4. CASE ShipStep \/ ShipPost \/ ShipAbort
  <2>1. QueueInv'
    BY <1>4, QueueInRun DEF OrderInv
  <2>2. CASE ShipRemove
    <3>1. \/ UNCHANGED dir
          \/ /\ seg \in Segments
             /\ \E why \in Unlinked : dir' = Removed(seg, why)
      BY <2>2 DEF ShipRemove, Unlinked
    <3>2. Dense'
      BY <3>1, DenseUnlink DEF OrderInv, Dense
    <3> QED
      BY <2>1, <3>2 DEF OrderInv
  <2>3. CASE ~ShipRemove
    <3>1. UNCHANGED dir
      BY <1>4, <2>3 DEF ShipStep, ShipList, ShipNext, ShipRead, ShipRetry,
                        ShipPost, ShipAbort, dirVars
    <3> QED
      BY <2>1, <3>1 DEF OrderInv, Dense
  <2> QED
    BY <2>2, <2>3
<1> QED
  BY <1>1, <1>2, <1>3, <1>4 DEF ShipperNext

(* A batch that is accepted is that of the segment Run is at. *)
LEMMA AcceptsInOrder ==
    ASSUME ShippingInv, QueueInv, ShipPost, faults = 0,
           NEW b \in ingest' \ ingest, NEW u \in Segments
    PROVE  b.id <= u \/ b.id \in Behind
<1>1. shp = "post" /\ b = body
  BY DEF ShipPost
<1>2. seg \in Ulids /\ b.id = seg
  BY <1>1 DEF ShippingInv, InFlight, BatchOf
<1>3. u \in Ulids
  BY DEF Segments
<1>4. UrlOK
  BY <1>1 DEF QueueInv, CanSend
<1>5. u = seg \/ (u \in work /\ NameLeq(seg, u)) \/ seg < u
  BY <1>1, <1>4 DEF QueueInv, RestIsNewer, Queue, Sending
<1> QED
  BY <1>2, <1>3, <1>5, SpoolDirAssumption DEF NameLeq, Behind, Ulids

(* Only a POST adds to what the endpoint has. *)
LEMMA OnlyPostAccepts ==
    ASSUME [ShipperNext]_hvars, ~ShipPost
    PROVE  UNCHANGED ingest
BY DEF ShipperNext, SpoolPublishes, SpoolEvicts, CallRun, Cancel, RunDone,
       ShipStep, ShipList, ShipNext, ShipRead, ShipRemove, ShipRetry,
       ShipAbort, hvars, shipVars

(***************************************************************************)
(* Run ships each segment in order: for any number of segments, and any    *)
(* retries, evictions and cancelled contexts, no batch is accepted while   *)
(* an older segment waits, until a call on the directory fails.            *)
(***************************************************************************)
THEOREM ShippingIsOrdered == ShipperSpec => ShipsInOrder
<1>1. ShipperInit => ShippingInv /\ OrderInv
  <2>1. ShipperInit => OrderInv
    BY DEF ShipperInit, ShipInit, DirInit, NoFile, OrderInv, Dense,
           QueueInv, QueueVisible, RestIsNewer, CanSend, Sending
  <2> QED
    BY <2>1, ShippingBegins
<1>2. ShippingInv /\ ShipTypeOK' /\ [ShipperNext]_hvars => ShippingInv'
  BY ShippingInductive
<1>3. ShipTypeOK /\ OrderInv /\ [ShipperNext]_hvars => OrderInv'
  BY OrderInductive
<1>4. ShippingInv /\ OrderInv /\ [ShipperNext]_hvars
        => [faults = 0 => \A b \in ingest' \ ingest, u \in Segments :
                              b.id <= u \/ b.id \in Behind]_hvars
  BY AcceptsInOrder, OnlyPostAccepts DEF OrderInv
<1> QED
  BY <1>1, <1>2, <1>3, <1>4, ShipperTypeCorrect, PTL
     DEF ShipperSpec, ShipsInOrder
=============================================================================
