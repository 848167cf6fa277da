------------------------------- MODULE Shipper ------------------------------
(***************************************************************************)
(* internal/ship: Shipper.Run lists the segments, POSTs them oldest first, *)
(* and unlinks each one the ingest endpoint took (2xx) or refused (4xx).   *)
(* A network error or any other status is retried on the same segment      *)
(* after an exponential backoff.                                           *)
(*                                                                         *)
(* shp is the step of Run.  The ingest endpoint is external: it keeps the  *)
(* batches it accepted, may answer anything or not at all, and its answer  *)
(* may be lost after it has taken the batch.                               *)
(***************************************************************************)
EXTENDS SpoolDir

CONSTANTS
    MinBackoff,   \* Config.MinBackoff
    MaxBackoff,   \* Config.MaxBackoff
    UrlOK         \* does Config.URL parse?  (the configuration only
                  \* requires that it is not empty)

ASSUME ShipperAssumption ==
    /\ MinBackoff \in Nat \ {0}
    /\ MaxBackoff \in Nat
    /\ MinBackoff <= MaxBackoff
    /\ UrlOK \in BOOLEAN

VARIABLES
    shp,        \* the step of Run
    work,       \* Run: what is left of segs
    seg,        \* shipWithRetry: path
    body,       \* ship: the batch that is being sent
    reply,      \* ship: the kind of answer, which decides about os.Remove
    backoff,    \* s.backoff
    ctxDone,    \* has the context of this Run been cancelled?
    shipResult, \* what Run returned
    ingest      \* external: the batches the endpoint has accepted

runVars == <<shp, work, seg, body, reply, shipResult>>
shipVars == <<runVars, backoff, ctxDone, ingest>>

Batch == [id : Nat, recs : SUBSET Line, whole : BOOLEAN]

NoBatch == [id |-> 0, recs |-> {}, whole |-> FALSE]

(* Mutation: the batch id is that of the directory, not of the file. *)
DirBatchOf(u) == [id |-> 1, recs |-> dir[u].recs, whole |-> dir[u].whole]

(* batchID: the name of the file without its suffix. *)
BatchOf(u) == [id |-> u, recs |-> dir[u].recs, whole |-> dir[u].whole]

-----------------------------------------------------------------------------
(* Run. *)

RunReturns(r) == shp' = "returned" /\ shipResult' = r

ShipBegin ==
    /\ shp = "idle"
    /\ shp' = "list"
    /\ shipResult' = "none"

ShipList ==
    /\ shp = "list"
    /\ \/ Ok /\ Segments = {} /\ RunReturns("ok") /\ UNCHANGED work
       \/ /\ Ok
          /\ Segments # {}
          /\ shp' = "next"
          /\ work' = Segments
          /\ UNCHANGED shipResult
       \/ Fails("shipList") /\ RunReturns("err") /\ UNCHANGED work
    /\ UNCHANGED <<dir, seg, body, reply, backoff, ctxDone, ingest>>

(* Mutation: the listing is not sorted. *)
AnyPath(u) == u \in work

(* The next path of the sorted listing. *)
FirstPath(u) == IsOldest(u, work)

(* The inner loop of Run: the next path, or a new listing. *)
ShipNext ==
    /\ shp = "next"
    /\ \/ /\ work = {}
          /\ shp' = "list"
          /\ UNCHANGED <<work, seg>>
       \/ \E u \in work :
             /\ FirstPath(u)
             /\ shp' = "read"
             /\ seg' = u
             /\ work' = work \ {u}
    /\ UNCHANGED <<dirVars, body, reply, shipResult, backoff, ctxDone, ingest>>

-----------------------------------------------------------------------------
(* shipWithRetry and ship. *)

(* ship is done with the segment, well or not; the backoff starts over. *)
Settled == shp' = "next" /\ backoff' = MinBackoff

(* Mutation: a segment that cannot be read is retried. *)
RetryRead == shp' = "sleep" /\ UNCHANGED backoff

(* A segment that cannot be read (it may have been evicted) is passed over. *)
PassOver == Settled

(* os.ReadFile and http.NewRequestWithContext. *)
ShipRead ==
    /\ shp = "read"
    /\ \/ /\ Ok
          /\ seg \in Segments
          /\ UrlOK
          /\ body' = BatchOf(seg)
          /\ shp' = "post"
          /\ UNCHANGED backoff
       \/ /\ \/ Ok /\ (seg \notin Segments \/ ~UrlOK)
             \/ Fails("shipRead")
          /\ PassOver
          /\ UNCHANGED body
    /\ UNCHANGED <<dir, work, seg, reply, shipResult, ctxDone, ingest>>

(***************************************************************************)
(* client.Do: a 2xx, a 4xx, another status, or an error, which includes a  *)
(* cancelled context and which may come after the endpoint took the batch. *)
(***************************************************************************)
(* Mutation: an error counts as an answer. *)
ErrorSettles(status) == /\ reply' = status
                        /\ shp' = IF status = "5xx" THEN "sleep" ELSE "remove"

(* Mutation: a failure is not retried, the next segment is taken. *)
NoRetry(status) == /\ reply' = status
                   /\ shp' = IF status \in {"2xx", "4xx"} THEN "remove"
                             ELSE "next"

Answered(status) == /\ reply' = status
                    /\ shp' = IF status \in {"2xx", "4xx"} THEN "remove"
                              ELSE "sleep"

ShipPost ==
    /\ shp = "post"
    /\ \/ Answered("2xx") /\ ingest' = ingest \cup {body}
       \/ Answered("4xx") /\ UNCHANGED ingest
       \/ Answered("5xx") /\ UNCHANGED ingest
       \/ Answered("error") /\ ingest' \in {ingest, ingest \cup {body}}
    /\ UNCHANGED <<dirVars, work, seg, body, shipResult, backoff, ctxDone>>

(* os.Remove(path); an error is logged and the next segment is taken. *)
ShipRemove ==
    /\ shp = "remove"
    /\ Settled
    /\ \/ /\ Ok
          /\ dir' = IF seg \in Segments
                    THEN Removed(seg, IF reply = "4xx" THEN "rejected"
                                      ELSE "shipped")
                    ELSE dir
       \/ Fails("shipRemove") /\ UNCHANGED dir
    /\ UNCHANGED <<work, seg, body, reply, shipResult, ctxDone, ingest>>

NextBackoff == IF 2 * backoff > MaxBackoff THEN MaxBackoff ELSE 2 * backoff

(* s.sleep: the timer fires and the same segment is tried again... *)
ShipRetry ==
    /\ shp = "sleep"
    /\ shp' = "read"
    /\ backoff' = NextBackoff
    /\ UNCHANGED <<dirVars, work, seg, body, reply, shipResult, ctxDone,
                   ingest>>

(* Mutation: a cancelled sleep gives up this segment only. *)
SkipSegment ==
    /\ shp = "sleep"
    /\ ctxDone
    /\ shp' = "next"
    /\ UNCHANGED <<dirVars, work, seg, body, reply, shipResult, backoff,
                   ctxDone, ingest>>

(* ...or the context is cancelled. *)
ShipAbort ==
    /\ shp = "sleep"
    /\ ctxDone
    /\ RunReturns("err")
    /\ UNCHANGED <<dirVars, work, seg, body, reply, backoff, ctxDone, ingest>>

(* The steps that need no one's cooperation. *)
ShipStep == ShipList \/ ShipNext \/ ShipRead \/ ShipRemove \/ ShipRetry

(* A POST may take forever, but not once its context is cancelled. *)
ShipPostCancelled == ctxDone /\ ShipPost

ShipInit ==
    /\ shp = "idle"
    /\ work = {}
    /\ seg = 0
    /\ body = NoBatch
    /\ reply = "none"
    /\ backoff = MinBackoff
    /\ ctxDone = FALSE
    /\ shipResult = "none"
    /\ ingest = {}

-----------------------------------------------------------------------------
(***************************************************************************)
(* The shipper alone.  Seen from here the spool publishes complete         *)
(* segments one after the other and may evict any of them; the agent calls *)
(* Run again and again, with a context it may cancel.                      *)
(***************************************************************************)
hvars == <<dirVars, shipVars>>

SpoolPublishes ==
    /\ \E u \in Ulids :
          /\ dir[u].state = "absent"
          /\ \A v \in Ulids : dir[v].state = "absent" => u <= v
          /\ dir' = [dir EXCEPT ![u] = [state |-> "zst",
                                       recs  |-> {Collected(u)},
                                       whole |-> TRUE,
                                       size  |-> 1]]
    /\ UNCHANGED <<faults, shipVars>>

SpoolEvicts ==
    /\ \E u \in Segments : dir' = Removed(u, "evicted")
    /\ UNCHANGED <<faults, shipVars>>

CallRun ==
    /\ ShipBegin
    /\ ctxDone' = FALSE
    /\ UNCHANGED <<dirVars, work, seg, body, reply, backoff, ingest>>

Cancel ==
    /\ shp # "idle"
    /\ ctxDone' = TRUE
    /\ UNCHANGED <<dirVars, runVars, backoff, ingest>>

RunDone ==
    /\ shp = "returned"
    /\ shp' = "idle"
    /\ UNCHANGED <<dirVars, work, seg, body, reply, shipResult, backoff,
                   ctxDone, ingest>>

ShipperInit == DirInit /\ ShipInit

ShipperNext ==
    \/ SpoolPublishes \/ SpoolEvicts
    \/ CallRun \/ Cancel \/ RunDone
    \/ ShipStep \/ ShipPost \/ ShipAbort

(***************************************************************************)
(* Go's select takes a ready branch at random, so the branch on ctx.Done   *)
(* is not passed over forever (strong fairness).  The agent's ticker calls *)
(* Run again when it has returned.                                         *)
(***************************************************************************)
ShipperSpec ==
    /\ ShipperInit
    /\ [][ShipperNext]_hvars
    /\ WF_hvars(ShipStep)
    /\ WF_hvars(ShipPostCancelled)
    /\ SF_hvars(ShipAbort)
    /\ WF_hvars(CallRun \/ RunDone)

-----------------------------------------------------------------------------
(* Properties. *)

(* The type invariant: every variable of the shipper has its type. *)
ShipTypeOK ==
    /\ DirTypeOK
    /\ shp \in {"idle", "list", "next", "read", "post", "remove", "sleep",
                "returned"}
    /\ work \subseteq Ulids
    /\ seg \in Ulids \cup {0}
    /\ body \in Batch
    /\ reply \in {"none", "2xx", "4xx", "5xx", "error"}
    /\ backoff \in MinBackoff .. MaxBackoff
    /\ ctxDone \in BOOLEAN
    /\ shipResult \in {"none", "ok", "err"}
    /\ ingest \subseteq Batch

(***************************************************************************)
(* A segment is unlinked as shipped only once the endpoint has it: all of  *)
(* its lines, complete, under its own batch id, whatever was retried,      *)
(* lost, evicted or cancelled in between.                                  *)
(***************************************************************************)
ShippedIsIngested ==
    \A u \in Ulids : dir[u].state = "shipped" => BatchOf(u) \in ingest

(***************************************************************************)
(* A batch id means one thing: two accepted batches with the same          *)
(* X-Batch-Id are the same, so that an endpoint which drops the second as  *)
(* a repetition (a retry after a lost answer) loses nothing.               *)
(***************************************************************************)
BatchIdsStable == \A b, c \in ingest : b.id = c.id => b = c

(***************************************************************************)
(* Run "ships each in order": no batch is accepted while an older segment  *)
(* is still waiting, as long as every file could be listed, read and       *)
(* removed (Run passes over a file that cannot).  A clock that was set     *)
(* back changes the order of the segments it dates, and of no others.      *)
(***************************************************************************)
ShipsInOrder ==
    [][faults = 0 => \A b \in ingest' \ ingest, u \in Segments :
                         b.id <= u \/ b.id \in Behind]_hvars

(***************************************************************************)
(* "Run returns [...] when ctx is cancelled." (the comment on Run).        *)
(***************************************************************************)
RunReturnsOnCancel == ctxDone ~> shp \in {"idle", "returned"}

(***************************************************************************)
(* No segment stays behind: once the shipper is left to run and the        *)
(* endpoint accepts a batch now and then (every retry of it may fail in    *)
(* between), each segment leaves the directory, also when others vanish    *)
(* under the shipper's hands or could not be listed, read or removed.      *)
(***************************************************************************)
EverySegmentGoes ==
    <>[]~ctxDone /\ SF_hvars(ShipPost /\ reply' = "2xx")
        => \A u \in Ulids : dir[u].state = "zst" ~> dir[u].state # "zst"
=============================================================================
