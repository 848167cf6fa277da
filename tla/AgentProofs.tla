----------------------------- MODULE AgentProofs ----------------------------
(***************************************************************************)
(* Proofs about the whole agent, for any number of sources, envelopes,     *)
(* segments, processes and failures, in push and in bundle mode.  They     *)
(* compose the invariant of the spool with that of the shipper: each step  *)
(* of the agent is a step of the one, of the other or of neither, and what *)
(* one does to the directory keeps the invariant of the other.             *)
(***************************************************************************)
EXTENDS Agent, SpoolAccounts, ShipperProofs

-----------------------------------------------------------------------------
(* What the spool does, seen by the shipper. *)

(* No segment becomes "shipped". *)
NoneShipped == \A u \in Ulids : dir'[u].state = "shipped" =>
                                dir[u].state = "shipped"

(* Segment u was given up: the endpoint refused it, or the cap evicted it. *)
GivenUp(u) == dir[u].state \in {"rejected", "evicted"}

(* Only a segment that is there can be given up, and for good. *)
GivesUp == \A u \in Ulids : /\ GivenUp(u) => GivenUp(u)'
                            /\ GivenUp(u)' => GivenUp(u) \/ u \in Segments

(* A step that leaves the directory alone. *)
LEMMA QuietForShipper ==
    ASSUME UNCHANGED dir
    PROVE  ContentStays /\ NoneShipped /\ GivesUp
BY DEF ContentStays, NoneShipped, GivesUp, GivenUp, Visible, BatchOf

(* A step that changes only one file, and that one not yet visible. *)
LEMMA HiddenForShipper ==
    ASSUME NEW u \in Ulids, ~Visible(u), dir'[u].state \notin Unlinked,
           \A v \in Ulids : v # u => dir'[v] = dir[v]
    PROVE  ContentStays /\ NoneShipped /\ GivesUp
BY DEF ContentStays, NoneShipped, GivesUp, GivenUp, Visible, BatchOf, Unlinked

(* A call into the spool, or a step of one, keeps what the shipper can see, *)
(* ships nothing, and gives up only segments. *)
LEMMA SpoolKeepsSegments ==
    ASSUME LossInv, Open \/ BeginWrite \/ BeginClose \/ SpoolStep
    PROVE  ContentStays /\ NoneShipped /\ GivesUp
<1>0. SpoolTypeOK /\ RotationInv
  BY DEF LossInv
<1>1. CASE Open
  BY <1>1 DEF Open, WithoutTmps, Tmps, NoFile, ContentStays, NoneShipped,
              GivesUp, GivenUp, Visible, BatchOf, Unlinked
<1>2. CASE UNCHANGED dir
  BY <1>2, QuietForShipper
<1>3. CASE Create
  <2>1. nextUlid \in Ulids /\ dir[nextUlid].state = "absent"
    BY <1>0, <1>3, SpoolDirAssumption
       DEF Create, SpoolTypeOK, Ulids, RotationInv
  <2>2. CASE dir' = [dir EXCEPT ![nextUlid].state = NewName]
    <3>1. dir'[nextUlid].state = "tmp"
      BY <1>0, <2>1, <2>2 DEF NewName, SpoolTypeOK, DirTypeOK, File
    <3>2. \A v \in Ulids : v # nextUlid => dir'[v] = dir[v]
      BY <1>0, <2>2 DEF SpoolTypeOK, DirTypeOK
    <3> QED
      BY <2>1, <3>1, <3>2, HiddenForShipper DEF Visible, Unlinked
  <2> QED
    BY <1>2, <1>3, <2>2 DEF Create
<1>4. CASE Compress
  <2>1. cur \in Ulids /\ dir[cur].state = "tmp"
    BY <1>0, <1>4 DEF Compress, RotationInv
  <2>2. ASSUME NEW n \in SegSizes,
               dir' = [dir EXCEPT ![cur] = [@ EXCEPT !.recs = active.lines,
                                                     !.whole = TRUE,
                                                     !.size = n]]
        PROVE  ContentStays /\ NoneShipped /\ GivesUp
    <3>1. dir'[cur].state = "tmp"
      BY <1>0, <2>1, <2>2 DEF SpoolTypeOK, DirTypeOK, File
    <3>2. \A v \in Ulids : v # cur => dir'[v] = dir[v]
      BY <1>0, <2>2 DEF SpoolTypeOK, DirTypeOK
    <3> QED
      BY <2>1, <3>1, <3>2, HiddenForShipper DEF Visible, Unlinked
  <2> QED
    BY <1>2, <1>4, <2>2 DEF Compress
<1>5. CASE Publish
  <2>1. cur \in Ulids /\ dir[cur].state = "tmp"
    BY <1>0, <1>5 DEF Publish, RotationInv
  <2>2. CASE dir' = [dir EXCEPT ![cur].state = "zst"]
    <3>1. dir'[cur].state = "zst"
      BY <1>0, <2>1, <2>2 DEF SpoolTypeOK, DirTypeOK, File
    <3>2. \A v \in Ulids : v # cur => dir'[v] = dir[v]
      BY <1>0, <2>2 DEF SpoolTypeOK, DirTypeOK
    <3> QED
      BY <2>1, <3>1, <3>2, HiddenForShipper DEF Visible, Unlinked
  <2> QED
    BY <1>2, <1>5, <2>2 DEF Publish, RenameFails
<1>6. CASE CapRemove
  <2>1. CASE \E u \in Segments : dir' = Removed(u, "evicted")
    <3>1. PICK u \in Ulids : /\ dir[u].state = "zst"
                             /\ dir' = Removed(u, "evicted")
      BY <2>1 DEF Segments
    <3>2. /\ dir'[u].state = "evicted"
          /\ dir'[u].recs = dir[u].recs
          /\ dir'[u].whole = dir[u].whole
      BY <1>0, <3>1 DEF Removed, SpoolTypeOK, DirTypeOK, File
    <3>3. \A v \in Ulids : v # u => dir'[v] = dir[v]
      BY <1>0, <3>1 DEF Removed, SpoolTypeOK, DirTypeOK
    <3> QED
      BY <3>1, <3>2, <3>3 DEF ContentStays, NoneShipped, GivesUp, GivenUp,
                              Segments, Visible, BatchOf, Unlinked
  <2> QED
    BY <1>2, <1>6, <2>1 DEF CapRemove
<1>7. CASE BeginWrite \/ BeginClose \/ Append \/ Seal \/ Reopen \/ CapList
           \/ CapStat \/ CapCompare \/ CapWarn \/ CloseFile
  BY <1>2, <1>7 DEF BeginWrite, BeginClose, Append, Seal, Reopen, CapList,
                    CapStat, CapCompare, CapWarn, CloseFile
<1> QED
  BY <1>1, <1>3, <1>4, <1>5, <1>6, <1>7 DEF SpoolStep

-----------------------------------------------------------------------------
(* The kinds of steps the agent takes. *)

(* A call of Open, Write or Close begins, or goes on. *)
InSpool == UNCHANGED shipVars /\ (Open \/ BeginWrite \/ BeginClose \/ SpoolStep)

(* Shipper.Run goes on. *)
InShipper == UNCHANGED spoolVars /\ (ShipStep \/ ShipPost \/ ShipAbort)

(* Shipper.Run is called or returns, or its context is cancelled; or nothing *)
(* of this happens, but something in a source or in Run. *)
Around ==
    /\ UNCHANGED <<dirVars, spoolVars, work, seg, body, reply, backoff, ingest>>
    /\ shp' \in {"idle", "list"} \/ UNCHANGED shp
    /\ shipResult' \in {"none", shipResult}
    /\ ctxDone' \in {TRUE, FALSE, ctxDone}

(* There is no other kind. *)
LEMMA StepKinds ==
    ASSUME [AgentNext]_vars
    PROVE  InSpool \/ InShipper \/ Around \/ Die
<1>1. CASE \E s \in Sources : Tick(s) \/ Unlock(s) \/ Stop(s)
  BY <1>1 DEF Tick, Unlock, Stop, Around, shipVars, runVars
<1>10. CASE Setup \/ SetupFails
  BY <1>10 DEF Setup, SetupFails, Around, shipVars, runVars
<1>2. CASE \E s \in Sources : Lock(s)
  BY <1>2 DEF Lock, InSpool
<1>3. CASE DrainTick \/ DrainReturns \/ DrainStop
  BY <1>3 DEF DrainTick, DrainReturns, DrainStop, ShipBegin, Around, shipVars,
              runVars
<1>4. CASE Start \/ WaitDone
  BY <1>4 DEF Start, WaitDone, InSpool
<1>5. CASE Sigterm \/ DrainTimeout
  BY <1>5 DEF Sigterm, DrainTimeout, Around, runVars
<1>6. CASE CloseReturns \/ FinalDrain \/ FinalDrainReturns
  BY <1>6 DEF CloseReturns, FinalDrain, FinalDrainReturns, ShipBegin, Around,
              shipVars, runVars
<1>7. CASE SpoolGoes
  BY <1>7 DEF SpoolGoes, InSpool
<1>8. CASE ShipGoes \/ PostGoes \/ AbortGoes
  BY <1>8 DEF ShipGoes, PostGoes, AbortGoes, InShipper
<1>9. CASE UNCHANGED vars
  BY <1>9 DEF vars, shipVars, runVars, Around
<1> QED
  BY <1>1, <1>2, <1>3, <1>4, <1>5, <1>6, <1>7, <1>8, <1>9,
     <1>10 DEF AgentNext

-----------------------------------------------------------------------------
(* The two invariants hold together. *)

(* What the shipper does, seen by the spool: it removes a segment, or at *)
(* most runs into a failure. *)
LEMMA ShipperForSpool ==
    ASSUME SpoolTypeOK, InShipper
    PROVE  \/ ShipperRemoves
           \/ /\ UNCHANGED <<dir, spoolVars>>
              /\ faults' \in Nat
              /\ faults' = 0 => faults = 0
<1> USE DEF SpoolTypeOK, DirTypeOK, Ok, Fails
<1>1. CASE ShipList \/ ShipNext \/ ShipRead \/ ShipRetry \/ ShipPost
           \/ ShipAbort
  BY <1>1 DEF InShipper, ShipList, ShipNext, ShipRead, ShipRetry, ShipPost,
              ShipAbort, dirVars
<1>2. CASE ShipRemove
  BY <1>2 DEF InShipper, ShipRemove, ShipperRemoves
<1> QED
  BY <1>1, <1>2 DEF InShipper, ShipStep

(* The spool's invariant is not about how many failures there were. *)
LEMMA SpoolInvKept ==
    ASSUME SpoolInv, UNCHANGED <<dir, spoolVars>>, faults' \in Nat,
           faults' = 0 => faults = 0
    PROVE  SpoolInv'
<1>1. UNCHANGED <<active, handle, activeSize, pc, cont, arg, cur, listed, todo,
                  total, result, nextUlid, nextRec, accepted, glued, starts>>
  BY DEF spoolVars, memVars, envVars
<1>2. SpoolTypeOK'
  BY <1>1 DEF SpoolInv, LossInv, SpoolTypeOK, DirTypeOK
<1>3. RotationInv' /\ WholeSegments' /\ NoLoss'
  BY <1>1 DEF SpoolInv, LossInv, RotationInv, WholeSegments, NoLoss, Published
<1>4. FreshInv'
  BY <1>1, <1>2, QuietAddsNone, FreshKept DEF SpoolInv, LossInv, ToAppend
<1>5. FlushInv'
  BY <1>1 DEF SpoolInv, FlushInv, OnlyWarnings
<1>6. TmpInv'
  BY <1>1, QuietTmps DEF SpoolInv, TmpInv, OneTmp
<1>7. AccountInv'
  BY <1>1, QuietAccount, AccountKept DEF SpoolInv
<1> QED
  BY <1>2, <1>3, <1>4, <1>5, <1>6, <1>7 DEF SpoolInv, LossInv

(* Every step of the agent keeps the spool's invariant. *)
LEMMA SpoolInAgent ==
    ASSUME SpoolInv, [AgentNext]_vars
    PROVE  SpoolInv'
<1>0. SpoolTypeOK
  BY DEF SpoolInv, LossInv
<1>1. ASSUME SpoolNext PROVE SpoolInv'
  BY <1>1, SpoolInvInductive
<1>2. CASE InSpool
  BY <1>1, <1>2 DEF InSpool, SpoolNext
<1>3. CASE InShipper
  BY <1>0, <1>1, <1>3, ShipperForSpool, SpoolInvKept DEF SpoolNext
<1>4. CASE Around
  BY <1>0, <1>4, SpoolInvKept DEF Around, dirVars, SpoolTypeOK, DirTypeOK
<1>5. CASE Die
  BY <1>1, <1>5 DEF Die, SpoolNext
<1> QED
  BY <1>2, <1>3, <1>4, <1>5, StepKinds

(* Every step of the agent keeps the shipper's invariant. *)
LEMMA ShippingInAgent ==
    ASSUME SpoolInv, ShippingInv, [AgentNext]_vars
    PROVE  ShippingInv'
<1>0. ShipTypeOK /\ DirTypeOK'
  BY SpoolInAgent DEF ShippingInv, SpoolInv, LossInv, SpoolTypeOK
<1>1. CASE InSpool
  <2>1. UNCHANGED <<shp, work, seg, body, reply, shipResult, backoff, ctxDone,
                    ingest>>
    BY <1>1 DEF InSpool, shipVars, runVars
  <2>2. ShipTypeOK'
    BY <1>0, <2>1 DEF ShipTypeOK
  <2>3. ContentStays /\ NoneShipped
    BY <1>1, SpoolKeepsSegments DEF InSpool, SpoolInv
  <2> QED
    BY <2>1, <2>2, <2>3, DirOnlyStep DEF NoneShipped
<1>2. CASE InShipper
  BY <1>0, <1>2, ShipTypeInductive, ShippingInductive
     DEF InShipper, ShipperNext
<1>3. CASE Around
  <2>1. ShipTypeOK'
    BY <1>0, <1>3 DEF Around, ShipTypeOK
  <2>2. UNCHANGED <<dir, seg, body, reply, ingest>>
    BY <1>3 DEF Around, dirVars
  <2>3. CASE shp' \in {"idle", "list"}
    BY <2>1, <2>2, <2>3, RunOnlyStep
  <2>4. CASE UNCHANGED shp
    BY <2>1, <2>2, <2>4, QuietForShipper, DirOnlyStep
  <2> QED
    BY <1>3, <2>3, <2>4 DEF Around
<1>4. CASE Die
  <2>1. MinBackoff \in MinBackoff .. MaxBackoff /\ NoBatch \in Batch
    BY ShipperAssumption DEF NoBatch, Batch
  <2>2. ShipTypeOK'
    BY <1>0, <1>4, <2>1 DEF Die, ShipTypeOK
  <2> QED
    BY <1>4, <2>2, RunOnlyStep DEF Die, Crash
<1> QED
  BY <1>1, <1>2, <1>3, <1>4, StepKinds

(* Both hold at the start. *)
LEMMA BothBegin ==
    ASSUME AgentInit
    PROVE  SpoolInv /\ ShippingInv
BY SpoolInvBegins, ShippingBegins DEF AgentInit, SpoolInit, ShipperInit

(* Both are invariants of the agent. *)
LEMMA BothHold == AgentSpec => [](SpoolInv /\ ShippingInv)
<1>1. AgentInit => SpoolInv /\ ShippingInv
  BY BothBegin
<1>2. SpoolInv /\ ShippingInv /\ [AgentNext]_vars => SpoolInv' /\ ShippingInv'
  BY SpoolInAgent, ShippingInAgent
<1> QED
  BY <1>1, <1>2, PTL DEF AgentSpec, AgentSafety

(***************************************************************************)
(* End to end: in every behaviour of the whole agent, with both programs   *)
(* on the same files without a lock, with every failure, with kills and    *)
(* restarts in either mode, a line whose append succeeded is in the active *)
(* file, in a segment, or with the endpoint, unless the endpoint refused   *)
(* it or the cap evicted it.                                               *)
(***************************************************************************)
THEOREM AgentLosesNothing == AgentSpec => []NothingLost
<1>1. SpoolInv /\ ShippingInv => NothingLost
  <2> SUFFICES ASSUME LossInv, ShippingInv PROVE NothingLost
    BY DEF SpoolInv
  <2>1. \A u \in Ulids : dir[u].state = "shipped" =>
            \E b \in ingest : b.whole /\ b.recs = dir[u].recs
    BY DEF LossInv, ShippingInv, ShippedIsIngested, WholeSegments, Published,
           Unlinked, BatchOf
  <2> QED
    BY <2>1 DEF LossInv, NoLoss, Published, Unlinked, NothingLost
<1> QED
  BY <1>1, BothHold, PTL

(***************************************************************************)
(* The endpoint only gets complete segments, each under an id of its own,  *)
(* although rotate creates, renames and evicts files while the shipper     *)
(* lists and reads the directory.                                          *)
(***************************************************************************)
THEOREM IngestIsSound == AgentSpec => []IngestSound
<1>1. SpoolInv /\ ShippingInv => IngestSound
  <2> SUFFICES ASSUME LossInv, ShippingInv PROVE IngestSound
    BY DEF SpoolInv
  <2>1. \A b \in ingest : b.whole
    BY DEF LossInv, ShippingInv, IngestIsContent, Visible, WholeSegments,
           Published, BatchOf
  <2>2. BatchIdsStable
    BY DEF ShippingInv, IngestIsContent, BatchIdsStable
  <2> QED
    BY <2>1, <2>2 DEF IngestSound
<1> QED
  BY <1>1, BothHold, PTL

(***************************************************************************)
(* What the spool promises on its own it keeps inside the agent, where     *)
(* Shipper.Run unlinks segments at its own pace: its warnings are exact,   *)
(* rotations leave nothing over, and Close flushes.                        *)
(***************************************************************************)
THEOREM SpoolKeepsItsWord ==
    AgentSpec => [](WarningsExact /\ NoLeftovers /\ CloseFlushesEnvelopes)
<1>1. SpoolInv => WarningsExact /\ NoLeftovers /\ CloseFlushesEnvelopes
  BY DEF SpoolInv, AccountInv, TmpInv, NoLeftovers, FlushInv, OnlyWarnings,
         CloseFlushesEnvelopes
<1> QED
  BY <1>1, BothHold, PTL

-----------------------------------------------------------------------------
(* At-least-once delivery. *)

(* What the endpoint has, batch by batch, now and after the step. *)
LEMMA DeliveredIs ==
    ASSUME NEW l
    PROVE  /\ l \in Delivered <=> \E b \in ingest : b.whole /\ l \in b.recs
           /\ l \in Delivered' <=> \E b \in ingest' : b.whole /\ l \in b.recs
BY DEF Delivered

(* What was given up, file by file, now and after the step. *)
LEMMA DroppedIs ==
    ASSUME NEW l
    PROVE  /\ l \in Dropped <=> \E u \in Ulids : GivenUp(u) /\ l \in dir[u].recs
           /\ l \in Dropped' <=>
                 \E u \in Ulids : GivenUp(u)' /\ l \in dir'[u].recs
BY DEF Dropped, GivenUp

(* Who has a line that is in a segment, now or before it was unlinked. *)
LEMMA VisibleLines ==
    ASSUME LossInv, ShippingInv, NEW u \in Ulids, Visible(u),
           NEW l \in dir[u].recs
    PROVE  l \in Held \cup Delivered \cup Dropped
<1>1. CASE dir[u].state = "zst"
  BY <1>1, HeldIs
<1>2. CASE dir[u].state = "shipped"
  <2>1. BatchOf(u) \in ingest
    BY <1>2 DEF ShippingInv, ShippedIsIngested
  <2>2. BatchOf(u).recs = dir[u].recs /\ BatchOf(u).whole
    BY <1>2 DEF BatchOf, LossInv, WholeSegments, Published, Unlinked
  <2> QED
    BY <2>1, <2>2, DeliveredIs
<1>3. CASE GivenUp(u)
  BY <1>3, DroppedIs
<1> QED
  BY <1>1, <1>2, <1>3 DEF Visible, Unlinked, GivenUp

(* A line that was released is with the endpoint, or was given up. *)
Accounted == Released \subseteq Delivered \cup Dropped

LEMMA ReleasedLines ==
    ASSUME LossInv, ShippingInv
    PROVE  Accounted
<1> SUFFICES ASSUME NEW l \in Released PROVE l \in Delivered \cup Dropped
  BY DEF Accounted
<1>1. PICK u \in Ulids : dir[u].state \in Unlinked /\ l \in dir[u].recs
  BY ReleasedIs
<1>2. CASE dir[u].state = "shipped"
  <2>1. BatchOf(u) \in ingest
    BY <1>2 DEF ShippingInv, ShippedIsIngested
  <2>2. BatchOf(u).recs = dir[u].recs /\ BatchOf(u).whole
    BY <1>2 DEF BatchOf, LossInv, WholeSegments, Published, Unlinked
  <2> QED
    BY <1>1, <2>1, <2>2, DeliveredIs
<1>3. CASE GivenUp(u)
  BY <1>1, <1>3, DroppedIs
<1> QED
  BY <1>1, <1>2, <1>3 DEF Unlinked, GivenUp

(* A line that no file ever had is nowhere. *)
LEMMA NewLineIsNowhere ==
    ASSUME LossInv, ShippingInv, NEW l \in Line, ~HasLine(l)
    PROVE  l \notin Held \cup Delivered \cup Dropped
<1>1. l \notin Held /\ l \notin Dropped
  BY HeldIs, DroppedIs DEF HasLine
<1>2. \A b \in ingest : l \notin b.recs
  BY DEF HasLine, ShippingInv, IngestIsContent, BatchOf
<1> QED
  BY <1>1, <1>2, DeliveredIs

(* An append, in the eyes of the recipient. *)
LEMMA AppendDelivers ==
    ASSUME LossInv, ShippingInv, NEW l \in Line, ~HasLine(l),
           Appended(l) \/ NotAppended, UNCHANGED <<dir, ingest>>
    PROVE  Delivers!Take \/ UNCHANGED <<Held, Delivered, Dropped>>
<1>1. UNCHANGED <<Delivered, Dropped>>
  BY DEF Delivered, Dropped
<1>2. SpoolTypeOK
  BY DEF LossInv
<1>3. Store!Take => Held' = Held \cup {l}
  <2> SUFFICES ASSUME Store!Take PROVE Held' = Held \cup {l}
    OBVIOUS
  <2>1. PICK k \in Held' : k \notin Held /\ Held' = Held \cup {k}
    BY DEF Store!Take
  <2>2. active'.lines \subseteq active.lines \cup {l}
    BY <1>2 DEF Appended, EndsTorn, NotAppended, SpoolTypeOK
  <2>3. k = l
    BY <2>1, <2>2, HeldIs, HeldIsNext
  <2> QED
    BY <2>1, <2>3
<1>4. l \notin Held \cup Delivered \cup Dropped
  BY NewLineIsNowhere
<1>5. CASE Store!Take
  BY <1>1, <1>3, <1>4, <1>5 DEF Delivers!Take, Delivers!Lines
<1>6. CASE UNCHANGED <<Held, Released>>
  BY <1>1, <1>6
<1> QED
  BY <1>2, <1>5, <1>6, AppendTakes

(* A release, in the eyes of the recipient. *)
LEMMA ReleaseDelivers ==
    ASSUME Accounted', ContentStays, GivesUp,
           Store!Release \/ UNCHANGED <<Held, Released>>, UNCHANGED ingest
    PROVE  Delivers!Leave
<1>1. UNCHANGED Delivered
  BY DEF Delivered
<1>2. Held' \subseteq Held /\ Held \ Held' \subseteq Released'
  BY DEF Store!Release
<1>3. Released' \subseteq Delivered' \cup Dropped'
  BY DEF Accounted
<1>4. \A u \in Ulids : Visible(u) => dir'[u].recs = dir[u].recs
  BY DEF ContentStays, BatchOf
<1>5. \A u \in Ulids : GivenUp(u) \/ u \in Segments => Visible(u)
  BY DEF GivenUp, Segments, Visible, Unlinked
<1>6. Dropped \subseteq Dropped'
  BY <1>4, <1>5, DroppedIs DEF GivesUp
<1>7. Dropped' \subseteq Dropped \cup Held
  BY <1>4, <1>5, DroppedIs, HeldIs DEF GivesUp, Segments
<1> QED
  BY <1>1, <1>2, <1>3, <1>6, <1>7 DEF Delivers!Leave

(* What the shipper's os.Remove gives up. *)
LEMMA RemovalGivesUp ==
    ASSUME ShipTypeOK, NEW u \in Segments, NEW why \in {"shipped", "rejected"},
           dir' = Removed(u, why)
    PROVE  ContentStays /\ GivesUp
<1>1. u \in Ulids /\ dir[u].state = "zst" /\ why \in Unlinked
  BY DEF Segments, Unlinked
<1>2. /\ ContentStays
      /\ dir'[u].state = why
      /\ \A v \in Ulids \ {u} : dir'[v] = dir[v]
  BY <1>1, RemovalKeepsContent
<1> QED
  BY <1>1, <1>2 DEF GivesUp, GivenUp, Segments

(***************************************************************************)
(* Every step of the agent takes, delivers or lets go of lines, or changes *)
(* nothing the recipient can see.                                          *)
(***************************************************************************)
LEMMA StepDelivers ==
    ASSUME SpoolInv, ShippingInv, Accounted', [AgentNext]_vars
    PROVE  [Delivers!Next]_<<Held, Delivered, Dropped>>
<1> USE DEF Delivers!Next
<1>0. /\ LossInv /\ FreshInv
      /\ SpoolTypeOK /\ ShipTypeOK
  BY DEF SpoolInv, LossInv, ShippingInv
<1>1. CASE UNCHANGED <<dir, active, ingest>>
  BY <1>1 DEF Held, Segments, Delivered, Dropped
<1>2. CASE InSpool
  <2>1. UNCHANGED ingest
    BY <1>2 DEF InSpool, shipVars
  <2>2. CASE Append
    <3>1. arg \in Line /\ ~HasLine(arg) /\ UNCHANGED dir
      BY <1>0, <2>2 DEF Append, SpoolTypeOK, FreshInv, ArgIsNew, ToAppend
    <3> QED
      BY <1>0, <2>1, <2>2, <3>1, AppendDelivers DEF Append
  <2>3. CASE CapWarn
    <3>1. Warning(cur) \in Line /\ ~HasLine(Warning(cur)) /\ UNCHANGED dir
      BY <2>3, UlidLines, <1>0 DEF CapWarn, FreshInv, WarningIsNew
    <3> QED
      BY <1>0, <2>1, <2>3, <3>1, AppendDelivers DEF CapWarn
  <2>4. CASE ~Append /\ ~CapWarn
    <3>1. Store!Release \/ UNCHANGED <<Held, Released>>
      BY <1>0, <1>2, <2>4, StepReleases DEF InSpool, SpoolNext
    <3>2. ContentStays /\ GivesUp
      BY <1>0, <1>2, SpoolKeepsSegments DEF InSpool
    <3> QED
      BY <1>0, <2>1, <3>1, <3>2, ReleaseDelivers
  <2> QED
    BY <2>2, <2>3, <2>4
<1>3. CASE InShipper
  <2>1. UNCHANGED <<spoolVars, active>>
    BY <1>3 DEF InShipper, spoolVars
  <2>2. CASE ShipList \/ ShipNext \/ ShipRead \/ ShipRetry \/ ShipAbort
    <3>1. UNCHANGED <<dir, ingest>>
      BY <2>2 DEF ShipList, ShipNext, ShipRead, ShipRetry, ShipAbort, dirVars
    <3> QED
      BY <1>1, <2>1, <3>1
  <2>3. CASE ShipPost
    <3>1. /\ UNCHANGED dir
          /\ ingest' \in {ingest, ingest \cup {body}}
          /\ seg \in Ulids /\ Visible(seg) /\ body.recs = dir[seg].recs
      BY <2>3 DEF ShipPost, dirVars, ShippingInv, InFlight, BatchOf
    <3>2. UNCHANGED <<Held, Dropped>>
      BY <2>1, <3>1 DEF Held, Segments, Dropped
    <3>3. Delivered \subseteq Delivered'
      BY <3>1, DeliveredIs
    <3>4. Delivered' \subseteq Held \cup Delivered \cup Dropped
      BY <1>0, <3>1, DeliveredIs, VisibleLines
    <3> QED
      BY <3>2, <3>3, <3>4 DEF Delivers!Deliver, Delivers!Lines
  <2>4. CASE ShipRemove
    <3>1. UNCHANGED ingest
      BY <2>4 DEF ShipRemove
    <3>2. CASE UNCHANGED dir
      BY <1>1, <2>1, <3>1, <3>2
    <3>3. ASSUME NEW why \in {"shipped", "rejected"}, seg \in Segments,
                 dir' = Removed(seg, why)
          PROVE  Delivers!Leave
      <4>1. why \in Unlinked
        BY DEF Unlinked
      <4>2. Store!Release
        BY <1>0, <2>1, <3>3, <4>1, UnlinkReleases
      <4>3. ContentStays /\ GivesUp
        BY <1>0, <3>3, RemovalGivesUp
      <4> QED
        BY <1>0, <3>1, <4>2, <4>3, ReleaseDelivers
    <3> QED
      BY <2>4, <3>2, <3>3 DEF ShipRemove
  <2> QED
    BY <1>3, <2>2, <2>3, <2>4 DEF InShipper, ShipStep
<1>4. CASE Around
  BY <1>1, <1>4 DEF Around, dirVars, spoolVars
<1>5. CASE Die
  BY <1>1, <1>5 DEF Die, Crash
<1> QED
  BY <1>2, <1>3, <1>4, <1>5, StepKinds

(***************************************************************************)
(* The whole agent, with sources, spool, shipper, shutdown, kills and      *)
(* restarts, implements at-least-once delivery: the endpoint gets only     *)
(* lines that were taken, and a line leaves the disk only when the         *)
(* endpoint has it, refused it, or the cap gave it up.                     *)
(***************************************************************************)
THEOREM AgentDelivers == AgentSpec => RefinesDelivery
<1>1. AgentInit => Delivers!Init
  BY DEF AgentInit, SpoolInit, DirInit, ShipInit, NoFile, Empty, Held,
         Segments, Delivered, Dropped, Delivers!Init
<1>2. AgentInit => SpoolInv /\ ShippingInv
  BY BothBegin
<1>3. SpoolInv /\ ShippingInv /\ [AgentNext]_vars => SpoolInv' /\ ShippingInv'
  BY SpoolInAgent, ShippingInAgent
<1>4. SpoolInv /\ ShippingInv => Accounted
  BY ReleasedLines DEF SpoolInv
<1>5. SpoolInv /\ ShippingInv /\ Accounted' /\ [AgentNext]_vars
         => [Delivers!Next]_<<Held, Delivered, Dropped>>
  BY StepDelivers
<1> QED
  BY <1>1, <1>2, <1>3, <1>4, <1>5, PTL
     DEF AgentSpec, AgentSafety, RefinesDelivery, Delivers!Spec

-----------------------------------------------------------------------------
(* Who is in the spool. *)

(* A source that writes or is about to has an envelope left, and only a *)
(* running agent has sources that are not done. *)
CallerInv ==
    /\ AgentTypeOK
    /\ \A s \in Sources : src[s] \in {"lock", "write"} => left[s] > 0
    /\ main # "run" => \A s \in Sources : src[s] = "done"
    /\ main = "setup" => pc = "idle"
    /\ OneSpoolCaller

(* A call that makes a step has begun and has not returned before it. *)
LEMMA StepOfACall ==
    ASSUME SpoolStep
    PROVE  pc \notin {"down", "idle"}
BY DEF SpoolStep, Append, Seal, Create, Compress, Publish, Reopen, CapList,
       CapStat, CapCompare, CapRemove, CapWarn, CloseFile

(* The steps of a source. *)
LEMMA CallerInSource ==
    ASSUME CallerInv, NEW s \in Sources,
           Tick(s) \/ Lock(s) \/ Unlock(s) \/ Stop(s)
    PROVE  CallerInv'
<1> USE DEF CallerInv, AgentTypeOK, OneSpoolCaller
<1>1. CASE Tick(s)
  <2>1. PICK n \in 0 .. MaxBatch :
            /\ left' = [left EXCEPT ![s] = n]
            /\ src' = [src EXCEPT ![s] = IF n = 0 THEN "wait" ELSE "lock"]
    BY <1>1 DEF Tick
  <2>2. n \in Nat
    BY <2>1, AgentAssumption
  <2>3. UNCHANGED <<pc, main, runShip, exit>> /\ ticks' = ticks + 1
        /\ main = "run" /\ src[s] = "wait"
    BY <1>1 DEF Tick, spoolVars, memVars
  <2> QED
    BY <2>1, <2>2, <2>3
<1>2. CASE Lock(s)
  <2>1. main = "run"
    BY <1>2 DEF Lock
  <2> QED
    BY <1>2, <2>1 DEF Lock
<1>3. CASE Unlock(s)
  <2>1. /\ UNCHANGED <<pc, main, runShip, exit, ticks>>
        /\ pc = "idle" /\ src[s] = "write"
        /\ left' = [left EXCEPT ![s] = @ - 1]
        /\ src' = [src EXCEPT ![s] = AfterWrite(s)]
    BY <1>3 DEF Unlock, spoolVars, memVars
  <2>2. left[s] - 1 \in Nat /\ (AfterWrite(s) = "lock" => left[s] - 1 > 0)
    BY <2>1 DEF AfterWrite
  <2>3. AfterWrite(s) \in {"lock", "wait"}
    BY DEF AfterWrite
  <2> QED
    BY <2>1, <2>2, <2>3
<1>4. CASE Stop(s)
  BY <1>4 DEF Stop, spoolVars, memVars
<1> QED
  BY <1>1, <1>2, <1>3, <1>4

(* Every step of the agent keeps it. *)
LEMMA CallerInAgent ==
    ASSUME CallerInv, [AgentNext]_vars
    PROVE  CallerInv'
<1> USE DEF CallerInv, AgentTypeOK, OneSpoolCaller
<1>1. CASE \E s \in Sources : Tick(s) \/ Lock(s) \/ Unlock(s) \/ Stop(s)
  BY <1>1, CallerInSource
<1>2. CASE DrainTick \/ DrainReturns \/ DrainStop
  BY <1>2 DEF DrainTick, DrainReturns, DrainStop, spoolVars, memVars
<1>3. CASE Start
  BY <1>3 DEF Start, Open
<1>10. CASE Setup \/ SetupFails
  BY <1>10 DEF Setup, SetupFails, spoolVars, memVars
<1>4. CASE Sigterm \/ DrainTimeout
  BY <1>4 DEF Sigterm, DrainTimeout, agentVars, spoolVars, memVars
<1>5. CASE WaitDone
  BY <1>5 DEF WaitDone, AllStopped
<1>6. CASE CloseReturns \/ FinalDrain \/ FinalDrainReturns
  BY <1>6 DEF CloseReturns, FinalDrain, FinalDrainReturns, DrainStatus,
              spoolVars, memVars
<1>7. CASE Die
  BY <1>7 DEF Die, Crash
<1>8. CASE SpoolGoes
  BY <1>8, StepOfACall DEF SpoolGoes, agentVars
<1>9. CASE ShipGoes \/ PostGoes \/ AbortGoes \/ UNCHANGED vars
  BY <1>9 DEF ShipGoes, PostGoes, AbortGoes, vars, agentVars, spoolVars,
              memVars
<1> QED
  BY <1>1, <1>2, <1>3, <1>4, <1>5, <1>6, <1>7, <1>8, <1>9,
     <1>10 DEF AgentNext

(***************************************************************************)
(* The spool has no lock of its own.  Any number of sources, Run's Close   *)
(* and the kills and restarts between them never have two calls under way: *)
(* Write belongs to the one source in writeMu, and Close begins when every *)
(* source has returned.                                                    *)
(***************************************************************************)
THEOREM SpoolHasOneCaller == AgentSpec => [](AgentTypeOK /\ OneSpoolCaller)
<1>1. AgentInit => CallerInv
  BY DEF AgentInit, SpoolInit, MemInit, CallerInv, AgentTypeOK, OneSpoolCaller
<1>2. CallerInv /\ [AgentNext]_vars => CallerInv'
  BY CallerInAgent
<1>3. CallerInv => AgentTypeOK /\ OneSpoolCaller
  BY DEF CallerInv
<1> QED
  BY <1>1, <1>2, <1>3, PTL DEF AgentSpec, AgentSafety

-----------------------------------------------------------------------------
(* What the exit status says. *)

(***************************************************************************)
(* Run has an exit status only when it has returned.  It gets to the final *)
(* drain, and to any status but "err", only after a Close that returned    *)
(* nil; Shipper.Run returns nil only with the directory empty, and with    *)
(* the spool closed nothing fills it again.                                *)
(***************************************************************************)
ExitInv ==
    /\ main # "exited" => exit = "none"
    /\ main = "drain" \/ exit \in {"ok", "drainIncomplete"} => result = "ok"
    /\ main = "drain" /\ shipResult = "ok" => Segments = {}
    /\ exit = "ok" /\ runShip = "done" => Segments = {}

(* Once Close has returned nil, the spool takes no step until it is reopened. *)
LEMMA ClosedStays ==
    ASSUME SpoolInv, result = "ok"
    PROVE  ~BeginWrite /\ ~BeginClose /\ ~SpoolStep /\ ~Open
<1>1. pc = "closed"
  BY DEF SpoolInv, FlushInv
<1> QED
  BY <1>1 DEF BeginWrite, BeginClose, Open, SpoolStep, Append, Seal, Create,
     Compress, Publish, Reopen, CapList, CapStat, CapCompare, CapRemove,
     CapWarn, CloseFile

(* Every step of the agent keeps it. *)
LEMMA ExitInAgent ==
    ASSUME SpoolInv, ShippingInv, ExitInv, [AgentNext]_vars
    PROVE  ExitInv'
<1> USE DEF ExitInv
<1>0. SpoolTypeOK /\ ShipTypeOK
  BY DEF SpoolInv, LossInv, ShippingInv
<1>1. ASSUME UNCHANGED dir PROVE Segments' = Segments
  BY <1>1 DEF Segments
<1>2. CASE \E s \in Sources : Tick(s) \/ Lock(s) \/ Unlock(s) \/ Stop(s)
  <2>1. CASE \E s \in Sources : Lock(s)
    <3>1. UNCHANGED <<dir, main, exit, result, shipResult, runShip>>
      BY <2>1 DEF Lock, BeginWrite, shipVars, runVars
    <3> QED
      BY <1>1, <3>1
  <2>2. CASE \E s \in Sources : Tick(s) \/ Unlock(s) \/ Stop(s)
    <3>1. UNCHANGED <<dir, main, exit, result, shipResult, runShip>>
      BY <2>2 DEF Tick, Unlock, Stop, dirVars, spoolVars, memVars, shipVars,
                  runVars
    <3> QED
      BY <1>1, <3>1
  <2> QED
    BY <1>2, <2>1, <2>2
<1>3. CASE DrainTick \/ DrainReturns \/ DrainStop \/ Setup \/ SetupFails
  <2>1. UNCHANGED <<dir, result>>
    BY <1>3 DEF DrainTick, DrainReturns, DrainStop, Setup, SetupFails, dirVars,
                spoolVars, memVars
  <2> QED
    BY <1>1, <1>3, <2>1
       DEF DrainTick, DrainReturns, DrainStop, Setup, SetupFails, shipVars,
           runVars, ShipBegin
<1>4. CASE Start
  <2>1. UNCHANGED <<result, shipResult, exit, runShip>> /\ main = "down"
        /\ main' \in {"setup", "down"}
    BY <1>4 DEF Start, Open, shipVars, runVars
  <2> QED
    BY <2>1
<1>5. CASE Sigterm \/ DrainTimeout
  <2>1. UNCHANGED <<dir, main, exit, result, shipResult, runShip>>
    BY <1>5 DEF Sigterm, DrainTimeout, dirVars, spoolVars, memVars, runVars,
                agentVars
  <2> QED
    BY <1>1, <2>1
<1>6. CASE WaitDone
  <2>1. UNCHANGED <<result, shipResult, exit, runShip>> /\ main = "run"
        /\ main' = "close"
    BY <1>6 DEF WaitDone, BeginClose, shipVars, runVars
  <2> QED
    BY <2>1
<1>7. CASE CloseReturns \/ FinalDrain
  <2>1. UNCHANGED <<dir, result>>
    BY <1>7 DEF CloseReturns, FinalDrain, dirVars, spoolVars, memVars
  <2> QED
    BY <1>1, <1>7, <2>1 DEF CloseReturns, FinalDrain, ShipBegin
<1>8. CASE FinalDrainReturns
  <2>1. UNCHANGED <<dir, result, shipResult, runShip>>
    BY <1>8 DEF FinalDrainReturns, dirVars, spoolVars, memVars
  <2> QED
    BY <1>1, <1>8, <2>1 DEF FinalDrainReturns, DrainStatus
<1>9. CASE Die
  BY <1>9 DEF Die
<1>10. CASE SpoolGoes
  <2>1. SpoolStep /\ UNCHANGED <<main, exit, runShip, shipResult>>
    BY <1>10 DEF SpoolGoes, agentVars, shipVars, runVars
  <2>2. result # "ok"
    BY <2>1, ClosedStays
  <2> QED
    BY <2>1, <2>2
<1>11. CASE ShipGoes \/ PostGoes \/ AbortGoes
  <2>1. /\ UNCHANGED <<main, exit, runShip, result>>
        /\ InShipper
    BY <1>11 DEF ShipGoes, PostGoes, AbortGoes, agentVars, spoolVars, memVars,
                 InShipper
  <2>2. Segments' \subseteq Segments
    <3>1. CASE UNCHANGED dir
      BY <1>1, <3>1
    <3>2. CASE ShipperRemoves
      <4>1. PICK u \in Ulids, why \in {"shipped", "rejected"} :
                dir[u].state = "zst" /\ dir' = Removed(u, why)
        BY <3>2 DEF ShipperRemoves, Segments
      <4>2. \A v \in Ulids : v # u => dir'[v] = dir[v]
        BY <1>0, <4>1 DEF Removed, SpoolTypeOK, DirTypeOK
      <4> QED
        BY <4>1, <4>2 DEF Segments
    <3> QED
      BY <1>0, <2>1, <3>1, <3>2, ShipperForSpool
  <2>3. shipResult' = "ok" => shipResult = "ok" \/ Segments = {}
    BY <2>1 DEF InShipper, ShipStep, ShipList, ShipNext, ShipRead, ShipRemove,
                ShipRetry, ShipPost, ShipAbort, RunReturns
  <2> QED
    BY <2>1, <2>2, <2>3
<1>12. CASE UNCHANGED vars
  <2>1. UNCHANGED <<dir, main, exit, result, shipResult, runShip>>
    BY <1>12 DEF vars, dirVars, spoolVars, memVars, shipVars, runVars,
                 agentVars
  <2> QED
    BY <1>1, <2>1
<1> QED
  BY <1>2, <1>3, <1>4, <1>5, <1>6, <1>7, <1>8, <1>9, <1>10, <1>11,
     <1>12 DEF AgentNext

(***************************************************************************)
(* The exit status tells the truth: after "ok" and after an incomplete     *)
(* drain, which memauditd reports as success, every collected envelope has *)
(* left the active file, and after "ok" in push mode no segment is left.   *)
(***************************************************************************)
THEOREM ExitStatusIsTrue == AgentSpec => []ExitStatusTrue
<1>1. AgentInit => ExitInv
  BY DEF AgentInit, ExitInv
<1>2. AgentInit => SpoolInv /\ ShippingInv
  BY BothBegin
<1>3. SpoolInv /\ ShippingInv /\ [AgentNext]_vars => SpoolInv' /\ ShippingInv'
  BY SpoolInAgent, ShippingInAgent
<1>4. SpoolInv /\ ShippingInv /\ ExitInv /\ [AgentNext]_vars => ExitInv'
  BY ExitInAgent
<1>5. SpoolInv /\ ExitInv => ExitStatusTrue
  BY DEF SpoolInv, FlushInv, OnlyWarnings, ExitInv, ExitStatusTrue
<1> QED
  BY <1>1, <1>2, <1>3, <1>4, <1>5, PTL DEF AgentSpec, AgentSafety

-----------------------------------------------------------------------------
(* The cap and the order of shipping, with both at work on the segments. *)

(* The segment that rotate is about to publish has the newest ULID. *)
NewestInv == pc \in {"compress", "publish"} => nextUlid = cur + 1

(* enforceCap removes a segment after it has seen a total above the cap. *)
OverInv == pc = "capRemove" => todo = {} /\ total > MaxBytes

(***************************************************************************)
(* As long as the oldest of the listing is there, so is every other one:   *)
(* total is the size of what has been counted, to the byte.                *)
(***************************************************************************)
ExactInv ==
    /\ faults = 0
    /\ pc \in {"capStat", "capRemove"}
    /\ \E u \in Segments \ Behind : IsOldest(u, listed)
    => Cardinality(BytesOf(Segments \ todo)) = total

CapInv == ListedInv /\ SumInv /\ NewestInv /\ OverInv /\ ExactInv

(* Every step of the spool keeps the newest ULID and the cause of a removal. *)
LEMMA NewestInductive ==
    ASSUME SpoolTypeOK, NewestInv, OverInv,
           Open \/ BeginWrite \/ BeginClose \/ SpoolStep
    PROVE  NewestInv' /\ OverInv'
<1>1. CASE Open \/ BeginWrite \/ BeginClose \/ Append \/ Seal \/ Publish
           \/ Reopen \/ CapList \/ CapStat \/ CapRemove \/ CapWarn
           \/ CloseFile
  <2>1. pc' \notin {"compress", "publish", "capRemove"}
    BY <1>1, ReturnOrErr
       DEF Open, BeginWrite, BeginClose, Append, Seal, Publish, RenameFails,
           Reopen, CapList, CapStat, CapRemove, RelistVanished, CapWarn,
           CloseFile
  <2> QED
    BY <2>1 DEF NewestInv, OverInv
<1>2. CASE Create
  <2>1. \/ pc' \in {"append", "idle", "closeFile", "closed"}
        \/ /\ pc' = "compress"
           /\ cur' = nextUlid
           /\ nextUlid' = nextUlid + 1
    BY <1>2, ReturnOrErr DEF Create
  <2> QED
    BY <2>1 DEF NewestInv, OverInv
<1>3. CASE Compress
  <2>1. /\ UNCHANGED <<cur, nextUlid>> /\ pc = "compress"
        /\ pc' \in {"append", "idle", "closeFile", "closed", "publish"}
    BY <1>3, ReturnOrErr DEF Compress
  <2> QED
    BY <2>1 DEF NewestInv, OverInv
<1>4. CASE CapCompare
  <2>1. /\ UNCHANGED <<todo, total>>
        /\ \/ pc' \in {"append", "idle", "closeFile", "closed"}
           \/ pc' = "capRemove" /\ todo = {} /\ total > MaxBytes
    BY <1>4, ReturnOrErr DEF CapCompare, OverCap
  <2> QED
    BY <2>1 DEF NewestInv, OverInv
<1> QED
  BY <1>1, <1>2, <1>3, <1>4 DEF SpoolStep

(* What is counted is what is there. *)
LEMMA ExactInSpool ==
    ASSUME SpoolTypeOK, SumInv, ExactInv,
           Open \/ BeginWrite \/ BeginClose \/ SpoolStep
    PROVE  ExactInv'
<1>1. CASE pc' \notin {"capStat", "capRemove"}
  BY <1>1 DEF ExactInv
<1>2. CASE CapList /\ pc' = "capStat"
  <2>1. total' = 0 /\ todo' = Segments /\ dir' = dir
    BY <1>2, ReturnOrErr DEF CapList
  <2>2. (Segments \ todo)' = {}
    BY <2>1 DEF Segments
  <2>3. BytesOf(Segments \ todo)' = {}
    BY <2>2 DEF BytesOf
  <2> QED
    BY <2>1, <2>3, FS_EmptySet DEF ExactInv
<1>3. CASE CapStat /\ pc' = "capStat"
  <2>1. PICK w \in Ulids : /\ w \in todo
                           /\ todo' = todo \ {w}
                           /\ total' = AddSize(w)
                           /\ faults' = faults
    BY <1>3, ReturnOrErr DEF CapStat, IsOldest, Ok
  <2>2. UNCHANGED <<dir, listed>> /\ pc = "capStat" /\ Segments' = Segments
    BY <1>3 DEF CapStat, Segments
  <2> SUFFICES ASSUME faults = 0,
                      \E u \in Segments \ Behind : IsOldest(u, listed)
               PROVE  Cardinality(BytesOf(Segments \ todo)') = total'
    BY <2>1, <2>2 DEF ExactInv, IsOldest, NameLeq
  <2>3. /\ Cardinality(BytesOf(Segments \ todo)) = total
        /\ IsFiniteSet(BytesOf(Segments \ todo))
    BY <2>2 DEF ExactInv, SumInv
  <2>4. CASE w \in Segments
    <3>1. (Segments \ todo)' = (Segments \ todo) \cup {w}
      BY <2>1, <2>2, <2>4
    <3>2. BytesOf(Segments \ todo)' = BytesOf((Segments \ todo) \cup {w})
      BY <2>2, <3>1 DEF BytesOf
    <3>3. Segments \ todo \in SUBSET Ulids
      BY DEF Segments
    <3>4. Cardinality(BytesOf((Segments \ todo) \cup {w}))
             = Cardinality(BytesOf(Segments \ todo)) + dir[w].size
      BY <2>1, <2>3, <3>3, BytesOfMore
    <3> QED
      BY <2>1, <2>3, <2>4, <3>2, <3>4 DEF AddSize
  <2>5. CASE w \notin Segments
    <3>1. (Segments \ todo)' = Segments \ todo
      BY <2>1, <2>2, <2>5
    <3>2. BytesOf(Segments \ todo)' = BytesOf(Segments \ todo)
      BY <2>2, <3>1 DEF BytesOf
    <3> QED
      BY <2>1, <2>3, <2>5, <3>2 DEF AddSize
  <2> QED
    BY <2>4, <2>5
<1>4. CASE CapCompare
  <2>1. UNCHANGED <<dir, faults, listed, todo, total>> /\ pc = "capStat"
    BY <1>4 DEF CapCompare
  <2> QED
    BY <2>1 DEF ExactInv, IsOldest, NameLeq, BytesOf, Segments
<1>5. CASE Open \/ BeginWrite \/ BeginClose \/ Append \/ Seal \/ Create
           \/ Compress \/ Publish \/ Reopen \/ CapRemove \/ CapWarn
           \/ CloseFile
  <2>1. pc' \notin {"capStat", "capRemove"}
    BY <1>5, ReturnOrErr
       DEF Open, BeginWrite, BeginClose, Append, Seal, Create, Compress,
           Publish, RenameFails, Reopen, CapRemove, RelistVanished, CapWarn,
           CloseFile
  <2> QED
    BY <1>1, <2>1
<1>6. CASE (CapList \/ CapStat) /\ pc' # "capStat"
  <2>1. pc' \notin {"capStat", "capRemove"}
    BY <1>6, ReturnOrErr DEF CapList, CapStat
  <2> QED
    BY <1>1, <2>1
<1> QED
  BY <1>2, <1>3, <1>4, <1>5, <1>6 DEF SpoolStep

(* The shipper takes no segment while an older one is there. *)
LEMMA ShipsOldest ==
    ASSUME ShipTypeOK, QueueInv, shp = "remove", faults = 0, seg \in Segments,
           NEW u \in Segments \ Behind, NameLeq(u, seg)
    PROVE  u = seg
<1>1. UrlOK /\ shp \in Sending
  BY DEF QueueInv, CanSend, Sending
<1>2. u \in Queue \/ \A w \in Queue : w < u
  BY <1>1 DEF QueueInv, RestIsNewer
<1>3. seg \in Queue
  BY <1>1 DEF Queue
<1>4. u \in Ulids /\ seg \in Ulids
  BY DEF Segments
<1>5. u \in Nat /\ seg \in Nat /\ u <= seg
  BY <1>4, SpoolDirAssumption DEF NameLeq, Behind, Ulids
<1>6. u \in Queue
  BY <1>2, <1>3, <1>4, <1>5
<1>7. CASE u \in work
  <2>1. NameLeq(seg, u)
    BY <1>1, <1>7 DEF QueueInv, RestIsNewer
  <2> QED
    BY <1>4, <1>5, <2>1, SpoolDirAssumption DEF NameLeq
<1> QED
  BY <1>1, <1>6, <1>7 DEF Queue

(* A step that leaves the directory and the spool alone. *)
LEMMA CapKept ==
    ASSUME CapInv, UNCHANGED <<dir, spoolVars>>, faults' = 0 => faults = 0
    PROVE  CapInv'
<1>1. UNCHANGED <<pc, cur, listed, todo, total, nextUlid>>
  BY DEF spoolVars, memVars, envVars
<1>2. UNCHANGED <<Segments, BytesOf(Segments \ todo)>>
  BY <1>1 DEF Segments, BytesOf
<1>3. ListedInv' /\ SumInv' /\ NewestInv' /\ OverInv'
  BY <1>1, <1>2 DEF CapInv, ListedInv, SumInv, NewestInv, OverInv
<1>4. ExactInv'
  BY <1>1, <1>2 DEF CapInv, ExactInv, IsOldest, NameLeq
<1> QED
  BY <1>3, <1>4 DEF CapInv

(* Every step of the agent keeps it. *)
LEMMA CapInAgent ==
    ASSUME SpoolInv, ShippingInv, CapInv, QueueInv, [AgentNext]_vars
    PROVE  CapInv'
<1>0. SpoolTypeOK /\ SpoolTypeOK' /\ ShipTypeOK
  BY SpoolInAgent DEF SpoolInv, LossInv, ShippingInv
<1>1. ASSUME SpoolNext PROVE ListedInv' /\ SumInv'
  BY <1>0, <1>1, ListedInductive, SumInductive DEF CapInv
<1>2. CASE InSpool
  <2>1. ListedInv' /\ SumInv'
    BY <1>1, <1>2 DEF InSpool, SpoolNext
  <2>2. NewestInv' /\ OverInv'
    BY <1>0, <1>2, NewestInductive DEF InSpool, CapInv
  <2>3. ExactInv'
    BY <1>0, <1>2, ExactInSpool DEF InSpool, CapInv
  <2> QED
    BY <2>1, <2>2, <2>3 DEF CapInv
<1>3. CASE InShipper /\ ~(UNCHANGED <<dir, spoolVars>> /\ faults' \in Nat
                          /\ (faults' = 0 => faults = 0))
  <2>1. ShipperRemoves
    BY <1>0, <1>3, ShipperForSpool
  <2>2. ListedInv' /\ SumInv'
    BY <1>1, <2>1 DEF SpoolNext
  <2>3. UNCHANGED <<pc, cur, listed, todo, total, nextUlid, faults>>
    BY <2>1 DEF ShipperRemoves, spoolVars, memVars, envVars
  <2>4. NewestInv' /\ OverInv'
    BY <2>3 DEF CapInv, NewestInv, OverInv
  <2>5. PICK why \in {"shipped", "rejected"} :
            shp = "remove" /\ seg \in Segments /\ dir' = Removed(seg, why)
    BY <1>0, <1>3, <2>3
       DEF InShipper, ShipStep, ShipList, ShipNext, ShipRead, ShipRemove,
           ShipRetry, ShipPost, ShipAbort, dirVars, SpoolTypeOK, DirTypeOK
  <2>6. ASSUME faults = 0, pc \in {"capStat", "capRemove"},
               NEW u \in Segments' \ Behind, IsOldest(u, listed)
        PROVE  FALSE
    <3>1. seg \in Ulids /\ Segments \subseteq listed
      BY <2>5, <2>6 DEF Segments, CapInv, ListedInv
    <3>2. /\ dir'[seg].state = why
          /\ \A v \in Ulids \ {seg} : dir'[v] = dir[v]
      BY <1>0, <2>5, <3>1 DEF Removed, SpoolTypeOK, DirTypeOK, File
    <3>3. u # seg /\ u \in Segments
      BY <2>6, <3>2 DEF Segments
    <3>4. NameLeq(u, seg)
      BY <2>5, <2>6, <3>1 DEF IsOldest
    <3> QED
      BY <1>0, <2>5, <2>6, <3>3, <3>4, ShipsOldest
  <2>7. ExactInv'
    BY <2>3, <2>6 DEF ExactInv, IsOldest, NameLeq
  <2> QED
    BY <2>2, <2>4, <2>7 DEF CapInv
<1>4. CASE UNCHANGED <<dir, spoolVars>> /\ faults' \in Nat
           /\ (faults' = 0 => faults = 0)
  BY <1>4, CapKept
<1>5. CASE Around
  BY <1>5, CapKept DEF Around, dirVars
<1>6. CASE Die
  <2>1. pc' = "down"
    BY <1>6 DEF Die, Crash
  <2> QED
    BY <2>1 DEF CapInv, ListedInv, SumInv, NewestInv, OverInv, ExactInv
<1> QED
  BY <1>2, <1>3, <1>4, <1>5, <1>6, StepKinds

(* rotate gives its segment a name that sorts after all it has given before, *)
(* and nothing else of what the spool does brings a segment to the shipper.  *)
LEMMA QueueInSpool ==
    ASSUME SpoolInv, ShipTypeOK, NewestInv, QueueInv, InSpool
    PROVE  QueueInv'
<1>0. SpoolTypeOK /\ RotationInv /\ LossInv
  BY DEF SpoolInv, LossInv
<1>1. UNCHANGED <<shp, work, seg>>
  BY DEF InSpool, shipVars, runVars
<1>2. faults' = 0 => faults = 0
  <2>0. \A k : Ok \/ Fails(k) => (faults' = 0 => faults = 0)
    BY <1>0 DEF Ok, Fails, SpoolTypeOK, DirTypeOK
  <2>1. CASE Open \/ BeginWrite \/ BeginClose \/ Seal \/ CloseFile
    BY <2>0, <2>1 DEF Open, BeginWrite, BeginClose, Seal, CloseFile
  <2>2. CASE Append \/ CapWarn
    BY <2>0, <2>2 DEF Append, CapWarn, Appended, NotAppended
  <2>3. CASE Create \/ Compress \/ Publish \/ Reopen
    BY <2>0, <2>3 DEF Create, Compress, Publish, RenameFails, Reopen
  <2>4. CASE CapList \/ CapStat \/ CapCompare \/ CapRemove
    BY <2>0, <2>4 DEF CapList, CapStat, CapCompare, CapRemove
  <2> QED
    BY <2>1, <2>2, <2>3, <2>4 DEF InSpool, SpoolStep
<1>3. ASSUME SameSegments PROVE QueueInv'
  BY <1>1, <1>2, <1>3, QueueKept
<1>4. CASE Publish
  <2>1. CASE UNCHANGED dir
    BY <1>3, <2>1, SameDir
  <2>2. CASE Ok /\ dir' = [dir EXCEPT ![cur].state = "zst"]
    <3>1. cur \in Ulids /\ dir[cur].state = "tmp" /\ nextUlid = cur + 1
      BY <1>0, <1>4 DEF Publish, RotationInv, NewestInv
    <3>2. /\ dir'[cur].state = "zst"
          /\ \A v \in Ulids \ {cur} : dir'[v] = dir[v]
      BY <1>0, <2>2, <3>1 DEF SpoolTypeOK, DirTypeOK, File
    <3>3. ASSUME NEW v \in Ulids, Visible(v) PROVE v < cur
      <4>1. ~(nextUlid <= v) /\ v # cur
        BY <1>0, <3>1, <3>3 DEF RotationInv, Visible, Unlinked
      <4>2. v \in Int /\ cur \in Int
        BY <3>1 DEF Ulids
      <4> QED
        BY <3>1, <4>1, <4>2
    <3> QED
      BY <1>1, <2>2, <3>1, <3>2, <3>3, QueuePublish DEF Ok
  <2> QED
    BY <1>4, <2>1, <2>2 DEF Publish, RenameFails
<1>5. CASE CapRemove
  <2>1. CASE UNCHANGED dir
    BY <1>3, <2>1, SameDir
  <2>2. CASE \E u \in Segments : Ok /\ dir' = Removed(u, "evicted")
    BY <1>1, <2>2, QueueUnlink DEF Ok, Unlinked
  <2> QED
    BY <1>5, <2>1, <2>2 DEF CapRemove
<1>6. CASE Open
  BY <1>3, <1>6 DEF Open, WithoutTmps, Tmps, NoFile, SameSegments, Segments,
                    Visible, Unlinked
<1>7. CASE Create
  <2>1. CASE UNCHANGED dir
    BY <1>3, <2>1, SameDir
  <2>2. CASE dir' = [dir EXCEPT ![nextUlid].state = NewName]
    <3>1. nextUlid \in Ulids /\ dir[nextUlid].state = "absent"
      BY <1>0, <1>7, SpoolDirAssumption
         DEF Create, SpoolTypeOK, Ulids, RotationInv
    <3>2. /\ dir'[nextUlid].state = "tmp"
          /\ \A v \in Ulids \ {nextUlid} : dir'[v] = dir[v]
      BY <1>0, <2>2, <3>1 DEF NewName, SpoolTypeOK, DirTypeOK, File
    <3> QED
      BY <1>3, <3>1, <3>2 DEF SameSegments, Segments, Visible, Unlinked
  <2> QED
    BY <1>7, <2>1, <2>2 DEF Create
<1>8. CASE Compress
  <2>1. CASE UNCHANGED dir
    BY <1>3, <2>1, SameDir
  <2>2. ASSUME NEW n \in SegSizes,
               dir' = [dir EXCEPT ![cur] = [@ EXCEPT !.recs = active.lines,
                                                     !.whole = TRUE,
                                                     !.size = n]]
        PROVE  QueueInv'
    <3>1. cur \in Ulids /\ dir[cur].state = "tmp"
      BY <1>0, <1>8 DEF Compress, RotationInv
    <3>2. /\ dir'[cur].state = "tmp"
          /\ \A v \in Ulids \ {cur} : dir'[v] = dir[v]
      BY <1>0, <2>2, <3>1 DEF SpoolTypeOK, DirTypeOK, File
    <3> QED
      BY <1>3, <3>1, <3>2 DEF SameSegments, Segments, Visible, Unlinked
  <2> QED
    BY <1>8, <2>1, <2>2 DEF Compress
<1>9. CASE BeginWrite \/ BeginClose \/ Append \/ Seal \/ Reopen \/ CapList
           \/ CapStat \/ CapCompare \/ CapWarn \/ CloseFile
  <2>1. UNCHANGED dir
    BY <1>9 DEF BeginWrite, BeginClose, Append, Seal, Reopen, CapList,
                CapStat, CapCompare, CapWarn, CloseFile
  <2> QED
    BY <1>3, <2>1, SameDir
<1> QED
  BY <1>4, <1>5, <1>6, <1>7, <1>8, <1>9 DEF InSpool, SpoolStep

(* Every step of the agent keeps the queue of the shipper. *)
LEMMA QueueInAgent ==
    ASSUME SpoolInv, ShippingInv, CapInv, QueueInv, [AgentNext]_vars
    PROVE  QueueInv'
<1>0. ShipTypeOK
  BY DEF ShippingInv
<1>1. CASE InSpool
  BY <1>0, <1>1, QueueInSpool DEF CapInv
<1>2. CASE InShipper
  BY <1>0, <1>2, QueueInRun DEF InShipper
<1>3. CASE Around
  <2>1. /\ UNCHANGED <<dir, faults, work, seg>>
        /\ shp' \in {"idle", "list"} \/ UNCHANGED shp
    BY <1>3 DEF Around, dirVars
  <2> QED
    BY <1>0, <2>1, SameDir, QueueKept DEF Sending
<1>4. CASE Die
  BY <1>4 DEF Die, QueueInv, QueueVisible, RestIsNewer, CanSend, Sending
<1> QED
  BY <1>1, <1>2, <1>3, <1>4, StepKinds

(* All of it holds throughout. *)
LEMMA CapAndQueueHold ==
    AgentSpec => [](SpoolInv /\ ShippingInv /\ CapInv /\ QueueInv)
<1>1. AgentInit => CapInv /\ QueueInv
  <2>1. AgentInit => CapInv
    BY DEF AgentInit, SpoolInit, MemInit, CapInv, ListedInv, SumInv,
           NewestInv, OverInv, ExactInv
  <2>2. AgentInit => QueueInv
    BY DEF AgentInit, ShipInit, QueueInv, QueueVisible, RestIsNewer, CanSend,
           Sending
  <2> QED
    BY <2>1, <2>2
<1>2. SpoolInv /\ ShippingInv /\ CapInv /\ QueueInv /\ [AgentNext]_vars
         => CapInv' /\ QueueInv'
  BY CapInAgent, QueueInAgent
<1> QED
  BY <1>1, <1>2, BothHold, PTL DEF AgentSpec, AgentSafety

(* To the spool, a step of the agent is one of its own, or leaves it alone. *)
LEMMA StepForSpool ==
    ASSUME SpoolTypeOK, [AgentNext]_vars
    PROVE  SpoolNext \/ UNCHANGED <<dir, spoolVars>>
<1>1. CASE InSpool
  BY <1>1 DEF InSpool, SpoolNext
<1>2. CASE InShipper
  BY <1>2, ShipperForSpool DEF SpoolNext
<1>3. CASE Around
  BY <1>3 DEF Around, dirVars
<1>4. CASE Die
  BY <1>4 DEF Die, SpoolNext
<1> QED
  BY <1>1, <1>2, <1>3, <1>4, StepKinds

(***************************************************************************)
(* Nothing is evicted without need: with the shipper removing segments     *)
(* while enforceCap adds up their sizes, a segment that the cap evicts     *)
(* leaves a directory that was over MaxBytes at that very moment, as long  *)
(* as no call on the directory has failed and the clock went forward.      *)
(***************************************************************************)
THEOREM EvictionsAreNeeded == AgentSpec => EvictsOnlyOverCap
<1>1. ASSUME SpoolInv, CapInv, [AgentNext]_vars, faults = 0,
             NEW u \in Segments, dir'[u].state = "evicted", u \notin Behind
      PROVE  DirBytes > MaxBytes
  <2>0. LossInv /\ SpoolTypeOK /\ dir[u].state = "zst"
    BY <1>1 DEF SpoolInv, LossInv, Segments
  <2>1. SpoolNext
    BY <1>1, <2>0, StepForSpool
  <2>2. pc = "capRemove" /\ IsOldest(u, listed)
    BY <1>1, <2>0, <2>1, OnlyCapEvicts DEF Victim
  <2>3. todo = {} /\ total > MaxBytes
    BY <1>1, <2>2 DEF CapInv, OverInv
  <2>4. Cardinality(BytesOf(Segments \ todo)) = total
    BY <1>1, <2>2 DEF CapInv, ExactInv
  <2>5. Segments \ todo = Segments
    BY <2>3
  <2> QED
    BY <2>3, <2>4, <2>5 DEF DirBytes
<1>2. SpoolInv /\ CapInv /\ [AgentNext]_vars
        => [faults = 0 => \A u \in Segments : dir'[u].state = "evicted"
                             => DirBytes > MaxBytes \/ u \in Behind]_vars
  BY <1>1
<1> QED
  BY <1>2, CapAndQueueHold, PTL DEF AgentSpec, AgentSafety, EvictsOnlyOverCap

(***************************************************************************)
(* The cap inside the agent: with Shipper.Run on the same segments, the    *)
(* directory is within MaxBytes whenever enforceCap returns nil, and what  *)
(* it evicts on the way is the oldest segment there is.                    *)
(***************************************************************************)
THEOREM CapHoldsInAgent == AgentSpec => CapEnforced /\ EvictsOldest
<1>1. ASSUME SpoolInv, CapInv, [AgentNext]_vars,
             pc \in {"capList", "capStat"},
             pc' \in {"append", "idle", "closeFile"}, faults' = faults
      PROVE  DirBytes' <= MaxBytes
  <2>1. SpoolTypeOK /\ ListedInv /\ SumInv
    BY <1>1 DEF SpoolInv, LossInv, CapInv
  <2>2. SpoolNext
    BY <1>1, <2>1, StepForSpool DEF spoolVars, memVars
  <2> QED
    BY <1>1, <2>1, <2>2, ReturnsInBounds
<1>2. ASSUME SpoolInv, CapInv, [AgentNext]_vars, NEW u \in Segments,
             dir'[u].state = "evicted"
      PROVE  \A v \in Segments : u <= v \/ u \in Behind
  <2>0. LossInv /\ SpoolTypeOK /\ ListedInv /\ dir[u].state = "zst"
    BY <1>2 DEF SpoolInv, LossInv, CapInv, Segments
  <2>1. SpoolNext
    BY <1>2, <2>0, StepForSpool
  <2> QED
    BY <1>2, <2>0, <2>1, EvictsListed
<1>3. SpoolInv /\ CapInv /\ [AgentNext]_vars
        => [(/\ pc \in {"capList", "capStat"}
             /\ pc' \in {"append", "idle", "closeFile"}
             /\ faults' = faults)
              => DirBytes' <= MaxBytes]_svars
  BY <1>1
<1>4. SpoolInv /\ CapInv /\ [AgentNext]_vars
        => [\A u \in Segments : dir'[u].state = "evicted"
               => \A v \in Segments : u <= v \/ u \in Behind]_svars
  BY <1>2
<1> QED
  BY <1>3, <1>4, CapAndQueueHold, PTL
     DEF AgentSpec, AgentSafety, CapEnforced, EvictsOldest

(***************************************************************************)
(* Run "ships each in order" inside the agent too, where the segments come *)
(* from rotate, after kills, restarts and cleared temporary files, and     *)
(* enforceCap evicts what Run has listed.                                  *)
(***************************************************************************)
THEOREM AgentShipsInOrder == AgentSpec => ShipsInOrder
<1>1. ASSUME ShippingInv, QueueInv, [AgentNext]_vars, faults = 0,
             NEW b \in ingest' \ ingest, NEW u \in Segments
      PROVE  b.id <= u \/ b.id \in Behind
  <2>1. CASE ShipPost
    BY <1>1, <2>1, AcceptsInOrder
  <2>2. CASE ~ShipPost
    <3>1. UNCHANGED ingest
      BY <1>1, <2>2, StepKinds
         DEF InSpool, shipVars, InShipper, ShipStep, ShipList, ShipNext,
             ShipRead, ShipRemove, ShipRetry, ShipAbort, Around, Die
    <3> QED
      BY <1>1, <3>1
  <2> QED
    BY <2>1, <2>2
<1>2. ShippingInv /\ QueueInv /\ [AgentNext]_vars
        => [faults = 0 => \A b \in ingest' \ ingest, u \in Segments :
                              b.id <= u \/ b.id \in Behind]_hvars
  BY <1>1
<1> QED
  BY <1>2, CapAndQueueHold, PTL DEF AgentSpec, AgentSafety, ShipsInOrder
=============================================================================
