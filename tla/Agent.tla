-------------------------------- MODULE Agent -------------------------------
(***************************************************************************)
(* internal/agent: one goroutine per source, which ticks, collects and     *)
(* writes its envelopes to the spool under writeMu; in push mode one more  *)
(* that drains the spool with Shipper.Run; and the shutdown: on SIGTERM    *)
(* every goroutine stops, the spool is closed, and a last drain bounded by *)
(* a timeout is made.  Spool and Shipper are composed here step by step.   *)
(***************************************************************************)
EXTENDS Spool, Shipper

CONSTANTS
    Sources,     \* the sources that buildSources returned
    Modes,       \* push (cfg.Shipper is set) and bundle (it is nil)
    MaxBatch,    \* bound: envelopes a tick collects
    MaxTicks     \* bound: ticks in a behaviour

ASSUME AgentAssumption ==
    /\ Modes \subseteq {"push", "bundle"}
    /\ MaxBatch \in Nat
    /\ MaxTicks \in Nat

VARIABLES
    main,       \* Run: the phase of the agent
    src,        \* runSource: the step of each source
    left,       \* runSource: how many of envs are still to be written
    runShip,    \* runShipper: the step of the ship goroutine, or "none"
    exit,       \* what Run returned
    ticks       \* ticks so far

agentVars == <<main, src, left, runShip, exit, ticks>>

vars == <<dirVars, spoolVars, shipVars, agentVars>>

-----------------------------------------------------------------------------
(* The sources. *)

(* A tick: collect fails or finds nothing (0), or finds n envelopes. *)
Tick(s) ==
    /\ main = "run"
    /\ src[s] = "wait"
    /\ ticks < MaxTicks
    /\ ticks' = ticks + 1
    /\ \E n \in 0 .. MaxBatch :
          /\ left' = [left EXCEPT ![s] = n]
          /\ src' = [src EXCEPT ![s] = IF n = 0 THEN "wait" ELSE "lock"]
    /\ UNCHANGED <<dirVars, spoolVars, shipVars, main, runShip, exit>>

(* writeMu.Lock, and the call of sp.Write. *)
Lock(s) ==
    /\ src[s] = "lock"
    /\ \A t \in Sources : src[t] # "write"
    /\ BeginWrite
    /\ src' = [src EXCEPT ![s] = "write"]
    /\ UNCHANGED <<shipVars, main, left, runShip, exit, ticks>>

(* The loop over envs, and the wait for the next tick. *)
AfterWrite(s) == IF left[s] > 1 THEN "lock" ELSE "wait"

(* sp.Write returned, well or not, and writeMu is released. *)
Unlock(s) ==
    /\ src[s] = "write"
    /\ pc = "idle"
    /\ left' = [left EXCEPT ![s] = @ - 1]
    /\ src' = [src EXCEPT ![s] = AfterWrite(s)]
    /\ UNCHANGED <<dirVars, spoolVars, shipVars, main, runShip, exit, ticks>>

(* The branch on ctx.Done, and src.close. *)
Stop(s) ==
    /\ main = "run"
    /\ src[s] = "wait"
    /\ ctxDone
    /\ src' = [src EXCEPT ![s] = "done"]
    /\ UNCHANGED <<dirVars, spoolVars, shipVars, main, left, runShip, exit,
                   ticks>>

-----------------------------------------------------------------------------
(* The ship goroutine. *)

DrainTick ==
    /\ main = "run"
    /\ runShip = "wait"
    /\ ShipBegin
    /\ runShip' = "drain"
    /\ UNCHANGED <<dirVars, spoolVars, work, seg, body, reply, backoff,
                   ctxDone, ingest, main, src, left, exit, ticks>>

DrainReturns ==
    /\ runShip = "drain"
    /\ shp = "returned"
    /\ shp' = "idle"
    /\ runShip' = "wait"
    /\ UNCHANGED <<dirVars, spoolVars, work, seg, body, reply, shipResult,
                   backoff, ctxDone, ingest, main, src, left, exit, ticks>>

DrainStop ==
    /\ main = "run"
    /\ runShip = "wait"
    /\ ctxDone
    /\ runShip' = "done"
    /\ UNCHANGED <<dirVars, spoolVars, shipVars, main, src, left, exit, ticks>>

-----------------------------------------------------------------------------
(* Run. *)

(* runCmd opens the spool. *)
Start ==
    /\ main = "down"
    /\ Open
    /\ main' = IF pc' = "idle" THEN "setup" ELSE main
    /\ UNCHANGED <<shipVars, src, left, runShip, exit, ticks>>

(* The clients and the sources are built, the goroutines started. *)
Setup ==
    /\ main = "setup"
    /\ main' = "run"
    /\ src' = [s \in Sources |-> "wait"]
    /\ \E mode \in Modes : runShip' = IF mode = "push" THEN "wait" ELSE "none"
    /\ UNCHANGED <<dirVars, spoolVars, shipVars, left, exit, ticks>>

(***************************************************************************)
(* No URL, a token that cannot be read, no kubelet client, a debug address *)
(* that is refused, or an interval that is not positive.                   *)
(***************************************************************************)
SetupFails ==
    /\ main = "setup"
    /\ main' = "exited"
    /\ exit' = "err"
    /\ UNCHANGED <<dirVars, spoolVars, shipVars, src, left, runShip, ticks>>

(* The context of signal.NotifyContext is there before Run is called. *)
Sigterm ==
    /\ main \in {"setup", "run"}
    /\ ~ctxDone
    /\ ctxDone' = TRUE
    /\ UNCHANGED <<dirVars, spoolVars, runVars, backoff, ingest, agentVars>>

(* Mutation: the sources are not waited for. *)
ShipperStopped == runShip \in {"done", "none"}

AllStopped == runShip \in {"done", "none"} /\ \A s \in Sources : src[s] = "done"

(* wg.Wait returns and Spool.Close is called. *)
WaitDone ==
    /\ main = "run"
    /\ AllStopped
    /\ BeginClose
    /\ main' = "close"
    /\ UNCHANGED <<shipVars, src, left, runShip, exit, ticks>>

(* Spool.Close returned: an error ends Run, bundle mode is done. *)
CloseReturns ==
    /\ main = "close"
    /\ pc = "closed"
    /\ \/ result = "err" /\ exit' = "err"
       \/ result = "ok" /\ runShip = "none" /\ exit' = "ok"
    /\ main' = "exited"
    /\ UNCHANGED <<dirVars, spoolVars, shipVars, src, left, runShip, ticks>>

(* The final drain, with a context of its own. *)
FinalDrain ==
    /\ main = "close"
    /\ pc = "closed"
    /\ result = "ok"
    /\ runShip = "done"
    /\ ShipBegin
    /\ ctxDone' = FALSE
    /\ main' = "drain"
    /\ UNCHANGED <<dirVars, spoolVars, work, seg, body, reply, backoff,
                   ingest, src, left, runShip, exit, ticks>>

(* Mutation: the final drain has no timeout. *)
NoTimeout == main = "drain" /\ UNCHANGED vars

DrainTimeout ==
    /\ main = "drain"
    /\ ~ctxDone
    /\ ctxDone' = TRUE
    /\ UNCHANGED <<dirVars, spoolVars, runVars, backoff, ingest, agentVars>>

(* Mutation: the error of the final drain is swallowed. *)
AlwaysOk == "ok"

DrainStatus == IF shipResult = "ok" THEN "ok" ELSE "drainIncomplete"

FinalDrainReturns ==
    /\ main = "drain"
    /\ shp = "returned"
    /\ shp' = "idle"
    /\ exit' = DrainStatus
    /\ main' = "exited"
    /\ UNCHANGED <<dirVars, spoolVars, work, seg, body, reply, shipResult,
                   backoff, ctxDone, ingest, src, left, runShip, ticks>>

-----------------------------------------------------------------------------
(* The process. *)

(***************************************************************************)
(* The process is gone: killed at any step, or after Run returned.  Of the *)
(* shipper too only the files stay, and what the endpoint has.             *)
(***************************************************************************)
Die ==
    /\ main # "down"
    /\ Crash
    /\ shp' = "idle"
    /\ work' = {}
    /\ seg' = 0
    /\ body' = NoBatch
    /\ reply' = "none"
    /\ backoff' = MinBackoff
    /\ ctxDone' = FALSE
    /\ shipResult' = "none"
    /\ main' = "down"
    /\ src' = [s \in Sources |-> "done"]
    /\ left' = [s \in Sources |-> 0]
    /\ runShip' = "none"
    /\ exit' = "none"
    /\ UNCHANGED <<ingest, ticks>>

SpoolGoes == SpoolStep /\ UNCHANGED <<shipVars, agentVars>>

ShipGoes == ShipStep /\ UNCHANGED <<spoolVars, agentVars>>

PostGoes == ShipPost /\ UNCHANGED <<spoolVars, agentVars>>

AbortGoes == ShipAbort /\ UNCHANGED <<spoolVars, agentVars>>

AgentInit ==
    /\ SpoolInit
    /\ ShipInit
    /\ main = "down"
    /\ src = [s \in Sources |-> "done"]
    /\ left = [s \in Sources |-> 0]
    /\ runShip = "none"
    /\ exit = "none"
    /\ ticks = 0

AgentNext ==
    \/ \E s \in Sources : Tick(s) \/ Lock(s) \/ Unlock(s) \/ Stop(s)
    \/ DrainTick \/ DrainReturns \/ DrainStop
    \/ Start \/ Setup \/ SetupFails \/ Sigterm
    \/ WaitDone \/ CloseReturns \/ FinalDrain
    \/ DrainTimeout \/ FinalDrainReturns \/ Die
    \/ SpoolGoes \/ ShipGoes \/ PostGoes \/ AbortGoes

(* The main goroutine. *)
MainStep == Setup \/ WaitDone \/ CloseReturns \/ FinalDrain \/ FinalDrainReturns

(***************************************************************************)
(* Weak fairness for what runs once it can.  Strong fairness where Go only *)
(* promises not to pass the goroutine over forever: the random choice of a *)
(* ready select branch, and the hand-over of a contended sync.Mutex.  No   *)
(* fairness for signals, deaths, restarts, ticks and the endpoint's reply. *)
(***************************************************************************)
AgentFairness ==
    /\ WF_vars(SpoolGoes)
    /\ WF_vars(ShipGoes)
    /\ WF_vars(ctxDone /\ PostGoes)
    /\ SF_vars(AbortGoes)
    /\ \A s \in Sources : SF_vars(Lock(s) \/ Unlock(s)) /\ SF_vars(Stop(s))
    /\ WF_vars(DrainReturns)
    /\ SF_vars(DrainStop)
    /\ WF_vars(MainStep)
    /\ WF_vars(DrainTimeout)

AgentSafety == AgentInit /\ [][AgentNext]_vars

AgentSpec == AgentSafety /\ AgentFairness

-----------------------------------------------------------------------------
(* Properties. *)

(* The type invariant of the agent's own variables. *)
AgentTypeOK ==
    /\ main \in {"down", "setup", "run", "close", "drain", "exited"}
    /\ src \in [Sources -> {"wait", "lock", "write", "done"}]
    /\ left \in [Sources -> Nat]
    /\ runShip \in {"wait", "drain", "done", "none"}
    /\ exit \in {"none", "ok", "err", "drainIncomplete"}
    /\ ticks \in Nat

(***************************************************************************)
(* End to end: a line whose append succeeded is in the active file, or in  *)
(* a segment on disk, or with the endpoint, or in a segment that the       *)
(* endpoint refused or the cap evicted.  Spool and shipper run             *)
(* concurrently on the same files, and the process may die at any step.    *)
(***************************************************************************)
NothingLost ==
    \A l \in accepted \ glued :
        \/ l \in active.lines
        \/ \E u \in Ulids : /\ dir[u].state \in {"zst", "rejected", "evicted"}
                            /\ l \in dir[u].recs
        \/ \E b \in ingest : b.whole /\ l \in b.recs

(* The lines the endpoint has, and those that were given up. *)
Delivered == UNION {b.recs : b \in {c \in ingest : c.whole}}

Dropped == UNION {dir[u].recs : u \in {v \in Ulids :
                      dir[v].state \in {"rejected", "evicted"}}}

Delivers == INSTANCE Delivery WITH
    held <- Held, delivered <- Delivered, dropped <- Dropped

(***************************************************************************)
(* The agent implements at-least-once delivery, step by step: the endpoint *)
(* gets only what was written, and no step takes a line off the disk that  *)
(* the endpoint has not got, unless it refused it or the cap dropped it.   *)
(***************************************************************************)
RefinesDelivery == Delivers!Spec

(***************************************************************************)
(* The endpoint gets complete segments only, each under an id of its own,  *)
(* although segments are created while the shipper lists the directory.    *)
(***************************************************************************)
IngestSound == /\ \A b \in ingest : b.whole
               /\ BatchIdsStable

(***************************************************************************)
(* What the exit status says.  A clean or a merely incomplete stop (which  *)
(* memauditd reports as success) has every collected envelope in a segment *)
(* or beyond; a clean stop in push mode leaves no segment at all.          *)
(***************************************************************************)
ExitStatusTrue ==
    /\ exit \in {"ok", "drainIncomplete"} =>
          \A l \in active.lines : l.type = "spool_warning"
    /\ exit = "ok" /\ runShip = "done" => Segments = {}

(***************************************************************************)
(* The spool has no lock of its own: a call of Write or Close is only ever *)
(* under way on behalf of the one source that holds writeMu, or of Run     *)
(* when every goroutine has returned.                                      *)
(***************************************************************************)
OneSpoolCaller ==
    /\ \A s, t \in Sources : src[s] = "write" /\ src[t] = "write" => s = t
    /\ pc \notin {"down", "idle"} =>
          IF main = "run" THEN \E s \in Sources : src[s] = "write"
          ELSE \A s \in Sources : src[s] = "done"

(***************************************************************************)
(* Nothing is evicted without need: when enforceCap unlinks a segment, the *)
(* segments on disk are over MaxBytes at that moment, although the shipper *)
(* may have removed some since enforceCap added up their sizes.  It holds  *)
(* because the shipper takes them oldest first too: if any has gone, the   *)
(* oldest has, and enforceCap starts over.  The exceptions are a segment   *)
(* that the shipper could not read or remove and passed over, and one      *)
(* dated by a clock that was set back, which the shipper may find only     *)
(* after the older ones it has already listed.                             *)
(***************************************************************************)
EvictsOnlyOverCap ==
    [][faults = 0 => \A u \in Segments : dir'[u].state = "evicted"
                         => DirBytes > MaxBytes \/ u \in Behind]_vars

(***************************************************************************)
(* SIGTERM ends the agent whatever the endpoint does (including never      *)
(* answering), whatever the sources are doing, and whatever has failed;    *)
(* also when it comes before Run has started them.                         *)
(***************************************************************************)
ShutdownEnds ==
    main \in {"setup", "run"} /\ ctxDone ~> main \in {"exited", "down"}

(***************************************************************************)
(* The comment in enforceCap: a normally shipped segment is not            *)
(* misreported as a cap eviction.                                          *)
(***************************************************************************)
ShippedNotReportedDropped ==
    \A u \in Ulids : Warning(u) \in accepted => \A b \in ingest : b.id # u
=============================================================================
