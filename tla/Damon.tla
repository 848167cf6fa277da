-------------------------------- MODULE Damon -------------------------------
(***************************************************************************)
(* The one DAMON monitoring slot of a host (kdamond 0) and the programs    *)
(* that use it through pkg/damon: memauditd's damon_hist source            *)
(* (internal/agent/sources.go) and memaudit-synth.                         *)
(*                                                                         *)
(* The kernel's sysfs files are external.  As pkg/damon uses them: a       *)
(* configuration file cannot be written while the kdamond is on, "on" is   *)
(* refused when it is on already, and the tried_regions readout can only   *)
(* be updated while it is on.  Every write and read may fail besides.      *)
(* Each start of a program is an incarnation with a configuration of its   *)
(* own (memauditd's aggr_us is configurable), known by a number.           *)
(***************************************************************************)
EXTENDS Naturals

CONSTANTS
    Progs,        \* the programs present, among "memauditd" and "synth"
    NWrites,      \* bound: configuration writes of a Start
    MaxStarts,    \* bound: incarnations
    MaxFaults     \* bound: failing reads and writes

ASSUME DamonAssumption ==
    /\ Progs \subseteq {"memauditd", "synth"}
    /\ NWrites \in Nat
    /\ MaxStarts \in Nat
    /\ MaxFaults \in Nat

VARIABLES
    on,         \* kernel: is the kdamond on?
    holder,     \* kernel, history: the incarnation that turned it on
    config,     \* kernel: whose value each configuration file has
    tried,      \* kernel: the configuration tried_regions was taken under
    at,         \* the step of each program
    id,         \* the incarnation of each program
    wrote,      \* start: how many of the writes are done
    hist,       \* the configuration behind the last histogram it made
    mapped,     \* synth: is the region mapped?
    hot,        \* synth: the hot-touch goroutine
    dirty,      \* history: was a program killed, or did a Stop fail?
    overlap,    \* history: did a program start while another was running?
    incs,       \* incarnations so far
    bad         \* failures so far

kernelVars == <<on, holder, config, tried>>
synthVars == <<mapped, hot>>
histVars == <<overlap, incs>>
dvars == <<kernelVars, at, id, wrote, hist, synthVars, dirty, histVars, bad>>

NoConfig == [i \in 1 .. NWrites |-> 0]

-----------------------------------------------------------------------------
(* Helpers. *)

Works == UNCHANGED bad

Breaks == bad < MaxFaults /\ bad' = bad + 1

Goes(p, step) == at' = [at EXCEPT ![p] = step]

(* Where a program goes that cannot use DAMON on this kernel. *)
NoDamon(p) == Goes(p, IF p = "memauditd" THEN "disabled" ELSE "down")

(* Where a program goes when ParseIomem or damon.Start fails. *)
Refused(p) == Goes(p, IF p = "memauditd" THEN "disabled" ELSE "stopHot")

-----------------------------------------------------------------------------
(* Starting. *)

(* The program starts: buildSources in memauditd, run in memaudit-synth. *)
Begin(p) ==
    /\ at[p] = "down"
    /\ incs < MaxStarts
    /\ overlap' = (overlap \/ \E q \in Progs : at[q] # "down")
    /\ incs' = incs + 1
    /\ id' = [id EXCEPT ![p] = incs + 1]
    /\ hist' = [hist EXCEPT ![p] = NoConfig]
    /\ wrote' = [wrote EXCEPT ![p] = 0]
    /\ Goes(p, "detect")
    /\ UNCHANGED <<kernelVars, synthVars, dirty, bad>>

(* DetectAt: without the sysfs interface, or a kernel release, no DAMON. *)
(* (No caller looks at the guess it makes about tried_regions.)          *)
Detect(p) ==
    /\ at[p] = "detect"
    /\ \/ Works /\ Goes(p, IF p = "memauditd" THEN "iomem" ELSE "check")
       \/ Breaks /\ NoDamon(p)
    /\ UNCHANGED <<kernelVars, id, wrote, hist, synthVars, dirty, histVars>>

(* kdamondAlreadyRunning; without --force a slot in use ends the run. *)
Check ==
    /\ at["synth"] = "check"
    /\ \E force \in BOOLEAN :
       \/ Works /\ Goes("synth", IF on /\ ~force THEN "down" ELSE "map")
       \/ Breaks /\ Goes("synth", "down")
    /\ UNCHANGED <<kernelVars, id, wrote, hist, synthVars, dirty, histVars>>

(* Mmap, the touching of every page, and the hot-touch goroutine. *)
Map ==
    /\ at["synth"] = "map"
    /\ \/ /\ Works
          /\ Goes("synth", "iomem")
          /\ mapped' = TRUE
          /\ hot' = "run"
       \/ Breaks /\ Goes("synth", "down") /\ UNCHANGED synthVars
    /\ UNCHANGED <<kernelVars, id, wrote, hist, dirty, histVars>>

(* ParseIomem: unreadable, malformed, or masked for want of root. *)
Iomem(p) ==
    /\ at[p] = "iomem"
    /\ \/ Works /\ Goes(p, "off")
       \/ Breaks /\ Refused(p)
    /\ UNCHANGED <<kernelVars, id, wrote, hist, synthVars, dirty, histVars>>

(* Mutation: a kdamond left on by an earlier session is not turned off. *)
KeepOn(p) == UNCHANGED <<on, holder>>

(* The best-effort "off": its error is ignored. *)
ForceOff(p) == on' = FALSE /\ holder' = 0

StartOff(p) ==
    /\ at[p] = "off"
    /\ Goes(p, "write")
    /\ \/ Works /\ ForceOff(p)
       \/ Breaks /\ UNCHANGED <<on, holder>>
    /\ UNCHANGED <<config, tried, id, wrote, hist, synthVars, dirty, histVars>>

(* Mutation: a failing configuration write is skipped. *)
SkipWrite(p) == Goes(p, "write") /\ wrote' = [wrote EXCEPT ![p] = @ + 1]

WriteRefused(p) == Refused(p) /\ UNCHANGED wrote

(* The configuration writes, one by one and in order. *)
StartWrite(p) ==
    /\ at[p] = "write"
    /\ wrote[p] < NWrites
    /\ \/ /\ ~on
          /\ Works
          /\ config' = [config EXCEPT ![wrote[p] + 1] = id[p]]
          /\ wrote' = [wrote EXCEPT ![p] = @ + 1]
          /\ UNCHANGED at
       \/ /\ (on /\ Works) \/ Breaks
          /\ WriteRefused(p)
          /\ UNCHANGED config
    /\ UNCHANGED <<on, holder, tried, id, hist, synthVars, dirty, histVars>>

StartOn(p) ==
    /\ at[p] = "write"
    /\ wrote[p] = NWrites
    /\ \/ /\ ~on
          /\ Works
          /\ on' = TRUE
          /\ holder' = id[p]
          /\ Goes(p, "probe")
       \/ /\ (on /\ Works) \/ Breaks
          /\ Refused(p)
          /\ UNCHANGED <<on, holder>>
    /\ UNCHANGED <<config, tried, id, wrote, hist, synthVars, dirty, histVars>>

-----------------------------------------------------------------------------
(* Snapshot: the probe after Start, and Collect. *)

(***************************************************************************)
(* A failed probe stops the session and disables the source.  A failed     *)
(* Collect is one lost tick for memauditd, and the end for synth.          *)
(***************************************************************************)
SnapshotFails(p) ==
    Goes(p, IF p = "memauditd"
            THEN IF at[p] \in {"probe", "probeRead"} THEN "abandon" ELSE "run"
            ELSE "stop")

(* "update_schemes_tried_regions". *)
Update(p) ==
    /\ at[p] \in {"probe", "run"}
    /\ \/ /\ on
          /\ Works
          /\ tried' = config
          /\ Goes(p, IF at[p] = "probe" THEN "probeRead" ELSE "runRead")
       \/ /\ (~on /\ Works) \/ Breaks
          /\ SnapshotFails(p)
          /\ UNCHANGED tried
    /\ UNCHANGED <<on, holder, config, id, wrote, hist, synthVars, dirty,
                   histVars>>

(* The region files are read, and bucketed (unless it is the probe). *)
ReadBack(p) ==
    /\ at[p] \in {"probeRead", "runRead"}
    /\ \/ /\ Works
          /\ hist' = IF at[p] = "runRead" THEN [hist EXCEPT ![p] = tried]
                     ELSE hist
          /\ Goes(p, "run")
       \/ Breaks /\ SnapshotFails(p) /\ UNCHANGED hist
    /\ UNCHANGED <<kernelVars, id, wrote, synthVars, dirty, histVars>>

-----------------------------------------------------------------------------
(* Stopping. *)

(* SIGTERM in memauditd; the verdict or an interrupt in memaudit-synth. *)
End(p) ==
    /\ at[p] \in {"run", "disabled"}
    /\ Goes(p, IF at[p] = "run" THEN "stop" ELSE "down")
    /\ UNCHANGED <<kernelVars, id, wrote, hist, synthVars, dirty, histVars,
                   bad>>

(* Mutation: a session whose probe failed is left running. *)
NoStop == UNCHANGED <<on, holder>>

AbandonStop == on' = FALSE /\ holder' = 0

(* sess.Stop after a failed probe: its error is ignored. *)
Abandon ==
    /\ at["memauditd"] = "abandon"
    /\ Goes("memauditd", "disabled")
    /\ \/ Works /\ AbandonStop /\ UNCHANGED dirty
       \/ Breaks /\ UNCHANGED <<on, holder>> /\ dirty' = TRUE
    /\ UNCHANGED <<config, tried, id, wrote, hist, synthVars, histVars>>

(* sess.Stop at the end: source.close, or the deferred call in run. *)
StopSession(p) ==
    /\ at[p] = "stop"
    /\ Goes(p, IF p = "memauditd" THEN "down" ELSE "stopHot")
    /\ \/ Works /\ on' = FALSE /\ holder' = 0 /\ UNCHANGED dirty
       \/ Breaks /\ UNCHANGED <<on, holder>> /\ dirty' = TRUE
    /\ UNCHANGED <<config, tried, id, wrote, hist, synthVars, histVars>>

(* The deferred calls of run, last one first: close(stopHot)... *)
StopHot ==
    /\ at["synth"] = "stopHot"
    /\ hot' = "told"
    /\ Goes("synth", "unmap")
    /\ UNCHANGED <<kernelVars, id, wrote, hist, mapped, dirty, histVars, bad>>

(* ...which the goroutine sees at its next round... *)
HotExits ==
    /\ hot = "told"
    /\ hot' = "off"
    /\ UNCHANGED <<kernelVars, at, id, wrote, hist, mapped, dirty, histVars,
                   bad>>

(* Mutation: the goroutine is not waited for. *)
HotTold == TRUE

(* hotWG.Wait. *)
HotGone == hot = "off"

(* ...and, once it is gone, Munmap. *)
Unmap ==
    /\ at["synth"] = "unmap"
    /\ HotGone
    /\ mapped' = FALSE
    /\ Goes("synth", "down")
    /\ UNCHANGED <<kernelVars, id, wrote, hist, hot, dirty, histVars, bad>>

(* A program dies with its memory; the kdamond goes on. *)
Kill(p) ==
    /\ at[p] # "down"
    /\ Goes(p, "down")
    /\ dirty' = TRUE
    /\ IF p = "synth" THEN mapped' = FALSE /\ hot' = "off"
       ELSE UNCHANGED synthVars
    /\ UNCHANGED <<kernelVars, id, wrote, hist, histVars, bad>>

-----------------------------------------------------------------------------
DamonInit ==
    /\ on = FALSE
    /\ holder = 0
    /\ config = NoConfig
    /\ tried = NoConfig
    /\ at = [p \in Progs |-> "down"]
    /\ id = [p \in Progs |-> 0]
    /\ wrote = [p \in Progs |-> 0]
    /\ hist = [p \in Progs |-> NoConfig]
    /\ mapped = FALSE
    /\ hot = "off"
    /\ dirty = FALSE
    /\ overlap = FALSE
    /\ incs = 0
    /\ bad = 0

MemauditdNext == "memauditd" \in Progs /\ Abandon

SynthNext == "synth" \in Progs /\ (Check \/ Map \/ StopHot \/ HotExits \/ Unmap)

SessionNext(p) == \/ Begin(p) \/ Detect(p) \/ Iomem(p) \/ StartOff(p)
                  \/ StartWrite(p) \/ StartOn(p) \/ Update(p) \/ ReadBack(p)
                  \/ End(p) \/ StopSession(p) \/ Kill(p)

DamonNext == MemauditdNext \/ SynthNext \/ \E p \in Progs : SessionNext(p)

DamonSpec == DamonInit /\ [][DamonNext]_dvars

-----------------------------------------------------------------------------
(* Properties. *)

(***************************************************************************)
(* A histogram is bucketed with the aggregation interval it was measured   *)
(* with (NewDamon's comment): every configuration file behind it was       *)
(* written by the same incarnation, whatever an earlier one that was       *)
(* killed left in the kernel.  (If the two programs never ran at once.)    *)
(***************************************************************************)
OwnMeasurement ==
    overlap \/ \A p \in Progs :
                   \/ hist[p] = NoConfig
                   \/ \A i \in 1 .. NWrites : hist[p][i] = id[p]

(***************************************************************************)
(* The slot is given back: when every program has ended or done without    *)
(* DAMON, none was killed and no Stop failed, the kdamond is off, at       *)
(* whichever step of Start, of the probe or of the run a failure struck.   *)
(***************************************************************************)
SlotReleased ==
    ~dirty /\ (\A p \in Progs : at[p] \in {"down", "disabled"}) => ~on

(***************************************************************************)
(* memauditd's Start gets past "a kdamond from an earlier,                 *)
(* uncleanly-ended session": only a failing read or write disables the     *)
(* source, as long as the two programs never ran at once.                  *)
(***************************************************************************)
RestartRecovers == overlap \/ \A p \in Progs : at[p] = "disabled" => bad > 0

(***************************************************************************)
(* The hot-touch goroutine never writes to unmapped memory: it has         *)
(* returned before Munmap, at whichever step the run ends.                 *)
(***************************************************************************)
TouchesMapped == hot # "off" => mapped
=============================================================================
