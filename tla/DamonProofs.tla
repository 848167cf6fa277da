----------------------------- MODULE DamonProofs ----------------------------
(***************************************************************************)
(* Proofs about the DAMON slot, for both programs or either one, any       *)
(* number of configuration files, incarnations and failures.               *)
(***************************************************************************)
EXTENDS Damon, TLAPS

-----------------------------------------------------------------------------
(* Types. *)

Steps == {"down", "detect", "check", "map", "iomem", "off", "write", "probe",
          "probeRead", "run", "runRead", "abandon", "disabled", "stop",
          "stopHot", "unmap"}

Files == [1 .. NWrites -> Nat]

DamonTypeOK ==
    /\ on \in BOOLEAN
    /\ holder \in Nat
    /\ config \in Files
    /\ tried \in Files
    /\ at \in [Progs -> Steps]
    /\ id \in [Progs -> Nat]
    /\ wrote \in [Progs -> 0 .. NWrites]
    /\ hist \in [Progs -> Files]
    /\ mapped \in BOOLEAN
    /\ hot \in {"off", "run", "told"}
    /\ dirty \in BOOLEAN
    /\ overlap \in BOOLEAN
    /\ incs \in Nat
    /\ bad \in Nat

(* Moving a program to a step, and what that leaves alone. *)
LEMMA GoesTo ==
    ASSUME DamonTypeOK, NEW p \in Progs, NEW s, Goes(p, s)
    PROVE  /\ at'[p] = s
           /\ \A q \in Progs : q # p => at'[q] = at[q]
           /\ s \in Steps => at' \in [Progs -> Steps]
BY DEF DamonTypeOK, Goes

(* The steps that lead out of DAMON are steps. *)
LEMMA Exits ==
    ASSUME DamonTypeOK, NEW p \in Progs
    PROVE  /\ NoDamon(p) => at' \in [Progs -> Steps]
           /\ Refused(p) => at' \in [Progs -> Steps]
           /\ SnapshotFails(p) => at' \in [Progs -> Steps]
BY DEF DamonTypeOK, NoDamon, Refused, SnapshotFails, Goes, Steps

(* Failures are counted. *)
LEMMA BadCounts ==
    ASSUME DamonTypeOK
    PROVE  /\ Works => bad' = bad
           /\ Breaks => bad' \in Nat /\ bad' > 0
BY DEF DamonTypeOK, Works, Breaks

(* Every step of the programs preserves the types. *)
LEMMA DamonTypeInductive ==
    ASSUME DamonTypeOK, [DamonNext]_dvars
    PROVE  DamonTypeOK'
<1> USE DEF DamonTypeOK
<1>0. NoConfig \in Files /\ NWrites \in Nat
  BY DamonAssumption DEF NoConfig, Files
<1>1. ASSUME NEW p \in Progs, Begin(p) PROVE DamonTypeOK'
  <2>1. at' \in [Progs -> Steps]
    BY <1>1, GoesTo DEF Begin, Steps
  <2>2. /\ hist' \in [Progs -> Files]
        /\ id' \in [Progs -> Nat]
        /\ wrote' \in [Progs -> 0 .. NWrites]
        /\ overlap' \in BOOLEAN
        /\ incs' \in Nat
    BY <1>0, <1>1 DEF Begin
  <2> QED
    BY <1>1, <2>1, <2>2 DEF Begin, kernelVars, synthVars
<1>2. ASSUME NEW p \in Progs, Detect(p) \/ Iomem(p) PROVE DamonTypeOK'
  <2>1. at' \in [Progs -> Steps]
    BY <1>2, GoesTo, Exits DEF Detect, Iomem, Steps
  <2>2. bad' \in Nat
    BY <1>2, BadCounts DEF Detect, Iomem
  <2> QED
    BY <1>2, <2>1, <2>2 DEF Detect, Iomem, kernelVars, synthVars, histVars
<1>3. ASSUME "synth" \in Progs, Check \/ Map PROVE DamonTypeOK'
  <2>1. at' \in [Progs -> Steps]
    BY <1>3, GoesTo DEF Check, Map, Steps
  <2>2. bad' \in Nat
    BY <1>3, BadCounts DEF Check, Map
  <2>3. mapped' \in BOOLEAN /\ hot' \in {"off", "run", "told"}
    BY <1>3 DEF Check, Map, synthVars
  <2> QED
    BY <1>3, <2>1, <2>2, <2>3 DEF Check, Map, kernelVars, histVars
<1>4. ASSUME NEW p \in Progs, StartOff(p) \/ StopSession(p) PROVE DamonTypeOK'
  <2>1. at' \in [Progs -> Steps]
    BY <1>4, GoesTo DEF StartOff, StopSession, Steps
  <2>2. bad' \in Nat /\ holder' \in Nat
    BY <1>4, BadCounts DEF StartOff, ForceOff, StopSession
  <2>3. on' \in {on, FALSE} /\ dirty' \in {dirty, TRUE}
    BY <1>4 DEF StartOff, ForceOff, StopSession
  <2> QED
    BY <1>4, <2>1, <2>2, <2>3 DEF StartOff, StopSession, synthVars, histVars
<1>5. ASSUME NEW p \in Progs, StartWrite(p) PROVE DamonTypeOK'
  <2>1. at' \in [Progs -> Steps]
    BY <1>5, Exits DEF StartWrite, WriteRefused
  <2>2. bad' \in Nat
    BY <1>5, BadCounts DEF StartWrite
  <2>3. wrote[p] + 1 \in 1 .. NWrites
    BY <1>0, <1>5 DEF StartWrite
  <2>4. config' \in Files /\ wrote' \in [Progs -> 0 .. NWrites]
    <3>1. CASE UNCHANGED <<config, wrote>>
      BY <3>1
    <3>2. CASE /\ config' = [config EXCEPT ![wrote[p] + 1] = id[p]]
               /\ wrote' = [wrote EXCEPT ![p] = @ + 1]
      <4>1. id[p] \in Nat /\ wrote[p] + 1 \in 0 .. NWrites
        BY <1>0, <2>3
      <4>2. config' \in Files
        BY <3>2, <4>1 DEF Files
      <4>3. wrote' \in [Progs -> 0 .. NWrites]
        BY <3>2, <4>1
      <4> QED
        BY <4>2, <4>3
    <3> QED
      BY <1>5, <3>1, <3>2 DEF StartWrite, WriteRefused
  <2> QED
    BY <1>5, <2>1, <2>2, <2>4 DEF StartWrite, synthVars, histVars
<1>6. ASSUME NEW p \in Progs, StartOn(p) PROVE DamonTypeOK'
  <2>1. at' \in [Progs -> Steps]
    BY <1>6, GoesTo, Exits DEF StartOn, Steps
  <2>2. bad' \in Nat /\ on' \in BOOLEAN /\ holder' \in Nat
    BY <1>6, BadCounts DEF StartOn
  <2> QED
    BY <1>6, <2>1, <2>2 DEF StartOn, synthVars, histVars
<1>7. ASSUME NEW p \in Progs, Update(p) \/ ReadBack(p) PROVE DamonTypeOK'
  <2>1. at' \in [Progs -> Steps]
    BY <1>7, GoesTo, Exits DEF Update, ReadBack, Steps
  <2>2. bad' \in Nat /\ tried' \in Files /\ hist' \in [Progs -> Files]
    BY <1>7, BadCounts DEF Update, ReadBack, kernelVars
  <2> QED
    BY <1>7, <2>1, <2>2 DEF Update, ReadBack, kernelVars, synthVars, histVars
<1>8. ASSUME NEW p \in Progs, End(p) \/ Kill(p) PROVE DamonTypeOK'
  <2>1. at' \in [Progs -> Steps]
    BY <1>8, GoesTo DEF End, Kill, Steps
  <2>2. /\ mapped' \in BOOLEAN
        /\ hot' \in {"off", "run", "told"}
        /\ dirty' \in BOOLEAN
    BY <1>8 DEF End, Kill, synthVars
  <2> QED
    BY <1>8, <2>1, <2>2 DEF End, Kill, kernelVars, histVars
<1>9. ASSUME "memauditd" \in Progs, Abandon PROVE DamonTypeOK'
  <2>1. at' \in [Progs -> Steps]
    BY <1>9, GoesTo DEF Abandon, Steps
  <2>2. bad' \in Nat /\ holder' \in Nat
    BY <1>9, BadCounts DEF Abandon, AbandonStop
  <2>3. on' \in {on, FALSE} /\ dirty' \in {dirty, TRUE}
    BY <1>9 DEF Abandon, AbandonStop
  <2> QED
    BY <1>9, <2>1, <2>2, <2>3 DEF Abandon, synthVars, histVars
<1>10. ASSUME "synth" \in Progs, StopHot \/ HotExits \/ Unmap
       PROVE  DamonTypeOK'
  <2>1. at' \in [Progs -> Steps]
    BY <1>10, GoesTo DEF StopHot, HotExits, Unmap, Steps
  <2> QED
    BY <1>10, <2>1 DEF StopHot, HotExits, Unmap, kernelVars, histVars
<1>11. CASE UNCHANGED dvars
  BY <1>11 DEF dvars, kernelVars, synthVars, histVars
<1> QED
  BY <1>1, <1>2, <1>3, <1>4, <1>5, <1>6, <1>7, <1>8, <1>9, <1>10, <1>11
     DEF DamonNext, MemauditdNext, SynthNext, SessionNext

-----------------------------------------------------------------------------
(* The region of memaudit-synth. *)

(* The steps of run between Mmap and Munmap. *)
Mapped == {"iomem", "off", "write", "probe", "probeRead", "run", "runRead",
           "stop", "stopHot", "unmap"}

(* Between the two the region is there, so that the goroutine that is told *)
(* to stop, but has not stopped yet, may still touch it. *)
RegionInv ==
    /\ "synth" \in Progs /\ at["synth"] \in Mapped => mapped
    /\ TouchesMapped

(* A step that leaves the region and the goroutine alone, and takes synth to *)
(* a step between Mmap and Munmap only from another one. *)
LEMMA RegionKept ==
    ASSUME DamonTypeOK, RegionInv, UNCHANGED <<mapped, hot>>,
           "synth" \in Progs /\ at'["synth"] \in Mapped
               => at["synth"] \in Mapped
    PROVE  RegionInv'
BY DEF RegionInv, TouchesMapped

(* Every step of the programs keeps the region as long as it is used. *)
LEMMA RegionInductive ==
    ASSUME DamonTypeOK, RegionInv, [DamonNext]_dvars
    PROVE  RegionInv'
<1> USE DEF Mapped
<1>1. ASSUME NEW p \in Progs,
             \/ Begin(p) \/ Detect(p) \/ Iomem(p) \/ StartOff(p)
             \/ StartWrite(p) \/ StartOn(p)
      PROVE  RegionInv'
  <2>1. UNCHANGED <<mapped, hot>>
    BY <1>1 DEF Begin, Detect, Iomem, StartOff, StartWrite, StartOn, synthVars
  <2>2. "synth" \in Progs /\ at'["synth"] \in Mapped => at["synth"] \in Mapped
    BY <1>1, GoesTo
       DEF Begin, Detect, NoDamon, Iomem, Refused, StartOff, StartWrite,
           WriteRefused, StartOn
  <2> QED
    BY <2>1, <2>2, RegionKept
<1>2. ASSUME NEW p \in Progs,
             Update(p) \/ ReadBack(p) \/ End(p) \/ StopSession(p)
      PROVE  RegionInv'
  <2>1. UNCHANGED <<mapped, hot>>
    BY <1>2 DEF Update, ReadBack, End, StopSession, synthVars
  <2>2. "synth" \in Progs /\ at'["synth"] \in Mapped => at["synth"] \in Mapped
    BY <1>2, GoesTo DEF Update, ReadBack, SnapshotFails, End, StopSession
  <2> QED
    BY <2>1, <2>2, RegionKept
<1>3. ASSUME "memauditd" \in Progs, Abandon PROVE RegionInv'
  <2>1. UNCHANGED <<mapped, hot>>
    BY <1>3 DEF Abandon, synthVars
  <2>2. "synth" \in Progs => at'["synth"] = at["synth"]
    BY <1>3, GoesTo DEF Abandon
  <2> QED
    BY <2>1, <2>2, RegionKept
<1>4. ASSUME "synth" \in Progs, Check PROVE RegionInv'
  BY <1>4, GoesTo, RegionKept DEF Check, synthVars
<1>5. ASSUME "synth" \in Progs, Map PROVE RegionInv'
  <2>1. CASE mapped' = TRUE
    BY <2>1 DEF RegionInv, TouchesMapped
  <2>2. CASE Goes("synth", "down") /\ UNCHANGED synthVars
    BY <1>5, <2>2, GoesTo, RegionKept DEF synthVars
  <2> QED
    BY <1>5, <2>1, <2>2 DEF Map
<1>6. ASSUME "synth" \in Progs, StopHot PROVE RegionInv'
  <2>1. mapped /\ UNCHANGED mapped
    BY <1>6 DEF StopHot, RegionInv
  <2> QED
    BY <2>1 DEF RegionInv, TouchesMapped
<1>7. CASE HotExits
  BY <1>7 DEF HotExits, RegionInv, TouchesMapped
<1>8. ASSUME "synth" \in Progs, Unmap PROVE RegionInv'
  <2>1. at'["synth"] = "down" /\ hot' = "off"
    BY <1>8, GoesTo DEF Unmap, HotGone
  <2> QED
    BY <2>1 DEF RegionInv, TouchesMapped
<1>9. ASSUME NEW p \in Progs, Kill(p) PROVE RegionInv'
  <2>1. CASE p = "synth"
    BY <1>9, <2>1, GoesTo DEF Kill, RegionInv, TouchesMapped
  <2>2. CASE p # "synth"
    BY <1>9, <2>2, GoesTo, RegionKept DEF Kill, synthVars
  <2> QED
    BY <2>1, <2>2
<1>10. CASE UNCHANGED dvars
  BY <1>10 DEF dvars, synthVars, RegionInv, TouchesMapped
<1> QED
  BY <1>1, <1>2, <1>3, <1>4, <1>5, <1>6, <1>7, <1>8, <1>9, <1>10
     DEF DamonNext, MemauditdNext, SynthNext, SessionNext

-----------------------------------------------------------------------------
(* The slot. *)

(* The steps between a Start that succeeded and the end of its Stop. *)
InSession == {"probe", "probeRead", "run", "runRead", "abandon", "stop"}

(* As long as every Stop succeeds, a kdamond that is on has a program that *)
(* will turn it off, also when two programs take it from each other. *)
SlotInv == on /\ ~dirty => \E p \in Progs : at[p] \in InSession

(* A step of a program that neither turns the kdamond on nor leaves a *)
(* session that it is in. *)
LEMMA SlotKept ==
    ASSUME DamonTypeOK, SlotInv, NEW p \in Progs,
           on' => on, dirty => dirty',
           at[p] \in InSession => at'[p] \in InSession,
           \A q \in Progs : q # p => at'[q] = at[q]
    PROVE  SlotInv'
<1> SUFFICES ASSUME on', ~dirty' PROVE \E q \in Progs : at'[q] \in InSession
  BY DEF SlotInv
<1>1. PICK q \in Progs : at[q] \in InSession
  BY DEF SlotInv
<1>2. at'[q] \in InSession
  BY <1>1
<1> QED
  BY <1>2

(* Every step of the programs keeps it. *)
LEMMA SlotInductive ==
    ASSUME DamonTypeOK, SlotInv, [DamonNext]_dvars
    PROVE  SlotInv'
<1> USE DEF InSession
<1>1. ASSUME NEW p \in Progs,
             \/ Begin(p) \/ Detect(p) \/ Iomem(p) \/ StartOff(p)
             \/ StartWrite(p) \/ End(p)
      PROVE  SlotInv'
  <2>1. (on' => on) /\ (dirty => dirty')
    BY <1>1 DEF Begin, Detect, Iomem, StartOff, ForceOff, StartWrite, End,
                kernelVars
  <2>2. at[p] \in InSession => at'[p] \in InSession
    BY <1>1, GoesTo DEF Begin, Detect, Iomem, StartOff, StartWrite, End
  <2>3. \A q \in Progs : q # p => at'[q] = at[q]
    BY <1>1, GoesTo
       DEF Begin, Detect, NoDamon, Iomem, Refused, StartOff, StartWrite,
           WriteRefused, End
  <2> QED
    BY <2>1, <2>2, <2>3, SlotKept
<1>2. ASSUME NEW p \in Progs, StartOn(p) PROVE SlotInv'
  <2>1. CASE Goes(p, "probe")
    BY <2>1, GoesTo DEF SlotInv
  <2>2. CASE Refused(p) /\ UNCHANGED <<on, holder>>
    <3>1. at[p] \notin InSession /\ UNCHANGED dirty
      BY <1>2 DEF StartOn
    <3>2. \A q \in Progs : q # p => at'[q] = at[q]
      BY <2>2, GoesTo DEF Refused
    <3> QED
      BY <2>2, <3>1, <3>2, SlotKept
  <2> QED
    BY <1>2, <2>1, <2>2 DEF StartOn
<1>3. ASSUME NEW p \in Progs, Update(p) \/ ReadBack(p) PROVE SlotInv'
  <2>1. UNCHANGED <<on, dirty>>
    BY <1>3 DEF Update, ReadBack, kernelVars
  <2>2. at'[p] \in InSession
    BY <1>3, GoesTo DEF Update, ReadBack, SnapshotFails
  <2>3. \A q \in Progs : q # p => at'[q] = at[q]
    BY <1>3, GoesTo DEF Update, ReadBack, SnapshotFails
  <2> QED
    BY <2>1, <2>2, <2>3, SlotKept
<1>4. CASE \E p \in Progs : StopSession(p) \/ Kill(p)
  BY <1>4 DEF StopSession, Kill, SlotInv
<1>5. CASE Abandon
  BY <1>5 DEF Abandon, AbandonStop, SlotInv
<1>6. ASSUME "synth" \in Progs, Check \/ Map \/ StopHot \/ Unmap
      PROVE  SlotInv'
  <2>1. UNCHANGED <<on, dirty>> /\ at["synth"] \notin InSession
    BY <1>6 DEF Check, Map, StopHot, Unmap, kernelVars
  <2>2. \A q \in Progs : q # "synth" => at'[q] = at[q]
    BY <1>6, GoesTo DEF Check, Map, StopHot, Unmap
  <2> QED
    BY <1>6, <2>1, <2>2, SlotKept
<1>7. CASE HotExits \/ UNCHANGED dvars
  BY <1>7 DEF HotExits, dvars, kernelVars, SlotInv
<1> QED
  BY <1>1, <1>2, <1>3, <1>4, <1>5, <1>6, <1>7
     DEF DamonNext, MemauditdNext, SynthNext, SessionNext

-----------------------------------------------------------------------------
(* A program that has the slot for itself. *)

(* The steps before the first configuration write. *)
Before == {"detect", "check", "map", "iomem", "off"}

(* The steps in which the session is there to be read. *)
Running == {"probe", "probeRead", "run", "runRead"}

(* The files that program p has written are its own... *)
OwnFiles(p) ==
    /\ at[p] \in Before => wrote[p] = 0
    /\ at[p] = "write" => \A i \in 1 .. wrote[p] : config[i] = id[p]
    /\ at[p] \in Running => \A i \in 1 .. NWrites : config[i] = id[p]
    /\ at[p] \in {"probeRead", "runRead"} => tried = config
    /\ \/ hist[p] = NoConfig
       \/ \A i \in 1 .. NWrites : hist[p][i] = id[p]

(* ...and the kdamond is off before its "on" and on after it, so that only *)
(* a failure can keep memauditd from its session. *)
OwnSlot(p) ==
    /\ at[p] = "write" /\ bad = 0 => ~on
    /\ at[p] \in Running => on
    /\ at[p] \in {"abandon", "disabled"} => bad > 0

(***************************************************************************)
(* As long as no program started while another was running, there is one   *)
(* at most, and what it finds in the kernel is its own, whatever one that  *)
(* was killed has left.                                                    *)
(***************************************************************************)
AloneInv ==
    overlap \/ /\ \A p, q \in Progs : p = q \/ at[p] = "down" \/ at[q] = "down"
               /\ \A p \in Progs : OwnFiles(p) /\ OwnSlot(p)

(* A program that is down keeps what is said of it. *)
LEMMA DownKeeps ==
    ASSUME NEW q, at'[q] = "down", hist'[q] = hist[q], id'[q] = id[q],
           OwnFiles(q)
    PROVE  OwnFiles(q)' /\ OwnSlot(q)'
BY DEF OwnFiles, OwnSlot, Before, Running

(***************************************************************************)
(* While nobody overlaps, a step of a program that is not down is a step   *)
(* of the only one: what is said of the others stays, and what is said of  *)
(* it is left to show.                                                     *)
(***************************************************************************)
LEMMA AloneStep ==
    ASSUME DamonTypeOK, AloneInv, UNCHANGED overlap,
           NEW p \in Progs, at[p] # "down",
           \A q \in Progs : q # p => /\ at'[q] = at[q]
                                    /\ hist'[q] = hist[q]
                                    /\ id'[q] = id[q],
           ~overlap => OwnFiles(p)' /\ OwnSlot(p)'
    PROVE  AloneInv'
<1> SUFFICES ASSUME ~overlap PROVE AloneInv'
  BY DEF AloneInv
<1>1. \A q \in Progs : q # p => at[q] = "down" /\ OwnFiles(q)
  BY DEF AloneInv
<1>2. \A q \in Progs : q # p => at'[q] = "down"
  BY <1>1
<1>3. \A q \in Progs : q # p => OwnFiles(q)' /\ OwnSlot(q)'
  BY <1>1, <1>2, DownKeeps
<1> QED
  BY <1>2, <1>3 DEF AloneInv

(* What is said of the only program before its step. *)
LEMMA AloneNow ==
    ASSUME AloneInv, ~overlap, NEW p \in Progs
    PROVE  OwnFiles(p) /\ OwnSlot(p)
BY DEF AloneInv

(* The steps of Start. *)
LEMMA AloneStart ==
    ASSUME DamonTypeOK, AloneInv, NEW p \in Progs,
           \/ Detect(p) \/ Iomem(p) \/ StartOff(p) \/ StartWrite(p)
           \/ StartOn(p)
    PROVE  AloneInv'
<1>0. /\ at[p] # "down"
      /\ UNCHANGED <<overlap, hist, id, tried>>
  BY DEF Detect, Iomem, StartOff, StartWrite, StartOn, kernelVars, histVars
<1>1. \A q \in Progs : q # p => at'[q] = at[q]
  BY GoesTo DEF Detect, NoDamon, Iomem, Refused, StartOff, StartWrite,
                WriteRefused, StartOn
<1>2. bad \in Nat /\ bad' \in Nat /\ (bad' = 0 => bad = 0)
  BY BadCounts DEF DamonTypeOK, Detect, Iomem, StartOff, StartWrite, StartOn
<1>3. ASSUME ~overlap PROVE OwnFiles(p)' /\ OwnSlot(p)'
  <2>0. OwnFiles(p) /\ OwnSlot(p)
    BY <1>3, AloneNow
  <2> USE DEF OwnFiles, OwnSlot, Before, Running
  <2>1. CASE Detect(p) \/ Iomem(p)
    <3>1. UNCHANGED <<on, config, wrote>> /\ at[p] \in Before
      BY <2>1 DEF Detect, Iomem, kernelVars
    <3>2. \/ at'[p] \in {"iomem", "check", "off", "down", "stopHot"}
          \/ at'[p] = "disabled" /\ bad' > 0
      BY <2>1, GoesTo, BadCounts DEF Detect, NoDamon, Iomem, Refused
    <3> QED
      BY <1>0, <2>0, <3>1, <3>2
  <2>2. CASE StartOff(p)
    <3>1. /\ UNCHANGED <<config, wrote>>
          /\ at[p] = "off"
          /\ at'[p] = "write"
          /\ on' = FALSE \/ bad' > 0
      BY <2>2, GoesTo, BadCounts DEF StartOff, ForceOff
    <3>2. wrote'[p] = 0
      BY <2>0, <3>1
    <3> QED
      BY <1>0, <1>2, <2>0, <3>1, <3>2
  <2>3. CASE StartWrite(p)
    <3>1. at[p] = "write" /\ UNCHANGED on
      BY <2>3 DEF StartWrite
    <3>2. CASE /\ config' = [config EXCEPT ![wrote[p] + 1] = id[p]]
               /\ wrote' = [wrote EXCEPT ![p] = @ + 1]
               /\ UNCHANGED at
      <4>1. /\ wrote'[p] = wrote[p] + 1
            /\ wrote[p] \in Nat
            /\ \A i \in 1 .. NWrites :
                  config'[i] = IF i = wrote[p] + 1 THEN id[p] ELSE config[i]
            /\ wrote[p] + 1 \in 1 .. NWrites
        BY <2>3, <3>2, DamonAssumption DEF DamonTypeOK, Files, StartWrite
      <4>2. \A i \in 1 .. wrote'[p] : config'[i] = id[p]
        BY <2>0, <3>1, <4>1, DamonAssumption
      <4> QED
        BY <1>0, <1>2, <2>0, <3>1, <3>2, <4>2
    <3>3. CASE /\ (on /\ Works) \/ Breaks
               /\ WriteRefused(p)
               /\ UNCHANGED config
      <4>1. \/ at'[p] = "stopHot"
            \/ at'[p] = "disabled"
        BY <3>3, GoesTo DEF WriteRefused, Refused
      <4>2. bad' > 0
        BY <1>2, <2>0, <3>1, <3>3, BadCounts
      <4> QED
        BY <1>0, <2>0, <4>1, <4>2
    <3> QED
      BY <2>3, <3>2, <3>3 DEF StartWrite
  <2>4. CASE StartOn(p)
    <3>1. at[p] = "write" /\ UNCHANGED <<config, wrote>> /\ wrote[p] = NWrites
      BY <2>4 DEF StartOn
    <3>2. CASE on' = TRUE /\ Goes(p, "probe")
      <4>1. at'[p] = "probe"
        BY <3>2, GoesTo
      <4> QED
        BY <1>0, <2>0, <3>1, <3>2, <4>1
    <3>3. CASE /\ (on /\ Works) \/ Breaks
               /\ Refused(p)
      <4>1. \/ at'[p] = "stopHot"
            \/ at'[p] = "disabled"
        BY <3>3, GoesTo DEF Refused
      <4>2. bad' > 0
        BY <1>2, <2>0, <3>1, <3>3, BadCounts
      <4> QED
        BY <1>0, <2>0, <4>1, <4>2
    <3> QED
      BY <2>4, <3>2, <3>3 DEF StartOn
  <2> QED
    BY <2>1, <2>2, <2>3, <2>4
<1> QED
  BY <1>0, <1>1, <1>3, AloneStep

(* The probe and the ticks. *)
LEMMA AloneSnapshot ==
    ASSUME DamonTypeOK, AloneInv, NEW p \in Progs, Update(p) \/ ReadBack(p)
    PROVE  AloneInv'
<1>0. /\ at[p] \in Running
      /\ UNCHANGED <<on, config, overlap, id, wrote>>
  BY DEF Update, ReadBack, kernelVars, histVars, Running
<1>1. \A q \in Progs : q # p => at'[q] = at[q] /\ hist'[q] = hist[q]
  BY GoesTo DEF Update, ReadBack, SnapshotFails, DamonTypeOK
<1>2. bad \in Nat /\ bad' \in Nat
  BY BadCounts DEF DamonTypeOK, Update, ReadBack
<1>3. ASSUME ~overlap PROVE OwnFiles(p)' /\ OwnSlot(p)'
  <2>0. OwnFiles(p) /\ OwnSlot(p)
    BY <1>3, AloneNow
  <2>1. on /\ \A i \in 1 .. NWrites : config[i] = id[p]
    BY <1>0, <2>0 DEF OwnFiles, OwnSlot
  <2>2. \/ at'[p] \in {"probeRead", "runRead", "run", "stop"}
        \/ at'[p] = "abandon" /\ bad' > 0
    BY <2>1, GoesTo, BadCounts DEF Update, ReadBack, SnapshotFails
  <2>3. at'[p] \in {"probeRead", "runRead"} => tried' = config
    <3>1. CASE SnapshotFails(p) \/ Goes(p, "run")
      BY <3>1, GoesTo DEF SnapshotFails
    <3> QED
      BY <3>1 DEF Update, ReadBack
  <2>4. hist'[p] = hist[p] \/ hist'[p] = config
    <3>1. CASE Update(p)
      BY <3>1 DEF Update
    <3>2. CASE ReadBack(p)
      <4>1. tried = config
        BY <2>0, <3>2 DEF ReadBack, OwnFiles
      <4> QED
        BY <3>2, <4>1 DEF ReadBack, DamonTypeOK
    <3> QED
      BY <3>1, <3>2
  <2>5. OwnFiles(p)'
    BY <1>0, <2>0, <2>1, <2>2, <2>3, <2>4 DEF OwnFiles, Before, Running
  <2>6. OwnSlot(p)'
    BY <1>0, <2>1, <2>2 DEF OwnSlot, Running
  <2> QED
    BY <2>5, <2>6
<1> QED
  BY <1>0, <1>1, <1>3, AloneStep DEF Running

(***************************************************************************)
(* A step of the only program that touches no configuration file and takes *)
(* it to a step that nothing is claimed of, or to one that needs no more   *)
(* than what held before.                                                  *)
(***************************************************************************)
LEMMA AloneLeaves ==
    ASSUME DamonTypeOK, AloneInv, NEW p \in Progs, at[p] # "down",
           UNCHANGED <<overlap, hist, id, wrote>>,
           \A q \in Progs : q # p => at'[q] = at[q],
           \/ at'[p] \in {"down", "stop", "stopHot", "unmap"}
           \/ at[p] \in Before /\ at'[p] \in Before
           \/ /\ at[p] = "abandon"
              /\ at'[p] = "disabled"
              /\ bad' = bad \/ bad' > 0
    PROVE  AloneInv'
<1>1. ASSUME ~overlap PROVE OwnFiles(p)' /\ OwnSlot(p)'
  <2>0. OwnFiles(p) /\ OwnSlot(p)
    BY <1>1, AloneNow
  <2>1. OwnFiles(p)'
    BY <2>0 DEF OwnFiles, Before, Running
  <2>2. CASE at'[p] = "disabled"
    <3>1. bad' > 0
      BY <2>0, <2>2 DEF OwnSlot, Before
    <3> QED
      BY <2>1, <2>2, <3>1 DEF OwnSlot, Running
  <2>3. CASE at'[p] # "disabled"
    BY <2>1, <2>3 DEF OwnSlot, Before, Running
  <2> QED
    BY <2>2, <2>3
<1> QED
  BY <1>1, AloneStep

(* The starts: the first program finds everybody down. *)
LEMMA AloneBegin ==
    ASSUME DamonTypeOK, AloneInv, NEW p \in Progs, Begin(p)
    PROVE  AloneInv'
<1> SUFFICES ASSUME ~overlap' PROVE AloneInv'
  BY DEF AloneInv
<1>1. ~overlap /\ \A q \in Progs : at[q] = "down"
  BY DEF Begin
<1>2. /\ at'[p] = "detect"
      /\ wrote'[p] = 0
      /\ hist'[p] = NoConfig
  BY GoesTo DEF Begin, DamonTypeOK
<1>3. \A q \in Progs : q # p => /\ at'[q] = "down"
                              /\ hist'[q] = hist[q]
                              /\ id'[q] = id[q]
  BY <1>1, GoesTo DEF Begin, DamonTypeOK
<1>4. \A q \in Progs : q # p => OwnFiles(q)' /\ OwnSlot(q)'
  BY <1>1, <1>3, AloneNow, DownKeeps
<1>5. OwnFiles(p)' /\ OwnSlot(p)'
  BY <1>2 DEF OwnFiles, OwnSlot, Before, Running
<1> QED
  BY <1>3, <1>4, <1>5 DEF AloneInv

(* Every step of the programs keeps it. *)
LEMMA AloneInductive ==
    ASSUME DamonTypeOK, AloneInv, [DamonNext]_dvars
    PROVE  AloneInv'
<1>1. ASSUME NEW p \in Progs,
             \/ Begin(p) \/ Detect(p) \/ Iomem(p) \/ StartOff(p)
             \/ StartWrite(p) \/ StartOn(p) \/ Update(p) \/ ReadBack(p)
      PROVE  AloneInv'
  BY <1>1, AloneBegin, AloneStart, AloneSnapshot
<1>2. ASSUME NEW p \in Progs, End(p) \/ StopSession(p) \/ Kill(p)
      PROVE  AloneInv'
  <2>1. at[p] # "down" /\ UNCHANGED <<overlap, hist, id, wrote>>
    BY <1>2 DEF End, StopSession, Kill, histVars
  <2>2. /\ at'[p] \in {"down", "stop", "stopHot"}
        /\ \A q \in Progs : q # p => at'[q] = at[q]
    BY <1>2, GoesTo DEF End, StopSession, Kill
  <2> QED
    BY <2>1, <2>2, AloneLeaves
<1>3. ASSUME "memauditd" \in Progs, Abandon PROVE AloneInv'
  <2>1. at["memauditd"] = "abandon" /\ UNCHANGED <<overlap, hist, id, wrote>>
    BY <1>3 DEF Abandon, histVars
  <2>2. /\ at'["memauditd"] = "disabled"
        /\ \A q \in Progs : q # "memauditd" => at'[q] = at[q]
    BY <1>3, GoesTo DEF Abandon
  <2>3. bad' = bad \/ bad' > 0
    BY <1>3, BadCounts DEF Abandon
  <2> QED
    BY <1>3, <2>1, <2>2, <2>3, AloneLeaves
<1>4. ASSUME "synth" \in Progs, Check \/ Map \/ StopHot \/ Unmap
      PROVE  AloneInv'
  <2>1. at["synth"] # "down" /\ UNCHANGED <<overlap, hist, id, wrote>>
    BY <1>4 DEF Check, Map, StopHot, Unmap, histVars
  <2>2. /\ \/ at'["synth"] \in {"down", "unmap"}
           \/ at["synth"] \in Before /\ at'["synth"] \in Before
        /\ \A q \in Progs : q # "synth" => at'[q] = at[q]
    BY <1>4, GoesTo DEF Check, Map, StopHot, Unmap, Before
  <2> QED
    BY <1>4, <2>1, <2>2, AloneLeaves
<1>5. CASE HotExits \/ UNCHANGED dvars
  BY <1>5 DEF HotExits, dvars, kernelVars, histVars, AloneInv, OwnFiles,
              OwnSlot
<1> QED
  BY <1>1, <1>2, <1>3, <1>4, <1>5
     DEF DamonNext, MemauditdNext, SynthNext, SessionNext

-----------------------------------------------------------------------------
(* The theorems. *)

DamonInv == DamonTypeOK /\ RegionInv /\ SlotInv /\ AloneInv

(* A host that has just booted. *)
LEMMA DamonBegins ==
    ASSUME DamonInit
    PROVE  DamonInv
<1> USE DEF DamonInit
<1>1. NoConfig \in Files /\ 0 \in 0 .. NWrites
  BY DamonAssumption DEF NoConfig, Files
<1>2. DamonTypeOK
  BY <1>1 DEF DamonTypeOK, Steps
<1>3. RegionInv /\ SlotInv
  BY DEF RegionInv, Mapped, TouchesMapped, SlotInv
<1>4. AloneInv
  BY DEF AloneInv, OwnFiles, OwnSlot, Before, Running
<1> QED
  BY <1>2, <1>3, <1>4 DEF DamonInv

(* The invariants hold together in every run. *)
LEMMA DamonInvariant == DamonSpec => []DamonInv
<1>1. DamonInv /\ [DamonNext]_dvars => DamonInv'
  BY DamonTypeInductive, RegionInductive, SlotInductive, AloneInductive
     DEF DamonInv
<1> QED
  BY <1>1, DamonBegins, PTL DEF DamonSpec

(***************************************************************************)
(* The hot-touch goroutine of memaudit-synth never writes to a region that *)
(* Munmap has given back, at whichever step of run a failure, an interrupt *)
(* or the verdict ends it (cmd/memaudit-synth, run's deferred calls).      *)
(***************************************************************************)
THEOREM HotTouchIsSafe == DamonSpec => []TouchesMapped
<1>1. DamonInv => TouchesMapped
  BY DEF DamonInv, RegionInv
<1> QED
  BY <1>1, DamonInvariant, PTL

(***************************************************************************)
(* When every program has ended or does without DAMON, none was killed and *)
(* no Stop failed, the kdamond is off: every way out of Start, of the      *)
(* probe and of the run gives the slot back, also when the two programs    *)
(* took it from each other (pkg/damon Start and Stop, and their callers).  *)
(***************************************************************************)
THEOREM SlotIsReleased == DamonSpec => []SlotReleased
<1>1. DamonInv => SlotReleased
  BY DEF DamonInv, SlotInv, InSession, SlotReleased
<1> QED
  BY <1>1, DamonInvariant, PTL

(***************************************************************************)
(* Unless the two programs ran at once, all configuration files behind a   *)
(* histogram were written by the incarnation that reports it, whatever a   *)
(* killed one left in the kernel (pkg/damon Start, Snapshot).              *)
(***************************************************************************)
THEOREM MeasurementIsOwn == DamonSpec => []OwnMeasurement
<1>1. DamonInv => OwnMeasurement
  BY DEF DamonInv, AloneInv, OwnFiles, OwnMeasurement
<1> QED
  BY <1>1, DamonInvariant, PTL

(***************************************************************************)
(* Unless the two programs ran at once, memauditd's damon_hist source is   *)
(* disabled only after a read or a write failed: a kdamond that an earlier *)
(* incarnation left on never keeps a restart from its session (Start's     *)
(* best-effort "off").                                                     *)
(***************************************************************************)
THEOREM RestartTakesOver == DamonSpec => []RestartRecovers
<1>1. DamonInv => RestartRecovers
  BY DEF DamonInv, AloneInv, OwnSlot, RestartRecovers
<1> QED
  BY <1>1, DamonInvariant, PTL
=============================================================================
