-------------------------------- MODULE Synth -------------------------------
(***************************************************************************)
(* cmd/memaudit-synth: what run decides from its flags, the machine's size *)
(* and DAMON's histograms.  Sizes are uint64 (Limit is 2^64, or less for   *)
(* TLC) in units of half a GiB.  The DAMON slot and the memory that the    *)
(* tool maps are in module Damon.                                          *)
(*                                                                         *)
(* DAMON is external: a picture of the machine is a sequence of regions.   *)
(* A "true" one shows the hot part of the allocation as accessed and the   *)
(* rest of it as idle, but for the slack at their boundary that band.go    *)
(* grants; about the memory that is not the tool's it may say anything.    *)
(***************************************************************************)
EXTENDS DamonHist, Sequences

CONSTANTS
    Multipliers, \* sizeSuffixes: what KiB, MiB, GiB and TiB stand for
    MaxInt,      \* math.MaxInt
    Monitored    \* the bytes of all System RAM ranges

MinHeadroom == 2       \* minHeadroomBytes

MaxAmbientRatio == 1   \* maxAmbientRatio

LowSlack == 2          \* bandLowSlackBytes

HighSlack == 1         \* bandHighSlackBytes

(***************************************************************************)
(* MaxInt is 2^63 - 1, where Limit is 2^64.  The last reading comes at     *)
(* least minDuration after the start: what is idle was so for longer than  *)
(* the 300 s of the second bucket, and an age in microseconds is a uint64. *)
(***************************************************************************)
ASSUME SynthAssumption == /\ Multipliers \subseteq Nat \ {0}
                          /\ MaxInt \in Nat
                          /\ MaxInt + MinHeadroom < Limit
                          /\ Monitored \in 0 .. MaxAddr
                          /\ Buckets >= 2
                          /\ MaxAge * AggrUS \in Thresholds[2] .. Limit - 1

VARIABLES
    phase,    \* where run is, or how it ended
    alloc,    \* allocBytes
    hot,      \* hotBytes
    total,    \* MemTotal
    force,    \* --force
    band,     \* low and high
    last,     \* lastHist
    asked,    \* history: the size that --alloc stands for
    picture   \* history: what kind of picture lastHist was made from

machine == <<total, force>>
args == <<alloc, hot, asked, machine>>
synvars == <<phase, args, band, last, picture>>

-----------------------------------------------------------------------------
(* The checks. *)

(* parseSize's overflow check, on a number that is a uint64. *)
SizeFits(n, mult) == n <= (Limit - 1) \div mult

(* What parseSize computes from a number and a suffix. *)
parseSize(n, mult) == (n * mult) % Limit

(* Mutation: the allocation may be of any size. *)
HotFits == hot > 0 /\ hot <= alloc

ArgsOK == /\ hot > 0
          /\ hot <= alloc
          /\ alloc <= MaxInt
          /\ hot <= MaxInt

checkPreflight ==
    /\ total >= (alloc + MinHeadroom) % Limit
    /\ (Limit + total - alloc) % Limit <= (MaxAmbientRatio * alloc) % Limit

(* Mutation: memory that is not the tool's is not expected to be idle. *)
NoAmbient(monitored) ==
    LET cold == alloc - hot
    IN  [low  |-> IF cold > LowSlack THEN cold - LowSlack ELSE 0,
         high |-> cold + HighSlack]

(* Mutation: the hot part is not taken off. *)
HotIsCold(monitored) ==
    [low |-> IF alloc - hot > LowSlack THEN alloc - hot - LowSlack ELSE 0,
     high |-> monitored + HighSlack]

(* Neither of its errors can occur: see ArgsOK, and the max in Baseline. *)
bandBounds(monitored) ==
    LET cold == alloc - hot
        ambient == monitored - alloc
    IN  [low  |-> IF cold > LowSlack THEN cold - LowSlack ELSE 0,
         high |-> (cold + ambient + HighSlack) % Limit]

-----------------------------------------------------------------------------
(* What DAMON may report. *)

Reg(from, to, accesses) == [start |-> from, end |-> to,
                            nrAccesses |-> accesses, age |-> MaxAge]

(* seen: the hot part as measured; split: the rest of the machine's memory *)
(* is idle up to there, and in use beyond.                                 *)
Picture(kind, seen, split) ==
    CASE kind = "allIdle" -> <<Reg(0, Monitored, 0)>>
      [] kind = "allUsed" -> <<Reg(0, Monitored, 1)>>
      [] kind = "true" -> <<Reg(0, seen, 1), Reg(seen, alloc, 0),
                            Reg(alloc, split, 0),
                            Reg(split, Monitored, 1)>>

(* The loop over the regions. *)
bucketRegions(regs) ==
    LET after[n \in 0 .. Len(regs)] ==
            IF n = 0 THEN ZeroHist ELSE Bucketed(after[n - 1], regs[n])
    IN  after[Len(regs)]

(* dc.Collect. *)
Collects(kind) ==
    /\ picture' = kind
    /\ \E seen \in hot - HighSlack .. hot + LowSlack,
          split \in alloc .. Monitored :
             /\ seen <= alloc
             /\ last' = bucketRegions(Picture(kind, seen, split))

-----------------------------------------------------------------------------
(* The steps of run. *)

Goto(where) == phase' = where /\ UNCHANGED <<args, band, last, picture>>

(* --duration is checked, and --alloc and --hot are parsed. *)
ParseArgs ==
    /\ phase = "args"
    /\ \/ \E n, h \in 0 .. Limit - 1, m, g \in Multipliers :
             /\ SizeFits(n, m) /\ SizeFits(h, g)
             /\ alloc' = parseSize(n, m)
             /\ hot' = parseSize(h, g)
             /\ asked' = n * m
             /\ phase' = "sizes"
       \/ phase' = "refused" /\ UNCHANGED <<alloc, hot, asked>>
    /\ UNCHANGED <<machine, band, last, picture>>

Validate ==
    /\ phase = "sizes"
    /\ Goto(IF ArgsOK THEN "preflight" ELSE "refused")

Preflight ==
    /\ phase = "preflight"
    /\ \/ (checkPreflight \/ force) /\ Goto("map")
       \/ ~checkPreflight /\ ~force /\ Goto("refused")

(* Mmap, and the touching of every page: is there that much memory? *)
MapAndTouch ==
    /\ phase = "map"
    /\ IF alloc <= total THEN Goto("baseline") ELSE Goto("killed")

(* The first Collect sets the band. *)
Baseline ==
    /\ phase = "baseline"
    /\ Collects("allUsed")
    /\ band' = bandBounds(IF last'.monitored > alloc THEN last'.monitored
                          ELSE alloc)
    /\ phase' = "poll"
    /\ UNCHANGED args

(* A round of the loop, perhaps the last. *)
Poll ==
    /\ phase = "poll"
    /\ \E kind \in {"true", "allIdle", "allUsed"} : Collects(kind)
    /\ phase' \in {"poll", "judge"}
    /\ UNCHANGED <<args, band>>

(* A failing Collect, here or for the baseline, or an interrupt. *)
GiveUp == phase \in {"baseline", "poll"} /\ Goto("failed")

(* cold_300s is the second bucket. *)
InBand == band.low <= last.cold[2] /\ last.cold[2] <= band.high

Judge ==
    /\ phase = "judge"
    /\ Goto(IF InBand THEN "PASS" ELSE "FAIL")

SynthInit ==
    /\ phase = "args"
    /\ alloc = 0
    /\ hot = 0
    /\ asked = 0
    /\ total \in 0 .. Monitored
    /\ force \in BOOLEAN
    /\ band = [low |-> 0, high |-> 0]
    /\ last = ZeroHist
    /\ picture = "none"

SynthNext == ParseArgs \/ Validate \/ Preflight \/ MapAndTouch \/ Baseline
             \/ Poll \/ GiveUp \/ Judge

SynthSpec == SynthInit /\ [][SynthNext]_synvars

-----------------------------------------------------------------------------
(* Properties. *)

(***************************************************************************)
(* Without --force the allocation is the one asked for and leaves the      *)
(* headroom that avoids an OOM, in true arithmetic: no number or suffix on *)
(* the command line makes parseSize's product or checkPreflight's sum wrap *)
(* around into something that passes.                                      *)
(***************************************************************************)
PreflightSafe ==
    phase \in {"map", "baseline", "poll"} /\ ~force
        => asked + MinHeadroom <= total

(***************************************************************************)
(* A working DAMON passes, whatever the rest of the machine's memory does  *)
(* and whichever way the noise at the hot/cold boundary goes.              *)
(***************************************************************************)
TruePasses == phase = "FAIL" => picture # "true"

(***************************************************************************)
(* A broken measurement, one that takes all memory for idle or all for     *)
(* used, is found out, unless the hot (or cold) part is within the slack.  *)
(***************************************************************************)
BrokenFails ==
    /\ phase = "PASS" /\ picture = "allIdle" => hot <= HighSlack
    /\ phase = "PASS" /\ picture = "allUsed" => alloc - hot <= LowSlack

(***************************************************************************)
(* memaudit-synth's verdict: PASS for a working DAMON, FAIL for a broken   *)
(* one, for every allocation, hot part and machine.                        *)
(***************************************************************************)
VerdictRight == TruePasses /\ BrokenFails
=============================================================================
