----------------------------- MODULE SynthProofs ----------------------------
(***************************************************************************)
(* Proofs about memaudit-synth, for every width of the integers, size of   *)
(* the machine, set of suffixes and pair of sizes on the command line.     *)
(***************************************************************************)
EXTENDS Synth, TLAPS

-----------------------------------------------------------------------------
(* The inductive invariant. *)

(* What the steps of run have checked when they get to a phase. *)
Validated == {"preflight", "map", "baseline", "poll", "judge", "PASS", "FAIL"}

Resident == {"baseline", "poll", "judge", "PASS", "FAIL"}

Measured == {"poll", "judge", "PASS", "FAIL"}

(* The sizes are what was asked for, and fit where they are used. *)
SizesInv ==
    /\ alloc \in Nat
    /\ hot \in Nat
    /\ asked = alloc
    /\ total \in 0 .. Monitored
    /\ force \in BOOLEAN
    /\ phase \in Validated => ArgsOK
    /\ phase \in Resident => alloc <= total
    /\ phase \in {"map", "baseline", "poll"} /\ ~force
          => alloc + MinHeadroom <= total

(* What a picture of each kind makes of the second cold bucket. *)
ColdIs(kind, c) ==
    \/ kind = "allUsed" /\ c = 0
    \/ kind = "allIdle" /\ c = Monitored
    \/ /\ kind = "true"
       /\ c \in Nat
       /\ alloc <= c + hot + LowSlack
       /\ c + hot <= Monitored + HighSlack

(* The band is the one of the whole machine, and the reading one of DAMON's. *)
BandInv ==
    phase \in Measured =>
        /\ band.low = IF alloc - hot > LowSlack THEN alloc - hot - LowSlack
                      ELSE 0
        /\ band.high = Monitored - hot + HighSlack
        /\ ColdIs(picture, last.cold[2])

(* What the verdict was. *)
JudgedInv ==
    /\ phase = "PASS" => InBand
    /\ phase = "FAIL" => ~InBand

SynthInv == SizesInv /\ BandInv /\ JudgedInv

-----------------------------------------------------------------------------
(* The histogram of a picture. *)

(* The loop, written out for one region and for four. *)
LEMMA OneRound ==
    ASSUME NEW regs, Len(regs) = 1
    PROVE  bucketRegions(regs) = Bucketed(ZeroHist, regs[1])
<1> DEFINE Eq(f) == f = [n \in 0 .. 1 |-> IF n = 0 THEN ZeroHist
                                      ELSE Bucketed(f[n - 1], regs[n])]
           f1 == Bucketed(ZeroHist, regs[1])
           W == [n \in 0 .. 1 |-> IF n = 0 THEN ZeroHist ELSE f1]
           F == CHOOSE f : Eq(f)
<1>1. Eq(W)
  OBVIOUS
<1>2. Eq(F)
  <2> HIDE DEF Eq, W
  <2> QED
    BY <1>1
<1>3. F[0] = ZeroHist /\ F[1] = f1
  <2> HIDE DEF F
  <2> QED
    BY <1>2
<1>4. bucketRegions(regs) = F[1]
  BY DEF bucketRegions
<1> QED
  BY <1>3, <1>4

LEMMA FourRounds ==
    ASSUME NEW regs, Len(regs) = 4
    PROVE  bucketRegions(regs) =
               Bucketed(Bucketed(Bucketed(Bucketed(ZeroHist, regs[1]),
                                          regs[2]), regs[3]), regs[4])
<1> DEFINE Eq(f) == f = [n \in 0 .. 4 |-> IF n = 0 THEN ZeroHist
                                      ELSE Bucketed(f[n - 1], regs[n])]
           f1 == Bucketed(ZeroHist, regs[1])
           f2 == Bucketed(f1, regs[2])
           f3 == Bucketed(f2, regs[3])
           f4 == Bucketed(f3, regs[4])
           W == [n \in 0 .. 4 |-> CASE n = 0 -> ZeroHist
                                    [] n = 1 -> f1
                                    [] n = 2 -> f2
                                    [] n = 3 -> f3
                                    [] n = 4 -> f4]
           F == CHOOSE f : Eq(f)
<1>1. Eq(W)
  <2>1. /\ W[0] = ZeroHist
        /\ W[1] = Bucketed(W[0], regs[1])
        /\ W[2] = Bucketed(W[1], regs[2])
        /\ W[3] = Bucketed(W[2], regs[3])
        /\ W[4] = Bucketed(W[3], regs[4])
    OBVIOUS
  <2>2. W = [n \in 0 .. 4 |-> W[n]]
    OBVIOUS
  <2> HIDE DEF W
  <2>3. \A n \in 0 .. 4 : W[n] = IF n = 0 THEN ZeroHist
                                 ELSE Bucketed(W[n - 1], regs[n])
    <3> SUFFICES ASSUME NEW n \in 0 .. 4
                 PROVE  W[n] = IF n = 0 THEN ZeroHist
                               ELSE Bucketed(W[n - 1], regs[n])
      OBVIOUS
    <3>1. n \in {0, 1, 2, 3, 4}
      OBVIOUS
    <3> QED
      BY <2>1, <3>1
  <2> QED
    BY <2>2, <2>3
<1>2. Eq(F)
  <2> HIDE DEF Eq, W
  <2> QED
    BY <1>1
<1>3. /\ F[0] = ZeroHist
      /\ F[1] = Bucketed(F[0], regs[1])
      /\ F[2] = Bucketed(F[1], regs[2])
      /\ F[3] = Bucketed(F[2], regs[3])
      /\ F[4] = Bucketed(F[3], regs[4])
  <2> HIDE DEF F
  <2> QED
    BY <1>2
<1>4. bucketRegions(regs) = F[4]
  BY DEF bucketRegions
<1> HIDE DEF F, W, Eq
<1> QED
  BY <1>3, <1>4

(* Numbers below the width of the integers. *)
LEMMA NoWrap ==
    ASSUME NEW a \in Nat, NEW m \in Nat, a < m
    PROVE  a % m = a
OBVIOUS

(* A region that has been idle for MaxAge counts in the second bucket. *)
LEMMA OldIsIdle ==
    ASSUME NEW from, NEW to
    PROVE  /\ Idle(Reg(from, to, 0), 2)
           /\ ~Idle(Reg(from, to, 1), 2)
<1>1. (MaxAge * AggrUS) % Limit = MaxAge * AggrUS
  <2> DEFINE p == MaxAge * AggrUS
  <2>1. p \in Nat /\ Limit \in Nat /\ p < Limit
    BY HistogramAssumption, SynthAssumption
  <2> HIDE DEF p
  <2>2. p % Limit = p
    BY <2>1, NoWrap
  <2> QED
    BY <2>2 DEF p
<1>2. Thresholds[2] <= MaxAge * AggrUS
  BY HistogramAssumption, SynthAssumption
<1> QED
  BY <1>1, <1>2 DEF Idle, Reg

(* The machine's numbers. *)
LEMMA Numbers ==
    /\ Limit \in Nat \ {0}
    /\ Monitored \in Nat
    /\ Monitored < Limit
    /\ MaxInt \in Nat
    /\ MaxInt + 2 < Limit
    /\ 2 \in 1 .. Buckets
BY HistogramAssumption, SynthAssumption DEF MinHeadroom

(* The size of a region that is being measured. *)
LEMMA SizeOfReg ==
    ASSUME NEW from \in Nat, NEW to \in Nat, from <= to, NEW used
    PROVE  Size(Reg(from, to, used)) = to - from
BY DEF Size, Reg

(* What one region adds to a histogram that has room for it. *)
LEMMA RoundAdds ==
    ASSUME NEW h \in Hist, NEW r, NEW n \in Nat, Size(r) = n,
           h.monitored + n < Limit, h.cold[2] + n < Limit
    PROVE  /\ Bucketed(h, r) \in Hist
           /\ Bucketed(h, r).monitored = h.monitored + n
           /\ Idle(r, 2) => Bucketed(h, r).cold[2] = h.cold[2] + n
           /\ ~Idle(r, 2) => Bucketed(h, r).cold[2] = h.cold[2]
<1>1. 2 \in 1 .. Buckets /\ Limit \in Nat \ {0}
  BY Numbers
<1>2. h.monitored \in Nat /\ h.cold \in [1 .. Buckets -> Nat]
  BY DEF Hist
<1>3. (h.monitored + n) % Limit = h.monitored + n
  <2> DEFINE a == h.monitored + n
  <2>1. a \in Nat /\ a < Limit
    BY <1>2
  <2> HIDE DEF a
  <2>2. a % Limit = a
    BY <1>1, <2>1, NoWrap
  <2> QED
    BY <2>2 DEF a
<1>4. (h.cold[2] + n) % Limit = h.cold[2] + n
  <2>0. h.cold[2] \in Nat
    BY <1>1, <1>2
  <2> DEFINE a == h.cold[2] + n
  <2>1. a \in Nat /\ a < Limit
    BY <2>0
  <2> HIDE DEF a
  <2>2. a % Limit = a
    BY <1>1, <2>1, NoWrap
  <2> QED
    BY <2>2 DEF a
<1>5. Bucketed(h, r).monitored = h.monitored + n
  BY <1>3 DEF Bucketed
<1>6. /\ Idle(r, 2) => Bucketed(h, r).cold[2] = h.cold[2] + n
      /\ ~Idle(r, 2) => Bucketed(h, r).cold[2] = h.cold[2]
  BY <1>1, <1>4 DEF Bucketed
<1>7. Bucketed(h, r) \in Hist
  <2>1. \A a \in Nat : a % Limit \in Nat
    BY <1>1
  <2>2. \A i \in 1 .. Buckets : /\ h.cold[i] \in Nat
                                /\ (h.cold[i] + Size(r)) % Limit \in Nat
    <3> TAKE i \in 1 .. Buckets
    <3>1. h.cold[i] \in Nat
      BY <1>2
    <3>2. h.cold[i] + Size(r) \in Nat
      BY <3>1
    <3> QED
      BY <2>1, <3>1, <3>2
  <2>3. [i \in 1 .. Buckets |-> IF Idle(r, i)
                                THEN (h.cold[i] + Size(r)) % Limit
                                ELSE h.cold[i]] \in [1 .. Buckets -> Nat]
    BY <2>2
  <2>4. h.monitored + n \in Nat
    BY <1>2
  <2> QED
    BY <1>3, <2>3, <2>4 DEF Hist, Bucketed
<1> QED
  BY <1>5, <1>6, <1>7

(***************************************************************************)
(* What bucketRegions makes of a picture: the whole machine is monitored,  *)
(* and the cold bytes are those that the picture shows, with no sum that   *)
(* wraps around.                                                           *)
(***************************************************************************)
LEMMA PictureIsCounted ==
    ASSUME NEW kind, kind \in {"true", "allIdle", "allUsed"},
           NEW seen, seen \in Nat, NEW split, split \in Nat, alloc \in Nat,
           seen <= alloc, alloc <= split, split <= Monitored,
           NEW h, h = bucketRegions(Picture(kind, seen, split))
    PROVE  /\ kind = "allUsed" => h.cold[2] = 0 /\ h.monitored = Monitored
           /\ kind = "allIdle" => h.cold[2] = Monitored
           /\ kind = "true" => h.cold[2] = split - seen
<1>2. /\ Monitored \in Nat /\ Limit \in Nat /\ Monitored < Limit
      /\ seen <= alloc /\ alloc <= split /\ split <= Monitored
  BY Numbers
<1>3. ZeroHist \in Hist /\ ZeroHist.monitored = 0 /\ ZeroHist.cold[2] = 0
  BY Numbers DEF ZeroHist, Hist
<1>4. CASE kind # "true"
  <2> DEFINE used == IF kind = "allUsed" THEN 1 ELSE 0
             r == Reg(0, Monitored, used)
  <2>1. Picture(kind, seen, split) = <<r>>
    BY <1>4 DEF Picture
  <2>2. Size(r) = Monitored
    BY <1>2, SizeOfReg
  <2>3. Idle(r, 2) <=> kind = "allIdle"
    BY <1>4, OldIsIdle
  <2> HIDE DEF r
  <2>4. h = Bucketed(ZeroHist, r)
    <3>1. Len(<<r>>) = 1 /\ <<r>>[1] = r
      OBVIOUS
    <3> QED
      BY <2>1, <3>1, OneRound
  <2>5. /\ ZeroHist.monitored + Monitored < Limit
        /\ ZeroHist.cold[2] + Monitored < Limit
    BY <1>2, <1>3
  <2>6. /\ h.monitored = ZeroHist.monitored + Monitored
        /\ kind = "allIdle" => h.cold[2] = ZeroHist.cold[2] + Monitored
        /\ kind # "allIdle" => h.cold[2] = ZeroHist.cold[2]
    BY <1>2, <1>3, <2>2, <2>3, <2>4, <2>5, RoundAdds
  <2> QED
    BY <1>2, <1>3, <1>4, <2>6
<1>5. CASE kind = "true"
  <2> DEFINE r1 == Reg(0, seen, 1)
             r2 == Reg(seen, alloc, 0)
             r3 == Reg(alloc, split, 0)
             r4 == Reg(split, Monitored, 1)
             h1 == Bucketed(ZeroHist, r1)
             h2 == Bucketed(h1, r2)
             h3 == Bucketed(h2, r3)
             h4 == Bucketed(h3, r4)
  <2>1. Picture(kind, seen, split) = <<r1, r2, r3, r4>>
    BY <1>5 DEF Picture
  <2>2. /\ Size(r1) = seen
        /\ Size(r2) = alloc - seen
        /\ Size(r3) = split - alloc
        /\ Size(r4) = Monitored - split
    BY <1>2, SizeOfReg
  <2>3. ~Idle(r1, 2) /\ Idle(r2, 2) /\ Idle(r3, 2) /\ ~Idle(r4, 2)
    BY OldIsIdle
  <2> HIDE DEF r1, r2, r3, r4
  <2>4. h = h4
    <3> DEFINE regs == <<r1, r2, r3, r4>>
    <3>1. /\ Len(regs) = 4 /\ regs[1] = r1 /\ regs[2] = r2
          /\ regs[3] = r3 /\ regs[4] = r4
      OBVIOUS
    <3> HIDE DEF regs
    <3>2. bucketRegions(regs) = h4
      BY <3>1, FourRounds
    <3> QED
      BY <2>1, <3>2 DEF regs
  <2>5. h1 \in Hist /\ h1.monitored = seen /\ h1.cold[2] = 0
    <3>1. /\ ZeroHist.monitored + seen < Limit
          /\ ZeroHist.cold[2] + seen < Limit
      BY <1>2, <1>3
    <3>2. /\ h1 \in Hist
          /\ h1.monitored = ZeroHist.monitored + seen
          /\ h1.cold[2] = ZeroHist.cold[2]
      BY <1>3, <2>2, <2>3, <3>1, RoundAdds
    <3> QED
      BY <1>3, <3>2
  <2> HIDE DEF h1
  <2>6. h2 \in Hist /\ h2.monitored = alloc /\ h2.cold[2] = alloc - seen
    <3>1. /\ alloc - seen \in Nat
          /\ h1.monitored + (alloc - seen) < Limit
          /\ h1.cold[2] + (alloc - seen) < Limit
      BY <1>2, <2>5
    <3>2. /\ h2 \in Hist
          /\ h2.monitored = h1.monitored + (alloc - seen)
          /\ h2.cold[2] = h1.cold[2] + (alloc - seen)
      BY <2>2, <2>3, <2>5, <3>1, RoundAdds
    <3> QED
      BY <1>2, <2>5, <3>2
  <2> HIDE DEF h2
  <2>7. h3 \in Hist /\ h3.monitored = split /\ h3.cold[2] = split - seen
    <3>1. /\ split - alloc \in Nat
          /\ h2.monitored + (split - alloc) < Limit
          /\ h2.cold[2] + (split - alloc) < Limit
      BY <1>2, <2>6
    <3>2. /\ h3 \in Hist
          /\ h3.monitored = h2.monitored + (split - alloc)
          /\ h3.cold[2] = h2.cold[2] + (split - alloc)
      BY <2>2, <2>3, <2>6, <3>1, RoundAdds
    <3> QED
      BY <1>2, <2>6, <3>2
  <2> HIDE DEF h3
  <2>8. h4.cold[2] = split - seen
    <3>1. /\ Monitored - split \in Nat
          /\ h3.monitored + (Monitored - split) < Limit
          /\ h3.cold[2] + (Monitored - split) < Limit
      BY <1>2, <2>7
    <3>2. h4.cold[2] = h3.cold[2]
      BY <2>2, <2>3, <2>7, <3>1, RoundAdds
    <3> QED
      BY <2>7, <3>2
  <2> QED
    BY <1>5, <2>4, <2>8
<1> QED
  BY <1>4, <1>5

(***************************************************************************)
(* A number that passes parseSize's check times its suffix fits a uint64:  *)
(* the product is the size that was asked for.                             *)
(***************************************************************************)
LEMMA ParsedIsAsked ==
    ASSUME NEW n \in Nat, NEW m \in Multipliers, SizeFits(n, m)
    PROVE  parseSize(n, m) = n * m /\ n * m \in Nat
<1>1. m \in Nat /\ m > 0 /\ Limit \in Nat \ {0}
  BY HistogramAssumption, SynthAssumption
<1>2. n * m \in Nat
  BY <1>1
<1>3. n * m <= Limit - 1
  <2> DEFINE q == (Limit - 1) \div m
  <2>1. q \in Nat /\ q * m <= Limit - 1
    BY <1>1
  <2>2. n <= q
    BY DEF SizeFits
  <2> HIDE DEF q
  <2>3. n * m <= q * m
    BY <1>1, <2>1, <2>2
  <2> QED
    BY <1>1, <1>2, <2>1, <2>3
<1> DEFINE p == n * m
<1>4. p \in Nat /\ p < Limit
  BY <1>1, <1>2, <1>3
<1> HIDE DEF p
<1>5. p % Limit = p
  BY <1>1, <1>4, NoWrap
<1> QED
  BY <1>4, <1>5 DEF parseSize, p

-----------------------------------------------------------------------------
(* The steps of run. *)

(* The sizes. *)
LEMMA SizesInductive ==
    ASSUME SizesInv, [SynthNext]_synvars
    PROVE  SizesInv'
<1> USE DEF Validated, Resident
<1>1. CASE ParseArgs
  <2>1. CASE phase' = "refused" /\ UNCHANGED <<alloc, hot, asked>>
    BY <1>1, <2>1 DEF ParseArgs, SizesInv, machine
  <2>2. CASE \E n, h \in 0 .. Limit - 1, m, g \in Multipliers :
                /\ SizeFits(n, m) /\ SizeFits(h, g)
                /\ alloc' = parseSize(n, m)
                /\ hot' = parseSize(h, g)
                /\ asked' = n * m
                /\ phase' = "sizes"
    <3>1. alloc' \in Nat /\ hot' \in Nat /\ asked' = alloc' /\ phase' = "sizes"
      <4>1. \A n \in 0 .. Limit - 1 : n \in Nat
        OBVIOUS
      <4> QED
        BY <2>2, <4>1, ParsedIsAsked
    <3> QED
      BY <1>1, <3>1 DEF ParseArgs, SizesInv, machine
  <2> QED
    BY <1>1, <2>1, <2>2 DEF ParseArgs
<1>2. CASE Validate
  BY <1>2 DEF Validate, Goto, SizesInv, args, machine, ArgsOK
<1>3. CASE Preflight
  <2>1. UNCHANGED <<alloc, hot, asked, total, force>>
    BY <1>3 DEF Preflight, Goto, args, machine
  <2>2. ArgsOK /\ alloc \in Nat /\ total \in Nat
    BY <1>3, Numbers DEF Preflight, SizesInv
  <2>3. (alloc + 2) % Limit = alloc + 2
    <3> DEFINE a == alloc + 2
    <3>1. a \in Nat /\ a < Limit
      BY <2>2, Numbers DEF ArgsOK
    <3> HIDE DEF a
    <3>2. a % Limit = a
      BY <3>1, NoWrap, Numbers
    <3> QED
      BY <3>2 DEF a
  <2>4. checkPreflight => alloc + 2 <= total
    BY <2>2, <2>3 DEF checkPreflight, MinHeadroom
  <2>5. \/ phase' = "refused"
        \/ phase' = "map" /\ (~force => alloc + 2 <= total)
    BY <1>3, <2>4 DEF Preflight, Goto
  <2> QED
    BY <2>1, <2>2, <2>5 DEF SizesInv, ArgsOK, MinHeadroom
<1>4. CASE MapAndTouch
  BY <1>4 DEF MapAndTouch, Goto, SizesInv, args, machine, ArgsOK
<1>5. CASE Baseline \/ Poll \/ GiveUp \/ Judge
  <2>1. /\ UNCHANGED <<alloc, hot, asked, total, force>>
        /\ phase \in Resident
        /\ phase' \in Resident \cup {"failed"}
        /\ phase' \in {"map", "baseline", "poll"}
              => phase \in {"map", "baseline", "poll"}
    BY <1>5 DEF Baseline, Poll, GiveUp, Judge, Goto, args, machine
  <2> QED
    BY <2>1 DEF SizesInv, ArgsOK
<1>6. CASE UNCHANGED synvars
  BY <1>6 DEF synvars, args, machine, SizesInv, ArgsOK
<1> QED
  BY <1>1, <1>2, <1>3, <1>4, <1>5, <1>6 DEF SynthNext

(* The band and the reading. *)
LEMMA CollectsCold ==
    ASSUME SizesInv, phase \in Resident,
           NEW kind, kind \in {"true", "allIdle", "allUsed"}, Collects(kind)
    PROVE  /\ picture' = kind
           /\ ColdIs(kind, last'.cold[2])
           /\ kind = "allUsed" => last'.monitored = Monitored
<1>1. PICK seen \in hot - HighSlack .. hot + LowSlack,
           split \in alloc .. Monitored :
              /\ seen <= alloc
              /\ last' = bucketRegions(Picture(kind, seen, split))
  BY DEF Collects
<1>2. /\ hot \in Nat /\ alloc \in Nat /\ hot > 0
      /\ Monitored \in Nat
  BY Numbers DEF SizesInv, ArgsOK, Resident, Validated
<1>3. /\ seen \in Nat /\ split \in Nat /\ alloc <= split
      /\ split <= Monitored /\ seen <= hot + 2 /\ hot <= seen + 1
  BY <1>1, <1>2 DEF LowSlack, HighSlack
<1>4. /\ kind = "allUsed" => last'.cold[2] = 0 /\ last'.monitored = Monitored
      /\ kind = "allIdle" => last'.cold[2] = Monitored
      /\ kind = "true" => last'.cold[2] = split - seen
  BY <1>1, <1>2, <1>3, PictureIsCounted
<1>5. kind = "true" => ColdIs(kind, last'.cold[2])
  BY <1>1, <1>2, <1>3, <1>4 DEF ColdIs, LowSlack, HighSlack
<1> QED
  BY <1>4, <1>5 DEF ColdIs, Collects

LEMMA BandInductive ==
    ASSUME SizesInv, BandInv, SizesInv', [SynthNext]_synvars
    PROVE  BandInv'
<1> USE DEF Measured
<1>1. CASE Baseline
  <2>1. /\ phase \in Resident
        /\ UNCHANGED <<alloc, hot>>
        /\ Collects("allUsed")
        /\ band' = bandBounds(IF last'.monitored > alloc THEN last'.monitored
                              ELSE alloc)
    BY <1>1 DEF Baseline, args, Resident
  <2>2. /\ picture' = "allUsed"
        /\ ColdIs("allUsed", last'.cold[2])
        /\ last'.monitored = Monitored
    BY <2>1, CollectsCold
  <2>3. /\ hot \in Nat /\ alloc \in Nat /\ hot > 0 /\ hot <= alloc
        /\ Monitored \in Nat /\ alloc <= Monitored
    BY <2>1, Numbers DEF SizesInv, ArgsOK, Resident, Validated
  <2>4. band' = bandBounds(Monitored)
    BY <2>1, <2>2, <2>3
  <2>5. ((alloc - hot) + (Monitored - alloc) + 1) % Limit
            = Monitored - hot + 1
    <3> DEFINE a == Monitored - hot + 1
    <3>1. a \in Nat /\ a < Limit
      BY <2>3, Numbers
    <3>2. (alloc - hot) + (Monitored - alloc) + 1 = a
      BY <2>3
    <3> HIDE DEF a
    <3>3. a % Limit = a
      BY <3>1, NoWrap, Numbers
    <3> QED
      BY <3>2, <3>3 DEF a
  <2>6. /\ band'.low = IF alloc - hot > LowSlack THEN alloc - hot - LowSlack
                       ELSE 0
        /\ band'.high = Monitored - hot + HighSlack
    BY <2>4, <2>5 DEF bandBounds, LowSlack, HighSlack
  <2> QED
    BY <2>1, <2>2, <2>6 DEF BandInv, ColdIs
<1>2. CASE Poll
  <2>1. /\ phase \in Resident /\ phase \in Measured
        /\ UNCHANGED <<alloc, hot, band>>
    BY <1>2 DEF Poll, args, Resident
  <2>2. PICK kind \in {"true", "allIdle", "allUsed"} : Collects(kind)
    BY <1>2 DEF Poll
  <2>3. picture' = kind /\ ColdIs(kind, last'.cold[2])
    BY <2>1, <2>2, CollectsCold
  <2> QED
    BY <2>1, <2>3 DEF BandInv, ColdIs
<1>3. CASE Judge
  BY <1>3 DEF Judge, Goto, args, BandInv, ColdIs
<1>4. CASE ParseArgs \/ Validate \/ Preflight \/ MapAndTouch \/ GiveUp
  <2>1. phase' \notin Measured
    BY <1>4 DEF ParseArgs, Validate, Preflight, MapAndTouch, GiveUp, Goto
  <2> QED
    BY <2>1 DEF BandInv
<1>5. CASE UNCHANGED synvars
  BY <1>5 DEF synvars, args, BandInv, ColdIs
<1> QED
  BY <1>1, <1>2, <1>3, <1>4, <1>5 DEF SynthNext

(* The verdict stands. *)
LEMMA JudgedInductive ==
    ASSUME JudgedInv, [SynthNext]_synvars
    PROVE  JudgedInv'
<1>1. CASE Judge
  BY <1>1 DEF Judge, Goto, JudgedInv, InBand
<1>2. CASE \/ ParseArgs \/ Validate \/ Preflight \/ MapAndTouch \/ Baseline
           \/ Poll \/ GiveUp
  <2>1. phase' \notin {"PASS", "FAIL"}
    BY <1>2 DEF ParseArgs, Validate, Preflight, MapAndTouch, Baseline, Poll,
                GiveUp, Goto
  <2> QED
    BY <2>1 DEF JudgedInv
<1>3. CASE UNCHANGED synvars
  BY <1>3 DEF synvars, JudgedInv, InBand
<1> QED
  BY <1>1, <1>2, <1>3 DEF SynthNext

-----------------------------------------------------------------------------
(* The theorems. *)

(* SynthInv is an invariant. *)
LEMMA SynthInvariant == SynthSpec => []SynthInv
<1>1. SynthInit => SynthInv
  BY Numbers DEF SynthInit, SynthInv, SizesInv, BandInv, JudgedInv, Validated,
                 Resident, Measured
<1>2. SynthInv /\ [SynthNext]_synvars => SynthInv'
  BY SizesInductive, BandInductive, JudgedInductive DEF SynthInv
<1> QED
  BY <1>1, <1>2, PTL DEF SynthSpec

(***************************************************************************)
(* Without --force, memaudit-synth touches no more than the size that was  *)
(* asked for, and that leaves the headroom, for every width of the         *)
(* integers that holds MaxInt and the headroom: neither parseSize's        *)
(* product nor checkPreflight's sum wraps around.                          *)
(***************************************************************************)
THEOREM PreflightIsSafe == SynthSpec => []PreflightSafe
<1>1. SynthInv => PreflightSafe
  BY DEF SynthInv, SizesInv, PreflightSafe
<1> QED
  BY <1>1, SynthInvariant, PTL

(***************************************************************************)
(* memaudit-synth says PASS of a working DAMON and FAIL of a broken one,   *)
(* for every machine, allocation and hot part: the band of bandBounds,     *)
(* computed in uint64, admits every true reading and no other that is      *)
(* further off than the slack.                                             *)
(***************************************************************************)
THEOREM VerdictIsRight == SynthSpec => []VerdictRight
<1>1. SynthInv => VerdictRight
  <2> SUFFICES ASSUME SynthInv, phase \in {"PASS", "FAIL"}
               PROVE  VerdictRight
    BY DEF VerdictRight, TruePasses, BrokenFails
  <2> USE DEF LowSlack, HighSlack
  <2>1. /\ alloc \in Nat /\ hot \in Nat /\ hot > 0 /\ hot <= alloc
        /\ alloc <= Monitored /\ Monitored \in Nat
    BY Numbers DEF SynthInv, SizesInv, ArgsOK, Validated, Resident
  <2>2. /\ band.low = IF alloc - hot > 2 THEN alloc - hot - 2 ELSE 0
        /\ band.high = Monitored - hot + 1
        /\ ColdIs(picture, last.cold[2])
    BY DEF SynthInv, BandInv, Measured
  <2>3. phase = "PASS" <=> InBand
    BY DEF SynthInv, JudgedInv
  <2>4. TruePasses
    <3>1. picture = "true" => InBand
      BY <2>1, <2>2 DEF ColdIs, InBand
    <3> QED
      BY <2>3, <3>1 DEF TruePasses
  <2>5. BrokenFails
    BY <2>1, <2>2, <2>3 DEF ColdIs, InBand, BrokenFails
  <2> QED
    BY <2>4, <2>5 DEF VerdictRight
<1> QED
  BY <1>1, SynthInvariant, PTL
=============================================================================
