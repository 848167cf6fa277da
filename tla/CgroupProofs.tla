---------------------------- MODULE CgroupProofs ----------------------------
(***************************************************************************)
(* Proofs about the cgroup walk and the kubelet client under it, for any   *)
(* trees, names and globs, limits, and any comings and goings of cgroups   *)
(* and pods.                                                               *)
(***************************************************************************)
EXTENDS CgroupWalk, SequenceTheorems, WellFoundedInduction, TLAPS

-----------------------------------------------------------------------------
(* The kubelet client. *)

KubeletTypeOK ==
    /\ clock \in Nat
    /\ changed \in [Pods -> Int]
    /\ kpc \in {"idle", "fetch", "reply", "answered"}
    /\ uid \in Pods
    /\ begun \in Nat
    /\ cachedAt \in Nat
    /\ answer \in {"none", "found", "absent", "err"}

(* The list of pods is the world's, but for pods that changed since then. *)
TrueSince(pods, then) ==
    \A u \in Pods : (u \in pods <=> u \in world) \/ changed[u] >= then

(***************************************************************************)
(* A fetch is no older than the client's timeout; what it has brought is   *)
(* true since it began, and the cache since one fetch before it was filled.*)
(***************************************************************************)
FetchInv ==
    /\ begun <= clock
    /\ cachedAt <= clock
    /\ kpc \in {"fetch", "reply"} => clock <= begun + FetchTime
    /\ kpc = "reply" => TrueSince(snap, begun)
    /\ cache.filled => TrueSince(cache.pods, cachedAt - FetchTime)

KubeletInv == KubeletTypeOK /\ FetchInv

(* What the kubelet client, its clock and the pods do in a step of the walk. *)
KubeletStep ==
    \/ \E u \in Pods : LookupPod(u)
    \/ LookupDone
    \/ FetchStep
    \/ ClockTick
    \/ PodChange
    \/ UNCHANGED kvars

(* The walk makes no other. *)
LEMMA WalkSteps ==
    ASSUME [WalkNext]_wvars
    PROVE  KubeletStep
<1>1. \A segs : PodUID(segs) \subseteq Pods
  BY DEF PodUID
<1>2. CASE CallEnrich
  BY <1>1, <1>2 DEF CallEnrich, KubeletStep
<1>3. CASE \/ BeginCollect \/ ReadDir \/ NextEntry \/ ReadFile \/ Enrich
           \/ Descend \/ FetchGoes \/ Churn \/ UNCHANGED wvars
  BY <1>3 DEF BeginCollect, ReadDir, NextEntry, ReadFile, Enrich, Descend,
              FetchGoes, Churn, wvars, KubeletStep
<1> QED
  BY <1>2, <1>3 DEF WalkNext

(* Every step preserves the types. *)
LEMMA KubeletTypeInductive ==
    ASSUME KubeletTypeOK, KubeletStep
    PROVE  KubeletTypeOK'
<1> USE DEF KubeletTypeOK, podVars, clientVars
<1>1. CASE \E u \in Pods : LookupPod(u)
  BY <1>1 DEF LookupPod, Found
<1>2. CASE LookupDone
  BY <1>2 DEF LookupDone
<1>3. CASE FetchStep
  BY <1>3 DEF FetchStep, KubeletServes, FetchReturns, FetchFails, FetchError,
              Found
<1>4. CASE ClockTick
  BY <1>4 DEF ClockTick
<1>5. CASE PodChange
  BY <1>5 DEF PodChange
<1>6. CASE UNCHANGED kvars
  BY <1>6 DEF kvars
<1> QED
  BY <1>1, <1>2, <1>3, <1>4, <1>5, <1>6 DEF KubeletStep

(* A pod that comes or goes has changed since every time that is past. *)
LEMMA ChangeIsRecent ==
    ASSUME KubeletTypeOK, PodChange, NEW pods, NEW then \in Int,
           then <= clock, TrueSince(pods, then)
    PROVE  TrueSince(pods, then)'
<1> SUFFICES ASSUME NEW v \in Pods
             PROVE  (v \in pods <=> v \in world') \/ changed'[v] >= then
  BY DEF TrueSince
<1>1. PICK u \in Pods :
         /\ world' = IF u \in world THEN world \ {u} ELSE world \cup {u}
         /\ changed' = [changed EXCEPT ![u] = clock]
  BY DEF PodChange
<1>2. CASE v = u
  BY <1>1, <1>2 DEF KubeletTypeOK
<1>3. CASE v # u
  BY <1>1, <1>3 DEF KubeletTypeOK, TrueSince
<1> QED
  BY <1>2, <1>3

(* Every step keeps what is known of the fetch and of the cache. *)
LEMMA FetchInductive ==
    ASSUME KubeletTypeOK, FetchInv, KubeletStep
    PROVE  FetchInv'
<1> USE KubeletAssumption DEF KubeletTypeOK, FetchInv
<1>0. cachedAt - FetchTime \in Int /\ cachedAt - FetchTime <= clock
  OBVIOUS
<1>1. CASE \E u \in Pods : LookupPod(u)
  BY <1>1 DEF LookupPod, TrueSince, podVars
<1>2. CASE LookupDone
  BY <1>2 DEF LookupDone, TrueSince, podVars
<1>3. CASE KubeletServes
  BY <1>3 DEF KubeletServes, TrueSince, podVars
<1>4. CASE FetchReturns
  <2>1. TrueSince(snap, begun) /\ clock - FetchTime <= begun
    BY <1>4 DEF FetchReturns
  <2>2. \A u \in Pods : changed[u] >= begun => changed[u] >= clock - FetchTime
    BY <2>1
  <2>3. TrueSince(snap, clock - FetchTime)
    BY <2>1, <2>2 DEF TrueSince
  <2> QED
    BY <1>4, <2>3 DEF FetchReturns, TrueSince, podVars
<1>5. CASE FetchFails
  BY <1>5 DEF FetchFails, TrueSince, podVars
<1>6. CASE ClockTick
  BY <1>6 DEF ClockTick, TrueSince, podVars, clientVars
<1>7. CASE PodChange
  <2>1. UNCHANGED <<clock, kpc, begun, snap, cache, cachedAt>>
    BY <1>7 DEF PodChange, clientVars
  <2>2. kpc = "reply" => TrueSince(snap, begun)'
    BY <1>7, <2>1, ChangeIsRecent
  <2>3. cache.filled => TrueSince(cache.pods, cachedAt - FetchTime)'
    BY <1>0, <1>7, <2>1, ChangeIsRecent
  <2> QED
    BY <2>1, <2>2, <2>3
<1>8. CASE UNCHANGED kvars
  BY <1>8 DEF kvars, TrueSince, podVars, clientVars
<1> QED
  BY <1>1, <1>2, <1>3, <1>4, <1>5, <1>6, <1>7, <1>8
     DEF KubeletStep, FetchStep

(* What the client has when it starts. *)
LEMMA KubeletBegins ==
    ASSUME KubeletInit
    PROVE  KubeletInv
BY KubeletAssumption DEF KubeletInit, KubeletInv, KubeletTypeOK, FetchInv, Never

(* The client's invariant holds in every run of the walk. *)
LEMMA KubeletInvariant == WalkSpec => []KubeletInv
<1>1. KubeletInv /\ [WalkNext]_wvars => KubeletInv'
  BY WalkSteps, KubeletTypeInductive, FetchInductive DEF KubeletInv
<1>2. WalkInit => KubeletInv
  BY KubeletBegins DEF WalkInit
<1> QED
  BY <1>1, <1>2, PTL DEF WalkSpec

(* An answer that is given in a step: what AnswerFresh says of it. *)
LEMMA FreshStep ==
    ASSUME KubeletInv, KubeletStep, kpc # "answered", kpc' = "answered",
           answer' # "err", clock - changed[uid'] >= CacheTTL + FetchTime
    PROVE  answer' = Found(uid', world)
<1> USE KubeletAssumption DEF KubeletInv, KubeletTypeOK, FetchInv
<1>1. CASE \E u \in Pods : LookupPod(u)
  <2>1. /\ uid' \in Pods
        /\ answer' = Found(uid', cache.pods)
        /\ cache.filled
        /\ clock - cachedAt < CacheTTL
    BY <1>1 DEF LookupPod, Stale
  <2>2. ~(changed[uid'] >= cachedAt - FetchTime)
    BY <2>1
  <2>3. uid' \in cache.pods <=> uid' \in world
    BY <2>1, <2>2 DEF TrueSince
  <2> QED
    BY <2>1, <2>3 DEF Found
<1>2. CASE FetchReturns
  <2>1. uid' \in Pods /\ answer' = Found(uid', snap)
    BY <1>2 DEF FetchReturns
  <2>2. TrueSince(snap, begun) /\ clock <= begun + FetchTime
    BY <1>2 DEF FetchReturns
  <2>3. ~(changed[uid'] >= begun)
    BY <2>1, <2>2
  <2>4. uid' \in snap <=> uid' \in world
    BY <2>1, <2>2, <2>3 DEF TrueSince
  <2> QED
    BY <2>1, <2>4 DEF Found
<1> QED
  BY <1>1, <1>2
     DEF KubeletStep, LookupDone, FetchStep, KubeletServes, FetchFails,
         FetchError, ClockTick, PodChange, kvars, clientVars

(***************************************************************************)
(* What LookupPod answers is not older than CacheTTL and one fetch: a pod  *)
(* that has not changed since is reported as it is, or the lookup fails,   *)
(* whenever pods come and go and however long the kubelet takes.           *)
(***************************************************************************)
THEOREM LookupIsFresh == WalkSpec => AnswerFresh
<1>1. KubeletInv /\ [WalkNext]_wvars
         => [(/\ kpc # "answered" /\ kpc' = "answered"
              /\ answer' # "err"
              /\ clock - changed[uid'] >= CacheTTL + FetchTime)
                => answer' = Found(uid', world)]_kvars
  BY WalkSteps, FreshStep
<1> QED
  BY <1>1, KubeletInvariant, PTL DEF WalkSpec, AnswerFresh

-----------------------------------------------------------------------------
(* The walk. *)

Samples == [path : Seq(Names), fields : SUBSET Files,
            meta : {"none", "found", "absent", "err"}]

Frames == [segs : Seq(Names), todo : SUBSET Names]

AtChild == {"read", "enrich", "descend"}

WalkTypeOK ==
    /\ wpc \in {"idle", "list", "entry", "done"} \cup AtChild
    /\ stack \in Seq(Frames)
    /\ wpc = "idle" => stack = <<>> /\ out = <<>>
    /\ wpc # "done" => result = "none"
    /\ wpc \notin {"idle", "done"} => stack # <<>>
    /\ child \in Seq(Names)
    /\ nextFile \in Nat \ {0}
    /\ fields \in SUBSET Files
    /\ out \in Seq(Samples)
    /\ truncated \in BOOLEAN
    /\ ioFailed \in BOOLEAN

(* rec is filled from each of the files before the next that was there all *)
(* the time, and from none that never was. *)
RecTells ==
    /\ \A f \in fields : <<child, f>> \in seen
    /\ \A i \in 1 .. Len(FileOrder) :
          i < nextFile /\ <<child, FileOrder[i]>> \in kept
              => FileOrder[i] \in fields

(***************************************************************************)
(* The files there are lie between the ones kept and the ones seen, and so *)
(* does what readCgroup has of them, when they are read one by one; enrich *)
(* has the complete rec.  As long as the walk goes on, no call has failed. *)
(***************************************************************************)
FileInv ==
    /\ stable \subseteq tree
    /\ kept \subseteq Present(tree, delegates)
    /\ Present(tree, delegates) \subseteq seen
    /\ wpc \in {"read", "enrich"} => RecTells
    /\ wpc = "enrich" => nextFile > Len(FileOrder)
    /\ RecordsTellFiles
    /\ wpc # "done" => ~ioFailed
    /\ LostOnlyToCgroupfs

(* p is d or below it. *)
Below(p, d) == Len(d) <= Len(p) /\ \A i \in 1 .. Len(d) : p[i] = d[i]

(* The way from the root to p: it is below every open directory, and its *)
(* segment there is not left to visit. *)
OnTheWay(p, depth) ==
    \A k \in 1 .. depth :
        Below(p, stack[k].segs) /\ p[k] \notin stack[k].todo

(* The k-th open directory is below the ones before it. *)
Chained(k) == Len(stack[k].segs) = k - 1 /\ OnTheWay(stack[k].segs, k - 1)

ChainInv ==
    /\ \A k \in 1 .. Len(stack) : Chained(k)
    /\ wpc \in AtChild => /\ Len(child) = Len(stack)
                          /\ OnTheWay(child, Len(stack))

(***************************************************************************)
(* p is in no directory left to visit, nor in the one to be listed, nor in *)
(* the one the walk is at, but for that one itself after it was read.      *)
(***************************************************************************)
Apart(p) ==
    /\ \A k \in 1 .. Len(stack) :
          Below(p, stack[k].segs) /\ Len(p) >= k => p[k] \notin stack[k].todo
    /\ wpc \in {"read", "enrich"} => ~Below(p, child)
    /\ wpc = "descend" /\ Below(p, child) => Len(p) = Len(child)
    /\ wpc = "list" /\ Below(p, Top.segs) => Len(p) = Len(Top.segs)

ApartInv == \A i \in 1 .. Len(out) : Apart(out[i].path)

(* The limit. *)
CountInv ==
    /\ Len(out) <= Max
    /\ wpc \in {"read", "enrich"} => Len(out) < Max
    /\ truncated /\ result # "err" => Len(out) = Max

(* No path is in the output twice. *)
Distinct == \A i, j \in 1 .. Len(out) : out[i].path = out[j].path => i = j

OnceInv == ChainInv /\ ApartInv /\ CountInv /\ Distinct

-----------------------------------------------------------------------------
(* What the steps do to the stack and to the output. *)

(* A sequence without its last element. *)
LEMMA FrontOf ==
    ASSUME NEW S, NEW s \in Seq(S), s # <<>>
    PROVE  /\ SubSeq(s, 1, Len(s) - 1) \in Seq(S)
           /\ Len(SubSeq(s, 1, Len(s) - 1)) = Len(s) - 1
           /\ \A k \in 1 .. Len(s) - 1 : SubSeq(s, 1, Len(s) - 1)[k] = s[k]
<1>1. Len(s) \in Nat \ {0}
  OBVIOUS
<1> DEFINE n == Len(s) - 1
<1>2. n \in Nat
  BY <1>1
<1>3. \A i \in 1 .. n : s[i] \in S
  BY <1>1, ElementOfSeq
<1> HIDE DEF n
<1>4. /\ SubSeq(s, 1, n) \in Seq(S)
      /\ Len(SubSeq(s, 1, n)) = IF 1 <= n THEN n - 1 + 1 ELSE 0
      /\ \A i \in 1 .. n - 1 + 1 : SubSeq(s, 1, n)[i] = s[1 + i - 1]
  BY <1>2, <1>3, SubSeqProperties
<1>5. Len(SubSeq(s, 1, n)) = n /\ \A i \in 1 .. n : SubSeq(s, 1, n)[i] = s[i]
  BY <1>2, <1>4
<1> QED
  BY <1>4, <1>5 DEF n

(* A call of walk returns. *)
LEMMA Popped ==
    ASSUME stack \in Seq(Frames), stack # <<>>,
           stack' = SubSeq(stack, 1, Len(stack) - 1)
    PROVE  /\ stack' \in Seq(Frames)
           /\ Len(stack') = Len(stack) - 1
           /\ \A k \in 1 .. Len(stack) - 1 : stack'[k] = stack[k]
BY FrontOf, Zenon

(* walk calls itself for the child. *)
LEMMA Pushed ==
    ASSUME stack \in Seq(Frames), child \in Seq(Names),
           stack' = Append(stack, Frame(child))
    PROVE  /\ stack' \in Seq(Frames)
           /\ Len(stack') = Len(stack) + 1
           /\ \A k \in 1 .. Len(stack) : stack'[k] = stack[k]
           /\ stack'[Len(stack')].segs = child
           /\ stack'[Len(stack')].todo = {}
<1>1. Frame(child) \in Frames
  BY DEF Frame, Frames
<1> QED
  BY <1>1, AppendProperties DEF Frame

(* The innermost call sets its list of entries. *)
LEMMA Replaced ==
    ASSUME stack \in Seq(Frames), stack # <<>>, NEW t \in SUBSET Names,
           stack' = [stack EXCEPT ![Len(stack)].todo = t]
    PROVE  /\ stack' \in Seq(Frames)
           /\ Len(stack') = Len(stack)
           /\ \A k \in 1 .. Len(stack) - 1 : stack'[k] = stack[k]
           /\ \A k \in 1 .. Len(stack) : stack'[k].segs = stack[k].segs
           /\ stack'[Len(stack)].todo = t
<1>1. Len(stack) \in 1 .. Len(stack) /\ stack[Len(stack)] \in Frames
  BY ElementOfSeq
<1>2. [stack[Len(stack)] EXCEPT !.todo = t] \in Frames
  BY <1>1 DEF Frames
<1>3. stack' = [stack EXCEPT ![Len(stack)] =
                               [stack[Len(stack)] EXCEPT !.todo = t]]
  BY <1>1
<1>4. stack' \in Seq(Frames) /\ Len(stack') = Len(stack)
  BY <1>1, <1>2, <1>3
<1> QED
  BY <1>1, <1>3, <1>4 DEF Frames

(* A record is appended. *)
LEMMA Appended ==
    ASSUME WalkTypeOK, NEW meta \in {"none", "found", "absent", "err"},
           Sample(meta)
    PROVE  /\ out' \in Seq(Samples)
           /\ Len(out') = Len(out) + 1
           /\ \A i \in 1 .. Len(out) : out'[i] = out[i]
           /\ out'[Len(out')].path = child
           /\ out'[Len(out')].fields = fields
<1>1. [path |-> child, fields |-> fields, meta |-> meta] \in Samples
  BY DEF WalkTypeOK, Samples
<1> QED
  BY <1>1, AppendProperties DEF WalkTypeOK, Sample

(* The entry that NextEntry takes. *)
LEMMA Entered ==
    ASSUME WalkTypeOK, NextEntry, wpc' \in AtChild
    PROVE  /\ ~AtMax
           /\ UNCHANGED <<truncated, result>>
           /\ wpc' \in {"read", "descend"}
           /\ \E n \in Top.todo :
                 /\ n \in Names
                 /\ child' = Append(Top.segs, n)
                 /\ stack' = [stack EXCEPT ![Len(stack)].todo = Top.todo \ {n}]
<1>1. wpc = "entry" /\ stack # <<>> /\ Len(stack) \in 1 .. Len(stack)
  BY DEF NextEntry, WalkTypeOK
<1>2. ~WalkReturns
  BY <1>1 DEF WalkReturns, AtChild
<1>3. PICK i \in 1 .. Len(NameOrder) :
         /\ NameOrder[i] \in Top.todo
         /\ child' = Append(Top.segs, NameOrder[i])
         /\ stack' = [stack EXCEPT ![Len(stack)].todo = @ \ {NameOrder[i]}]
  BY <1>2 DEF NextEntry
<1>4. NameOrder[i] \in Names
  BY DEF Names
<1>5. stack' = [stack EXCEPT ![Len(stack)].todo = Top.todo \ {NameOrder[i]}]
  BY <1>1, <1>3 DEF WalkTypeOK, Top
<1> QED
  BY <1>2, <1>3, <1>4, <1>5 DEF NextEntry

(* Otherwise it returns. *)
LEMMA Returned ==
    ASSUME WalkTypeOK, NextEntry, wpc' \notin AtChild
    PROVE  /\ WalkReturns
           /\ UNCHANGED child
           /\ wpc' \in {"entry", "done"}
           /\ truncated' = truncated \/ (truncated' = TRUE /\ Len(out) >= Max)
BY DEF NextEntry, AtChild, AtMax, WalkReturns

-----------------------------------------------------------------------------
(* Types, and the files of a record. *)

(* The entries of a directory are names. *)
LEMMA ChildrenAreNames == \A segs : Children(segs) \in SUBSET Names
BY DEF Children

(* Every step preserves the types. *)
LEMMA WalkTypeInductive ==
    ASSUME KubeletTypeOK, WalkTypeOK, [WalkNext]_wvars
    PROVE  WalkTypeOK'
<1> USE DEF WalkTypeOK
<1>1. CASE BeginCollect
  <2>1. Frame(<<>>) \in Frames
    BY DEF Frame, Frames
  <2>2. <<Frame(<<>>)>> \in Seq(Frames) /\ <<Frame(<<>>)>> # <<>>
    BY <2>1
  <2> QED
    BY <1>1, <2>2 DEF BeginCollect, AtChild
<1>2. CASE ReadDir
  <2>1. CASE /\ stack' = [stack EXCEPT ![Len(stack)].todo =
                                                     Children(Top.segs)]
             /\ wpc' = "entry"
             /\ UNCHANGED <<out, result, ioFailed>>
    <3>1. stack # <<>> /\ Children(Top.segs) \in SUBSET Names
      BY <1>2, ChildrenAreNames DEF ReadDir
    <3>2. stack' \in Seq(Frames) /\ Len(stack') = Len(stack)
      BY <2>1, <3>1, Replaced
    <3>3. stack' # <<>>
      BY <3>1, <3>2
    <3> QED
      BY <1>2, <2>1, <3>2, <3>3 DEF ReadDir, treeVars
  <2>2. CASE WalkFails /\ ioFailed' = TRUE /\ UNCHANGED stack
    BY <1>2, <2>2 DEF ReadDir, WalkFails, treeVars
  <2> QED
    BY <1>2, <2>1, <2>2 DEF ReadDir
<1>3. CASE NextEntry /\ wpc' \in AtChild
  <2>1. PICK n \in Top.todo :
           /\ n \in Names
           /\ child' = Append(Top.segs, n)
           /\ stack' = [stack EXCEPT ![Len(stack)].todo = Top.todo \ {n}]
    BY <1>3, Entered
  <2>2. stack # <<>> /\ Top \in Frames
    BY <1>3, ElementOfSeq DEF NextEntry, Top
  <2>3. Top.todo \ {n} \in SUBSET Names /\ child' \in Seq(Names)
    BY <2>1, <2>2, AppendProperties DEF Frames
  <2>4. stack' \in Seq(Frames) /\ Len(stack') = Len(stack)
    BY <2>1, <2>2, <2>3, Replaced
  <2>5. stack' # <<>>
    BY <2>2, <2>4
  <2>6. nextFile' = 1 /\ fields' = {}
    BY <1>3 DEF NextEntry, WalkReturns, AtChild
  <2>7. /\ UNCHANGED <<out, truncated, result, ioFailed>>
        /\ wpc' \in {"read", "descend"} /\ wpc = "entry"
    BY <1>3, Entered DEF NextEntry
  <2> QED
    BY <2>3, <2>4, <2>5, <2>6, <2>7 DEF AtChild
<1>4. CASE NextEntry /\ wpc' \notin AtChild
  <2>1. stack # <<>> /\ WalkReturns
    BY <1>4, Returned DEF NextEntry
  <2>2. stack' \in Seq(Frames) /\ Len(stack') = Len(stack) - 1
    BY <2>1, Popped DEF WalkReturns
  <2>3. wpc' # "done" => stack' # <<>>
    <3>1. Len(stack) \in Nat \ {0}
      BY <2>1
    <3>2. wpc' # "done" => Len(stack) # 1
      BY <2>1 DEF WalkReturns
    <3> QED
      BY <2>2, <3>1, <3>2
  <2>4. wpc' # "done" => result' = "none"
    BY <1>4, <2>1 DEF NextEntry, WalkReturns
  <2> QED
    BY <1>4, <2>2, <2>3, <2>4, Returned DEF NextEntry, treeVars
<1>5. CASE ReadFile
  <2>1. CASE /\ fields' = FieldsRead
             /\ nextFile' = nextFile + 1
             /\ UNCHANGED <<wpc, out, result, ioFailed>>
    <3>1. nextFile \in 1 .. Len(FileOrder)
      BY <1>5, CgroupAssumption DEF ReadFile
    <3>2. FileOrder[nextFile] \in Files
      BY <3>1 DEF Files
    <3>3. fields' \in SUBSET Files /\ nextFile' \in Nat \ {0}
      BY <2>1, <3>2 DEF FieldsRead
    <3> QED
      BY <1>5, <2>1, <3>3 DEF ReadFile
  <2>2. CASE ReadError /\ ioFailed' = TRUE
    <3>1. out' \in Seq(Samples)
      BY <2>2, EmptySeq DEF ReadError, WalkFails
    <3> QED
      BY <1>5, <2>2, <3>1 DEF ReadFile, ReadError, WalkFails, AtChild
  <2> QED
    BY <1>5, <2>1, <2>2 DEF ReadFile
<1>10. CASE CallEnrich
  <2>1. CASE wpc' = "enrich" /\ UNCHANGED out
    BY <1>10, <2>1 DEF CallEnrich, AtChild
  <2>2. CASE Sample("none") /\ wpc' = "descend"
    <3>1. out' \in Seq(Samples)
      BY <2>2, Appended
    <3> QED
      BY <1>10, <2>2, <3>1 DEF CallEnrich, AtChild
  <2> QED
    BY <1>10, <2>1, <2>2 DEF CallEnrich
<1>6. CASE Enrich
  <2>1. out' \in Seq(Samples)
    BY <1>6, Appended DEF Enrich, LookupEnriches, KubeletTypeOK
  <2> QED
    BY <1>6, <2>1 DEF Enrich, LookupEnriches, treeVars, AtChild
<1>7. CASE Descend
  <2>1. CASE stack' = Append(stack, Frame(child)) /\ wpc' = "list"
    <3>1. stack' \in Seq(Frames) /\ Len(stack') = Len(stack) + 1
      BY <2>1, Pushed
    <3>2. stack' # <<>>
      BY <3>1
    <3> QED
      BY <1>7, <2>1, <3>1, <3>2 DEF Descend, treeVars
  <2>2. CASE wpc' = "entry" /\ UNCHANGED stack
    BY <1>7, <2>2 DEF Descend, treeVars
  <2> QED
    BY <1>7, <2>1, <2>2 DEF Descend
<1>8. CASE FetchGoes \/ UNCHANGED wvars
  BY <1>8 DEF FetchGoes, wvars, treeVars, walkVars
<1>9. CASE Churn
  BY <1>9 DEF Churn, walkVars
<1> QED
  BY <1>1, <1>2, <1>3, <1>4, <1>5, <1>6, <1>7, <1>8, <1>9, <1>10 DEF WalkNext

(* The record of the child, when all its files are read. *)
LEMMA TellsKept ==
    ASSUME WalkTypeOK, RecordsTellFiles, RecTells, nextFile > Len(FileOrder),
           NEW meta \in {"none", "found", "absent", "err"}, Sample(meta),
           UNCHANGED <<kept, seen>>
    PROVE  RecordsTellFiles'
<1>1. /\ Len(out') = Len(out) + 1
      /\ \A i \in 1 .. Len(out) : out'[i] = out[i]
      /\ out'[Len(out')].path = child
      /\ out'[Len(out')].fields = fields
  BY Appended
<1>2. \A f \in Files : /\ <<child, f>> \in kept => f \in fields
                       /\ f \in fields => <<child, f>> \in seen
  <2> SUFFICES ASSUME NEW f \in Files
               PROVE  /\ <<child, f>> \in kept => f \in fields
                      /\ f \in fields => <<child, f>> \in seen
    OBVIOUS
  <2>1. PICK i \in 1 .. Len(FileOrder) : f = FileOrder[i]
    BY DEF Files
  <2>2. i < nextFile
    BY CgroupAssumption DEF WalkTypeOK
  <2> QED
    BY <2>1, <2>2 DEF RecTells
<1> SUFFICES ASSUME NEW i \in 1 .. Len(out'), NEW f \in Files
             PROVE  /\ <<out'[i].path, f>> \in kept => f \in out'[i].fields
                    /\ f \in out'[i].fields => <<out'[i].path, f>> \in seen
  BY DEF RecordsTellFiles
<1>3. Len(out) \in Nat
  BY DEF WalkTypeOK
<1>4. CASE i = Len(out')
  BY <1>1, <1>2, <1>4
<1>5. CASE i # Len(out')
  <2>1. i \in 1 .. Len(out)
    BY <1>1, <1>3, <1>5
  <2> QED
    BY <1>1, <2>1 DEF RecordsTellFiles
<1> QED
  BY <1>4, <1>5

(* One file more is read, or found missing. *)
LEMMA RecGrows ==
    ASSUME WalkTypeOK, FileInv, wpc = "read", nextFile <= Len(FileOrder),
           fields' = FieldsRead, nextFile' = nextFile + 1,
           UNCHANGED <<child, kept, seen>>
    PROVE  RecTells'
<1> USE DEF FieldsRead
<1>1. RecTells /\ nextFile \in Nat \ {0}
  BY DEF FileInv, WalkTypeOK
<1>2. ASSUME NEW f \in fields' PROVE <<child, f>> \in seen
  BY <1>1, <1>2 DEF RecTells, FileInv
<1>3. ASSUME NEW i \in 1 .. Len(FileOrder), i < nextFile',
             <<child, FileOrder[i]>> \in kept
      PROVE  FileOrder[i] \in fields'
  <2>1. CASE i = nextFile
    BY <1>3, <2>1 DEF FileInv
  <2>2. CASE i # nextFile
    <3>1. i < nextFile
      BY <1>1, <1>3, <2>2
    <3>2. FileOrder[i] \in fields
      BY <1>1, <1>3, <3>1 DEF RecTells
    <3> QED
      BY <3>2
  <2> QED
    BY <2>1, <2>2
<1> QED
  BY <1>2, <1>3 DEF RecTells

(* Every step of the walk keeps it. *)
LEMMA FileInductive ==
    ASSUME KubeletTypeOK, WalkTypeOK, FileInv, [WalkNext]_wvars
    PROVE  FileInv'
<1> USE DEF FileInv
<1> DEFINE Bounds == /\ stable \subseteq tree
                     /\ kept \subseteq Present(tree, delegates)
                     /\ Present(tree, delegates) \subseteq seen
<1>0. ASSUME UNCHANGED treeVars
      PROVE  Bounds' /\ UNCHANGED <<kept, seen>>
  BY <1>0 DEF treeVars, Present
<1> HIDE DEF Bounds
<1>1. CASE BeginCollect
  <2>1. Bounds' /\ UNCHANGED <<kept, seen, out>> /\ wpc = "idle"
    BY <1>0, <1>1 DEF BeginCollect
  <2>2. RecordsTellFiles'
    BY <2>1 DEF RecordsTellFiles
  <2> QED
    BY <1>1, <2>1, <2>2 DEF BeginCollect, LostOnlyToCgroupfs, Bounds, WalkTypeOK
<1>2. CASE ReadDir
  <2>1. Bounds' /\ UNCHANGED <<kept, seen>> /\ wpc = "list"
    BY <1>0, <1>2 DEF ReadDir
  <2>2. CASE wpc' = "entry" /\ UNCHANGED <<out, result, ioFailed>>
    <3>1. RecordsTellFiles'
      BY <2>1, <2>2 DEF RecordsTellFiles
    <3> QED
      BY <2>1, <2>2, <3>1 DEF LostOnlyToCgroupfs, Bounds
  <2>3. CASE WalkFails /\ ioFailed' = TRUE
    <3>1. RecordsTellFiles'
      BY <2>3 DEF WalkFails, RecordsTellFiles
    <3> QED
      BY <2>1, <2>3, <3>1 DEF WalkFails, LostOnlyToCgroupfs, Bounds
  <2> QED
    BY <1>2, <2>2, <2>3 DEF ReadDir
<1>3. CASE NextEntry /\ wpc' \in AtChild
  <2>1. Bounds' /\ UNCHANGED <<kept, seen, out, ioFailed>> /\ wpc = "entry"
    BY <1>0, <1>3 DEF NextEntry
  <2>2. nextFile' = 1 /\ fields' = {} /\ wpc' \in {"read", "descend"}
    BY <1>3, Entered DEF NextEntry, WalkReturns, AtChild
  <2>3. RecTells'
    BY <2>2 DEF RecTells
  <2>4. RecordsTellFiles'
    BY <2>1 DEF RecordsTellFiles
  <2> QED
    BY <2>1, <2>2, <2>3, <2>4 DEF LostOnlyToCgroupfs, Bounds
<1>4. CASE NextEntry /\ wpc' \notin AtChild
  <2>1. Bounds' /\ UNCHANGED <<kept, seen, out, ioFailed>> /\ wpc = "entry"
    BY <1>0, <1>4 DEF NextEntry
  <2>2. /\ wpc' \in {"entry", "done"}
        /\ wpc' = "done" => result' # "err"
    BY <1>4, Returned DEF NextEntry, WalkReturns
  <2>3. RecordsTellFiles'
    BY <2>1 DEF RecordsTellFiles
  <2> QED
    BY <2>1, <2>2, <2>3 DEF LostOnlyToCgroupfs, Bounds
<1>5. CASE ReadFile
  <2>1. /\ Bounds' /\ UNCHANGED <<kept, seen, child>> /\ wpc = "read"
        /\ nextFile <= Len(FileOrder)
    BY <1>0, <1>5 DEF ReadFile
  <2>2. CASE /\ fields' = FieldsRead
             /\ nextFile' = nextFile + 1
             /\ UNCHANGED <<wpc, out, result, ioFailed>>
    <3>1. RecTells'
      BY <2>1, <2>2, RecGrows
    <3>2. RecordsTellFiles'
      BY <2>1, <2>2 DEF RecordsTellFiles
    <3> QED
      BY <2>1, <2>2, <3>1, <3>2 DEF LostOnlyToCgroupfs, Bounds
  <2>3. CASE ReadError /\ ioFailed' = TRUE
    <3>1. RecordsTellFiles'
      BY <2>3 DEF ReadError, WalkFails, RecordsTellFiles
    <3> QED
      BY <2>1, <2>3, <3>1 DEF ReadError, WalkFails, LostOnlyToCgroupfs, Bounds
  <2> QED
    BY <1>5, <2>2, <2>3 DEF ReadFile
<1>6. CASE CallEnrich
  <2>1. /\ Bounds' /\ wpc = "read" /\ nextFile > Len(FileOrder)
        /\ UNCHANGED <<kept, seen, child, fields, nextFile, ioFailed>>
    BY <1>0, <1>6 DEF CallEnrich
  <2>2. CASE Sample("none") /\ wpc' = "descend"
    <3>1. RecordsTellFiles'
      BY <2>1, <2>2, TellsKept
    <3> QED
      BY <2>1, <2>2, <3>1 DEF LostOnlyToCgroupfs, Bounds
  <2>3. CASE wpc' = "enrich" /\ UNCHANGED out
    <3>1. RecTells' /\ RecordsTellFiles'
      BY <2>1, <2>3 DEF RecTells, RecordsTellFiles
    <3> QED
      BY <2>1, <2>3, <3>1 DEF LostOnlyToCgroupfs, Bounds
  <2> QED
    BY <1>6, <2>2, <2>3 DEF CallEnrich
<1>7. CASE Enrich
  <2>1. /\ Bounds' /\ wpc = "enrich" /\ wpc' = "descend"
        /\ UNCHANGED <<kept, seen, ioFailed>>
        /\ Sample(answer)
    BY <1>0, <1>7 DEF Enrich, LookupEnriches
  <2>2. RecordsTellFiles'
    BY <2>1, TellsKept DEF KubeletTypeOK
  <2> QED
    BY <2>1, <2>2 DEF LostOnlyToCgroupfs, Bounds
<1>8. CASE Descend
  <2>1. /\ Bounds' /\ wpc = "descend" /\ wpc' \in {"list", "entry"}
        /\ UNCHANGED <<kept, seen, out, ioFailed>>
    BY <1>0, <1>8 DEF Descend
  <2>2. RecordsTellFiles'
    BY <2>1 DEF RecordsTellFiles
  <2> QED
    BY <2>1, <2>2 DEF LostOnlyToCgroupfs, Bounds
<1>9. CASE FetchGoes \/ UNCHANGED wvars
  <2>1. Bounds' /\ UNCHANGED <<kept, seen, walkVars>>
    BY <1>0, <1>9 DEF FetchGoes, wvars
  <2>2. RecTells => RecTells'
    BY <2>1 DEF RecTells, walkVars
  <2> QED
    BY <2>1, <2>2 DEF walkVars, RecordsTellFiles, LostOnlyToCgroupfs, Bounds
<1>10. CASE Churn
  <2>1. UNCHANGED walkVars
    BY <1>10 DEF Churn
  <2>2. /\ stable' = stable \cap tree'
        /\ kept' = kept \cap Present(tree', delegates')
        /\ seen' = seen \cup Present(tree', delegates')
    BY <1>10 DEF Churn
  <2>3. Present(tree, delegates)' = Present(tree', delegates')
    BY DEF Present
  <2>4. Bounds' /\ kept' \subseteq kept /\ seen \subseteq seen'
    BY <2>2, <2>3 DEF Bounds
  <2>5. RecTells => RecTells'
    BY <2>1, <2>4 DEF RecTells, walkVars
  <2>6. RecordsTellFiles'
    BY <2>1, <2>4 DEF RecordsTellFiles, walkVars
  <2> QED
    BY <2>1, <2>4, <2>5, <2>6 DEF walkVars, LostOnlyToCgroupfs, Bounds
<1> QED
  BY <1>1, <1>2, <1>3, <1>4, <1>5, <1>6, <1>7, <1>8, <1>9, <1>10 DEF WalkNext

-----------------------------------------------------------------------------
(* No cgroup twice. *)

(* What the steps do to the walk, whatever becomes of the tree. *)
Stays == /\ UNCHANGED <<stack, child, out, truncated>>
         /\ \/ wpc' = wpc /\ UNCHANGED result
            \/ wpc = "read" /\ wpc' = "enrich" /\ UNCHANGED result
            \/ wpc = "descend" /\ wpc' = "entry" /\ UNCHANGED result
            \/ wpc' = "done" /\ result = "none"

Fails == /\ wpc' = "done" /\ result' = "err" /\ out' = <<>>
         /\ UNCHANGED <<stack, child>>

Begins == /\ wpc = "idle" /\ wpc' = "list"
          /\ stack' = <<Frame(<<>>)>>
          /\ UNCHANGED <<out, truncated, result>>

Lists == /\ wpc = "list" /\ wpc' = "entry"
         /\ \E t \in SUBSET Names :
               stack' = [stack EXCEPT ![Len(stack)].todo = t]
         /\ UNCHANGED <<out, truncated, result>>

Enters == /\ wpc = "entry" /\ wpc' \in {"read", "descend"}
          /\ Len(out) < Max
          /\ \E n \in Top.todo :
                /\ n \in Names
                /\ child' = Append(Top.segs, n)
                /\ stack' = [stack EXCEPT ![Len(stack)].todo = Top.todo \ {n}]
          /\ UNCHANGED <<out, truncated, result>>

Returns == /\ wpc = "entry" /\ wpc' \in {"entry", "done"}
           /\ stack' = SubSeq(stack, 1, Len(stack) - 1)
           /\ truncated' = truncated \/ Len(out) >= Max
           /\ result = "none"
           /\ UNCHANGED out

Records == /\ wpc \in {"read", "enrich"} /\ wpc' = "descend"
           /\ \E meta \in {"none", "found", "absent", "err"} : Sample(meta)
           /\ UNCHANGED <<stack, child, truncated, result>>

Calls == /\ wpc = "descend" /\ wpc' = "list"
         /\ stack' = Append(stack, Frame(child))
         /\ UNCHANGED <<child, out, truncated, result>>

WalkStep == Stays \/ Fails \/ Begins \/ Lists \/ Enters \/ Returns \/ Records
            \/ Calls

(* There are no other. *)
LEMMA WalkStepOf ==
    ASSUME KubeletTypeOK, WalkTypeOK, [WalkNext]_wvars
    PROVE  WalkStep
<1> USE DEF WalkStep
<1>1. CASE BeginCollect
  BY <1>1 DEF BeginCollect, Begins, Stays, WalkTypeOK
<1>2. CASE ReadDir
  <2>1. Children(Top.segs) \in SUBSET Names
    BY ChildrenAreNames
  <2> QED
    BY <1>2, <2>1 DEF ReadDir, WalkFails, Fails, Lists
<1>3. CASE NextEntry /\ wpc' \in AtChild
  <2>1. Len(out) < Max
    BY <1>3, Entered, CgroupAssumption DEF AtMax, WalkTypeOK
  <2> QED
    BY <1>3, <2>1, Entered DEF NextEntry, Enters
<1>4. CASE NextEntry /\ wpc' \notin AtChild
  <2>1. /\ wpc = "entry" /\ result = "none" /\ UNCHANGED out
        /\ stack' = SubSeq(stack, 1, Len(stack) - 1)
    BY <1>4, Returned DEF NextEntry, WalkReturns, WalkTypeOK
  <2> QED
    BY <1>4, <2>1, Returned DEF Returns
<1>5. CASE ReadFile \/ CallEnrich
  BY <1>5 DEF ReadFile, CallEnrich, ReadError, WalkFails, Records, Stays, Fails
<1>6. CASE Enrich
  BY <1>6 DEF Enrich, LookupEnriches, Records, KubeletTypeOK, WalkTypeOK
<1>7. CASE Descend
  BY <1>7 DEF Descend, Calls, Stays
<1>8. CASE FetchGoes \/ Churn \/ UNCHANGED wvars
  BY <1>8 DEF FetchGoes, Churn, wvars, walkVars, Stays
<1> QED
  BY <1>1, <1>2, <1>3, <1>4, <1>5, <1>6, <1>7, <1>8 DEF WalkNext

(* The limit is kept. *)
LEMMA CountInductive ==
    ASSUME WalkTypeOK, CountInv, WalkStep
    PROVE  CountInv'
<1> USE CgroupAssumption DEF CountInv
<1>0. Len(out) \in Nat
  BY DEF WalkTypeOK
<1>1. CASE Stays
  BY <1>1 DEF Stays
<1>2. CASE Fails
  <2>1. Len(out') = 0
    BY <1>2 DEF Fails
  <2> QED
    BY <1>2, <2>1 DEF Fails
<1>3. CASE Begins \/ Lists \/ Enters \/ Calls
  BY <1>3 DEF Begins, Lists, Enters, Calls
<1>4. CASE Returns
  <2>1. Len(out) >= Max => Len(out) = Max
    BY <1>0
  <2> QED
    BY <1>4, <2>1 DEF Returns
<1>5. CASE Records
  <2>1. Len(out') = Len(out) + 1
    BY <1>5, Appended DEF Records
  <2>2. ~truncated \/ result = "err"
    BY <1>0, <1>5 DEF Records
  <2> QED
    BY <1>0, <1>5, <2>1, <2>2 DEF Records
<1> QED
  BY <1>1, <1>2, <1>3, <1>4, <1>5 DEF WalkStep

(* The frames when the innermost one sets its list of entries. *)
LEMMA Relisted ==
    ASSUME WalkTypeOK, ChainInv, stack # <<>>, NEW t \in SUBSET Names,
           stack' = [stack EXCEPT ![Len(stack)].todo = t]
    PROVE  \A k \in 1 .. Len(stack') : Chained(k)'
<1>1. /\ Len(stack') = Len(stack)
      /\ \A k \in 1 .. Len(stack) - 1 : stack'[k] = stack[k]
      /\ \A k \in 1 .. Len(stack) : stack'[k].segs = stack[k].segs
  BY Replaced DEF WalkTypeOK
<1> SUFFICES ASSUME NEW k \in 1 .. Len(stack)
             PROVE  Chained(k)'
  BY <1>1
<1>2. Chained(k)
  BY DEF ChainInv
<1>3. \A j \in 1 .. k - 1 : stack'[j] = stack[j]
  <2>1. Len(stack) \in Nat
    BY DEF WalkTypeOK
  <2> QED
    BY <1>1, <2>1
<1> QED
  BY <1>1, <1>2, <1>3 DEF OnTheWay, Chained

(* A path and one segment more. *)
LEMMA OneMore ==
    ASSUME NEW s \in Seq(Names), NEW n \in Names
    PROVE  /\ Append(s, n) \in Seq(Names)
           /\ Len(Append(s, n)) = Len(s) + 1
           /\ Append(s, n)[Len(s) + 1] = n
           /\ \A i \in 1 .. Len(s) : Append(s, n)[i] = s[i]
           /\ Below(Append(s, n), s)
<1>1. /\ Append(s, n) \in Seq(Names)
      /\ Len(Append(s, n)) = Len(s) + 1
      /\ Append(s, n)[Len(s) + 1] = n
      /\ \A i \in 1 .. Len(s) : Append(s, n)[i] = s[i]
  BY AppendProperties
<1> QED
  BY <1>1 DEF Below

(* Every step keeps the open directories one below the other. *)
LEMMA ChainInductive ==
    ASSUME WalkTypeOK, ChainInv, WalkStep
    PROVE  ChainInv'
<1>0. Len(stack) \in Nat
  BY DEF WalkTypeOK
<1>1. CASE Stays \/ Fails \/ Records
  BY <1>1 DEF Stays, Fails, Records, ChainInv, Chained, OnTheWay,
              AtChild
<1>2. CASE Begins
  <2>1. Len(stack') = 1 /\ stack'[1].segs = <<>>
    BY <1>2 DEF Begins, Frame
  <2> QED
    BY <1>2, <2>1 DEF Begins, ChainInv, Chained, OnTheWay, AtChild
<1>3. CASE Lists
  <2>1. stack # <<>>
    BY <1>3 DEF Lists, WalkTypeOK
  <2>2. \A k \in 1 .. Len(stack') : Chained(k)'
    BY <1>3, <2>1, Relisted DEF Lists
  <2> QED
    BY <1>3, <2>2 DEF Lists, ChainInv, AtChild
<1>4. CASE Enters
  <2>1. PICK n \in Top.todo :
           /\ n \in Names
           /\ child' = Append(Top.segs, n)
           /\ stack' = [stack EXCEPT ![Len(stack)].todo = Top.todo \ {n}]
    BY <1>4 DEF Enters
  <2>2. stack # <<>> /\ Len(stack) \in 1 .. Len(stack) /\ Top \in Frames
    BY <1>4, ElementOfSeq DEF Enters, WalkTypeOK, Top
  <2>3. Top.segs \in Seq(Names) /\ Top.todo \ {n} \in SUBSET Names
    BY <2>2 DEF Frames
  <2>4. \A k \in 1 .. Len(stack') : Chained(k)'
    BY <2>1, <2>2, <2>3, Relisted
  <2>5. /\ Len(stack') = Len(stack)
        /\ \A k \in 1 .. Len(stack) - 1 : stack'[k] = stack[k]
        /\ stack'[Len(stack)].segs = Top.segs
        /\ stack'[Len(stack)].todo = Top.todo \ {n}
    BY <2>1, <2>2, <2>3, Replaced DEF WalkTypeOK, Top
  <2>6. Len(Top.segs) = Len(stack) - 1 /\ OnTheWay(Top.segs, Len(stack) - 1)
    BY <2>2 DEF ChainInv, Chained, Top
  <2>7. /\ Len(child') = Len(stack)
        /\ child'[Len(stack)] = n
        /\ \A i \in 1 .. Len(stack) - 1 : child'[i] = Top.segs[i]
        /\ Below(child', Top.segs)
    <3>1. Len(Top.segs) + 1 = Len(stack)
      BY <1>0, <2>6
    <3>2. /\ Len(Append(Top.segs, n)) = Len(Top.segs) + 1
          /\ Append(Top.segs, n)[Len(Top.segs) + 1] = n
          /\ \A i \in 1 .. Len(Top.segs) : Append(Top.segs, n)[i] = Top.segs[i]
          /\ Below(Append(Top.segs, n), Top.segs)
      BY <2>1, <2>3, OneMore
    <3> QED
      BY <2>1, <2>6, <3>1, <3>2
  <2>8. OnTheWay(child, Len(stack))'
    <3> SUFFICES ASSUME NEW k \in 1 .. Len(stack)
                 PROVE  /\ Below(child', stack'[k].segs)
                        /\ child'[k] \notin stack'[k].todo
      BY <2>5 DEF OnTheWay
    <3>1. CASE k = Len(stack)
      BY <2>5, <2>7, <3>1
    <3>2. CASE k # Len(stack)
      <4>1. k \in 1 .. Len(stack) - 1
        BY <1>0, <3>2
      <4>2. /\ Below(Top.segs, stack[k].segs)
            /\ Top.segs[k] \notin stack[k].todo
            /\ Len(stack[k].segs) = k - 1
        BY <2>6, <4>1 DEF OnTheWay, ChainInv, Chained
      <4>3. Below(child', stack[k].segs)
        BY <1>0, <2>6, <2>7, <4>1, <4>2 DEF Below
      <4> QED
        BY <2>5, <2>7, <4>1, <4>2, <4>3
    <3> QED
      BY <3>1, <3>2
  <2> QED
    BY <2>4, <2>5, <2>7, <2>8 DEF ChainInv
<1>5. CASE Returns
  <2>1. stack # <<>>
    BY <1>5 DEF Returns, WalkTypeOK
  <2>2. /\ Len(stack') = Len(stack) - 1
        /\ \A k \in 1 .. Len(stack) - 1 : stack'[k] = stack[k]
    BY <1>5, <2>1, Popped DEF Returns, WalkTypeOK
  <2>3. \A k \in 1 .. Len(stack') : Chained(k)'
    <3> SUFFICES ASSUME NEW k \in 1 .. Len(stack) - 1
                 PROVE  Chained(k)'
      BY <2>2
    <3>1. Chained(k)
      BY <1>0 DEF ChainInv
    <3>2. \A j \in 1 .. k - 1 : stack'[j] = stack[j]
      BY <1>0, <2>2
    <3> QED
      BY <2>2, <3>1, <3>2 DEF OnTheWay, Chained
  <2> QED
    BY <1>5, <2>3 DEF Returns, ChainInv, AtChild
<1>6. CASE Calls
  <2>1. /\ Len(stack') = Len(stack) + 1
        /\ \A k \in 1 .. Len(stack) : stack'[k] = stack[k]
        /\ stack'[Len(stack')].segs = child
    BY <1>6, Pushed DEF Calls, WalkTypeOK
  <2>2. Len(child) = Len(stack) /\ OnTheWay(child, Len(stack))
    BY <1>6 DEF Calls, ChainInv, AtChild
  <2>3. \A k \in 1 .. Len(stack') : Chained(k)'
    <3> SUFFICES ASSUME NEW k \in 1 .. Len(stack')
                 PROVE  Chained(k)'
      OBVIOUS
    <3>1. \A j \in 1 .. k - 1 : stack'[j] = stack[j]
      BY <1>0, <2>1
    <3>2. CASE k = Len(stack')
      <4>1. k - 1 = Len(stack)
        BY <1>0, <2>1, <3>2
      <4> QED
        BY <2>1, <2>2, <3>1, <3>2, <4>1 DEF OnTheWay, Chained
    <3>3. CASE k # Len(stack')
      <4>1. k \in 1 .. Len(stack)
        BY <1>0, <2>1, <3>3
      <4>2. Chained(k)
        BY <4>1 DEF ChainInv
      <4> QED
        BY <2>1, <3>1, <4>1, <4>2 DEF OnTheWay, Chained
    <3> QED
      BY <3>2, <3>3
  <2> QED
    BY <1>6, <2>3 DEF Calls, ChainInv, AtChild
<1> QED
  BY <1>1, <1>2, <1>3, <1>4, <1>5, <1>6 DEF WalkStep

(* What was returned keeps apart from what is still to be visited. *)
LEMMA ApartKept ==
    ASSUME WalkTypeOK, ChainInv, WalkStep, ~Fails, wpc # "idle",
           NEW p \in Seq(Names), Apart(p)
    PROVE  Apart(p)'
<1>0. Len(stack) \in Nat /\ Len(p) \in Nat
  BY DEF WalkTypeOK
<1>1. CASE Stays
  BY <1>1 DEF Stays, Apart, Top
<1>2. CASE Lists
  <2>0. stack # <<>> /\ Len(stack) \in 1 .. Len(stack)
    BY <1>2 DEF Lists, WalkTypeOK
  <2>1. PICK t \in SUBSET Names :
           stack' = [stack EXCEPT ![Len(stack)].todo = t]
    BY <1>2 DEF Lists
  <2>2. /\ Len(stack') = Len(stack)
        /\ \A k \in 1 .. Len(stack) - 1 : stack'[k] = stack[k]
        /\ \A k \in 1 .. Len(stack) : stack'[k].segs = stack[k].segs
    BY <2>0, <2>1, Replaced DEF WalkTypeOK
  <2>3. Below(p, Top.segs) => ~(Len(p) >= Len(stack))
    <3>1. Len(Top.segs) = Len(stack) - 1
      BY <2>0 DEF ChainInv, Chained, Top
    <3>2. Below(p, Top.segs) => Len(p) = Len(Top.segs)
      BY <1>2 DEF Lists, Apart
    <3> QED
      BY <1>0, <3>1, <3>2
  <2>4. ASSUME NEW k \in 1 .. Len(stack), Below(p, stack'[k].segs), Len(p) >= k
        PROVE  p[k] \notin stack'[k].todo
    <3>1. CASE k = Len(stack)
      BY <2>2, <2>3, <2>4, <3>1 DEF Top
    <3>2. CASE k # Len(stack)
      <4>1. k \in 1 .. Len(stack) - 1
        BY <1>0, <3>2
      <4> QED
        BY <2>2, <2>4, <4>1 DEF Apart
    <3> QED
      BY <3>1, <3>2
  <2> QED
    BY <1>2, <2>2, <2>4 DEF Lists, Apart
<1>3. CASE Enters
  <2>0. stack # <<>> /\ Len(stack) \in 1 .. Len(stack) /\ Top \in Frames
    BY <1>3, ElementOfSeq DEF Enters, WalkTypeOK, Top
  <2>1. PICK n \in Top.todo :
           /\ n \in Names
           /\ child' = Append(Top.segs, n)
           /\ stack' = [stack EXCEPT ![Len(stack)].todo = Top.todo \ {n}]
    BY <1>3 DEF Enters
  <2>2. Top.segs \in Seq(Names) /\ Top.todo \ {n} \in SUBSET Names
    BY <2>0 DEF Frames
  <2>3. /\ Len(stack') = Len(stack)
        /\ \A k \in 1 .. Len(stack) - 1 : stack'[k] = stack[k]
        /\ \A k \in 1 .. Len(stack) : stack'[k].segs = stack[k].segs
        /\ stack'[Len(stack)].todo = Top.todo \ {n}
    BY <2>0, <2>1, <2>2, Replaced DEF WalkTypeOK
  <2>4. ASSUME NEW k \in 1 .. Len(stack), Below(p, stack'[k].segs), Len(p) >= k
        PROVE  p[k] \notin stack'[k].todo
    <3>0. p[k] \notin stack[k].todo
      BY <2>3, <2>4 DEF Apart
    <3>1. CASE k = Len(stack)
      BY <2>3, <3>0, <3>1 DEF Top
    <3>2. CASE k # Len(stack)
      <4>1. k \in 1 .. Len(stack) - 1
        BY <1>0, <3>2
      <4> QED
        BY <2>3, <3>0, <4>1
    <3> QED
      BY <3>1, <3>2
  <2>5. ~Below(p, child')
    <3> SUFFICES ASSUME Below(p, child') PROVE FALSE
      OBVIOUS
    <3>1. Len(Top.segs) = Len(stack) - 1
      BY <2>0 DEF ChainInv, Chained, Top
    <3>2. /\ Len(child') = Len(Top.segs) + 1
          /\ child'[Len(Top.segs) + 1] = n
          /\ \A i \in 1 .. Len(Top.segs) : child'[i] = Top.segs[i]
      BY <2>1, <2>2, OneMore
    <3>3. Len(p) >= Len(stack) /\ p[Len(stack)] = n
      BY <1>0, <2>0, <3>1, <3>2 DEF Below
    <3>4. Below(p, Top.segs)
      BY <1>0, <2>0, <3>1, <3>2 DEF Below
    <3> QED
      BY <2>0, <2>1, <3>3, <3>4 DEF Apart, Top
  <2> QED
    BY <1>3, <2>3, <2>4, <2>5 DEF Enters, Apart
<1>4. CASE Returns
  <2>0. stack # <<>>
    BY <1>4 DEF Returns, WalkTypeOK
  <2>1. /\ Len(stack') = Len(stack) - 1
        /\ \A k \in 1 .. Len(stack) - 1 : stack'[k] = stack[k]
    BY <1>4, <2>0, Popped DEF Returns, WalkTypeOK
  <2>2. \A k \in 1 .. Len(stack') : k \in 1 .. Len(stack)
    BY <1>0, <2>1
  <2>3. \A k \in 1 .. Len(stack') :
           Below(p, stack'[k].segs) /\ Len(p) >= k
               => p[k] \notin stack'[k].todo
    BY <2>1, <2>2 DEF Apart
  <2> QED
    BY <1>4, <2>3 DEF Returns, Apart
<1>5. CASE Records
  BY <1>5 DEF Records, Apart
<1>6. CASE Calls
  <2>1. /\ Len(stack') = Len(stack) + 1
        /\ \A k \in 1 .. Len(stack) : stack'[k] = stack[k]
        /\ stack'[Len(stack')].segs = child
        /\ stack'[Len(stack')].todo = {}
    BY <1>6, Pushed DEF Calls, WalkTypeOK
  <2>2. ASSUME NEW k \in 1 .. Len(stack'), Below(p, stack'[k].segs), Len(p) >= k
        PROVE  p[k] \notin stack'[k].todo
    <3>1. CASE k = Len(stack')
      BY <2>1, <3>1
    <3>2. CASE k # Len(stack')
      <4>1. k \in 1 .. Len(stack)
        BY <1>0, <2>1, <3>2
      <4> QED
        BY <2>1, <2>2, <4>1 DEF Apart
    <3> QED
      BY <3>1, <3>2
  <2>3. Below(p, Top'.segs) => Len(p) = Len(Top'.segs)
    BY <1>6, <2>1 DEF Calls, Apart, Top
  <2> QED
    BY <1>6, <2>2, <2>3 DEF Calls, Apart
<1> QED
  BY <1>1, <1>2, <1>3, <1>4, <1>5, <1>6 DEF WalkStep, Begins

(* The paths in the output are sequences of names. *)
LEMMA OutPaths ==
    ASSUME WalkTypeOK, NEW i \in 1 .. Len(out)
    PROVE  out[i].path \in Seq(Names)
<1>1. out[i] \in Samples
  BY ElementOfSeq DEF WalkTypeOK
<1> QED
  BY <1>1 DEF Samples

(* The child, once it is returned, keeps apart as well, and is new. *)
LEMMA ChildApart ==
    ASSUME WalkTypeOK, ChainInv, ApartInv, Records
    PROVE  Apart(child)' /\ \A i \in 1 .. Len(out) : out[i].path # child
<1>1. OnTheWay(child, Len(stack))
  BY DEF Records, ChainInv, AtChild
<1>2. Apart(child)'
  BY <1>1 DEF Records, Apart, OnTheWay
<1>3. Below(child, child)
  BY DEF Below, WalkTypeOK
<1>4. \A i \in 1 .. Len(out) : ~Below(out[i].path, child)
  BY DEF Records, ApartInv, Apart
<1> QED
  BY <1>2, <1>3, <1>4

(* Every step keeps the output apart from the rest of the walk, and its *)
(* paths distinct. *)
LEMMA ApartInductive ==
    ASSUME WalkTypeOK, ChainInv, ApartInv, Distinct, WalkStep
    PROVE  ApartInv' /\ Distinct'
<1>1. CASE Fails \/ wpc = "idle"
  <2>1. Len(out') = 0
    BY <1>1 DEF Fails, Stays, Begins, Lists, Enters, Returns, Records, Calls,
                WalkStep, WalkTypeOK
  <2> QED
    BY <2>1 DEF ApartInv, Distinct
<1>2. CASE ~Fails /\ wpc # "idle" /\ UNCHANGED out
  BY <1>2, ApartKept, OutPaths DEF ApartInv, Distinct
<1>3. CASE wpc # "idle" /\ ~Fails /\ Records
  <2>0. Len(out) \in Nat
    BY DEF WalkTypeOK
  <2>1. /\ Len(out') = Len(out) + 1
        /\ \A i \in 1 .. Len(out) : out'[i] = out[i]
        /\ out'[Len(out')].path = child
    BY <1>3, Appended DEF Records
  <2>2. \A i \in 1 .. Len(out') : i \in 1 .. Len(out) \/ i = Len(out')
    BY <2>0, <2>1
  <2>3. \A i \in 1 .. Len(out) : Apart(out[i].path)'
    <3> SUFFICES ASSUME NEW i \in 1 .. Len(out) PROVE Apart(out[i].path)'
      OBVIOUS
    <3> DEFINE p == out[i].path
    <3>1. p \in Seq(Names) /\ Apart(p)
      BY OutPaths DEF ApartInv
    <3> HIDE DEF p
    <3> QED
      BY <1>3, <2>1, <3>1, ApartKept DEF p
  <2>4. UNCHANGED child /\ Apart(child)'
    BY <1>3, ChildApart DEF Records
  <2>5. ASSUME NEW i \in 1 .. Len(out') PROVE Apart(out[i].path)'
    <3>1. CASE i \in 1 .. Len(out)
      BY <2>3, <3>1
    <3>2. CASE i = Len(out')
      <4>1. out'[i].path = child'
        BY <2>1, <2>4, <3>2
      <4> QED
        BY <2>4, <4>1 DEF Apart
    <3> QED
      BY <2>2, <3>1, <3>2
  <2>6. \A i \in 1 .. Len(out) : out'[i].path # out'[Len(out')].path
    BY <1>3, <2>1, ChildApart
  <2>7. Distinct'
    <3> SUFFICES ASSUME NEW i \in 1 .. Len(out'), NEW j \in 1 .. Len(out'),
                        out'[i].path = out'[j].path
                 PROVE  i = j
      BY DEF Distinct
    <3>1. CASE i \in 1 .. Len(out) /\ j \in 1 .. Len(out)
      BY <2>1, <3>1 DEF Distinct
    <3>2. CASE i = Len(out') \/ j = Len(out')
      BY <2>2, <2>6, <3>2
    <3> QED
      BY <2>2, <3>1, <3>2
  <2> QED
    BY <2>5, <2>7 DEF ApartInv
<1> QED
  BY <1>1, <1>2, <1>3
     DEF WalkStep, Stays, Begins, Lists, Enters, Returns, Calls

-----------------------------------------------------------------------------
(* Matching: what matchGlob and isPossiblePrefix compute. *)

(* A nonempty set of naturals has a least element. *)
LEMMA LeastOf ==
    ASSUME NEW S \in SUBSET Nat, S # {}
    PROVE  \E x \in S : \A y \in S : x <= y
<1> DEFINE R == {ss \in Nat \X Nat : ss[1] < ss[2]}
<1>1. IsWellFoundedOn(R, Nat)
  BY NatLessThanWellFounded DEF OpToRel
<1> HIDE DEF R
<1>2. PICK x \in S : \A y \in S : ~(<<y, x>> \in R)
  BY <1>1, WFMin
<1>3. ASSUME NEW y \in S
      PROVE  x <= y
  <2>1. x \in Nat /\ y \in Nat
    OBVIOUS
  <2>2. <<y, x>> \in Nat \X Nat /\ <<y, x>>[1] = y /\ <<y, x>>[2] = x
    BY <2>1
  <2>3. ~(y < x)
    BY <1>2, <2>2 DEF R
  <2> QED
    BY <2>1, <2>3
<1> QED
  BY <1>3

(* The piece of p that cut gives to the k-th segment of g fits it. *)
Piece(g, p, cut, k) ==
    IF g[k].deep THEN cut[k - 1] <= cut[k]
    ELSE cut[k] = cut[k - 1] + 1 /\ p[cut[k]] \in g[k].names

(* cut divides what is left of p, from j on, among the segments of g from *)
(* the i-th on. *)
Divides(cut, g, p, i, j) ==
    /\ cut[i - 1] = j - 1
    /\ cut[Len(g)] = Len(p)
    /\ \A k \in i .. Len(g) : Piece(g, p, cut, k)

Rest(g, p, i, j) ==
    \E cut \in [i - 1 .. Len(g) -> 0 .. Len(p)] : Divides(cut, g, p, i, j)

(* No segment is left. *)
LEMMA RestOfNone ==
    ASSUME NEW g, NEW p, Len(g) \in Nat, Len(p) \in Nat,
           NEW j \in 1 .. Len(p) + 1
    PROVE  Rest(g, p, Len(g) + 1, j) <=> j > Len(p)
<1> DEFINE m == Len(g)
<1>1. m \in Nat /\ m = m + 1 - 1
  OBVIOUS
<1>2. ASSUME Rest(g, p, Len(g) + 1, j) PROVE j > Len(p)
  BY <1>1, <1>2 DEF Rest, Divides
<1>3. ASSUME j > Len(p) PROVE Rest(g, p, Len(g) + 1, j)
  <2> DEFINE cut == [k \in m .. m |-> Len(p)]
  <2>1. cut \in [m .. m -> 0 .. Len(p)] /\ cut[m] = Len(p) /\ Len(p) = j - 1
    BY <1>1, <1>3
  <2> HIDE DEF cut
  <2>2. Divides(cut, g, p, m + 1, j)
    BY <1>1, <2>1 DEF Divides
  <2> QED
    BY <1>1, <2>1, <2>2 DEF Rest
<1> QED
  BY <1>2, <1>3

(* cut gives the i-th segment what is from j to j2, and the others the rest. *)
LEMMA CutFirst ==
    ASSUME NEW g, NEW p, Len(g) \in Nat, Len(p) \in Nat,
           NEW i \in 1 .. Len(g), NEW j \in 1 .. Len(p) + 1,
           NEW cut \in [i - 1 .. Len(g) -> 0 .. Len(p)],
           Divides(cut, g, p, i, j)
    PROVE  /\ Piece(g, p, cut, i)
           /\ cut[i - 1] = j - 1
           /\ cut[i] \in 0 .. Len(p)
           /\ Rest(g, p, i + 1, cut[i] + 1)
<1>1. i \in i - 1 .. Len(g) /\ i + 1 - 1 = i /\ Len(g) \in i .. Len(g)
  OBVIOUS
<1>2. Piece(g, p, cut, i) /\ cut[i - 1] = j - 1 /\ cut[i] \in 0 .. Len(p)
  BY <1>1 DEF Divides
<1> DEFINE c == [k \in i .. Len(g) |-> cut[k]]
<1>3. c \in [i .. Len(g) -> 0 .. Len(p)] /\ \A k \in i .. Len(g) : c[k] = cut[k]
  OBVIOUS
<1> HIDE DEF c
<1>4. Divides(c, g, p, i + 1, cut[i] + 1)
  <2>1. ASSUME NEW k \in i + 1 .. Len(g) PROVE Piece(g, p, c, k)
    <3>1. k \in i .. Len(g) /\ k - 1 \in i .. Len(g)
      OBVIOUS
    <3>2. Piece(g, p, cut, k) /\ c[k] = cut[k] /\ c[k - 1] = cut[k - 1]
      BY <1>3, <3>1 DEF Divides
    <3> QED
      BY <3>2 DEF Piece
  <2>2. c[i] = cut[i] /\ c[Len(g)] = cut[Len(g)]
    BY <1>1, <1>3
  <2>3. cut[i] + 1 - 1 = cut[i]
    BY <1>2
  <2> QED
    BY <1>1, <2>1, <2>2, <2>3 DEF Divides
<1> QED
  BY <1>1, <1>2, <1>3, <1>4 DEF Rest

(* The other way round. *)
LEMMA FirstCut ==
    ASSUME NEW g, NEW p, Len(g) \in Nat, Len(p) \in Nat,
           NEW i \in 1 .. Len(g), NEW j \in 1 .. Len(p) + 1,
           NEW j2 \in 1 .. Len(p) + 1,
           IF g[i].deep THEN j <= j2 ELSE j2 = j + 1 /\ p[j] \in g[i].names,
           Rest(g, p, i + 1, j2)
    PROVE  Rest(g, p, i, j)
<1>1. i + 1 - 1 = i /\ i \in i .. Len(g) /\ i - 1 \in i - 1 .. Len(g)
      /\ i - 1 # i /\ i \in i - 1 .. Len(g) /\ Len(g) \in i .. Len(g)
  OBVIOUS
<1>2. PICK c \in [i .. Len(g) -> 0 .. Len(p)] : Divides(c, g, p, i + 1, j2)
  BY <1>1 DEF Rest
<1>3. c[i] = j2 - 1
  BY <1>1, <1>2 DEF Divides
<1> DEFINE cut == [k \in i - 1 .. Len(g) |-> IF k = i - 1 THEN j - 1 ELSE c[k]]
<1>4. /\ cut \in [i - 1 .. Len(g) -> 0 .. Len(p)]
      /\ cut[i - 1] = j - 1
      /\ \A k \in i .. Len(g) : cut[k] = c[k]
  <2>1. \A k \in i - 1 .. Len(g) : k # i - 1 => k \in i .. Len(g)
    OBVIOUS
  <2>2. \A k \in i .. Len(g) : k \in i - 1 .. Len(g) /\ k # i - 1
    OBVIOUS
  <2> QED
    BY <1>1, <2>1, <2>2
<1> HIDE DEF cut
<1>5. Piece(g, p, cut, i)
  BY <1>1, <1>3, <1>4 DEF Piece
<1>6. ASSUME NEW k \in i + 1 .. Len(g) PROVE Piece(g, p, cut, k)
  <2>1. k \in i .. Len(g) /\ k - 1 \in i .. Len(g)
    OBVIOUS
  <2>2. Piece(g, p, c, k) /\ c[k] = cut[k] /\ c[k - 1] = cut[k - 1]
    BY <1>2, <1>4, <2>1 DEF Divides
  <2> QED
    BY <2>2 DEF Piece
<1>7. \A k \in i .. Len(g) : k = i \/ k \in i + 1 .. Len(g)
  OBVIOUS
<1>8. cut[Len(g)] = Len(p)
  BY <1>1, <1>2, <1>4 DEF Divides
<1>9. Divides(cut, g, p, i, j)
  BY <1>4, <1>5, <1>6, <1>7, <1>8 DEF Divides
<1> QED
  BY <1>4, <1>9 DEF Rest

(* A "**" takes nothing, or one name more than what it takes of the rest. *)
LEMMA RestOfDeep ==
    ASSUME NEW g, NEW p, Len(g) \in Nat, Len(p) \in Nat,
           NEW i \in 1 .. Len(g), NEW j \in 1 .. Len(p) + 1, g[i].deep
    PROVE  Rest(g, p, i, j)
              <=> Rest(g, p, i + 1, j) \/ (j <= Len(p) /\ Rest(g, p, i, j + 1))
<1>1. ASSUME Rest(g, p, i, j)
      PROVE  Rest(g, p, i + 1, j) \/ (j <= Len(p) /\ Rest(g, p, i, j + 1))
  <2>1. PICK cut \in [i - 1 .. Len(g) -> 0 .. Len(p)] :
                Divides(cut, g, p, i, j)
    BY <1>1 DEF Rest
  <2>2. /\ cut[i] \in 0 .. Len(p)
        /\ j - 1 <= cut[i]
        /\ Rest(g, p, i + 1, cut[i] + 1)
    <3>1. /\ Piece(g, p, cut, i)
          /\ cut[i - 1] = j - 1
          /\ cut[i] \in 0 .. Len(p)
          /\ Rest(g, p, i + 1, cut[i] + 1)
      BY <2>1, CutFirst
    <3> QED
      BY <3>1 DEF Piece
  <2>3. CASE cut[i] = j - 1
    BY <2>2, <2>3
  <2>4. CASE cut[i] # j - 1
    <3>1. j <= Len(p) /\ j + 1 <= cut[i] + 1 /\ j + 1 \in 1 .. Len(p) + 1
          /\ cut[i] + 1 \in 1 .. Len(p) + 1
      BY <2>2, <2>4
    <3> QED
      BY <2>2, <3>1, FirstCut
  <2> QED
    BY <2>3, <2>4
<1>2. ASSUME Rest(g, p, i + 1, j) PROVE Rest(g, p, i, j)
  BY <1>2, FirstCut
<1>3. ASSUME j <= Len(p), Rest(g, p, i, j + 1) PROVE Rest(g, p, i, j)
  <2>0. j + 1 \in 1 .. Len(p) + 1 /\ j + 1 - 1 = j
    BY <1>3
  <2>1. PICK cut \in [i - 1 .. Len(g) -> 0 .. Len(p)] :
                Divides(cut, g, p, i, j + 1)
    BY <1>3 DEF Rest
  <2>2. /\ cut[i] \in 0 .. Len(p)
        /\ j <= cut[i]
        /\ Rest(g, p, i + 1, cut[i] + 1)
    <3>1. /\ Piece(g, p, cut, i)
          /\ cut[i - 1] = j
          /\ cut[i] \in 0 .. Len(p)
          /\ Rest(g, p, i + 1, cut[i] + 1)
      BY <2>0, <2>1, CutFirst
    <3> QED
      BY <3>1 DEF Piece
  <2>3. j <= cut[i] + 1 /\ cut[i] + 1 \in 1 .. Len(p) + 1
    BY <2>2
  <2> QED
    BY <2>2, <2>3, FirstCut
<1> QED
  BY <1>1, <1>2, <1>3

(* Any other segment takes one name. *)
LEMMA RestOfName ==
    ASSUME NEW g, NEW p, Len(g) \in Nat, Len(p) \in Nat,
           NEW i \in 1 .. Len(g), NEW j \in 1 .. Len(p) + 1, ~g[i].deep
    PROVE  Rest(g, p, i, j)
              <=> /\ j <= Len(p)
                  /\ p[j] \in g[i].names
                  /\ Rest(g, p, i + 1, j + 1)
<1>1. ASSUME Rest(g, p, i, j)
      PROVE  j <= Len(p) /\ p[j] \in g[i].names /\ Rest(g, p, i + 1, j + 1)
  <2>1. PICK cut \in [i - 1 .. Len(g) -> 0 .. Len(p)] :
                Divides(cut, g, p, i, j)
    BY <1>1 DEF Rest
  <2>2. /\ cut[i] \in 0 .. Len(p)
        /\ cut[i] = j - 1 + 1
        /\ p[cut[i]] \in g[i].names
        /\ Rest(g, p, i + 1, cut[i] + 1)
    <3>1. /\ Piece(g, p, cut, i)
          /\ cut[i - 1] = j - 1
          /\ cut[i] \in 0 .. Len(p)
          /\ Rest(g, p, i + 1, cut[i] + 1)
      BY <2>1, CutFirst
    <3> QED
      BY <3>1 DEF Piece
  <2>3. cut[i] = j /\ j <= Len(p)
    BY <2>2
  <2> QED
    BY <2>2, <2>3
<1>2. ASSUME j <= Len(p), p[j] \in g[i].names, Rest(g, p, i + 1, j + 1)
      PROVE  Rest(g, p, i, j)
  <2>1. j + 1 \in 1 .. Len(p) + 1
    BY <1>2
  <2> QED
    BY <1>2, <2>1, FirstCut
<1> QED
  BY <1>1, <1>2

(* The body of matchGlob's recursion, and the places it is at. *)
Places(g, p) == (1 .. Len(g) + 1) \X (1 .. Len(p) + 1)

MatchStep(f, g, p, i, j) ==
    IF i > Len(g) THEN j > Len(p)
    ELSE IF g[i].deep
    THEN f[<<i + 1, j>>] \/ (j <= Len(p) /\ f[<<i, j + 1>>])
    ELSE /\ j <= Len(p)
         /\ p[j] \in g[i].names
         /\ f[<<i + 1, j + 1>>]

MatchEq(f, g, p) ==
    f = [at \in Places(g, p) |-> MatchStep(f, g, p, at[1], at[2])]

RestOf(g, p) == [at \in Places(g, p) |-> Rest(g, p, at[1], at[2])]

(* What is at a place. *)
LEMMA RestAt ==
    ASSUME NEW g, NEW p, NEW i \in 1 .. Len(g) + 1, NEW j \in 1 .. Len(p) + 1
    PROVE  RestOf(g, p)[<<i, j>>] <=> Rest(g, p, i, j)
<1> DEFINE at == <<i, j>>
<1>1. at \in Places(g, p) /\ at[1] = i /\ at[2] = j
  BY DEF Places
<1> HIDE DEF at
<1>2. RestOf(g, p)[at] = Rest(g, p, at[1], at[2])
  BY <1>1, Zenon DEF RestOf
<1> QED
  BY <1>1, <1>2, Zenon DEF at

(* What a solution of the recursion has at a place. *)
LEMMA MatchAt ==
    ASSUME NEW g, NEW p, NEW f, MatchEq(f, g, p),
           NEW i \in 1 .. Len(g) + 1, NEW j \in 1 .. Len(p) + 1
    PROVE  f[<<i, j>>] <=> MatchStep(f, g, p, i, j)
<1> DEFINE at == <<i, j>>
<1>1. at \in Places(g, p) /\ at[1] = i /\ at[2] = j
  BY DEF Places
<1> HIDE DEF at
<1>2. f[at] = MatchStep(f, g, p, at[1], at[2])
  BY <1>1, Zenon DEF MatchEq
<1> QED
  BY <1>1, <1>2, Zenon DEF at

(* Rest satisfies the recursion. *)
LEMMA RestStep ==
    ASSUME NEW g, NEW p, Len(g) \in Nat, Len(p) \in Nat,
           NEW i \in 1 .. Len(g) + 1, NEW j \in 1 .. Len(p) + 1
    PROVE  Rest(g, p, i, j) <=> MatchStep(RestOf(g, p), g, p, i, j)
<1>1. CASE i > Len(g)
  <2>1. i = Len(g) + 1
    BY <1>1
  <2> QED
    BY <1>1, <2>1, RestOfNone, Zenon DEF MatchStep
<1>2. CASE ~(i > Len(g)) /\ g[i].deep
  <2>1. i \in 1 .. Len(g) /\ i + 1 \in 1 .. Len(g) + 1
        /\ (j <= Len(p) => j + 1 \in 1 .. Len(p) + 1)
    BY <1>2
  <2>2. RestOf(g, p)[<<i + 1, j>>] <=> Rest(g, p, i + 1, j)
    BY <2>1, RestAt
  <2>3. j <= Len(p) => (RestOf(g, p)[<<i, j + 1>>] <=> Rest(g, p, i, j + 1))
    BY <2>1, RestAt
  <2> QED
    BY <1>2, <2>1, <2>2, <2>3, RestOfDeep, Zenon DEF MatchStep
<1>3. CASE ~(i > Len(g)) /\ ~g[i].deep
  <2>1. i \in 1 .. Len(g) /\ i + 1 \in 1 .. Len(g) + 1
        /\ (j <= Len(p) => j + 1 \in 1 .. Len(p) + 1)
    BY <1>3
  <2>2. j <= Len(p) =>
          (RestOf(g, p)[<<i + 1, j + 1>>] <=> Rest(g, p, i + 1, j + 1))
    BY <2>1, RestAt
  <2> QED
    BY <1>3, <2>1, <2>2, RestOfName, Zenon DEF MatchStep
<1> QED
  BY <1>1, <1>2, <1>3

(* The body is true or false. *)
LEMMA MatchStepBoolean ==
    ASSUME NEW f, NEW g, NEW p, NEW i, NEW j
    PROVE  MatchStep(f, g, p, i, j) \in BOOLEAN
<1>1. CASE i > Len(g)
  <2>1. MatchStep(f, g, p, i, j) = (j > Len(p))
    BY <1>1, Zenon DEF MatchStep
  <2>2. (j > Len(p)) \in BOOLEAN
    BY SMT
  <2> QED
    BY <2>1, <2>2, Zenon
<1>2. CASE ~(i > Len(g)) /\ g[i].deep
  <2>1. MatchStep(f, g, p, i, j)
           = (f[<<i + 1, j>>] \/ (j <= Len(p) /\ f[<<i, j + 1>>]))
    BY <1>2, Zenon DEF MatchStep
  <2> QED
    BY <2>1, Zenon
<1>3. CASE ~(i > Len(g)) /\ ~g[i].deep
  <2>1. MatchStep(f, g, p, i, j)
           = (j <= Len(p) /\ p[j] \in g[i].names /\ f[<<i + 1, j + 1>>])
    BY <1>3, Zenon DEF MatchStep
  <2> QED
    BY <2>1, Zenon
<1> QED
  BY <1>1, <1>2, <1>3

(* Equivalent truth values are equal. *)
LEMMA SameTruth == \A a, b \in BOOLEAN : (a <=> b) => a = b
BY Zenon

(* So it is a solution of it. *)
LEMMA RestSolves ==
    ASSUME NEW g, NEW p, Len(g) \in Nat, Len(p) \in Nat
    PROVE  MatchEq(RestOf(g, p), g, p)
<1>1. ASSUME NEW at \in Places(g, p)
      PROVE  Rest(g, p, at[1], at[2])
                = MatchStep(RestOf(g, p), g, p, at[1], at[2])
  <2>1. at[1] \in 1 .. Len(g) + 1 /\ at[2] \in 1 .. Len(p) + 1
    BY DEF Places
  <2>2. Rest(g, p, at[1], at[2])
           <=> MatchStep(RestOf(g, p), g, p, at[1], at[2])
    BY <2>1, RestStep
  <2>3. Rest(g, p, at[1], at[2]) \in BOOLEAN
    BY Zenon DEF Rest
  <2>4. MatchStep(RestOf(g, p), g, p, at[1], at[2]) \in BOOLEAN
    BY MatchStepBoolean
  <2> QED
    BY <2>2, <2>3, <2>4, SameTruth, Zenon
<1>2. [at \in Places(g, p) |-> Rest(g, p, at[1], at[2])]
         = [at \in Places(g, p) |->
               MatchStep(RestOf(g, p), g, p, at[1], at[2])]
  BY <1>1, Zenon
<1> QED
  BY <1>2, Zenon DEF MatchEq, RestOf

(* The recursion has no other solution. *)
LEMMA MatchUnique ==
    ASSUME NEW g, NEW p, Len(g) \in Nat, Len(p) \in Nat,
           NEW f, MatchEq(f, g, p)
    PROVE  \A i \in 1 .. Len(g) + 1, j \in 1 .. Len(p) + 1 :
              f[<<i, j>>] <=> Rest(g, p, i, j)
<1> DEFINE Agree(i, j) == f[<<i, j>>] <=> Rest(g, p, i, j)
           Left(i, j) == Len(g) + 1 - i + (Len(p) + 1 - j)
           Bad == {n \in Nat : \E i \in 1 .. Len(g) + 1, j \in 1 .. Len(p) + 1 :
                                  n = Left(i, j) /\ ~Agree(i, j)}
<1>1. SUFFICES ASSUME Bad # {} PROVE FALSE
  <2>1. ASSUME NEW i \in 1 .. Len(g) + 1, NEW j \in 1 .. Len(p) + 1,
               Bad = {}
        PROVE  Agree(i, j)
    <3>1. Left(i, j) \in Nat
      OBVIOUS
    <3> HIDE DEF Agree
    <3> QED
      BY <2>1, <3>1
  <2> QED
    BY <2>1
<1>2. PICK n \in Bad : \A m \in Bad : n <= m
  <2>1. Bad \in SUBSET Nat
    OBVIOUS
  <2> HIDE DEF Bad
  <2> QED
    BY <1>1, <2>1, LeastOf
<1>3. PICK i \in 1 .. Len(g) + 1, j \in 1 .. Len(p) + 1 :
              n = Left(i, j) /\ ~Agree(i, j)
  BY <1>2
<1>4. ASSUME NEW a \in 1 .. Len(g) + 1, NEW b \in 1 .. Len(p) + 1,
             a + b > i + j
      PROVE  Agree(a, b)
  <2>1. Left(a, b) \in Nat /\ ~(Left(i, j) <= Left(a, b))
    BY <1>4
  <2>2. Left(a, b) \notin Bad
    <3> HIDE DEF Bad
    <3> QED
      BY <1>2, <1>3, <2>1
  <2> HIDE DEF Agree
  <2> QED
    BY <2>1, <2>2
<1> HIDE DEF Bad, Left
<1>5. MatchStep(f, g, p, i, j) <=> MatchStep(RestOf(g, p), g, p, i, j)
  <2>1. CASE i > Len(g)
    BY <2>1, Zenon DEF MatchStep
  <2>2. CASE ~(i > Len(g)) /\ g[i].deep
    <3>1. i + 1 \in 1 .. Len(g) + 1 /\ i + 1 + j > i + j
          /\ (j <= Len(p) => j + 1 \in 1 .. Len(p) + 1 /\ i + (j + 1) > i + j)
      BY <2>2
    <3>2. f[<<i + 1, j>>] <=> RestOf(g, p)[<<i + 1, j>>]
      BY <1>4, <3>1, RestAt, Zenon
    <3>3. j <= Len(p) => (f[<<i, j + 1>>] <=> RestOf(g, p)[<<i, j + 1>>])
      BY <1>4, <3>1, RestAt, Zenon
    <3> QED
      BY <2>2, <3>2, <3>3, Zenon DEF MatchStep
  <2>3. CASE ~(i > Len(g)) /\ ~g[i].deep
    <3>1. j <= Len(p) => /\ i + 1 \in 1 .. Len(g) + 1
                         /\ j + 1 \in 1 .. Len(p) + 1
                         /\ i + 1 + (j + 1) > i + j
      BY <2>3
    <3>2. j <= Len(p) =>
             (f[<<i + 1, j + 1>>] <=> RestOf(g, p)[<<i + 1, j + 1>>])
      BY <1>4, <3>1, RestAt, Zenon
    <3> QED
      BY <2>3, <3>2, Zenon DEF MatchStep
  <2> QED
    BY <2>1, <2>2, <2>3
<1>6. f[<<i, j>>] <=> MatchStep(f, g, p, i, j)
  BY MatchAt
<1>7. Rest(g, p, i, j) <=> MatchStep(RestOf(g, p), g, p, i, j)
  BY RestStep
<1> QED
  BY <1>3, <1>5, <1>6, <1>7, Zenon

(***************************************************************************)
(* What matchGlob's recursion computes is what it means to match: the path *)
(* can be cut into pieces, any piece for a "**" and one accepted name for  *)
(* every other segment of the glob, for any glob and any path.             *)
(***************************************************************************)
THEOREM MatchGlobMatches ==
    ASSUME NEW g, NEW p, Len(g) \in Nat, Len(p) \in Nat
    PROVE  matchGlob(g, p) <=> Matches(g, p)
<1> DEFINE F == CHOOSE f : MatchEq(f, g, p)
<1>1. MatchEq(F, g, p)
  BY RestSolves, Zenon
<1>2. matchGlob(g, p) <=> F[<<1, 1>>]
  BY DEF matchGlob, MatchEq, MatchStep, Places
<1> HIDE DEF F
<1>3. F[<<1, 1>>] <=> Rest(g, p, 1, 1)
  BY <1>1, MatchUnique
<1>4. Rest(g, p, 1, 1) <=> Matches(g, p)
  BY DEF Rest, Divides, Piece, Matches
<1> QED
  BY <1>2, <1>3, <1>4, Zenon

(* Up to the first "**" a cut gives one name to every segment. *)
LEMMA CutBeforeDeep ==
    ASSUME NEW g, NEW p, Len(g) \in Nat, Len(p) \in Nat,
           NEW cut \in [0 .. Len(g) -> 0 .. Len(p)], Divides(cut, g, p, 1, 1),
           NEW m \in 0 .. Len(g), \A i \in 1 .. m : ~g[i].deep
    PROVE  cut[m] = m /\ \A i \in 1 .. m : p[i] \in g[i].names
<1> DEFINE Bad == {n \in 0 .. m : cut[n] # n}
<1>1. cut[0] = 0 /\ \A i \in 1 .. m : Piece(g, p, cut, i)
  BY DEF Divides
<1>2. ASSUME Bad # {} PROVE FALSE
  <2>1. Bad \in SUBSET Nat
    OBVIOUS
  <2>2. PICK n \in Bad : \A k \in Bad : n <= k
    <3> HIDE DEF Bad
    <3> QED
      BY <1>2, <2>1, LeastOf
  <2>3. n \in 1 .. m /\ cut[n] # n /\ n - 1 \in 0 .. m
    BY <1>1, <2>2
  <2>4. cut[n - 1] = n - 1
    BY <2>2, <2>3
  <2>5. cut[n] = cut[n - 1] + 1
    BY <1>1, <2>3 DEF Piece
  <2> QED
    BY <2>3, <2>4, <2>5
<1>3. \A n \in 0 .. m : cut[n] = n
  BY <1>2
<1>4. ASSUME NEW i \in 1 .. m PROVE p[i] \in g[i].names
  <2>1. p[cut[i]] \in g[i].names
    BY <1>1 DEF Piece
  <2>2. cut[i] = i
    BY <1>3
  <2> QED
    BY <2>1, <2>2
<1> QED
  BY <1>3, <1>4

(* A directory above a path that a glob selects is not passed over. *)
LEMMA PrefixPossible ==
    ASSUME NEW g, NEW p, NEW q, Len(g) \in Nat, Len(p) \in Nat, Len(q) \in Nat,
           Matches(g, p), Len(q) < Len(p), \A i \in 1 .. Len(q) : p[i] = q[i]
    PROVE  isPossiblePrefix(q, g)
<1>1. PICK cut \in [0 .. Len(g) -> 0 .. Len(p)] : Divides(cut, g, p, 1, 1)
  BY DEF Matches, Divides, Piece
<1>2. cut[Len(g)] = Len(p)
  BY <1>1 DEF Divides
<1> DEFINE D == {k \in 1 .. Len(q) : k <= Len(g) /\ g[k].deep}
<1>3. CASE D # {}
  <2>1. D \in SUBSET Nat
    OBVIOUS
  <2>2. PICK k \in D : \A m \in D : k <= m
    <3> HIDE DEF D
    <3> QED
      BY <1>3, <2>1, LeastOf
  <2>3. k \in 1 .. Len(q) /\ k <= Len(g) /\ g[k].deep /\ k - 1 \in 0 .. Len(g)
    BY <2>2
  <2>4. ASSUME NEW i \in 1 .. k - 1 PROVE ~g[i].deep /\ i \in 1 .. Len(q)
    <3>1. i \in 1 .. Len(q) /\ i <= Len(g) /\ ~(k <= i)
      BY <2>3
    <3> QED
      BY <2>2, <3>1
  <2>5. \A i \in 1 .. k - 1 : p[i] \in g[i].names
    BY <1>1, <2>3, <2>4, CutBeforeDeep
  <2> QED
    BY <2>3, <2>4, <2>5 DEF isPossiblePrefix
<1>4. CASE D = {}
  <2>1. CASE Len(q) > Len(g)
    <3>1. \A i \in 1 .. Len(g) : ~g[i].deep
      BY <1>4, <2>1
    <3>2. cut[Len(g)] = Len(g)
      BY <1>1, <3>1, CutBeforeDeep
    <3> QED
      BY <1>2, <2>1, <3>2
  <2>2. CASE Len(q) <= Len(g)
    <3>1. \A i \in 1 .. Len(q) : ~g[i].deep
      BY <1>4, <2>2
    <3>2. \A i \in 1 .. Len(q) : p[i] \in g[i].names
      BY <1>1, <2>2, <3>1, CutBeforeDeep
    <3> QED
      BY <2>2, <3>2 DEF isPossiblePrefix
  <2> QED
    BY <2>1, <2>2
<1> QED
  BY <1>3, <1>4

(* A tree holds what is above its cgroups. *)
LEMMA AboveInTree ==
    ASSUME NEW t, IsTree(t), NEW p \in t, NEW m \in 1 .. Len(p)
    PROVE  p \in Seq(Names) /\ SubSeq(p, 1, m) \in t
<1>0. \A q \in t : q \in Seq(Names) /\ Len(q) \in Nat
  BY DEF IsTree, Paths
<1> DEFINE Bad == {n \in 0 .. Len(p) : /\ 1 <= Len(p) - n
                                      /\ SubSeq(p, 1, Len(p) - n) \notin t}
<1>1. ASSUME Bad # {} PROVE FALSE
  <2>1. Bad \in SUBSET Nat
    BY <1>0
  <2>2. PICK n \in Bad : \A k \in Bad : n <= k
    <3> HIDE DEF Bad
    <3> QED
      BY <1>1, <2>1, LeastOf
  <2>3. SubSeq(p, 1, Len(p)) = p
    BY <1>0
  <2>4. n # 0
    <3>1. n = 0 => Len(p) - n = Len(p)
      BY <1>0
    <3>2. SubSeq(p, 1, Len(p) - n) \notin t
      BY <2>2
    <3> QED
      BY <2>3, <3>1, <3>2
  <2> DEFINE k == Len(p) - n
             q == SubSeq(p, 1, k + 1)
  <2>5. k \in 1 .. Len(p) - 1 /\ SubSeq(p, 1, k) \notin t
    BY <1>0, <2>2, <2>4
  <2>6. q \in t
    BY <1>0, <2>2, <2>4
  <2>7. Len(q) = k + 1 /\ SubSeq(q, 1, k) = SubSeq(p, 1, k)
    BY <1>0, <2>5
  <2> HIDE DEF q
  <2>8. Parent(q) = SubSeq(q, 1, k) /\ Len(q) # 1
    BY <2>5, <2>7 DEF Parent
  <2> QED
    BY <2>5, <2>6, <2>7, <2>8 DEF IsTree
<1>2. Len(p) - m \in 0 .. Len(p) /\ Len(p) - (Len(p) - m) = m /\ 1 <= m
  BY <1>0
<1> QED
  BY <1>0, <1>1, <1>2

-----------------------------------------------------------------------------
(* No selected cgroup is missed. *)

(***************************************************************************)
(* p is still ahead of the walk: in an entry left to visit, or in the      *)
(* directory to be listed or the cgroup the walk is at.                    *)
(***************************************************************************)
AheadIn(p, k) ==
    Below(p, stack[k].segs) /\ Len(p) >= k /\ p[k] \in stack[k].todo

Ahead(p) ==
    \/ \E k \in 1 .. Len(stack) : AheadIn(p, k)
    \/ wpc \in {"read", "enrich"} /\ Below(p, child)
    \/ wpc = "descend" /\ Below(p, child) /\ Len(child) < Len(p)
    \/ wpc = "list" /\ Below(p, Top.segs) /\ Len(Top.segs) < Len(p)

(***************************************************************************)
(* What is read is selected; and unless the walk is cut short, a selected  *)
(* cgroup that is there all the time is ahead of it, or was sampled.       *)
(***************************************************************************)
SelectInv ==
    /\ IsTree(tree)
    /\ globs \in GlobSets
    /\ Len(stack) <= MaxCgroupDepth
    /\ wpc \in {"read", "enrich"} => Selected(child)
    /\ result = "ok" => wpc = "done" /\ Len(stack) = 0
    /\ \A p \in Sampled : Selected(p)

CoverInv ==
    wpc # "idle" /\ ~truncated /\ result \in {"none", "ok"} =>
        \A p \in stable : Selected(p) => Ahead(p) \/ p \in Sampled

(* A path that is as long as one it is below. *)
LEMMA SamePath ==
    ASSUME NEW p \in Seq(Names), NEW q \in Seq(Names), Below(p, q),
           Len(p) <= Len(q)
    PROVE  p = q
<1>1. Len(p) = Len(q) /\ \A i \in 1 .. Len(p) : p[i] = q[i]
  BY DEF Below
<1> QED
  BY <1>1, SeqEqual

(* What is selected is what matchesAny accepts, within the depth. *)
LEMMA SelectedMatches ==
    ASSUME globs \in GlobSets, NEW p \in Seq(Names)
    PROVE  Selected(p) <=> Len(p) <= MaxCgroupDepth /\ matchesAny(p)
<1>1. \A g \in globs : Len(g) \in Nat
  BY CgroupAssumption
<1>2. Len(p) \in Nat
  OBVIOUS
<1>3. \A g \in globs : matchGlob(g, p) <=> Matches(g, p)
  BY <1>1, <1>2, MatchGlobMatches
<1> QED
  BY <1>3 DEF Selected, matchesAny

(* A directory above a selected path is descended into. *)
LEMMA SelectedPossible ==
    ASSUME globs \in GlobSets, NEW p \in Seq(Names), NEW q \in Seq(Names),
           Selected(p), Below(p, q), Len(q) < Len(p)
    PROVE  Len(q) < MaxCgroupDepth /\ isPossiblePrefixForAny(q)
<1>1. \A g \in globs : Len(g) \in Nat
  BY CgroupAssumption
<1>2. Len(p) \in Nat /\ Len(q) \in Nat
  OBVIOUS
<1>3. PICK g \in globs : Matches(g, p)
  BY DEF Selected
<1>4. \A i \in 1 .. Len(q) : p[i] = q[i]
  BY DEF Below
<1>5. isPossiblePrefix(q, g)
  BY <1>1, <1>2, <1>3, <1>4, PrefixPossible
<1> QED
  BY <1>2, <1>5, CgroupAssumption DEF Selected, isPossiblePrefixForAny

(* What is below a directory of a tree is below an entry of it. *)
LEMMA EntryAbove ==
    ASSUME IsTree(tree), NEW p \in tree, NEW d \in Seq(Names), Below(p, d),
           Len(d) < Len(p)
    PROVE  p[Len(d) + 1] \in Children(d)
<1> DEFINE m == Len(d) + 1
           n == p[m]
<1>1. p \in Seq(Names)
  BY DEF IsTree, Paths
<1>2. Len(d) \in Nat /\ m \in 1 .. Len(p) /\ n \in Names
  BY <1>1
<1>3. SubSeq(p, 1, m) \in tree
  BY <1>2, AboveInTree
<1>4. /\ SubSeq(p, 1, m) \in Seq(Names)
      /\ Len(SubSeq(p, 1, m)) = m
      /\ \A i \in 1 .. m : SubSeq(p, 1, m)[i] = p[i]
  BY <1>1, <1>2
<1>5. /\ Append(d, n) \in Seq(Names)
      /\ Len(Append(d, n)) = Len(d) + 1
      /\ Append(d, n)[Len(d) + 1] = n
      /\ \A i \in 1 .. Len(d) : Append(d, n)[i] = d[i]
  BY <1>2, OneMore
<1>6. \A i \in 1 .. m : SubSeq(p, 1, m)[i] = Append(d, n)[i]
  <2> SUFFICES ASSUME NEW i \in 1 .. m PROVE p[i] = Append(d, n)[i]
    BY <1>4
  <2>1. i \in 1 .. Len(d) \/ i = m
    BY <1>2
  <2> QED
    BY <1>5, <2>1 DEF Below
<1>7. SubSeq(p, 1, m) = Append(d, n)
  BY <1>4, <1>5, <1>6, SeqEqual
<1> QED
  BY <1>2, <1>3, <1>7 DEF Children

(* A record is about the child. *)
LEMMA SampledGrows ==
    ASSUME WalkTypeOK, NEW meta \in {"none", "found", "absent", "err"},
           Sample(meta)
    PROVE  Sampled' = Sampled \cup {child}
<1>1. /\ Len(out') = Len(out) + 1
      /\ \A i \in 1 .. Len(out) : out'[i] = out[i]
      /\ out'[Len(out')].path = child
  BY Appended
<1>2. Len(out) \in Nat
  BY DEF WalkTypeOK
<1>3. \A i \in 1 .. Len(out') : i \in 1 .. Len(out) \/ i = Len(out')
  BY <1>1, <1>2
<1>4. /\ Len(out') \in 1 .. Len(out')
      /\ \A i \in 1 .. Len(out) : i \in 1 .. Len(out')
  BY <1>1, <1>2
<1> QED
  BY <1>1, <1>3, <1>4 DEF Sampled

(* What is in an entry left to visit below the innermost call stays there. *)
LEMMA AheadBelowTop ==
    ASSUME WalkTypeOK, NEW p, NEW k \in 1 .. Len(stack), AheadIn(p, k),
           k \in 1 .. Len(stack'), stack'[k] = stack[k]
    PROVE  Ahead(p)'
BY DEF Ahead, AheadIn

(* os.ReadDir finds the entry that is above p. *)
LEMMA AheadListed ==
    ASSUME WalkTypeOK, ChainInv, IsTree(tree), stable \subseteq tree,
           NEW p \in stable, Ahead(p), wpc = "list",
           stack' = [stack EXCEPT ![Len(stack)].todo = Children(Top.segs)]
    PROVE  Ahead(p)'
<1> DEFINE m == Len(stack)
<1>0. p \in Seq(Names) /\ p \in tree /\ Len(p) \in Nat
  BY DEF IsTree, Paths
<1>1. stack # <<>> /\ m \in Nat \ {0} /\ m \in 1 .. m
  BY DEF WalkTypeOK
<1>2. /\ Len(stack') = m
      /\ \A k \in 1 .. m - 1 : stack'[k] = stack[k]
      /\ \A k \in 1 .. m : stack'[k].segs = stack[k].segs
      /\ stack'[m].todo = Children(Top.segs)
  BY <1>1, ChildrenAreNames, Replaced DEF WalkTypeOK
<1>3. Top.segs \in Seq(Names) /\ Len(Top.segs) = m - 1
  <2>1. Top \in Frames
    BY <1>1, ElementOfSeq DEF WalkTypeOK, Top
  <2> QED
    BY <1>1, <2>1 DEF Frames, ChainInv, Chained, Top
<1>4. CASE Below(p, Top.segs) /\ Len(Top.segs) < Len(p)
  <2>1. p[m] \in Children(Top.segs)
    BY <1>0, <1>1, <1>3, <1>4, EntryAbove
  <2>2. Len(p) >= m
    BY <1>0, <1>1, <1>3, <1>4
  <2>3. AheadIn(p, m)'
    BY <1>1, <1>2, <1>4, <2>1, <2>2 DEF AheadIn, Top
  <2> QED
    BY <1>1, <1>2, <2>3 DEF Ahead
<1>5. CASE \E k \in 1 .. m : AheadIn(p, k)
  <2>1. PICK k \in 1 .. m : AheadIn(p, k)
    BY <1>5
  <2>2. CASE k = m
    BY <1>0, <1>1, <1>3, <1>4, <2>1, <2>2 DEF AheadIn, Top
  <2>3. CASE k # m
    <3>1. k \in 1 .. m - 1
      BY <1>1, <2>3
    <3> QED
      BY <1>2, <2>1, <3>1, AheadBelowTop
  <2> QED
    BY <2>2, <2>3
<1> QED
  BY <1>4, <1>5 DEF Ahead

(* The walk takes the entry above p, or another one. *)
LEMMA AheadEntered ==
    ASSUME WalkTypeOK, ChainInv, globs \in GlobSets,
           NEW p \in Seq(Names), Selected(p), Ahead(p), wpc = "entry",
           NEW n \in Top.todo, n \in Names,
           child' = Append(Top.segs, n),
           stack' = [stack EXCEPT ![Len(stack)].todo = Top.todo \ {n}],
           wpc' = IF matchesAny(child') THEN "read" ELSE "descend"
    PROVE  Ahead(p)'
<1> DEFINE m == Len(stack)
<1>0. Len(p) \in Nat
  OBVIOUS
<1>1. stack # <<>> /\ m \in Nat \ {0} /\ m \in 1 .. m
  BY DEF WalkTypeOK
<1>2. Top \in Frames /\ Top.segs \in Seq(Names) /\ Len(Top.segs) = m - 1
      /\ Top.todo \ {n} \in SUBSET Names
  <2>1. Top \in Frames
    BY <1>1, ElementOfSeq DEF WalkTypeOK, Top
  <2> QED
    BY <1>1, <2>1 DEF Frames, ChainInv, Chained, Top
<1>3. /\ Len(stack') = m
      /\ \A k \in 1 .. m - 1 : stack'[k] = stack[k]
      /\ \A k \in 1 .. m : stack'[k].segs = stack[k].segs
      /\ stack'[m].todo = Top.todo \ {n}
  BY <1>1, <1>2, Replaced DEF WalkTypeOK
<1>4. /\ child' \in Seq(Names)
      /\ Len(child') = m
      /\ child'[m] = n
      /\ \A i \in 1 .. m - 1 : child'[i] = Top.segs[i]
  <2>1. Len(Top.segs) + 1 = m
    BY <1>1, <1>2
  <2>2. /\ Append(Top.segs, n) \in Seq(Names)
        /\ Len(Append(Top.segs, n)) = Len(Top.segs) + 1
        /\ Append(Top.segs, n)[Len(Top.segs) + 1] = n
        /\ \A i \in 1 .. Len(Top.segs) : Append(Top.segs, n)[i] = Top.segs[i]
    BY <1>2, OneMore
  <2> QED
    BY <1>2, <2>1, <2>2
<1>5. PICK k \in 1 .. m : AheadIn(p, k)
  BY DEF Ahead
<1>6. CASE k # m
  <2>1. k \in 1 .. m - 1
    BY <1>1, <1>6
  <2> QED
    BY <1>3, <1>5, <2>1, AheadBelowTop
<1>7. CASE k = m /\ p[m] # n
  <2>1. AheadIn(p, m)'
    BY <1>1, <1>3, <1>5, <1>7 DEF AheadIn, Top
  <2> QED
    BY <1>1, <1>3, <2>1 DEF Ahead
<1>8. CASE k = m /\ p[m] = n
  <2>1. Below(p, Top.segs) /\ Len(p) >= m
    BY <1>5, <1>8 DEF AheadIn, Top
  <2>2. Below(p, child')
    <3>1. \A i \in 1 .. m : i \in 1 .. m - 1 \/ i = m
      BY <1>1
    <3> QED
      BY <1>2, <1>4, <1>8, <2>1, <3>1 DEF Below
  <2>3. CASE matchesAny(child')
    BY <2>2, <2>3 DEF Ahead
  <2>4. CASE ~matchesAny(child')
    <3>1. p # child'
      BY <2>4, SelectedMatches
    <3>2. ~(Len(p) <= Len(child'))
      BY <1>4, <2>2, <3>1, SamePath
    <3>3. Len(child') < Len(p)
      BY <1>0, <1>1, <1>4, <3>2
    <3> QED
      BY <2>2, <2>4, <3>3 DEF Ahead
  <2> QED
    BY <2>3, <2>4
<1> QED
  BY <1>6, <1>7, <1>8

(* A call returns when nothing is left in it. *)
LEMMA AheadReturned ==
    ASSUME WalkTypeOK, NEW p, Ahead(p), wpc = "entry", Top.todo = {},
           stack' = SubSeq(stack, 1, Len(stack) - 1)
    PROVE  Ahead(p)'
<1> DEFINE m == Len(stack)
<1>1. stack # <<>> /\ m \in Nat \ {0}
  BY DEF WalkTypeOK
<1>2. Len(stack') = m - 1 /\ \A k \in 1 .. m - 1 : stack'[k] = stack[k]
  BY <1>1, Popped DEF WalkTypeOK
<1>3. PICK k \in 1 .. m : AheadIn(p, k)
  BY DEF Ahead
<1>4. k # m
  BY <1>3 DEF AheadIn, Top
<1>5. k \in 1 .. m - 1
  BY <1>1, <1>4
<1> QED
  BY <1>2, <1>3, <1>5, AheadBelowTop

(* The child is recorded; what is below it is still ahead. *)
LEMMA AheadRecorded ==
    ASSUME WalkTypeOK, NEW p \in Seq(Names), Ahead(p), Records
    PROVE  Ahead(p)' \/ p \in Sampled'
<1>1. CASE \E k \in 1 .. Len(stack) : AheadIn(p, k)
  BY <1>1 DEF Records, Ahead, AheadIn
<1>2. CASE Below(p, child)
  <2>1. child \in Sampled'
    BY SampledGrows DEF Records
  <2>2. Len(p) <= Len(child) => p = child
    BY <1>2, SamePath DEF WalkTypeOK
  <2>3. Len(p) \in Nat /\ Len(child) \in Nat
    BY DEF WalkTypeOK
  <2>4. Len(child) < Len(p) => Ahead(p)'
    BY <1>2 DEF Records, Ahead, Below
  <2> QED
    BY <2>1, <2>2, <2>3, <2>4
<1> QED
  BY <1>1, <1>2 DEF Ahead, Records

(* walk calls itself for the child when p is below it. *)
LEMMA AheadDescended ==
    ASSUME WalkTypeOK, ChainInv, globs \in GlobSets,
           NEW p \in Seq(Names), Selected(p), Ahead(p), Descend
    PROVE  Ahead(p)'
<1>0. wpc = "descend" /\ UNCHANGED <<child, globs>> /\ child \in Seq(Names)
  BY DEF Descend, WalkTypeOK
<1>1. CASE stack' = Append(stack, Frame(child)) /\ wpc' = "list"
  <2>1. /\ Len(stack') = Len(stack) + 1
        /\ \A k \in 1 .. Len(stack) : stack'[k] = stack[k]
        /\ stack'[Len(stack')].segs = child
    BY <1>1, Pushed DEF WalkTypeOK
  <2>2. \A k \in 1 .. Len(stack) : k \in 1 .. Len(stack')
    BY <2>1 DEF WalkTypeOK
  <2>3. CASE \E k \in 1 .. Len(stack) : AheadIn(p, k)
    BY <2>1, <2>2, <2>3, AheadBelowTop
  <2>4. CASE Below(p, child) /\ Len(child) < Len(p)
    BY <1>1, <2>1, <2>4 DEF Ahead, Top
  <2> QED
    BY <1>0, <2>3, <2>4 DEF Ahead
<1>2. CASE /\ ~(Len(child) < MaxCgroupDepth /\ isPossiblePrefixForAny(child))
           /\ UNCHANGED stack
  <2>1. ~(Below(p, child) /\ Len(child) < Len(p))
    BY <1>0, <1>2, SelectedPossible
  <2>2. \E k \in 1 .. Len(stack) : AheadIn(p, k)
    BY <1>0, <2>1 DEF Ahead
  <2> QED
    BY <1>2, <2>2 DEF Ahead, AheadIn
<1> QED
  BY <1>1, <1>2 DEF Descend

(* The tree stays a tree, and the globs are what they were. *)
LEMMA TreeKept ==
    ASSUME IsTree(tree), [WalkNext]_wvars
    PROVE  /\ IsTree(tree)'
           /\ UNCHANGED globs
           /\ stable' \subseteq stable
           /\ UNCHANGED stable \/ Churn
<1>1. CASE Churn
  <2>1. UNCHANGED globs /\ stable' \subseteq stable
    BY <1>1 DEF Churn, walkVars
  <2>2. ASSUME NEW p \in tree,
               \A q \in tree : Len(q) = 1 \/ Parent(q) # p,
               tree' = tree \ {p}
        PROVE  IsTree(tree)'
    BY <2>2 DEF IsTree
  <2>3. ASSUME NEW p, IsTree(tree \cup {p}), tree' = tree \cup {p}
        PROVE  IsTree(tree)'
    BY <2>3 DEF IsTree
  <2>4. ASSUME ControllerChange PROVE IsTree(tree)'
    BY <2>4 DEF ControllerChange
  <2> QED
    BY <1>1, <2>1, <2>2, <2>3, <2>4 DEF Churn, TreeChange
<1>2. CASE ~Churn
  <2>1. UNCHANGED <<tree, stable, globs>>
    BY <1>2 DEF WalkNext, wvars, treeVars, walkVars, BeginCollect, ReadDir,
                NextEntry, ReadFile, CallEnrich, Enrich, Descend, FetchGoes
  <2> QED
    BY <2>1
<1> QED
  BY <1>1, <1>2

(* Selection does not depend on what the walk does. *)
LEMMA SelectedKept ==
    ASSUME UNCHANGED globs, NEW p
    PROVE  Selected(p)' <=> Selected(p)
BY DEF Selected

(* What is read is selected. *)
LEMMA SelectInductive ==
    ASSUME KubeletTypeOK, WalkTypeOK, ChainInv, SelectInv, [WalkNext]_wvars
    PROVE  SelectInv'
<1>0. /\ IsTree(tree)' /\ globs' = globs /\ globs \in GlobSets
      /\ \A p : Selected(p)' <=> Selected(p)
  BY TreeKept, SelectedKept DEF SelectInv
<1>1. Len(stack) \in Nat /\ MaxCgroupDepth \in Nat \ {0}
  BY CgroupAssumption DEF WalkTypeOK
<1>2. CASE BeginCollect
  <2>1. UNCHANGED out /\ result' # "ok"
    BY <1>2 DEF BeginCollect, WalkTypeOK
  <2>2. Sampled' = Sampled
    BY <2>1 DEF Sampled
  <2>3. Len(stack') <= MaxCgroupDepth
    <3>1. CASE stack' = <<Frame(<<>>)>>
      BY <1>1, <3>1
    <3>2. CASE UNCHANGED stack
      BY <3>2 DEF SelectInv
    <3> QED
      BY <1>2, <3>1, <3>2 DEF BeginCollect
  <2>4. wpc' \in {"list", "done"}
    BY <1>2 DEF BeginCollect
  <2> QED
    BY <1>0, <2>1, <2>2, <2>3, <2>4 DEF SelectInv
<1>3. CASE NextEntry /\ wpc' \in AtChild
  <2>1. PICK n \in Top.todo :
           /\ n \in Names
           /\ child' = Append(Top.segs, n)
           /\ stack' = [stack EXCEPT ![Len(stack)].todo = Top.todo \ {n}]
    BY <1>3, Entered
  <2>2. stack # <<>> /\ Len(stack) \in 1 .. Len(stack) /\ Top \in Frames
    BY <1>3, ElementOfSeq DEF NextEntry, WalkTypeOK, Top
  <2>3. Top.segs \in Seq(Names) /\ Top.todo \ {n} \in SUBSET Names
        /\ Len(Top.segs) = Len(stack) - 1
    BY <2>2 DEF Frames, ChainInv, Chained, Top
  <2>4. Len(stack') = Len(stack)
    BY <2>1, <2>2, <2>3, Replaced DEF WalkTypeOK
  <2>5. child' \in Seq(Names) /\ Len(child') <= MaxCgroupDepth
    BY <1>1, <2>1, <2>3, OneMore DEF SelectInv
  <2>6. wpc' \in {"read", "enrich"} => matchesAny(child')
    BY <1>3 DEF NextEntry, AtChild, WalkReturns
  <2>7. wpc' \in {"read", "enrich"} => Selected(child')
    BY <1>0, <2>5, <2>6, SelectedMatches
  <2>8. UNCHANGED <<out, result>> /\ result' # "ok"
    BY <1>3, Entered DEF NextEntry, WalkTypeOK
  <2>9. Sampled' = Sampled
    BY <2>8 DEF Sampled
  <2> QED
    BY <1>0, <2>4, <2>7, <2>8, <2>9 DEF SelectInv, Selected
<1>4. CASE NextEntry /\ wpc' \notin AtChild
  <2>1. stack # <<>> /\ WalkReturns /\ UNCHANGED out /\ result = "none"
    BY <1>4, Returned DEF NextEntry, WalkTypeOK
  <2>2. stack' \in Seq(Frames) /\ Len(stack') = Len(stack) - 1
    BY <2>1, Popped DEF WalkReturns, WalkTypeOK
  <2>3. result' = "ok" => wpc' = "done" /\ Len(stack') = 0
    <3>1. result' = "ok" => wpc' = "done" /\ Len(stack) = 1
      BY <2>1 DEF WalkReturns
    <3>2. Len(stack) = 1 => Len(stack') = 0
      BY <2>2
    <3> QED
      BY <3>1, <3>2
  <2>4. Sampled' = Sampled
    BY <2>1 DEF Sampled
  <2> QED
    BY <1>0, <1>1, <1>4, <2>2, <2>3, <2>4 DEF SelectInv, AtChild
<1>5. CASE ReadDir
  <2>1. UNCHANGED child /\ wpc' \in {"entry", "done"} /\ result' # "ok"
    BY <1>5 DEF ReadDir, WalkFails, WalkTypeOK
  <2>2. Sampled' \subseteq Sampled
    BY <1>5 DEF ReadDir, WalkFails, Sampled
  <2>3. Len(stack') = Len(stack)
    <3>1. stack # <<>>
      BY <1>5 DEF ReadDir, WalkTypeOK
    <3> QED
      BY <1>5, <3>1, ChildrenAreNames, Replaced DEF ReadDir, WalkTypeOK
  <2> QED
    BY <1>0, <2>1, <2>2, <2>3 DEF SelectInv
<1>6. CASE ReadFile \/ CallEnrich \/ Enrich
  <2>1. /\ UNCHANGED <<stack, child>>
        /\ Selected(child)
        /\ result' # "ok"
    BY <1>6 DEF ReadFile, CallEnrich, Enrich, LookupEnriches, ReadError,
                WalkFails, SelectInv, WalkTypeOK
  <2>2. Sampled' \subseteq Sampled \cup {child}
    <3>1. CASE Records
      BY <3>1, SampledGrows DEF Records
    <3>2. CASE UNCHANGED out \/ out' = <<>>
      BY <3>2 DEF Sampled
    <3>3. Records \/ UNCHANGED out \/ out' = <<>>
      BY <1>6
         DEF ReadFile, CallEnrich, Enrich, LookupEnriches, ReadError, WalkFails,
             Records, KubeletTypeOK, WalkTypeOK
    <3> QED
      BY <3>1, <3>2, <3>3
  <2> QED
    BY <1>0, <2>1, <2>2 DEF SelectInv
<1>7. CASE Descend
  <2>1. /\ UNCHANGED <<child, out>>
        /\ wpc' \in {"list", "entry"}
        /\ result' # "ok"
    BY <1>7 DEF Descend, WalkTypeOK
  <2>2. Len(stack') <= MaxCgroupDepth
    <3>1. CASE stack' = Append(stack, Frame(child))
               /\ Len(child) < MaxCgroupDepth
      <4>1. Len(child) = Len(stack)
        BY <1>7 DEF Descend, ChainInv, AtChild
      <4>2. Len(stack') = Len(stack) + 1
        BY <3>1, Pushed DEF WalkTypeOK
      <4> QED
        BY <1>1, <3>1, <4>1, <4>2
    <3> QED
      BY <1>7, <3>1 DEF Descend, SelectInv
  <2>3. Sampled' = Sampled
    BY <2>1 DEF Sampled
  <2> QED
    BY <1>0, <2>1, <2>2, <2>3 DEF SelectInv
<1>8. CASE FetchGoes \/ Churn \/ UNCHANGED wvars
  <2>1. UNCHANGED <<wpc, stack, child, out, result>>
    BY <1>8 DEF FetchGoes, Churn, wvars, walkVars
  <2>2. Sampled' = Sampled
    BY <2>1 DEF Sampled
  <2> QED
    BY <1>0, <2>1, <2>2 DEF SelectInv
<1> QED
  BY <1>2, <1>3, <1>4, <1>5, <1>6, <1>7, <1>8 DEF WalkNext

(* Nothing selected that stays is passed over. *)
LEMMA CoverInductive ==
    ASSUME KubeletTypeOK, WalkTypeOK, FileInv, ChainInv, SelectInv, CoverInv,
           [WalkNext]_wvars
    PROVE  CoverInv'
<1> SUFFICES ASSUME wpc' # "idle", ~truncated', result' \in {"none", "ok"},
                    NEW p \in stable', Selected(p)'
             PROVE  Ahead(p)' \/ p \in Sampled'
  BY DEF CoverInv
<1>0. /\ p \in stable /\ Selected(p) /\ globs \in GlobSets
      /\ IsTree(tree) /\ stable \subseteq tree
  BY TreeKept, SelectedKept DEF SelectInv, FileInv
<1>1. p \in Seq(Names) /\ Len(p) \in Nat \ {0}
  BY <1>0 DEF IsTree, Paths
<1>2. CASE BeginCollect
  <2>1. wpc' = "list" /\ stack' = <<Frame(<<>>)>>
    BY <1>2 DEF BeginCollect
  <2>2. Top'.segs = <<>>
    BY <2>1 DEF Top, Frame
  <2>3. Below(p, <<>>) /\ Len(<<>>) < Len(p)
    BY <1>1 DEF Below
  <2> QED
    BY <2>1, <2>2, <2>3 DEF Ahead
<1>3. ASSUME ~BeginCollect PROVE /\ Ahead(p) \/ p \in Sampled
                                /\ result \in {"none", "ok"} /\ ~truncated
  <2>1. wpc # "idle"
    BY <1>3 DEF WalkNext, wvars, walkVars, BeginCollect, ReadDir, NextEntry,
                ReadFile, CallEnrich, Enrich, Descend, FetchGoes, Churn
  <2>2. /\ truncated => truncated'
        /\ result \in {"none", "ok"}
    BY <1>3 DEF WalkNext, wvars, walkVars, ReadDir, NextEntry, WalkReturns,
                ReadFile, CallEnrich, Enrich, Descend, FetchGoes, Churn,
                WalkTypeOK
  <2> QED
    BY <1>0, <2>1, <2>2 DEF CoverInv
<1>4. CASE NextEntry /\ wpc' \in AtChild
  <2>1. PICK n \in Top.todo :
           /\ n \in Names
           /\ child' = Append(Top.segs, n)
           /\ stack' = [stack EXCEPT ![Len(stack)].todo = Top.todo \ {n}]
    BY <1>4, Entered
  <2>2. /\ wpc = "entry" /\ UNCHANGED out
        /\ wpc' = IF matchesAny(child') THEN "read" ELSE "descend"
    BY <1>4 DEF NextEntry, WalkReturns, AtChild
  <2>3. Ahead(p) => Ahead(p)'
    BY <1>0, <1>1, <2>1, <2>2, AheadEntered
  <2> QED
    BY <1>3, <1>4, <2>2, <2>3 DEF Sampled, NextEntry, BeginCollect
<1>5. CASE NextEntry /\ wpc' \notin AtChild
  <2>1. /\ wpc = "entry" /\ UNCHANGED out
        /\ Top.todo = {}
        /\ stack' = SubSeq(stack, 1, Len(stack) - 1)
    BY <1>5 DEF NextEntry, WalkReturns, AtChild
  <2>2. Ahead(p) => Ahead(p)'
    BY <2>1, AheadReturned
  <2> QED
    BY <1>3, <2>1, <2>2 DEF Sampled, BeginCollect
<1>6. CASE ReadDir
  <2>1. /\ wpc = "list" /\ UNCHANGED out
        /\ stack' = [stack EXCEPT ![Len(stack)].todo = Children(Top.segs)]
    BY <1>6 DEF ReadDir, WalkFails
  <2>2. Ahead(p) => Ahead(p)'
    BY <1>0, <2>1, AheadListed
  <2> QED
    BY <1>3, <2>1, <2>2 DEF Sampled, BeginCollect
<1>7. CASE ReadFile \/ CallEnrich \/ Enrich
  <2>1. Records \/ (/\ UNCHANGED <<out, stack, child>>
                    /\ wpc = "read" /\ wpc' \in {"read", "enrich"})
    BY <1>7
       DEF ReadFile, CallEnrich, Enrich, LookupEnriches, ReadError, WalkFails,
           Records, KubeletTypeOK, WalkTypeOK
  <2>2. ~BeginCollect
    BY <1>7 DEF ReadFile, CallEnrich, Enrich, BeginCollect
  <2>3. CASE Records
    <3>1. Sampled \subseteq Sampled'
      BY <2>3, SampledGrows DEF Records
    <3> QED
      BY <1>1, <1>3, <2>2, <2>3, <3>1, AheadRecorded
  <2>4. CASE /\ UNCHANGED <<out, stack, child>>
             /\ wpc = "read" /\ wpc' \in {"read", "enrich"}
    BY <1>3, <2>2, <2>4 DEF Sampled, Ahead, AheadIn
  <2> QED
    BY <2>1, <2>3, <2>4
<1>8. CASE Descend
  <2>1. Ahead(p) => Ahead(p)'
    BY <1>0, <1>1, <1>8, AheadDescended
  <2> QED
    BY <1>3, <1>8, <2>1 DEF Descend, Sampled, BeginCollect
<1>9. CASE FetchGoes \/ Churn \/ UNCHANGED wvars
  <2>1. UNCHANGED <<wpc, stack, child, out>>
    BY <1>9 DEF FetchGoes, Churn, wvars, walkVars
  <2>2. CASE BeginCollect
    BY <1>2, <2>2
  <2> QED
    BY <1>3, <2>1, <2>2 DEF Sampled, Ahead, AheadIn, Top
<1> QED
  BY <1>2, <1>4, <1>5, <1>6, <1>7, <1>8, <1>9 DEF WalkNext

-----------------------------------------------------------------------------
(* The theorems. *)

WalkInv == /\ KubeletInv /\ WalkTypeOK /\ FileInv /\ OnceInv
           /\ SelectInv /\ CoverInv

(* Before Collect is called. *)
LEMMA WalkBegins ==
    ASSUME WalkInit
    PROVE  WalkInv
<1> USE DEF WalkInit
<1>1. KubeletInv
  BY KubeletBegins
<1>2. WalkTypeOK
  <2>1. stack \in Seq(Frames) /\ child \in Seq(Names) /\ out \in Seq(Samples)
    BY EmptySeq
  <2>2. nextFile \in Nat \ {0} /\ fields \in SUBSET Files
    OBVIOUS
  <2> QED
    BY <2>1, <2>2 DEF WalkTypeOK
<1>3. Len(out) = 0 /\ Len(stack) = 0
  OBVIOUS
<1>4. FileInv
  BY <1>3 DEF FileInv, RecordsTellFiles, LostOnlyToCgroupfs
<1>5. OnceInv
  BY <1>3, CgroupAssumption
     DEF OnceInv, ChainInv, ApartInv, CountInv, Distinct, AtChild
<1>6. SelectInv /\ CoverInv
  <2>1. Sampled = {}
    BY <1>3 DEF Sampled
  <2> QED
    BY <1>3, <2>1, CgroupAssumption DEF SelectInv, CoverInv
<1> QED
  BY <1>1, <1>2, <1>4, <1>5, <1>6 DEF WalkInv

(* The invariants hold together in every run. *)
LEMMA WalkInvariant == WalkSpec => []WalkInv
<1>1. WalkInv /\ [WalkNext]_wvars => WalkInv'
  <2> SUFFICES ASSUME WalkInv, [WalkNext]_wvars PROVE WalkInv'
    OBVIOUS
  <2> USE DEF WalkInv, KubeletInv, OnceInv
  <2>1. KubeletInv'
    BY WalkSteps, KubeletTypeInductive, FetchInductive
  <2>2. WalkTypeOK' /\ FileInv'
    BY WalkTypeInductive, FileInductive
  <2>3. WalkStep
    BY WalkStepOf
  <2>4. OnceInv'
    BY <2>3, ChainInductive, ApartInductive, CountInductive
  <2>5. SelectInv' /\ CoverInv'
    BY SelectInductive, CoverInductive
  <2> QED
    BY <2>1, <2>2, <2>4, <2>5
<1> QED
  BY <1>1, WalkBegins, PTL DEF WalkSpec

(***************************************************************************)
(* Collect fails exactly when a stat, a listing or a read of cgroupfs gave *)
(* an error: no answer of the kubelet, also none at all, costs a tick, and *)
(* no such error is taken for something else (Cgroup.walk, enrich).        *)
(***************************************************************************)
THEOREM KubeletCostsNoTick == WalkSpec => []LostOnlyToCgroupfs
<1>1. WalkInv => LostOnlyToCgroupfs
  BY DEF WalkInv, FileInv
<1> QED
  BY <1>1, WalkInvariant, PTL

(***************************************************************************)
(* A record is filled from every file that was there since Collect began,  *)
(* and from none that never was, however often cgroups go, come back and   *)
(* change their files between two reads (readCgroup, enrich): zeros are    *)
(* never put for what could not be read.                                   *)
(***************************************************************************)
THEOREM ZerosMeanMissing == WalkSpec => []RecordsTellFiles
<1>1. WalkInv => RecordsTellFiles
  BY DEF WalkInv, FileInv
<1> QED
  BY <1>1, WalkInvariant, PTL

(***************************************************************************)
(* No cgroup is returned twice, however the tree changes under the walk,   *)
(* and at most Max are; a selection that is reported as truncated has Max  *)
(* of them (Cgroup.walk).                                                  *)
(***************************************************************************)
THEOREM WalkVisitsOnce == WalkSpec => []SampledOnce
<1>1. WalkInv => SampledOnce
  BY DEF WalkInv, OnceInv, CountInv, Distinct, SampledOnce
<1> QED
  BY <1>1, WalkInvariant, PTL

(***************************************************************************)
(* Collect returns selected cgroups only, and one that was not cut short   *)
(* every selected cgroup that was there all the time: neither the pruning  *)
(* of isPossiblePrefix nor the depth limit, nor cgroups that come and go   *)
(* next to it, nor a kubelet that fails make it miss one (Cgroup.walk).    *)
(***************************************************************************)
THEOREM WalkMissesNone == WalkSpec => []StableSampled
<1>1. WalkInv => StableSampled
  <2> SUFFICES ASSUME WalkInv PROVE StableSampled
    OBVIOUS
  <2>1. \A p \in Sampled : Selected(p)
    BY DEF WalkInv, SelectInv
  <2>2. ASSUME result = "ok", ~truncated, NEW p \in stable, Selected(p)
        PROVE  p \in Sampled
    <3>1. wpc = "done" /\ Len(stack) = 0
      BY <2>2 DEF WalkInv, SelectInv
    <3>2. ~Ahead(p)
      BY <3>1 DEF Ahead
    <3> QED
      BY <2>2, <3>1, <3>2 DEF WalkInv, CoverInv
  <2> QED
    BY <2>1, <2>2 DEF StableSampled
<1> QED
  BY <1>1, WalkInvariant, PTL
=============================================================================
