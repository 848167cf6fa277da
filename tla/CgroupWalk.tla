----------------------------- MODULE CgroupWalk -----------------------------
(***************************************************************************)
(* internal/collector Cgroup: Collect walks the cgroup tree depth first,   *)
(* reads the cgroups whose path matches a glob, and descends only where a  *)
(* glob may still match; a cgroup of a pod is enriched through the         *)
(* KubeletClient.  Cgroups come and go while it walks, and so do the files *)
(* of a cgroup when its parent hands the memory controller down or not.    *)
(*                                                                         *)
(* A path is the sequence of its segments.  A glob is a sequence too: "**" *)
(* is DeepSeg, and any other segment is known by the names filepath.Match  *)
(* accepts for it.  The segment of a pod's slice stands for the pod's UID. *)
(***************************************************************************)
EXTENDS Kubelet, Sequences

CONSTANTS
    NameOrder,        \* the cgroup names there are, sorted
    MaxPathLen,       \* bound: the longest path in the tree
    MaxCgroupDepth,   \* maxCgroupDepth
    Max,              \* the collector's max
    GlobSets,         \* the lists of globs a collector may be given
    Trees,            \* the cgroup trees Collect may find
    Delegations,      \* the cgroups that may have the controller handed down
    FileOrder,        \* the files of a cgroup, in the order they are read
    CoreFiles,        \* the ones every cgroup has on this kernel
    MemFiles,         \* the ones it has with the memory controller
    MaxChurn,         \* bound: changes to the cgroups during the walk
    K8s               \* is there a k8sClient?

Names == {NameOrder[i] : i \in 1 .. Len(NameOrder)}

Paths == UNION {[1 .. n -> Names] : n \in 1 .. MaxPathLen}

DeepSeg == [deep |-> TRUE, names |-> {}]

Seg(names) == [deep |-> FALSE, names |-> names]

GlobSegs == [deep : BOOLEAN, names : SUBSET Names]

Parent(p) == SubSeq(p, 1, Len(p) - 1)

Files == {FileOrder[i] : i \in 1 .. Len(FileOrder)}

IsTree(t) == t \subseteq Paths /\ \A p \in t : Len(p) = 1 \/ Parent(p) \in t

ASSUME CgroupAssumption ==
    /\ MaxCgroupDepth \in Nat \ {0}
    /\ Max \in Nat
    /\ \A gs \in GlobSets : gs \subseteq Seq(GlobSegs)
    /\ \A t \in Trees : IsTree(t)
    /\ Len(FileOrder) \in Nat
    /\ MaxChurn \in Nat
    /\ K8s \in BOOLEAN

VARIABLES
    tree,        \* the cgroups there are
    delegates,   \* the ones, or the root, that hand the controller down
    globs,       \* c.globSegs
    wpc,         \* the step of the walk
    stack,       \* the calls of walk: dir, and the entries left to visit
    child,       \* childSegs
    nextFile,    \* the file readCgroup reads next
    fields,      \* the files rec is filled from; zero or nil stand for others
    out,         \* *out
    truncated,   \* *truncated
    result,      \* what Collect returned
    ioFailed,    \* history: did a stat, a listing or a read fail?
    stable,      \* history: cgroups there since Collect began
    kept,        \* history: files there since Collect began
    seen,        \* history: files there at some time since
    churn        \* changes to the cgroups so far

treeVars == <<tree, delegates, stable, kept, seen, churn>>
walkVars == <<globs, wpc, stack, child, nextFile, fields, out, truncated,
              result, ioFailed>>
wvars == <<kvars, treeVars, walkVars>>

-----------------------------------------------------------------------------
(* Matching. *)

(* matchGlob, on what is left of the two from i and j on. *)
matchGlob(pattern, segs) ==
    LET match[at \in (1 .. Len(pattern) + 1) \X (1 .. Len(segs) + 1)] ==
          LET i == at[1]
              j == at[2]
          IN  IF i > Len(pattern) THEN j > Len(segs)
              ELSE IF pattern[i].deep
              THEN match[<<i + 1, j>>]
                   \/ (j <= Len(segs) /\ match[<<i, j + 1>>])
              ELSE /\ j <= Len(segs)
                   /\ segs[j] \in pattern[i].names
                   /\ match[<<i + 1, j + 1>>]
    IN  match[<<1, 1>>]

matchesAny(segs) == \E g \in globs : matchGlob(g, segs)

(* Mutation: "**" is taken for a name. *)
ShyPrefix(segs, pattern) ==
    /\ Len(segs) <= Len(pattern)
    /\ \A i \in 1 .. Len(segs) : segs[i] \in pattern[i].names

(* The loop over segs ends with true at a "**", with false at a mismatch. *)
isPossiblePrefix(segs, pattern) ==
    \/ \E k \in 1 .. Len(segs) :
          /\ k <= Len(pattern)
          /\ pattern[k].deep
          /\ \A i \in 1 .. k - 1 : segs[i] \in pattern[i].names
    \/ /\ Len(segs) <= Len(pattern)
       /\ \A i \in 1 .. Len(segs) : segs[i] \in pattern[i].names

isPossiblePrefixForAny(segs) == \E g \in globs : isPossiblePrefix(segs, g)

(* PodUID: the first segment that is a pod's slice. *)
PodUID(segs) ==
    IF \E i \in 1 .. Len(segs) : segs[i] \in Pods
    THEN {segs[i] : i \in {j \in 1 .. Len(segs) :
                             /\ segs[j] \in Pods
                             /\ \A k \in 1 .. j - 1 : segs[k] \notin Pods}}
    ELSE {}

-----------------------------------------------------------------------------
(* Collect. *)

Frame(segs) == [segs |-> segs, todo |-> {}]

Top == stack[Len(stack)]

Children(segs) == {n \in Names : Append(segs, n) \in tree}

(* The stat of cgroup.controllers, which a v1 host does not have. *)
BeginCollect ==
    /\ wpc = "idle"
    /\ \/ /\ wpc' = "list"
          /\ stack' = <<Frame(<<>>)>>
          /\ UNCHANGED <<result, ioFailed>>
       \/ wpc' = "done" /\ result' = "v1" /\ UNCHANGED <<stack, ioFailed>>
       \/ /\ wpc' = "done" /\ result' = "err"
          /\ ioFailed' = TRUE
          /\ UNCHANGED stack
    /\ UNCHANGED <<kvars, treeVars, globs, child, nextFile, fields, out,
                   truncated>>

(* An error goes up through every call of walk; nothing is returned. *)
WalkFails == wpc' = "done" /\ result' = "err" /\ out' = <<>>

(* os.ReadDir, which any error ends; a directory that has gone always does. *)
ReadDir ==
    /\ wpc = "list"
    /\ \/ /\ Top.segs \in tree \cup {<<>>}
          /\ stack' = [stack EXCEPT ![Len(stack)].todo = Children(Top.segs)]
          /\ wpc' = "entry"
          /\ UNCHANGED <<out, result, ioFailed>>
       \/ WalkFails /\ ioFailed' = TRUE /\ UNCHANGED stack
    /\ UNCHANGED <<kvars, treeVars, globs, child, nextFile, fields, truncated>>

(* walk returns nil to its caller, the last one to Collect. *)
WalkReturns ==
    /\ stack' = SubSeq(stack, 1, Len(stack) - 1)
    /\ IF Len(stack) = 1 THEN wpc' = "done" /\ result' = "ok"
       ELSE UNCHANGED <<wpc, result>>

(* Mutation: one cgroup too many. *)
OverMax == Len(out) > Max

AtMax == Len(out) >= Max

(***************************************************************************)
(* The loop over the entries: the end, the limit, or the next cgroup.  The *)
(* listing has plain files as well, which are skipped, but not before the  *)
(* limit is looked at: at the limit, a file left is a truncation too.      *)
(***************************************************************************)
NextEntry ==
    /\ wpc = "entry"
    /\ \/ /\ Top.todo = {}
          /\ WalkReturns
          /\ UNCHANGED <<child, nextFile, fields, truncated>>
       \/ /\ AtMax
          /\ truncated' = TRUE
          /\ WalkReturns
          /\ UNCHANGED <<child, nextFile, fields>>
       \/ /\ ~AtMax
          /\ \E i \in 1 .. Len(NameOrder) :
                /\ NameOrder[i] \in Top.todo
                /\ \A k \in 1 .. i - 1 : NameOrder[k] \notin Top.todo
                /\ child' = Append(Top.segs, NameOrder[i])
                /\ stack' = [stack EXCEPT ![Len(stack)].todo =
                                                     @ \ {NameOrder[i]}]
          /\ wpc' = IF matchesAny(child') THEN "read" ELSE "descend"
          /\ nextFile' = 1
          /\ fields' = {}
          /\ UNCHANGED <<truncated, result>>
    /\ UNCHANGED <<kvars, treeVars, globs, out, ioFailed>>

Sample(meta) ==
    out' = Append(out, [path |-> child, fields |-> fields, meta |-> meta])

(***************************************************************************)
(* The files there are.  A cgroup has those of the memory controller when  *)
(* its parent hands it down; a file in neither set this kernel has not.    *)
(***************************************************************************)
Present(cgroups, handing) ==
    {pf \in cgroups \X Files :
        \/ pf[2] \in CoreFiles
        \/ pf[2] \in MemFiles /\ Parent(pf[1]) \in handing}

(* A missing file leaves zero or nil in rec, and is no error. *)
FieldsRead == IF <<child, FileOrder[nextFile]>> \in Present(tree, delegates)
              THEN fields \cup {FileOrder[nextFile]} ELSE fields

(* Mutation: a file that cannot be read is taken for a missing one. *)
ErrorIsZero == /\ nextFile' = nextFile + 1
               /\ UNCHANGED <<wpc, fields, out, result>>

ReadError == WalkFails /\ UNCHANGED <<nextFile, fields>>

(***************************************************************************)
(* readCgroup reads its files one after the other.  One may be missing     *)
(* because this cgroup has not got it, or has gone.  Any other error, also *)
(* one of parsing, ends the walk.                                          *)
(***************************************************************************)
ReadFile ==
    /\ wpc = "read"
    /\ nextFile <= Len(FileOrder)
    /\ \/ /\ fields' = FieldsRead
          /\ nextFile' = nextFile + 1
          /\ UNCHANGED <<wpc, out, result, ioFailed>>
       \/ ReadError /\ ioFailed' = TRUE
    /\ UNCHANGED <<kvars, treeVars, globs, stack, child, truncated>>

(* enrich, when rec is complete: a cgroup of a pod is looked up. *)
CallEnrich ==
    /\ wpc = "read"
    /\ nextFile > Len(FileOrder)
    /\ \/ /\ ~K8s \/ PodUID(child) = {}
          /\ Sample("none")
          /\ wpc' = "descend"
          /\ UNCHANGED kvars
       \/ /\ K8s
          /\ \E u \in PodUID(child) : LookupPod(u)
          /\ wpc' = "enrich"
          /\ UNCHANGED out
    /\ UNCHANGED <<treeVars, globs, stack, child, nextFile, fields, truncated,
                   result, ioFailed>>

(* Mutation: a failed lookup ends the walk. *)
LookupAborts == IF answer = "err" THEN WalkFails
                ELSE /\ Sample(answer)
                     /\ wpc' = "descend"
                     /\ UNCHANGED result

(* A failed lookup is logged, and the record stays without metadata. *)
LookupEnriches == /\ Sample(answer)
                  /\ wpc' = "descend"
                  /\ UNCHANGED result

Enrich ==
    /\ wpc = "enrich"
    /\ LookupDone
    /\ LookupEnriches
    /\ UNCHANGED <<treeVars, globs, stack, child, nextFile, fields, truncated,
                   ioFailed>>

Descend ==
    /\ wpc = "descend"
    /\ IF Len(child) < MaxCgroupDepth /\ isPossiblePrefixForAny(child)
       THEN stack' = Append(stack, Frame(child)) /\ wpc' = "list"
       ELSE wpc' = "entry" /\ UNCHANGED stack
    /\ UNCHANGED <<kvars, treeVars, globs, child, nextFile, fields, out,
                   truncated, result, ioFailed>>

-----------------------------------------------------------------------------
(* The host (external). *)

(* A cgroup without children is removed, or one is created. *)
TreeChange ==
    \/ \E p \in tree :
          /\ \A q \in tree : Len(q) = 1 \/ Parent(q) # p
          /\ tree' = tree \ {p}
          /\ delegates' = delegates \ {p}
    \/ \E p \in Paths \ tree :
          /\ IsTree(tree \cup {p})
          /\ tree' = tree \cup {p}
          /\ UNCHANGED delegates

(* A cgroup hands the controller it has down to its children, or stops. *)
ControllerChange ==
    /\ \/ \E p \in (tree \cup {<<>>}) \ delegates :
             /\ p = <<>> \/ Parent(p) \in delegates
             /\ delegates' = delegates \cup {p}
       \/ \E p \in delegates :
             /\ \A q \in delegates : q = <<>> \/ Parent(q) # p
             /\ delegates' = delegates \ {p}
    /\ UNCHANGED tree

Churn ==
    /\ churn < MaxChurn
    /\ wpc \notin {"idle", "done"}
    /\ churn' = churn + 1
    /\ TreeChange \/ ControllerChange
    /\ stable' = stable \cap tree'
    /\ kept' = kept \cap Present(tree', delegates')
    /\ seen' = seen \cup Present(tree', delegates')
    /\ UNCHANGED <<kvars, walkVars>>

(***************************************************************************)
(* The kubelet, the pods and the clock.  The walk does not look at them    *)
(* between two lookups, so what happens there may as well happen while the *)
(* answer of the first is on its way to the caller.                        *)
(***************************************************************************)
FetchGoes == /\ wpc = "enrich"
             /\ FetchStep \/ ClockTick \/ PodChange
             /\ UNCHANGED <<treeVars, walkVars>>

WalkInit ==
    /\ KubeletInit
    /\ tree \in Trees
    /\ \E d \in Delegations : delegates = d \cap (tree \cup {<<>>})
    /\ globs \in GlobSets
    /\ wpc = "idle"
    /\ stack = <<>>
    /\ child = <<>>
    /\ nextFile = 1
    /\ fields = {}
    /\ out = <<>>
    /\ truncated = FALSE
    /\ result = "none"
    /\ ioFailed = FALSE
    /\ stable = tree
    /\ kept = Present(tree, delegates)
    /\ seen = Present(tree, delegates)
    /\ churn = 0

WalkNext == \/ BeginCollect \/ ReadDir \/ NextEntry \/ ReadFile \/ CallEnrich
            \/ Enrich \/ Descend \/ FetchGoes \/ Churn

WalkSpec == WalkInit /\ [][WalkNext]_wvars

-----------------------------------------------------------------------------
(* Properties. *)

Sampled == {out[i].path : i \in 1 .. Len(out)}

(***************************************************************************)
(* What it means to match: the path can be cut into consecutive pieces,    *)
(* one for each segment of the glob: any piece for "**", one accepted name *)
(* for every other.                                                        *)
(***************************************************************************)
Matches(g, p) ==
    \E cut \in [0 .. Len(g) -> 0 .. Len(p)] :
        /\ cut[0] = 0
        /\ cut[Len(g)] = Len(p)
        /\ \A i \in 1 .. Len(g) :
              IF g[i].deep THEN cut[i - 1] <= cut[i]
              ELSE cut[i] = cut[i - 1] + 1 /\ p[cut[i]] \in g[i].names

Selected(p) == /\ Len(p) <= MaxCgroupDepth
               /\ \E g \in globs : Matches(g, p)

(***************************************************************************)
(* A walk returns selected cgroups only, and one that was not cut short    *)
(* every selected cgroup that was there all the time: pruning the subtrees *)
(* no glob can reach, the depth limit, cgroups that come and go next to    *)
(* it, and a failing kubelet make it miss none.                            *)
(***************************************************************************)
StableSampled ==
    /\ \A p \in Sampled : Selected(p)
    /\ result = "ok" /\ ~truncated =>
          \A p \in stable : Selected(p) => p \in Sampled

(***************************************************************************)
(* No cgroup is returned twice, however the tree changes under the walk,   *)
(* and at most Max are; the selection is reported as truncated only when   *)
(* Max were found.                                                         *)
(***************************************************************************)
SampledOnce ==
    /\ \A i, j \in 1 .. Len(out) : out[i].path = out[j].path => i = j
    /\ Len(out) <= Max
    /\ truncated /\ result = "ok" => Len(out) = Max

(***************************************************************************)
(* A tick is lost exactly when cgroupfs gave an error: a kubelet that is   *)
(* down, slow or without the pod never costs one ("a kubelet lookup        *)
(* failure is logged and otherwise ignored", the comment on enrich), and   *)
(* no failed stat, listing or read is passed over, so that what Collect    *)
(* returned as a result is never what an error has left of it.             *)
(***************************************************************************)
LostOnlyToCgroupfs == wpc = "done" => (result = "err" <=> ioFailed)

(***************************************************************************)
(* A record says what the files said: zero or nil is put for a file only   *)
(* when it was missing (or says so itself), although a record is read file *)
(* by file while cgroups go, are created anew under the same name and gain *)
(* or lose the memory controller.  It is filled from every file that was   *)
(* there since Collect began, and from none that never was.                *)
(***************************************************************************)
RecordsTellFiles ==
    \A i \in 1 .. Len(out) : \A f \in Files :
        /\ <<out[i].path, f>> \in kept => f \in out[i].fields
        /\ f \in out[i].fields => <<out[i].path, f>> \in seen
=============================================================================
