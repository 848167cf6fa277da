------------------------------- MODULE Kubelet ------------------------------
(***************************************************************************)
(* internal/k8s KubeletClient: LookupPod answers from a cached copy of the *)
(* kubelet's pod list, which it fetches again once it is CacheTTL old.     *)
(*                                                                         *)
(* The kubelet is external: it answers with the pods it has at some moment *)
(* of the request, or fails, or is given up on after the HTTP client's     *)
(* timeout.  Of a pod's metadata only its being there is kept.             *)
(***************************************************************************)
EXTENDS Integers

CONSTANTS
    Pods,        \* pod UIDs
    CacheTTL,    \* KubeletClientConfig.CacheTTL
    FetchTime,   \* the HTTP client's timeout
    MaxClock     \* bound: the clock

ASSUME KubeletAssumption ==
    /\ CacheTTL \in Nat \ {0}
    /\ FetchTime \in Nat
    /\ MaxClock \in Nat

VARIABLES
    clock,      \* c.now()
    world,      \* external: the pods on this node
    changed,    \* history: when each pod last came or went
    kpc,        \* the step of LookupPod
    uid,        \* its argument
    begun,      \* when its fetch began
    snap,       \* the pods the kubelet answered with
    cache,      \* c.cache: nothing yet, or the pods it holds
    cachedAt,   \* c.cachedAt
    answer      \* what LookupPod returned

podVars == <<world, changed>>
clientVars == <<kpc, uid, begun, snap, cache, cachedAt, answer>>
kvars == <<clock, podVars, clientVars>>

Never == 0 - CacheTTL

KubeletInit ==
    /\ clock = 0
    /\ world \in SUBSET Pods
    /\ changed = [u \in Pods |-> Never]
    /\ kpc = "idle"
    /\ uid \in Pods
    /\ begun = 0
    /\ snap = {}
    /\ cache = [filled |-> FALSE, pods |-> {}]
    /\ cachedAt = 0
    /\ answer = "none"

-----------------------------------------------------------------------------
(* The environment. *)

(* Time passes; a fetch does not outlive the client's timeout. *)
ClockTick ==
    /\ clock < MaxClock
    /\ kpc \in {"fetch", "reply"} => clock < begun + FetchTime
    /\ clock' = clock + 1
    /\ UNCHANGED <<podVars, clientVars>>

(* A pod is created or deleted. *)
PodChange ==
    /\ \E u \in Pods :
          /\ world' = IF u \in world THEN world \ {u} ELSE world \cup {u}
          /\ changed' = [changed EXCEPT ![u] = clock]
    /\ UNCHANGED <<clock, clientVars>>

-----------------------------------------------------------------------------
(* LookupPod. *)

Found(u, pods) == IF u \in pods THEN "found" ELSE "absent"

(* Mutation: off by one. *)
LongStale == \/ ~cache.filled
             \/ clock - cachedAt > CacheTTL

Stale == \/ ~cache.filled
         \/ clock - cachedAt >= CacheTTL

(* refreshIfStale's check; a fresh cache answers at once. *)
LookupPod(u) ==
    /\ kpc = "idle"
    /\ uid' = u
    /\ \/ /\ ~Stale
          /\ kpc' = "answered"
          /\ answer' = Found(u, cache.pods)
          /\ UNCHANGED begun
       \/ /\ Stale
          /\ kpc' = "fetch"
          /\ answer' = "none"
          /\ begun' = clock
    /\ UNCHANGED <<clock, podVars, snap, cache, cachedAt>>

(* The kubelet looks up its pods... *)
KubeletServes ==
    /\ kpc = "fetch"
    /\ kpc' = "reply"
    /\ snap' = world
    /\ UNCHANGED <<clock, podVars, uid, begun, cache, cachedAt, answer>>

(* ...and its answer is read, decoded and cached. *)
FetchReturns ==
    /\ kpc = "reply"
    /\ kpc' = "answered"
    /\ cache' = [filled |-> TRUE, pods |-> snap]
    /\ cachedAt' = clock
    /\ answer' = Found(uid, snap)
    /\ UNCHANGED <<clock, podVars, uid, begun, snap>>

(* A failure is returned; the cache stays as it is, and stale. *)
FetchError == "err"

(* A refused or broken connection, a bad status, a bad body, a timeout. *)
FetchFails ==
    /\ kpc \in {"fetch", "reply"}
    /\ kpc' = "answered"
    /\ answer' = FetchError
    /\ UNCHANGED <<clock, podVars, uid, begun, snap, cache, cachedAt>>

(* The caller goes on. *)
LookupDone ==
    /\ kpc = "answered"
    /\ kpc' = "idle"
    /\ UNCHANGED <<clock, podVars, uid, begun, snap, cache, cachedAt, answer>>

FetchStep == KubeletServes \/ FetchReturns \/ FetchFails

-----------------------------------------------------------------------------
(* Properties. *)

(***************************************************************************)
(* How old an answer can be: a pod that came, or went, CacheTTL and one    *)
(* fetch ago or earlier is reported as it is, or LookupPod fails; it never *)
(* covers up for a failing kubelet with an older list.                     *)
(***************************************************************************)
AnswerFresh ==
    [][(/\ kpc # "answered" /\ kpc' = "answered"
        /\ answer' # "err"
        /\ clock - changed[uid'] >= CacheTTL + FetchTime)
          => answer' = Found(uid', world)]_kvars
=============================================================================
