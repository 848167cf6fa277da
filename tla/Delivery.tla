------------------------------ MODULE Delivery ------------------------------
(***************************************************************************)
(* What memauditd promises about a line it has taken: it is delivered at   *)
(* least once, or given up for a reason (the endpoint refused it, or the   *)
(* disk budget ran out), and until then it is on this host's disk.         *)
(***************************************************************************)
VARIABLES
    held,        \* the lines on disk
    delivered,   \* the lines the endpoint has
    dropped      \* the lines given up

Lines == held \cup delivered \cup dropped

Init == held = {} /\ delivered = {} /\ dropped = {}

(* A new line is on disk as soon as it is taken. *)
Take == /\ \E l \in held' : l \notin Lines /\ held' = held \cup {l}
        /\ UNCHANGED <<delivered, dropped>>

(***************************************************************************)
(* The endpoint gets lines that were taken and no others.  They stay on    *)
(* the disk for now, or were given up while they were under way.           *)
(***************************************************************************)
Deliver == /\ delivered' \subseteq Lines
           /\ delivered \subseteq delivered'
           /\ UNCHANGED <<held, dropped>>

(* Lines leave the disk: each is with the endpoint, or is given up now. *)
Leave == /\ held' \subseteq held
         /\ held \ held' \subseteq delivered \cup dropped'
         /\ dropped \subseteq dropped'
         /\ dropped' \subseteq dropped \cup held
         /\ UNCHANGED delivered

Next == Take \/ Deliver \/ Leave

Spec == Init /\ [][Next]_<<held, delivered, dropped>>
=============================================================================
