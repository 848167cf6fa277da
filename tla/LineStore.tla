----------------------------- MODULE LineStore ------------------------------
(***************************************************************************)
(* What a spool promises, without files, rotation or failures: it holds    *)
(* lines.  A line enters once, and leaves only by being released, that is  *)
(* with a segment that someone who may unlinked.  Nothing else ever makes  *)
(* a line disappear, or a line that is gone for good come back.            *)
(***************************************************************************)
VARIABLES
    held,       \* the lines the spool still has
    released    \* the lines that were in a segment when it was unlinked

Init == held = {} /\ released = {}

(* Write's append. *)
Take == /\ \E l \in held' : l \notin held \cup released
                             /\ held' = held \cup {l}
        /\ UNCHANGED released

(***************************************************************************)
(* A segment goes.  A copy of a line that was released may stay behind for *)
(* a while, and go later.                                                  *)
(***************************************************************************)
Release == /\ released \subseteq released'
           /\ released' \ released \subseteq held
           /\ held' \subseteq held
           /\ held \ held' \subseteq released'

Next == Take \/ Release

Spec == Init /\ [][Next]_<<held, released>>
=============================================================================
