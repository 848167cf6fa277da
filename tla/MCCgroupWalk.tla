---------------------------- MODULE MCCgroupWalk ----------------------------
(***************************************************************************)
(* The cgroup walk for TLC: every tree of at most four cgroups, three      *)
(* levels deep, some of them a pod's slice, and globs of all the shapes of *)
(* the default configuration.  Collect finds the memory controller handed  *)
(* down to the top level and below "app", and not below the others.        *)
(***************************************************************************)
EXTENDS CgroupWalk, FiniteSets

MCNames == <<"app", "pod1">>

MCTrees == {t \in SUBSET Paths : Cardinality(t) <= 4 /\ IsTree(t)}

MCDelegations == {{<<>>, <<"app">>}}

(* One file that every cgroup has, and one of the controller. *)
MCFileOrder == <<"memory.pressure", "memory.stat">>

(* "app/*", "app/**", "**", "**/pod1", and "app/**/pod1" with "pod1". *)
MCGlobSets == {{<<Seg({"app"}), Seg(Names)>>},
               {<<Seg({"app"}), DeepSeg>>},
               {<<DeepSeg>>},
               {<<DeepSeg, Seg({"pod1"})>>},
               {<<Seg({"app"}), DeepSeg, Seg({"pod1"})>>, <<Seg({"pod1"})>>}}
=============================================================================
