---------------------------- MODULE AddressSpace ----------------------------
(***************************************************************************)
(* What kernel/vmm.c promises: a map from virtual to physical pages, where  *)
(* an operation on one page leaves every other page as it was.              *)
(***************************************************************************)
CONSTANTS Pages, Physical, NotMapped, Initial

VARIABLE space    \* virtual page -> physical page or NotMapped

Init == space = Initial

MapPage == \E v \in Pages, p \in Physical : space' = [space EXCEPT ![v] = p]

UnmapPage == \E v \in Pages : space' = [space EXCEPT ![v] = NotMapped]

Next == MapPage \/ UnmapPage

Spec == Init /\ [][Next]_space
=============================================================================
