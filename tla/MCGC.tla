-------------------------------- MODULE MCGC --------------------------------
EXTENDS GCTaskDAG

CONSTANTS v1, v2, o1, o2, i1, p1, p2, p3

MCHome == (o1 :> v1) @@ (o2 :> v1) @@ (i1 :> v2)
MCLoaded == (o1 :> p1) @@ (o2 :> p2)
MCThreshold == [t \in JobType |->
                 CASE t \in {"VPRowDefrag", "EPRowDefrag", "TopoRowDefrag"} -> 2
                   [] t \in {"VPRowGC", "EraseOutE", "EraseInE"} -> 2
                   [] t \in {"VMVCCGC", "VPMVCCGC", "EPMVCCGC", "EMVCCGC"} -> 3
                   [] OTHER -> 1]
(* A threshold that two defragmentations do not reach. *)
MCThresholdHigh == [MCThreshold EXCEPT !["EPRowDefrag"] = 3]
=============================================================================
