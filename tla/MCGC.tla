-------------------------------- MODULE MCGC --------------------------------
(* The collector on a small heap: the heap is ripe at two thirds of its    *)
(* cells, as with 512, and the sizes of the bit set and of the queue are   *)
(* scaled with it.                                                         *)
EXTENDS GC
=============================================================================
