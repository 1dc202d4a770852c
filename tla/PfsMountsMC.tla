--------------------------- MODULE PfsMountsMC ---------------------------
(***************************************************************************)
(* Instances of PfsMounts.  Partitions with a file system are alike, so    *)
(* they may be permuted.                                                   *)
(***************************************************************************)
EXTENDS PfsMounts, TLC

Alike == Permutations(Mountable)
=============================================================================
