---------------------------- MODULE VmcBlocksMC ------------------------------
(* VmcBlocks with changes to block 1 of either kind of data, and reads of    *)
(* block 2.                                                                  *)
EXTENDS VmcBlocks

MCCalls ==
    {call \in AllCalls : \/ call.cluster[1] = 1 /\ call.change
                         \/ call.cluster[2] = 0 /\ ~call.change /\ ~call.data}
=============================================================================
