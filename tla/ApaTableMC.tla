----------------------------- MODULE ApaTableMC -----------------------------
(***************************************************************************)
(* Instances of ApaTable: a format that makes one system partition.        *)
(***************************************************************************)
EXTENDS ApaTable

Net == <<"__net">>
=============================================================================
