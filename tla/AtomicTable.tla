----------------------------- MODULE AtomicTable -----------------------------
(***************************************************************************)
(* What the APA driver's journal promises, with no journal in it: a table   *)
(* of partition headers that survives a power cut either as it was before   *)
(* the last batch of changes or with the whole batch, never in between.     *)
(*                                                                         *)
(*   view     the table as the driver's callers see it (through the cache) *)
(*   table    the table a restart would recover if nothing else were lost  *)
(*   durable  the tables a power cut at this moment may leave behind       *)
(*                                                                         *)
(* This module states a promise; ApaJournal is the code that keeps it.      *)
(***************************************************************************)
CONSTANTS Sectors,   \* the sectors that hold a partition header
          Headers    \* the contents a header may have

VARIABLES view, table, durable

vars == <<view, table, durable>>

Tables == [Sectors -> Headers]

Init ==
  /\ view \in Tables
  /\ table = view
  /\ durable = {view}

(* A caller edits one header in memory. *)
Edit ==
  /\ \E s \in Sectors, h \in Headers : view' = [view EXCEPT ![s] = h]
  /\ UNCHANGED <<table, durable>>

(* All the edits made so far become the table, in one step. *)
Commit ==
  /\ table' = view
  /\ durable' = durable \cup {view}
  /\ UNCHANGED view

(* The drive is known to hold the table: no older one can come back. *)
Sync ==
  /\ durable' = {table}
  /\ UNCHANGED <<view, table>>

(* Power is lost: unsynced commits may be lost, but only as a whole. *)
PowerCut ==
  /\ \E t \in durable : table' = t /\ view' = t /\ durable' = {t}

(* The driver restarts, and the drive does not: it finds the table again. *)
Restart ==
  /\ view' = table
  /\ UNCHANGED <<table, durable>>

Next == Restart \/ Edit \/ Commit \/ Sync \/ PowerCut

Spec == Init /\ [][Next]_vars
=============================================================================
