-------------------------------- MODULE MmceFs --------------------------------
(***************************************************************************)
(* The file system of memory card emulators, iop/mmceman: every call is a  *)
(* series of SIO2 transfers to the card of its unit, made while the bus is *)
(* borrowed from sio2man together with its interrupt handler, and each     *)
(* transfer ends by the interrupt or by an alarm, whichever is first.      *)
(*                                                                         *)
(* A call is the list of the packets it has still to send.  A packet is    *)
(* named for what is looked at in its answer: "reply" the reply constant,  *)
(* "result" the constant and a return value, "plain" nothing, "data"       *)
(* nothing either but for any number of transfers on end, "last" a         *)
(* return value looked at after the bus is returned, "fd" and "closed"     *)
(* likewise for the calls that fill and free a handle.                     *)
(***************************************************************************)
EXTENDS Integers, Sequences

CONSTANTS Threads,           \* the IOP threads that call the file system
          Units,             \* the units of the cards in use
          MMCE_FS_MAX_FD,    \* the number of handles of the driver
          FileSlots,         \* the open files that iomanX can hold
          CardFds,           \* the descriptors a card gives out
          Reserved           \* those of them from 250 up

(* A thread is none of the other users of the bus, and a descriptor is the *)
(* byte that the card sends.                                               *)
MmceAssumption ==
    /\ {"nobody", "pads"} \cap Threads = {} /\ Units \subseteq {0, 1}
    /\ MMCE_FS_MAX_FD \in Nat /\ CardFds \subseteq Nat /\ Reserved \subseteq CardFds

VARIABLES mmce_fs_fds,       \* the card's descriptor in each handle, -1 when free
          last_unit, mmce_port,
          file,              \* the iomanX file: its unit, handle and what open stored there
          owner,             \* who holds sio2man's lock
          handler,           \* whose interrupt handler is in the table
          event_flag, alarm, \* the bits of the event flag, and whether the alarm is set
          bus,               \* "idle", "busy" with a transfer, or "done" with it
          talks,             \* the port that the transfer on the bus is for
          call,              \* what each thread is doing
          overlap            \* history: where calls have met before the lock
mmceVars == <<mmce_fs_fds, last_unit, mmce_port, file, owner, handler, event_flag,
              alarm, bus, talks, call, overlap>>

Handles == 1..MMCE_FS_MAX_FD
PortOf(unit) == 2 + unit
NoFile == [unit |-> 0, handle |-> 0, fd |-> -1]
Resting == [at |-> "out", unit |-> 0, file |-> 0, handle |-> 0, calls |-> {}, todo |-> <<>>]

(* The calls that have met a call of the other unit or a change of the     *)
(* port, whether two changes of the port have met, and the handles that    *)
(* two opens have chosen at once.                                          *)
NoOverlap == [calls |-> {}, port |-> FALSE, handles |-> {}]
-----------------------------------------------------------------------------
(* The packets of the calls. *)
mmce_fs_open   == <<"reply", "plain", "fd">>
mmce_fs_dopen  == <<"reply", "plain", "fd">>
mmce_fs_close  == <<"closed">>
mmce_fs_dclose == <<"closed">>
mmce_fs_read   == <<"result", "data", "plain">>
mmce_fs_write  == <<"result", "data", "plain">>
mmce_fs_lseek  == <<"last">>
mmce_fs_lseek64 == <<"last">>
mmce_fs_remove == <<"reply", "plain", "last">>
mmce_fs_mkdir  == <<"reply", "plain", "last">>
mmce_fs_rmdir  == <<"reply", "plain", "last">>
mmce_fs_dread  == <<"result", "plain", "plain", "plain">>
mmce_fs_getstat == <<"reply", "plain", "plain">>
mmce_fs_rename == <<"reply", "plain", "plain", "last">>

(* The commands of devctl, each a single packet. *)
mmce_cmd_ping        == <<"last">>
mmce_cmd_get_status  == <<"last">>
mmce_cmd_get_card    == <<"last">>
mmce_cmd_set_card    == <<"last">>
mmce_cmd_get_channel == <<"last">>
mmce_cmd_set_channel == <<"last">>
mmce_cmd_get_gameid  == <<"last">>
mmce_cmd_set_gameid  == <<"last">>
mmce_cmd_reset       == <<"last">>
mmce_cmd_set_card_channel == <<"last">>
mmce_fs_devctl ==
    {mmce_cmd_ping, mmce_cmd_get_status, mmce_cmd_get_card, mmce_cmd_set_card, mmce_cmd_get_channel,
     mmce_cmd_set_channel, mmce_cmd_get_gameid, mmce_cmd_set_gameid, mmce_cmd_reset,
     mmce_cmd_set_card_channel}

(* The calls that differ only in their packets. *)
OnFile == {mmce_fs_read, mmce_fs_write, mmce_fs_lseek, mmce_fs_lseek64, mmce_fs_dread}
OnPath == {mmce_fs_remove, mmce_fs_mkdir, mmce_fs_rmdir, mmce_fs_getstat, mmce_fs_rename}
          \cup mmce_fs_devctl
-----------------------------------------------------------------------------
(* A call before the lock, where nothing keeps two threads apart: the port *)
(* is changed in two assignments, and an open chooses a handle that it     *)
(* fills only at its end.                                                  *)
Inside == {t \in Threads : call[t].at # "out"}
UsedFiles == {call[t].file : t \in Inside}
Opening(t) == mmce_fs_open \in call[t].calls
Closing(t) == mmce_fs_close \in call[t].calls
Moves(t, at) == call' = [call EXCEPT ![t].at = at]
Done(t) ==
    /\ call' = [call EXCEPT ![t] = Resting]
    /\ overlap' = [overlap EXCEPT !.calls = @ \ {t}]

(* Variant: the port is only set when the driver has none yet. *)
UpdateUnitOnce(unit) == last_unit = -1

(* Whether the port must change. *)
mmce_fs_update_unit(unit) == unit # last_unit

(* What the beginning of a call of t makes of the history. *)
Meets(t, unit) ==
    LET changing == {u \in Inside : call[u].at = "port"}
        others   == {u \in Inside : call[u].unit # unit} IN
    [overlap EXCEPT !.calls = @ \cup others \cup IF changing \cup others # {} THEN {t} ELSE {},
                    !.port = IF unit = last_unit THEN @ ELSE changing # {}]

(* An open and a close look at their handle next, the others are ready. *)
Ready(calls) == IF mmce_fs_open \in calls \/ mmce_fs_close \in calls THEN "handle" ELSE "lock"

Enter(t, unit, f, handle, calls) ==
    /\ call[t] = Resting
    /\ last_unit' = unit
    /\ call' = [call EXCEPT ![t] = [at |-> IF mmce_fs_update_unit(unit) THEN "port" ELSE Ready(calls),
                                    unit |-> unit, file |-> f, handle |-> handle,
                                    calls |-> calls, todo |-> <<>>]]
    /\ overlap' = Meets(t, unit)
    /\ UNCHANGED <<mmce_fs_fds, mmce_port, file, owner, handler, event_flag, alarm, bus, talks>>

Open(t, unit, f) ==
    /\ file[f] = NoFile /\ f \notin UsedFiles
    /\ Enter(t, unit, f, 0, {mmce_fs_open, mmce_fs_dopen})

OnOpenFile(t, f) ==
    /\ file[f] # NoFile /\ f \notin UsedFiles
    /\ \E calls \in {OnFile, {mmce_fs_close, mmce_fs_dclose}} :
          Enter(t, file[f].unit, f, file[f].handle, calls)

OnAPath(t, unit) == Enter(t, unit, 0, 0, OnPath)

mmce_sio2_set_port(t) ==
    /\ call[t].at = "port"
    /\ mmce_port' = PortOf(call[t].unit)
    /\ Moves(t, Ready(call[t].calls))
    /\ UNCHANGED <<mmce_fs_fds, last_unit, file, owner, handler, event_flag, alarm, bus, talks, overlap>>

(* Variant: a handle that holds the first descriptor of a card is free. *)
FreeBelowOne == {i \in Handles : mmce_fs_fds[i] <= 1}

FreeHandles == {i \in Handles : mmce_fs_fds[i] < 0}

mmce_fs_find_free_handle ==
    IF FreeHandles = {} THEN 0 ELSE CHOOSE i \in FreeHandles : \A j \in FreeHandles : i <= j

(* Without a free handle open fails before it takes the lock. *)
ChooseHandle(t) ==
    LET h == mmce_fs_find_free_handle
        shared == \E u \in Threads \ {t} : Opening(u) /\ call[u].handle = h IN
    /\ call[t].at = "handle" /\ Opening(t)
    /\ \/ h = 0 /\ Done(t)
       \/ /\ h # 0
          /\ call' = [call EXCEPT ![t].at = "lock", ![t].handle = h]
          /\ overlap' = [overlap EXCEPT !.handles = IF shared THEN @ \cup {h} ELSE @]
    /\ UNCHANGED <<mmce_fs_fds, last_unit, mmce_port, file, owner, handler, event_flag, alarm, bus, talks>>

(* The close of a file with a reserved descriptor, unlike that of a        *)
(* directory, sends nothing and leaves the handle taken.                   *)
LookAtHandle(t) ==
    /\ call[t].at = "handle" /\ Closing(t)
    /\ \/ Moves(t, "lock") /\ UNCHANGED <<file, overlap>>
       \/ /\ mmce_fs_fds[call[t].handle] \in Reserved
          /\ file' = [file EXCEPT ![call[t].file] = NoFile]
          /\ Done(t)
    /\ UNCHANGED <<mmce_fs_fds, last_unit, mmce_port, owner, handler, event_flag, alarm, bus, talks>>
-----------------------------------------------------------------------------
(* The bus. *)
mmce_sio2_lock(t) ==
    /\ call[t].at = "lock" /\ owner = "nobody"
    /\ owner' = t /\ handler' = "mmce"
    /\ \E todo \in call[t].calls : call' = [call EXCEPT ![t].at = "send", ![t].todo = todo]
    /\ UNCHANGED <<mmce_fs_fds, last_unit, mmce_port, file, event_flag, alarm, bus, talks, overlap>>

(* The transfer is started and its alarm set: an interrupt between the two *)
(* does the same as one right after.                                       *)
Send(t) ==
    /\ call[t].at = "send"
    /\ bus' = "busy" /\ talks' = mmce_port /\ alarm' = TRUE
    /\ Moves(t, "wait")
    /\ UNCHANGED <<mmce_fs_fds, last_unit, mmce_port, file, owner, handler, event_flag, overlap>>

(* Variant: the interrupt is looked at first, and its alarm forgotten. *)
CompletesFirst(t) ==
    /\ call[t].at = "wait" /\ "COMPLETE" \in event_flag
    /\ Moves(t, "clear")
    /\ UNCHANGED <<mmce_fs_fds, last_unit, mmce_port, file, owner, handler, event_flag, alarm,
                   bus, talks, overlap>>

(* The bits that are set when the wait ends decide the transfer: with the  *)
(* time-out among them SIO2 is reset and the call returns -1.              *)
Completes(t) ==
    /\ call[t].at = "wait" /\ event_flag = {"COMPLETE"}
    /\ Moves(t, "cancel")
    /\ UNCHANGED <<mmce_fs_fds, last_unit, mmce_port, file, owner, handler, event_flag, alarm,
                   bus, talks, overlap>>

(* Variant: the event flag is left as it was. *)
TimesOutUncleared(t) ==
    /\ call[t].at = "wait" /\ "TIMEOUT" \in event_flag
    /\ bus' = "idle" /\ event_flag' = event_flag
    /\ Moves(t, "failed")
    /\ UNCHANGED <<mmce_fs_fds, last_unit, mmce_port, file, owner, handler, alarm, talks, overlap>>

TimesOut(t) ==
    /\ call[t].at = "wait" /\ "TIMEOUT" \in event_flag
    /\ bus' = "idle" /\ event_flag' = {}
    /\ Moves(t, "failed")
    /\ UNCHANGED <<mmce_fs_fds, last_unit, mmce_port, file, owner, handler, alarm, talks, overlap>>

(* Variant: the flag is cleared, and then the alarm cancelled. *)
ClearsBefore(t) ==
    \/ /\ call[t].at = "cancel"
       /\ event_flag' = {}
       /\ Moves(t, "late")
       /\ UNCHANGED <<mmce_fs_fds, last_unit, mmce_port, file, owner, handler, alarm, bus, talks, overlap>>
    \/ /\ call[t].at = "late"
       /\ alarm' = FALSE
       /\ Moves(t, "answer")
       /\ UNCHANGED <<mmce_fs_fds, last_unit, mmce_port, file, owner, handler, event_flag, bus, talks, overlap>>

CancelAlarm(t) ==
    /\ call[t].at = "cancel"
    /\ alarm' = FALSE
    /\ Moves(t, "clear")
    /\ UNCHANGED <<mmce_fs_fds, last_unit, mmce_port, file, owner, handler, event_flag, bus, talks, overlap>>

ClearEventFlag(t) ==
    /\ call[t].at = "clear"
    /\ event_flag' = {}
    /\ Moves(t, "answer")
    /\ UNCHANGED <<mmce_fs_fds, last_unit, mmce_port, file, owner, handler, alarm, bus, talks, overlap>>

(* Variant: the interrupt handler stays. *)
UnlockOnly(t) == owner' = "nobody" /\ bus' = "idle" /\ talks' = 0 /\ UNCHANGED handler
-----------------------------------------------------------------------------
(* What a call does with the answer to a packet, and how it ends.          *)
mmce_sio2_unlock(t) ==
    owner' = "nobody" /\ handler' = "sio2man" /\ bus' = "idle" /\ talks' = 0

(* A packet in the middle: the call goes on, after data possibly with more *)
(* of it, unless the answer is bad.                                        *)
Goes(t) ==
    /\ call[t].at = "answer" /\ Len(call[t].todo) > 1
    /\ \E todo \in {Tail(call[t].todo)} \cup IF Head(call[t].todo) = "data" THEN {call[t].todo} ELSE {} :
          call' = [call EXCEPT ![t].todo = todo, ![t].at = "send"]
    /\ UNCHANGED <<mmce_fs_fds, last_unit, mmce_port, file, owner, handler, event_flag,
                   alarm, bus, talks, overlap>>

BadAnswer(t) ==
    /\ call[t].at = "answer" /\ Len(call[t].todo) > 1
    /\ Head(call[t].todo) \in {"reply", "result"}
    /\ Moves(t, "failed")
    /\ UNCHANGED <<mmce_fs_fds, last_unit, mmce_port, file, owner, handler, event_flag,
                   alarm, bus, talks, overlap>>

(* A close that fails lets go of the file of iomanX but not of the handle. *)
Failed(t) ==
    /\ call[t].at = "failed"
    /\ file' = IF mmce_fs_close \in call[t].calls THEN [file EXCEPT ![call[t].file] = NoFile] ELSE file
    /\ mmce_sio2_unlock(t) /\ Done(t)
    /\ UNCHANGED <<mmce_fs_fds, last_unit, mmce_port, event_flag, alarm>>

Answered(t, packet) ==
    /\ call[t].at = "answer" /\ call[t].todo = <<packet>>
    /\ mmce_sio2_unlock(t) /\ Done(t)
    /\ UNCHANGED <<last_unit, mmce_port, event_flag, alarm>>

Ends(t) ==
    /\ \E packet \in {"plain", "last"} : Answered(t, packet)
    /\ UNCHANGED <<mmce_fs_fds, file>>

(* The card answers an open with a descriptor, or with 0xff. *)
Opened(t) ==
    LET c == call[t] IN
    /\ Answered(t, "fd")
    /\ \/ UNCHANGED <<mmce_fs_fds, file>>
       \/ \E fd \in CardFds :
             /\ mmce_fs_fds' = [mmce_fs_fds EXCEPT ![c.handle] = fd]
             /\ file' = [file EXCEPT ![c.file] = [unit |-> c.unit, handle |-> c.handle, fd |-> fd]]

(* A handle is free again only when the card says that it closed the file. *)
Closed(t) ==
    LET c == call[t] IN
    /\ Answered(t, "closed")
    /\ file' = [file EXCEPT ![c.file] = NoFile]
    /\ \/ mmce_fs_fds' = [mmce_fs_fds EXCEPT ![c.handle] = -1]
       \/ UNCHANGED mmce_fs_fds
-----------------------------------------------------------------------------
(* The interrupt, the alarm, and the pads' own use of the bus. *)
Interrupt ==
    /\ bus = "busy" /\ bus' = "done"
    /\ event_flag' = IF handler = "mmce" THEN event_flag \cup {"COMPLETE"} ELSE event_flag
    /\ UNCHANGED <<mmce_fs_fds, last_unit, mmce_port, file, owner, handler, alarm, talks, call, overlap>>

mmce_sio2_timeout_handler ==
    /\ alarm /\ alarm' = FALSE
    /\ event_flag' = event_flag \cup {"TIMEOUT"}
    /\ UNCHANGED <<mmce_fs_fds, last_unit, mmce_port, file, owner, handler, bus, talks, call, overlap>>

PadBegins ==
    /\ owner = "nobody" /\ owner' = "pads" /\ bus' = "busy" /\ talks' = 0
    /\ UNCHANGED <<mmce_fs_fds, last_unit, mmce_port, file, handler, event_flag, alarm, call, overlap>>

PadEnds ==
    /\ owner = "pads" /\ bus = "done" /\ owner' = "nobody" /\ bus' = "idle" /\ talks' = 0
    /\ UNCHANGED <<mmce_fs_fds, last_unit, mmce_port, file, handler, event_flag, alarm, call, overlap>>

MmceFsInit ==
    /\ mmce_fs_fds = [i \in Handles |-> -1]
    /\ last_unit = -1 /\ mmce_port = 3
    /\ file = [f \in FileSlots |-> NoFile]
    /\ owner = "nobody" /\ handler = "sio2man"
    /\ event_flag = {} /\ alarm = FALSE /\ bus = "idle" /\ talks = 0
    /\ call = [t \in Threads |-> Resting] /\ overlap = NoOverlap

Transfer(t) ==
    \/ Send(t) \/ Completes(t) \/ TimesOut(t)
    \/ CancelAlarm(t) \/ ClearEventFlag(t)

MmceFsNext ==
    \/ \E t \in Threads :
          \/ \E f \in FileSlots : (\E unit \in Units : Open(t, unit, f)) \/ OnOpenFile(t, f)
          \/ \E unit \in Units : OnAPath(t, unit)
          \/ mmce_sio2_set_port(t) \/ ChooseHandle(t) \/ LookAtHandle(t)
          \/ mmce_sio2_lock(t) \/ Transfer(t)
          \/ Goes(t) \/ BadAnswer(t) \/ Failed(t) \/ Ends(t) \/ Opened(t) \/ Closed(t)
    \/ Interrupt \/ mmce_sio2_timeout_handler \/ PadBegins \/ PadEnds

Spec == MmceFsInit /\ [][MmceFsNext]_mmceVars
-----------------------------------------------------------------------------
(* Whoever else takes the bus finds it as sio2man left it: its own handler *)
(* in the table, no transfer under way that is not its own, and no alarm   *)
(* or event bit of an earlier transfer that would end the next one.        *)
BusReturned ==
    /\ owner \notin Threads => handler = "sio2man" /\ ~alarm /\ event_flag = {}
    /\ owner = "nobody" => bus = "idle"
    /\ \A t \in Threads : call[t].at = "send" => ~alarm /\ event_flag = {}

(* A transfer that a call takes as complete was answered, and by the card  *)
(* of its unit, unless the call has met one of the other unit or a change  *)
(* of the port, or two changes of the port have met before.                *)
AnswerReal ==
    \A t \in Threads : call[t].at = "answer" =>
        /\ bus = "done"
        /\ t \in overlap.calls \/ overlap.port \/ talks = PortOf(call[t].unit)

(* The handle of an open file holds the descriptor that the card gave for  *)
(* it, and no two open files share it, unless two opens chose it at once.  *)
HandlesTrue ==
    \A f \in FileSlots : file[f] # NoFile /\ file[f].handle \notin overlap.handles =>
        /\ mmce_fs_fds[file[f].handle] = file[f].fd
        /\ \A g \in FileSlots \ {f} : file[g].handle # file[f].handle

(* Whatever the order of the interrupt, the alarm, the threads and the     *)
(* pads, and wherever a call times out: the bus goes back as it was, and   *)
(* but for the calls that met where the driver has no lock an answer is of *)
(* the card that was asked and each open file has its own handle with the  *)
(* descriptor of the card (iop/mmceman).                                   *)
MmceFsSafe == BusReturned /\ AnswerReal /\ HandlesTrue
===============================================================================
