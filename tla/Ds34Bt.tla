------------------------------- MODULE Ds34Bt --------------------------------
(***************************************************************************)
(* The Bluetooth driver for DualShock controllers                          *)
(* (iop/ds34bt/iop/ds34bt.c).                                              *)
(*                                                                         *)
(* Three threads meet in it.  USB callbacks handle the events of the       *)
(* adapter (HCI) and the packets of the controllers (L2CAP), one after the *)
(* other; the hub thread reports that the adapter is plugged or unplugged; *)
(* and an RPC thread serves the program.  The callbacks only poll the      *)
(* semaphore and go on whatever the answer, so they may run in the middle  *)
(* of an RPC, and one callback sleeps half-way.                            *)
(*                                                                         *)
(* The adapter and the controllers are external: the adapter numbers its   *)
(* links, reports in order, and a reset drops every link; a controller     *)
(* answers what it is asked, in any order, or drops the link.              *)
(***************************************************************************)
EXTENDS Integers, Sequences, FiniteSetsExt

CONSTANTS MAX_PADS, Pads, Handles,
    Kind,                   \* of each controller: "DS3", "DS4" or "fake", a copy of a DualShock 3
    MaxEvents,              \* that wait for the driver
    MaxPages                \* requests for a link in a behaviour

VARIABLES bt_dev, ds34pad, hid_sema, rpc, cb, adapter, taken, pages
btVars == <<bt_dev, ds34pad, hid_sema, rpc, cb, adapter, taken, pages>>

Slots == 1..MAX_PADS
None == 0                   \* no handle (0x0FFF), no channel, no controller
Channels == {"control", "interrupt"}
NoChannel == [c \in Channels |-> None]
Up == bt_dev.up             \* the transfers of the adapter are running

ds34pad_clear ==
    [bdaddr |-> None, hci_handle |-> None, scid |-> NoChannel, status |-> {}, isfake |-> FALSE]
ds34pad_init == [s \in Slots |-> ds34pad_clear]
(* The loops over ds34pad take the first slot that fits.                   *)
First(P(_)) == IF \E s \in Slots : P(s) THEN Min({s \in Slots : P(s)}) ELSE None
-----------------------------------------------------------------------------
(* The adapter.                                                            *)

NoLink == [bdaddr |-> None, open |-> {}, asked |-> {}]
NoAdapter == [links |-> [h \in Handles |-> NoLink], paging |-> {}, scan |-> FALSE, events |-> <<>>]
Live(air, h) == h # None /\ air.links[h] # NoLink
Reports(air, event) == [air EXCEPT !.events = Append(@, event)]
(* The adapter takes the first handle that no link has and that it does    *)
(* not have to report as lost.                                             *)
Free(air) ==
    LET free == {h \in Handles : air.links[h] = NoLink /\ \A i \in 1..Len(air.events) :
                                   air.events[i].what = "DISCONN_COMPLETE" => air.events[i].handle # h}
    IN {h \in free : \A g \in free : h <= g}

Done(what, ok) == [what |-> what, ok |-> ok]
Completes(air, command) == {Reports(air, Done(command, ok)) : ok \in BOOLEAN}

hci_reset(air) == Completes(NoAdapter, "RESET")

hci_write_scan_enable(air) ==
    {Reports([air EXCEPT !.scan = TRUE], Done("WRITE_SCAN_ENABLE", TRUE)),
     Reports(air, Done("WRITE_SCAN_ENABLE", FALSE))}

hci_accept_connection(air, p) ==
    LET answered == [air EXCEPT !.paging = @ \ {p}] IN
    {Reports(answered, [what |-> "CONNECT_COMPLETE", ok |-> FALSE, bdaddr |-> p, handle |-> None])}
    \cup {Reports([answered EXCEPT !.links[h] = [NoLink EXCEPT !.bdaddr = p]],
                  [what |-> "CONNECT_COMPLETE", ok |-> TRUE, bdaddr |-> p, handle |-> h]) : h \in Free(air)}

hci_reject_connection(air, p) == {[air EXCEPT !.paging = @ \ {p}]}

hci_disconnect(air, h) ==
    {IF Live(air, h)
     THEN Reports([air EXCEPT !.links[h] = NoLink], [what |-> "DISCONN_COMPLETE", handle |-> h])
     ELSE air}

hci_remote_name(air, p) ==
    {Reports(air, [what |-> "REMOTE_NAME_COMPLETE", ok |-> ok, bdaddr |-> p]) : ok \in BOOLEAN}

(* hci_cmd_buf is filled again before its first transfer is over: the      *)
(* first command goes out as it was, or not at all.                        *)
Overlap(first, air) == first \cup {air}

(* What the driver asks of a controller, over L2CAP.                       *)
Asks(air, h, what, c) ==
    IF Live(air, h) THEN [air EXCEPT !.links[h].asked = @ \cup {<<what, c>>}] ELSE air
l2cap_connection_request(air, h, c) == Asks(air, h, "connection", c)
l2cap_config_request(air, h, c) == Asks(air, h, "config", c)
l2cap_disconnection_request(air, h, c) == Asks(air, h, "disconnection", c)
-----------------------------------------------------------------------------
(* A callback changes the slots and the adapter: <<ds34pad, bt_dev,        *)
(* adapter, taken>> of each possible end.                                  *)

Same == [pads |-> ds34pad, dev |-> bt_dev, taken |-> taken]
With(airs, rest) == {[air |-> air, pads |-> rest.pads, dev |-> rest.dev, taken |-> rest.taken] : air \in airs}

(* The commands that set up the adapter, each sent when the one before it  *)
(* has completed; after a failure all starts again.                        *)
CommandComplete(air, e) ==
    IF ~e.ok THEN With(hci_reset(air), Same)
    ELSE CASE e.what = "RESET" -> With(Completes(air, "READ_BDADDR"), Same)
           [] e.what = "READ_BDADDR" ->
                With(Completes(air, "READ_VERSION"), [Same EXCEPT !.dev.bdaddr = "this"])
           [] e.what = "READ_VERSION" -> With(Completes(air, "READ_FEATURES"), Same)
           [] e.what = "READ_FEATURES" -> With(hci_write_scan_enable(air), Same)
           [] OTHER -> With({air}, [Same EXCEPT !.dev.status = @ \cup {"CONFIGURED"}])

(* Variant: the slot keeps the flags of its last controller.               *)
ConnectRequestKeepsFlags(air, e) ==
    LET s == First(LAMBDA i : "RUNNING" \notin ds34pad[i].status) IN
    IF s = None THEN With(hci_reject_connection(air, e.bdaddr), Same)
    ELSE With(hci_accept_connection(air, e.bdaddr),
              [Same EXCEPT !.pads[s].bdaddr = e.bdaddr, !.pads[s].isfake = Kind[e.bdaddr] = "fake"])
(* A slot that is not running is taken, from a controller that is still    *)
(* setting up its channels as well: that one is asked to disconnect, but   *)
(* the slot keeps its handle until the new link is complete, and the end   *)
(* of the old link then clears the slot of the new controller.  `taken`    *)
(* has the controllers that may be without a slot because of this.         *)
ConnectRequest(air, e) ==
    LET Waits(s) == "CONNECTED" \in ds34pad[s].status /\ "DISCONNECTING" \in ds34pad[s].status
        s == First(LAMBDA i : "RUNNING" \notin ds34pad[i].status /\ ~Waits(i))
    IN IF s = None THEN With(hci_reject_connection(air, e.bdaddr), Same)
       ELSE LET old == ds34pad[s].hci_handle
                dropped == IF "CONNECTED" \in ds34pad[s].status
                           THEN Overlap(hci_disconnect(air, old), air) ELSE {air}
            IN With(UNION {hci_accept_connection(a, e.bdaddr) : a \in dropped},
                    [Same EXCEPT !.pads[s].bdaddr = e.bdaddr,
                                 !.pads[s].isfake = Kind[e.bdaddr] = "fake",
                                 !.pads[s].status = @ \ {"CONNECTED", "RUNNING", "DISCONNECTING"},
                                 !.taken = (@ \ {e.bdaddr}) \cup IF old = None THEN {ds34pad[s].bdaddr} \ {None, e.bdaddr}
                                                                        ELSE {ds34pad[s].bdaddr, e.bdaddr}])

ConnectComplete(air, e) ==
    LET s == First(LAMBDA i : ds34pad[i].bdaddr = e.bdaddr) IN
    IF ~e.ok \/ s = None THEN With({air}, Same)
    ELSE With(hci_remote_name(air, e.bdaddr),
              [Same EXCEPT !.pads[s].hci_handle = e.handle, !.pads[s].status = @ \cup {"CONNECTED"}])

(* Variant: the flags of the slot stay.                                    *)
DisconnKeepsFlags(air, e) ==
    LET s == First(LAMBDA i : ds34pad[i].hci_handle = e.handle) IN
    With({air}, IF s = None THEN Same ELSE [Same EXCEPT !.pads[s].hci_handle = None])
DisconnComplete(air, e) ==
    LET s == First(LAMBDA i : ds34pad[i].hci_handle = e.handle) IN
    With({air}, IF s = None THEN Same ELSE [Same EXCEPT !.pads[s] = ds34pad_clear])

RemoteNameComplete(air, e) ==
    LET s == First(LAMBDA i : ds34pad[i].bdaddr = e.bdaddr) IN
    IF ~e.ok \/ s = None THEN With({air}, Same)
    ELSE IF Kind[e.bdaddr] = "DS4"
    THEN With({l2cap_connection_request(air, ds34pad[s].hci_handle, "control")},
              [Same EXCEPT !.pads[s].isfake = FALSE])
    ELSE With({air}, Same)

(* hci_event_cb: the callback polls the semaphore and gives it back even   *)
(* when the RPC thread holds it.                                           *)
HCI_event_task ==
    /\ Up /\ cb = None /\ adapter.events # <<>>
    /\ LET e == Head(adapter.events)
           air == [adapter EXCEPT !.events = Tail(@)]
       IN \E end \in CASE e.what = "CONNECT_REQUEST" -> ConnectRequest(air, e)
                       [] e.what = "CONNECT_COMPLETE" -> ConnectComplete(air, e)
                       [] e.what = "DISCONN_COMPLETE" -> DisconnComplete(air, e)
                       [] e.what = "REMOTE_NAME_COMPLETE" -> RemoteNameComplete(air, e)
                       [] OTHER -> CommandComplete(air, e) :
            /\ adapter' = end.air /\ ds34pad' = end.pads /\ bt_dev' = end.dev /\ taken' = end.taken
    /\ hid_sema' = 1
    /\ UNCHANGED <<rpc, cb, pages>>
-----------------------------------------------------------------------------
(* The packets of a controller, with their effect on its slot s: pairs of  *)
(* the slot and the adapter.                                               *)

Opened(air, h, c) == [air EXCEPT !.links[h].open = @ \cup {c}]
Closed(air, h, c) == [air EXCEPT !.links[h].open = @ \ {c}]
Answered(air, h, what, c) == [air EXCEPT !.links[h].asked = @ \ {<<what, c>>}]

ConnectionRequest(slot, air, h, c) ==
    [slot |-> [slot EXCEPT !.scid[c] = h],
     air |-> l2cap_config_request(Opened(air, h, c), h, c)]

ConnectionResponse(slot, air, h, c, ok) ==
    LET heard == Answered(air, h, "connection", c) IN
    IF ~ok THEN [slot |-> slot, air |-> heard]
    ELSE [slot |-> [slot EXCEPT !.scid[c] = h],
          air |-> l2cap_config_request(Opened(heard, h, c), h, c)]

(* The response for the interrupt channel is handled by Interrupts below.  *)
ControlConfigured(slot, air, h) ==
    [slot |-> slot, air |-> l2cap_connection_request(Answered(air, h, "config", "control"), h, "interrupt")]

DisconnectRequest(slot, air, h, c) ==
    [slot |-> [slot EXCEPT !.status = @ \cup {"DISCONNECTING"}], air |-> Closed(air, h, c)]

DisconnectResponse(slot, air, h, c) ==
    LET heard == Closed(Answered(air, h, "disconnection", c), h, c) IN
    IF slot.scid[c] # h THEN [slot |-> slot, air |-> heard]
    ELSE [slot |-> [slot EXCEPT !.status = @ \cup {"DISCONNECTING"}],
          air |-> IF c = "control" THEN CHOOSE a \in hci_disconnect(heard, h) : TRUE
                  ELSE l2cap_disconnection_request(heard, h, "control")]

Packets(slot, air, h) ==
    LET link == air.links[h]
        Asked(what) == {c \in Channels : <<what, c>> \in link.asked}
        Shut == Channels \ link.open
    IN {ConnectionRequest(slot, air, h, c) : c \in IF Kind[link.bdaddr] = "DS4" THEN {} ELSE Shut}
       \cup {ConnectionResponse(slot, air, h, c, ok) : c \in Asked("connection"), ok \in BOOLEAN}
       \cup {ControlConfigured(slot, air, h) : c \in Asked("config") \cap {"control"}}
       \cup {DisconnectRequest(slot, air, h, c) : c \in link.open}
       \cup {DisconnectResponse(slot, air, h, c) : c \in Asked("disconnection")}
       \cup {[slot |-> slot, air |-> air] : c \in {"interrupt"} \cap link.open}      \* hid_readReport

(* After every packet: a disconnection that was asked for is begun.        *)
AfterPacket(end) ==
    LET slot == end.slot  h == slot.hci_handle IN
    IF ~({"RUNNING", "DISCONNECT_REQUEST"} \subseteq slot.status) THEN end
    ELSE [slot |-> [slot EXCEPT !.status = @ \ {"DISCONNECT_REQUEST"}],
          air |-> IF slot.isfake THEN CHOOSE a \in hci_disconnect(end.air, h) : TRUE
                  ELSE l2cap_disconnection_request(end.air, h, "interrupt")]

SlotOf(h) == First(LAMBDA i : ds34pad[i].hci_handle = h)

L2CAP_event_task ==
    /\ Up /\ cb = None
    /\ \E h \in Handles :
        /\ Live(adapter, h) /\ Len(adapter.events) < MaxEvents
        /\ IF SlotOf(h) = None
           THEN UNCHANGED <<ds34pad, adapter>>           \* L2CAP Wrong Handle
           ELSE \E end \in {AfterPacket(e) : e \in Packets(ds34pad[SlotOf(h)], adapter, h)} :
                    ds34pad' = [ds34pad EXCEPT ![SlotOf(h)] = end.slot] /\ adapter' = end.air
    /\ hid_sema' = 1
    /\ UNCHANGED <<bt_dev, rpc, cb, taken, pages>>

(* The interrupt channel is configured.  The driver sends its commands     *)
(* with a pause between them, in which others run, and then takes the      *)
(* controller as running.                                                  *)
InterruptConfigured ==
    /\ Up /\ cb = None
    /\ \E h \in Handles :
        /\ Live(adapter, h) /\ <<"config", "interrupt">> \in adapter.links[h].asked
        /\ SlotOf(h) # None
        /\ adapter' = Answered(adapter, h, "config", "interrupt")
        /\ cb' = SlotOf(h)
    /\ hid_sema' = 0
    /\ UNCHANGED <<bt_dev, ds34pad, rpc, taken, pages>>

ControllerRuns ==
    /\ cb # None
    /\ LET end == AfterPacket([slot |-> [ds34pad[cb] EXCEPT !.status = @ \cup {"RUNNING"}], air |-> adapter]) IN
       ds34pad' = [ds34pad EXCEPT ![cb] = end.slot] /\ adapter' = end.air
    /\ cb' = None /\ hid_sema' = 1
    /\ UNCHANGED <<bt_dev, rpc, taken, pages>>
-----------------------------------------------------------------------------
(* The hub thread.                                                         *)

bt_connect ==
    /\ ~Up /\ "AUTHORIZED" \notin bt_dev.status
    /\ bt_dev' = [bt_dev EXCEPT !.status = {"AUTHORIZED"}]
    /\ UNCHANGED <<ds34pad, hid_sema, rpc, cb, adapter, taken, pages>>

(* Variant: the slots are taken to be empty, as bt_disconnect left them.   *)
ConfigKeepsSlots ==
    /\ ~Up /\ "AUTHORIZED" \in bt_dev.status /\ cb = None
    /\ bt_dev' = [bt_dev EXCEPT !.up = TRUE, !.bdaddr = IF @ = "none" THEN @ ELSE "another's"]
    /\ adapter' \in hci_reset(NoAdapter)
    /\ hid_sema' = 1
    /\ taken' = {} /\ pages' = 0
    /\ UNCHANGED <<ds34pad, rpc, cb>>
(* The callback of the first transfer.  The address that is known, if any, *)
(* is of an adapter that was plugged before.                               *)
bt_config_set ==
    /\ ~Up /\ "AUTHORIZED" \in bt_dev.status /\ cb = None
    /\ bt_dev' = [bt_dev EXCEPT !.up = TRUE, !.bdaddr = IF @ = "none" THEN @ ELSE "another's"]
    /\ adapter' \in hci_reset(NoAdapter)
    /\ ds34pad' = ds34pad_init /\ taken' = {} /\ pages' = 0
    /\ hid_sema' = 1
    /\ UNCHANGED <<rpc, cb>>

bt_disconnect ==
    /\ "AUTHORIZED" \in bt_dev.status
    /\ bt_dev' = [bt_dev EXCEPT !.up = FALSE, !.status = {}]
    /\ adapter' = NoAdapter
    /\ ds34pad' = ds34pad_init /\ taken' = {} /\ pages' = 0
    /\ hid_sema' = 1
    /\ UNCHANGED <<rpc, cb>>
-----------------------------------------------------------------------------
(* The RPC thread.  Every call takes the semaphore for its access to a     *)
(* slot, and ds34bt_reset takes it again and again.                        *)

Idle == [pad |-> None, at |-> "idle"]
ResetCalled ==
    /\ rpc = Idle /\ "AUTHORIZED" \in bt_dev.status /\ hid_sema = 1
    /\ rpc' = [pad |-> 1, at |-> "held"] /\ hid_sema' = 0
    /\ UNCHANGED <<bt_dev, ds34pad, cb, adapter, taken, pages>>

WaitSema ==
    /\ rpc.at \in {"wait", "poll"} /\ hid_sema = 1
    /\ hid_sema' = 0
    /\ rpc' = [rpc EXCEPT !.at = IF @ = "wait" THEN "held" ELSE "polled"]
    /\ UNCHANGED <<bt_dev, ds34pad, cb, adapter, taken, pages>>

ds34bt_reset ==
    /\ \/ /\ rpc.at = "held"
          /\ ds34pad' = [ds34pad EXCEPT ![rpc.pad].status = @ \cup {"DISCONNECT_REQUEST"}]
          /\ rpc' = [rpc EXCEPT !.at = "poll"]
       \/ /\ rpc.at = "polled"
          /\ rpc' = IF "RUNNING" \in ds34pad[rpc.pad].status THEN [rpc EXCEPT !.at = "poll"]
                    ELSE IF rpc.pad = MAX_PADS THEN [Idle EXCEPT !.at = "returned"] ELSE [rpc EXCEPT !.pad = @ + 1, !.at = "wait"]
          /\ UNCHANGED ds34pad
    /\ hid_sema' = 1
    /\ UNCHANGED <<bt_dev, cb, adapter, taken, pages>>
-----------------------------------------------------------------------------
(* External: a controller asks for a link, or one is lost.                 *)

Page ==
    /\ Up /\ adapter.scan /\ Len(adapter.events) < MaxEvents
    /\ \E p \in Pads :
        /\ p \notin adapter.paging /\ pages < MaxPages /\ pages' = pages + 1 /\ \A h \in Handles : adapter.links[h].bdaddr # p
        /\ adapter' = Reports([adapter EXCEPT !.paging = @ \cup {p}], [what |-> "CONNECT_REQUEST", bdaddr |-> p])
    /\ UNCHANGED <<bt_dev, ds34pad, hid_sema, rpc, cb, taken>>

LinkLost ==
    /\ Up /\ Len(adapter.events) < MaxEvents
    /\ \E h \in Handles : Live(adapter, h) /\ adapter' \in hci_disconnect(adapter, h)
    /\ UNCHANGED <<bt_dev, ds34pad, hid_sema, rpc, cb, taken, pages>>

Ds34BtInit ==
    /\ bt_dev = [up |-> FALSE, status |-> {}, bdaddr |-> "none"]
    /\ ds34pad = ds34pad_init
    /\ hid_sema = 1 /\ rpc = Idle /\ cb = None
    /\ adapter = NoAdapter /\ taken = {} /\ pages = 0

Ds34BtNext ==
    \/ HCI_event_task \/ L2CAP_event_task \/ InterruptConfigured \/ ControllerRuns
    \/ bt_connect \/ bt_config_set \/ bt_disconnect
    \/ ResetCalled \/ WaitSema \/ ds34bt_reset
    \/ Page \/ LinkLost
-----------------------------------------------------------------------------
Told(what, h) == \E i \in 1..Len(adapter.events) : adapter.events[i].what = what /\ adapter.events[i].handle = h

(* A handle names the link that the slot's address is on: a connected slot *)
(* has the handle of a link of its controller, or the loss of that link is *)
(* still to be reported; no two slots have one handle.                     *)
SlotsTrue ==
    Up => \A s \in Slots :
        LET slot == ds34pad[s] IN
        /\ "CONNECTED" \in slot.status =>
            \/ Live(adapter, slot.hci_handle) /\ adapter.links[slot.hci_handle].bdaddr = slot.bdaddr
            \/ Told("DISCONN_COMPLETE", slot.hci_handle)
        /\ slot.hci_handle # None => \A t \in Slots \ {s} : ds34pad[t].hci_handle # slot.hci_handle

(* What ds34bt_reset waits for can come: a running slot has a link that is *)
(* alive, or whose loss will be reported and clear the slot.               *)
RunningEnds ==
    Up => \A s \in Slots : "RUNNING" \in ds34pad[s].status =>
        Live(adapter, ds34pad[s].hci_handle) \/ Told("DISCONN_COMPLETE", ds34pad[s].hci_handle)

(* A link belongs to a slot, or its completion is still to be reported,    *)
(* unless its slot was taken by another controller.                        *)
LinksOwned ==
    Up => \A h \in Handles : Live(adapter, h) =>
        \/ \E s \in Slots : ds34pad[s].hci_handle = h
        \/ Told("CONNECT_COMPLETE", h) \/ adapter.links[h].bdaddr \in taken

(* CONFIGURED means that what the program is told of the adapter is of the *)
(* one that is plugged in.                                                 *)
AdapterKnown == Up /\ "CONFIGURED" \in bt_dev.status => bt_dev.bdaddr = "this" /\ adapter.scan

(* The semaphore is not lost: it is only down for an RPC inside its        *)
(* section or for a callback in its pause.                                 *)
SemaReturned == hid_sema = 0 => rpc.at \in {"held", "polled"} \/ cb # None
=============================================================================
