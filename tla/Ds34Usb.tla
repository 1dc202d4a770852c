-------------------------------- MODULE Ds34Usb --------------------------------
(***************************************************************************)
(* The driver of DualShock 3 and 4 controllers on USB (iop/ds34usb): the   *)
(* controllers come and go, one thread serves the calls of the EE, and     *)
(* transfers, their callbacks and the alarms that limit a wait come in     *)
(* between.  All ports share one buffer and one result.                    *)
(*                                                                         *)
(* The threads of usbd are above the one that serves the calls: what they  *)
(* call (connect, disconnect, a callback) is one step, unless it sleeps.   *)
(* Callbacks come one at a time; a controller can leave in the midst of    *)
(* one.  A call is cut where it waits.  A report is known by its sender.   *)
(***************************************************************************)
EXTENDS Integers, Sequences

CONSTANTS UsbPorts, Controllers, UsbCalls,
          MaxPlugs,    \* bound: controllers put in
          MaxFlight    \* bound: transfers on the way when a call begins

VARIABLES usbpad,   \* ds34pad: devId, status, data, update_rum, the semaphores
                    \* sema and cmd_sema; orphan: left while it was set
                    \* up; had: the controllers it ever had
    usb,            \* usb_buf and usb_resulCode, the transfers on the way, the alarms,
                    \* the port whose callback sleeps, who is plugged in
    usbrpc          \* the call that is served

usbVars == <<usbpad, usb, usbrpc>>

None == "none"
NoDev == -1
NoPort == -1
(* What usb_buf can hold that is no report.                                *)
Empty == -2
Command == -3
Address == -4
NoCall == [call |-> None]
Semas == {"sema", "cmd_sema"}
SemaOf(call) == IF call = "get_data" THEN "sema" ELSE "cmd_sema"
(* A call waits at "enter" or at "transfer"; a signal is handed to it.     *)
Waits(st, p, s) ==
    /\ st.rpc # NoCall /\ st.pad[p][s] = 0
    /\ st.rpc.port = p
    /\ \/ st.rpc.at = "enter" /\ s = "sema"
       \/ st.rpc.at = "transfer" /\ s = SemaOf(st.rpc.call)
Signal(st, p, s) ==
    IF Waits(st, p, s) THEN [st EXCEPT !.rpc.at = IF @ = "enter" THEN "entered" ELSE "over"]
    ELSE [st EXCEPT !.pad[p][s] = 1]
PollSema(st, p, s) == [st EXCEPT !.pad[p][s] = 0]
Now == [pad |-> usbpad, usb |-> usb, rpc |-> usbrpc]
Becomes(st) == usbpad' = st.pad /\ usb' = st.usb /\ usbrpc' = st.rpc
Lowest(set) == CHOOSE x \in set : \A y \in set : x <= y
-----------------------------------------------------------------------------
(* How a transfer ends matters for one that fills usb_buf.                 *)
(* A transfer that uses usb_buf.  It is mixed up with another when one is  *)
(* on the way, or was and has not been looked at.                          *)
InUse(st) == \/ \E i \in DOMAIN st.usb.flight : st.usb.flight[i].kind # "config"
             \/ st.rpc # NoCall /\ st.rpc.at \in {"transfer", "over"}
Transfer(st, kind, p) ==
    [st EXCEPT !.usb.flight = Append(@, [kind |-> kind, port |-> p, dev |-> st.pad[p].devId,
                                      state |-> IF kind \in {"data", "address"} THEN "sent" ELSE "ok"])]
UseBuffer(st) == [st EXCEPT !.usb.mixed = @ \/ InUse(st)]

(* A transfer is taken when the endpoint is open.                          *)
Accepted(st, p) == {ok \in BOOLEAN : ok => st.pad[p].devId # NoDev}

(* LEDRumble: usb_buf is filled with a command and sent.                   *)
LEDRumble(st, p, ok) ==
    LET filled == [UseBuffer(PollSema(st, p, "cmd_sema")) EXCEPT !.usb.usb_buf = Command]
    IN IF ok THEN Transfer(filled, "command", p) ELSE filled
-----------------------------------------------------------------------------
\* Variant: the port says that it runs when its controller has gone.
ReleaseKeepsStatus(st, p) ==
    Signal([st EXCEPT !.pad[p].devId = NoDev, !.pad[p].sema = 0], p, "sema")
usb_release(st, p) ==
    Signal([st EXCEPT !.pad[p].devId = NoDev, !.pad[p].running = FALSE, !.pad[p].sema = 0,
                      !.pad[p].orphan = (st.usb.config = p)], p, "sema")

(* The free port of the lowest number; endpoints may be missing.           *)
\* Variant: a port that another controller has is taken.
AnyPort == UsbPorts
FreePorts == {p \in UsbPorts : usbpad[p].devId = NoDev}
usb_connect(d) ==
    /\ usb.plugged[d] = None /\ usb.plugs < MaxPlugs
    /\ LET in(how) == [Now EXCEPT !.usb.plugged[d] = how, !.usb.plugs = @ + 1]
       IN IF FreePorts = {} THEN Becomes(in("refused"))
          ELSE LET p == Lowest(FreePorts)
                   taken == [in("served") EXCEPT !.pad[p].devId = d, !.pad[p].had = @ \cup {d}, !.pad[p].orphan = FALSE]
               IN \/ Becomes(usb_release(in("refused"), p))
                  \/ Becomes(Signal(Transfer(PollSema(taken, p, "sema"), "config", p), p, "sema"))

(* What was on the way to or from it is dropped or ends with an error.     *)
usb_disconnect(d) ==
    /\ usb.plugged[d] # None
    /\ \E dropped \in BOOLEAN :
          LET out == [Now EXCEPT !.usb.plugged[d] = None,
                         !.usb.flight = IF dropped THEN SelectSeq(@, LAMBDA t : t.dev # d)
                                        ELSE [i \in DOMAIN @ |-> IF @[i].dev = d /\ @[i].state = "sent"
                                                                 THEN [@[i] EXCEPT !.state = "error"] ELSE @[i]]]
              ports == {p \in UsbPorts : usbpad[p].devId = d}
          IN Becomes(IF ports = {} THEN out ELSE usb_release(out, Lowest(ports)))
-----------------------------------------------------------------------------
(* A transfer ends; its callback comes later.                              *)
Arrive(i) ==
    LET t == usb.flight[i]
    IN /\ t.state = "sent"
       /\ \/ /\ usb' = [usb EXCEPT !.flight[i].state = "ok",
                            !.usb_buf = IF t.kind = "data" THEN t.dev ELSE Address]
          \/ usb' = [usb EXCEPT !.flight[i].state = "error"]
       /\ UNCHANGED <<usbpad, usbrpc>>

Landed(i) == [Now EXCEPT !.usb.flight = SubSeq(@, 1, i - 1) \o SubSeq(@, i + 1, Len(@))]
Callback(i, kinds) ==
    usb.config = NoPort /\ usb.flight[i].state # "sent" /\ usb.flight[i].kind \in kinds

usb_data_cb(i) ==
    /\ Callback(i, {"data"})
    /\ Becomes(Signal([Landed(i) EXCEPT !.usb.usb_resulCode = IF usb.flight[i].state = "ok" THEN 0 ELSE 1],
                      usb.flight[i].port, "sema"))
usb_cmd_cb(i) ==
    /\ Callback(i, {"command", "address"})
    /\ Becomes(Signal(Landed(i), usb.flight[i].port, "cmd_sema"))

(* usb_config_set: the lamps are set, in a DualShock 3 after a while; then *)
(* the port runs.  Nobody looks whether the controller is still there.     *)
ConfigBegins(i) ==
    /\ Callback(i, {"config"})
    /\ LET p == usb.flight[i].port
           begun == [PollSema(Landed(i), p, "sema") EXCEPT !.usb.config = p,
                                                          !.pad[p].orphan = usbpad[p].devId = NoDev]
       IN \/ Becomes([begun EXCEPT !.usb.lamps = FALSE])
          \/ \E ok \in Accepted(begun, p) : Becomes([LEDRumble(begun, p, ok) EXCEPT !.usb.lamps = TRUE])
ConfigLamps ==
    /\ usb.config # NoPort /\ ~usb.lamps
    /\ \E ok \in Accepted(Now, usb.config) : Becomes([LEDRumble(Now, usb.config, ok) EXCEPT !.usb.lamps = TRUE])
\* Variant: the semaphore is not given back.
ConfigKeepsSema(p) ==
    [Now EXCEPT !.pad[p].running = TRUE, !.usb.config = NoPort, !.usb.lamps = FALSE]
ConfigEnds(p) ==
    Signal([Now EXCEPT !.pad[p].running = TRUE, !.usb.config = NoPort, !.usb.lamps = FALSE], p, "sema")
usb_config_set ==
    /\ usb.config # NoPort /\ usb.lamps
    /\ Becomes(ConfigEnds(usb.config))

(* The alarm of a wait is never taken back: CancelAlarm gets another       *)
(* argument.                                                               *)
timeout(p, s) ==
    /\ usb.alarms[p][s]
    /\ Becomes(Signal([Now EXCEPT !.usb.alarms[p][s] = FALSE], p, s))
-----------------------------------------------------------------------------
(* The calls.  rpc_sf serves one at a time.                                *)
Quiet(st) == IF st.usb.flight = <<>> /\ st.usb.usb_resulCode = 1
             THEN [st EXCEPT !.usb.mixed = FALSE] ELSE st
Return(st, p) == Becomes(Quiet(Signal([st EXCEPT !.rpc = NoCall], p, "sema")))

(* get_bdaddr answers nothing every other time.  A call whose port is busy *)
(* waits; one that is served goes on as [call, port, at].                  *)
rpc_sf(call, p) ==
    /\ usbrpc = NoCall /\ Len(usb.flight) < MaxFlight
    /\ IF call = "get_bdaddr" /\ usbpad[p].update_rum
       THEN usbpad' = [usbpad EXCEPT ![p].update_rum = FALSE] /\ UNCHANGED <<usb, usbrpc>>
       ELSE /\ usbpad[p].sema = 0
            /\ usbrpc' = [call |-> call, port |-> p, at |-> "enter"] /\ UNCHANGED <<usbpad, usb>>
Served(call, p) ==
    LET it == [call |-> call, port |-> p, at |-> "entered"]
    IN /\ call \in UsbCalls
       /\ \/ usbrpc = it
          \/ /\ usbrpc = NoCall /\ Len(usb.flight) < MaxFlight /\ usbpad[p].sema = 1
             /\ ~(call = "get_bdaddr" /\ usbpad[p].update_rum)
Held(call, p) == [PollSema(Now, p, "sema") EXCEPT !.rpc = [call |-> call, port |-> p, at |-> "entered"]]

(* The alarm is set and the wait begins.  A second alarm with the same     *)
(* handler and semaphore may be refused: then there is no wait.            *)
TransferWait(st, p, s) ==
    Becomes([st EXCEPT !.usb.alarms[p][s] = TRUE, !.rpc.at = "transfer"])
NoWait(st, p, s) == usb.alarms[p][s] /\ Becomes([st EXCEPT !.rpc.at = "over"])

Started(st, p, s) == TransferWait(st, p, s) \/ NoWait(st, p, s)

ds34usb_get_status(p) ==
    /\ Served("get_status", p)
    /\ Return(Now, p)
ds34usb_get_data(p) ==
    /\ Served("get_data", p)
    /\ LET held == Held("get_data", p)
       IN \E ok \in Accepted(Now, p) :
             IF ok THEN Started(Transfer(UseBuffer(held), "data", p), p, "sema") ELSE Return(held, p)
LEDRUM(p) ==
    /\ Served("LEDRUM", p)
    /\ LET held == Held("LEDRUM", p)
       IN IF ~usbpad[p].update_rum THEN Return(held, p)
          ELSE \E ok \in Accepted(Now, p) :
                  IF ok THEN Started(LEDRumble(held, p, TRUE), p, "cmd_sema") ELSE Return(LEDRumble(held, p, FALSE), p)
ds34usb_get_bdaddr(p) ==
    /\ Served("get_bdaddr", p)
    /\ LET held == PollSema(Held("get_bdaddr", p), p, "cmd_sema")
       IN \E ok \in Accepted(Now, p) :
             IF ok THEN Started(Transfer(UseBuffer(held), "address", p), p, "cmd_sema")
             ELSE Return([held EXCEPT !.pad[p].update_rum = TRUE], p)
ds34usb_set_bdaddr(p) ==
    /\ Served("set_bdaddr", p)
    /\ LET held == PollSema(Held("set_bdaddr", p), p, "cmd_sema")
           filled == [UseBuffer(held) EXCEPT !.usb.usb_buf = Command]
       IN \E ok \in Accepted(Now, p) :
             IF ok THEN Started(Transfer(filled, "command", p), p, "cmd_sema") ELSE Return(filled, p)

(* readReport: what usb_buf holds becomes the state of the port's buttons. *)
\* Variant: what came last is taken even when the transfer failed.
ReportAnyway(st, p) ==
    LET b == st.usb.usb_buf
    IN [st EXCEPT !.usb.usb_resulCode = 1,
                  !.pad[p].data = IF b = Empty \/ st.usb.mixed \/ b \in st.pad[p].had THEN @ ELSE "other"]
readReport(st, p) ==
    LET b == st.usb.usb_buf
    IN IF st.usb.usb_resulCode # 0 THEN [st EXCEPT !.usb.usb_resulCode = 1]
       ELSE [st EXCEPT !.usb.usb_resulCode = 1,
                       !.pad[p].data = IF b = Empty \/ st.usb.mixed \/ b \in st.pad[p].had THEN @ ELSE "other"]

(* The wait is over, by a callback, an alarm or a controller that left;    *)
(* or there was none.  A transfer that is still on the way is late.        *)
TransferOver ==
    /\ usbrpc # NoCall
    /\ LET p == usbrpc.port
           s == SemaOf(usbrpc.call)
           late == \E i \in DOMAIN usb.flight : usb.flight[i].kind # "config"
           st == [Now EXCEPT !.usb.mixed = @ \/ late]
           done == IF usbrpc.call = "get_data" THEN readReport(st, p)
                   ELSE [st EXCEPT !.pad[p].update_rum = @ \/ usbrpc.call = "get_bdaddr"]
       IN \/ usbrpc.at = "transfer" /\ usbpad[p][s] = 1 /\ Return(PollSema(done, p, s), p)
          \/ usbrpc.at = "over" /\ Return(done, p)

ds34usb_reset ==
    /\ usbrpc = NoCall
    /\ usbpad' = [p \in UsbPorts |-> usb_release(Now, p).pad[p]]
    /\ UNCHANGED usbrpc
    /\ usb' = [usb EXCEPT !.plugged = [d \in Controllers |-> IF @[d] = "served" THEN "refused" ELSE @[d]]]
-----------------------------------------------------------------------------
(* _start.  The result of a read starts as a good one.                    *)
UsbInit ==
    /\ usbpad = [p \in UsbPorts |-> [devId |-> NoDev, had |-> {}, running |-> FALSE, data |-> "own", update_rum |-> TRUE,
                                     sema |-> 1, cmd_sema |-> 1, orphan |-> FALSE]]
    /\ usb = [usb_buf |-> Empty, usb_resulCode |-> 0, flight |-> <<>>, config |-> NoPort, lamps |-> FALSE, mixed |-> TRUE,
              alarms |-> [p \in UsbPorts |-> [s \in Semas |-> FALSE]],
              plugged |-> [d \in Controllers |-> None], plugs |-> 0]
    /\ usbrpc = NoCall

UsbNext ==
    \/ \E d \in Controllers : usb_connect(d) \/ usb_disconnect(d)
    \/ \E i \in DOMAIN usb.flight : Arrive(i) \/ usb_data_cb(i) \/ usb_cmd_cb(i) \/ ConfigBegins(i)
    \/ ConfigLamps \/ usb_config_set
    \/ \E p \in UsbPorts, s \in Semas : timeout(p, s)
    \/ \E call \in UsbCalls, p \in UsbPorts : rpc_sf(call, p)
    \/ \E p \in UsbPorts : \/ ds34usb_get_status(p) \/ ds34usb_get_data(p) \/ LEDRUM(p)
                           \/ ds34usb_get_bdaddr(p) \/ ds34usb_set_bdaddr(p)
    \/ TransferOver \/ ds34usb_reset
-----------------------------------------------------------------------------
(* A controller that was taken has one port, and a port only says that it  *)
(* runs when it has one, unless the controller left while it was set up.   *)
OnePortEach ==
    /\ \A d \in Controllers : usb.plugged[d] = "served" => \E p \in UsbPorts : usbpad[p].devId = d
    /\ \A p, q \in UsbPorts : usbpad[p].devId = usbpad[q].devId => p = q \/ usbpad[p].devId = NoDev
    /\ \A p \in UsbPorts : usbpad[p].running => usbpad[p].devId # NoDev \/ usbpad[p].orphan

(* The buttons of a port are those of a controller that had it, unless     *)
(* two transfers shared the buffer or a wait ended before its transfer.    *)
OwnButtons == \A p \in UsbPorts : usbpad[p].data # "other"

(* A call that waits is woken: by an alarm, or by the callback that holds  *)
(* the semaphore.                                                          *)
WaitsEnd ==
    usbrpc # NoCall =>
        LET p == usbrpc.port  s == SemaOf(usbrpc.call)
        IN /\ usbrpc.at = "enter" /\ usbpad[p].sema = 0 => usb.config = p
           /\ usbrpc.at = "transfer" /\ usbpad[p][s] = 0 => usb.alarms[p][s]
=============================================================================
