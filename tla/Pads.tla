-------------------------------- MODULE Pads --------------------------------
(***************************************************************************)
(* Buttons that are pressed and repeated.  In the plain build (pad.c) a    *)
(* read asks the ports itself; in the DS34 build (pad_ds34.c) a thread     *)
(* asks them, and a read waits for it and takes what it left, while the    *)
(* thread may already ask again.                                           *)
(*                                                                         *)
(* The user is external: buttons and sticks change, keys are typed, a pad  *)
(* is pulled out, at most MaxChanges times.  Time is counted in the shortest of the       *)
(* delays; a delay that is over is 0.                                      *)
(***************************************************************************)
EXTENDS Integers, FiniteSets, Sequences

CONSTANTS Polled,       \* the DS34 build
    Ports, Buttons, MaxChanges,
    InitDelay, EarlyDelay, EarlyRepeats

VARIABLES pads, reader, poll, changes_left
padVars == <<pads, reader, poll, changes_left>>

Stick == "stick"
LateDelay == 1
Quiet == [up |-> TRUE, hold |-> {}, push |-> FALSE, seen |-> FALSE,
          paddata |-> {}, old_pad |-> {}, new_pad |-> {}, ret |-> FALSE,
          rpt_time |-> 0, rpt_count |-> 0,
          told |-> [b \in Buttons |-> 0], since |-> [b \in Buttons |-> 0],
          excused |-> FALSE, hasty |-> FALSE, missed |-> FALSE]
-----------------------------------------------------------------------------
(* The user.                                                               *)
Changes(p, pad) ==
    /\ changes_left > 0 /\ changes_left' = changes_left - 1
    /\ pads' = [pads EXCEPT ![p] = pad]
    /\ UNCHANGED <<reader, poll>>
Hand ==
    \E p \in Ports :
        \/ \E b \in Buttons : Changes(p, [pads[p] EXCEPT !.hold = IF b \in @ THEN @ \ {b} ELSE @ \cup {b}])
        \/ Changes(p, [pads[p] EXCEPT !.push = ~@])
        \/ Changes(p, [pads[p] EXCEPT !.up = ~@, !.hold = {}, !.push = FALSE])
Type ==
    /\ changes_left > 0 /\ changes_left' = changes_left - 1
    /\ \E key \in {"known", "other"} :
           reader' = [reader EXCEPT !.keys = Append(@, key), !.typed = IF key = "known" THEN @ + 1 ELSE @]
    /\ UNCHANGED <<pads, poll>>
Less(n) == IF n > 0 THEN n - 1 ELSE 0
(* A read is short against the delays.                                    *)
Tick ==
    /\ reader.at \in {"idle", "stopping"}
    /\ pads' = [p \in Ports |-> [pads[p] EXCEPT !.rpt_time = Less(@),
                    !.since = [b \in Buttons |-> IF pads[p].since[b] < InitDelay THEN pads[p].since[b] + 1 ELSE InitDelay]]]
    /\ UNCHANGED <<reader, poll, changes_left>>
-----------------------------------------------------------------------------
(* A port is asked.  A read that fails leaves everything as it was.        *)
(* "excused": since the buttons were all up, a stick was pushed, a read    *)
(* failed, or the thread asked in the midst of a read or was started.      *)
Asked(pad, ok) ==
    IF ~pad.up THEN pad
    ELSE IF ~ok THEN [pad EXCEPT !.ret = FALSE, !.excused = TRUE]
    ELSE [pad EXCEPT !.ret = TRUE, !.paddata = pad.hold, !.seen = pad.push,
                      !.told = [b \in Buttons |-> IF b \in pad.hold THEN @[b] ELSE 0],
                      !.excused = pad.push \/ (@ /\ pad.hold # {})]

(* Every other read, over all ports, looks at the sticks instead of the    *)
(* buttons, if they are pushed.                                            *)
JoyScan(pad, odd) == IF odd /\ pad.seen THEN [pad EXCEPT !.paddata = {Stick}] ELSE pad

Edge(pad) == [pad EXCEPT !.new_pad = pad.paddata \ pad.old_pad]
(* Variant: the first repeat comes as soon as the others.                  *)
RepeatSoon(pad) ==
    IF pad.old_pad # pad.paddata
    THEN [pad EXCEPT !.rpt_count = 0, !.rpt_time = EarlyDelay, !.old_pad = pad.paddata]
    ELSE IF pad.rpt_time > 0 THEN pad
    ELSE [pad EXCEPT !.new_pad = pad.paddata, !.rpt_time = LateDelay]
(* Variant: the time is not set again when the buttons change.             *)
RepeatKeepsTime(pad) ==
    IF pad.old_pad # pad.paddata
    THEN [pad EXCEPT !.rpt_count = 0, !.old_pad = pad.paddata]
    ELSE IF pad.rpt_time > 0 THEN pad
    ELSE [pad EXCEPT !.new_pad = pad.paddata, !.rpt_time = EarlyDelay]
Repeat(pad) ==
    IF pad.old_pad # pad.paddata
    THEN [pad EXCEPT !.rpt_count = 0, !.rpt_time = InitDelay, !.old_pad = pad.paddata]
    ELSE IF pad.rpt_time > 0 THEN pad
    ELSE [pad EXCEPT !.new_pad = pad.paddata,
                     !.rpt_time = IF pad.rpt_count < EarlyRepeats THEN EarlyDelay ELSE LateDelay,
                     !.rpt_count = IF @ < EarlyRepeats THEN @ + 1 ELSE @]

(* What the caller is told.  A button is told hastily when it is told      *)
(* again before its delay; it is missed when it is held and not told.      *)
Told(pad) ==
    LET new == pad.new_pad \cap Buttons
        again == {b \in new : \/ pad.told[b] = 1 /\ pad.since[b] < InitDelay
                              \/ pad.told[b] = 2 /\ pad.since[b] < LateDelay}
        told == [b \in Buttons |-> IF b \notin new THEN pad.told[b] ELSE IF pad.told[b] = 0 THEN 1 ELSE 2]
    IN [pad EXCEPT !.hasty = @ \/ (~pad.excused /\ again # {}), !.told = told,
                   !.since = [b \in Buttons |-> IF b \in new THEN 0 ELSE pad.since[b]],
                   !.missed = @ \/ (~pad.excused /\ \E b \in pad.paddata \cap Buttons : told[b] = 0)]
(* A key stands for a button when no port has a new one.                   *)
simPadKB(r) ==
    IF r.keys = <<>> THEN r
    ELSE [r EXCEPT !.keys = Tail(@), !.told_keys = IF Head(r.keys) = "known" THEN @ + 1 ELSE @]
(* Variant: the key is taken first.                                        *)
KeyFirst(r, ports) ==
    IF \E p \in Ports : ports[p].ret /\ ports[p].new_pad # {}
    THEN [simPadKB(r) EXCEPT !.told_keys = r.told_keys] ELSE simPadKB(r)
readpad(r, ports) ==
    IF (\E p \in Ports : ports[p].ret) /\ \E p \in Ports : ports[p].new_pad # {} THEN r ELSE simPadKB(r)
-----------------------------------------------------------------------------
(* The plain build: readpad_no_KB asks port after port.                    *)
Odd(p) == (reader.test_joy + Cardinality({q \in 1..(p - 1) : pads[q].up})) % 2 = 1
ReadPort(p, ok) ==
    LET pad == pads[p]
    IN IF ~pad.up THEN [pad EXCEPT !.new_pad = {}]
       ELSE IF ~ok THEN Told(Asked(pad, ok))
       ELSE Told(Repeat(Edge(JoyScan(Asked(pad, ok), Odd(p)))))
readpad_no_KB ==
    /\ ~Polled
    /\ \E bad \in SUBSET Ports : /\ Cardinality(bad) <= 1 /\ \A p \in bad : pads[p].up /\ changes_left > 0
                                 /\ changes_left' = changes_left - Cardinality(bad)
                                 /\ pads' = [p \in Ports |-> ReadPort(p, p \notin bad)]
                                 /\ reader' = readpad([reader EXCEPT !.test_joy =
                                        (@ + Cardinality({p \in Ports \ bad : pads[p].up})) % 2], pads')
    /\ UNCHANGED poll
-----------------------------------------------------------------------------
(* The DS34 build.  semPoll counts to one; the thread runs before anything *)
(* else that is ready, so that it can ask between any two steps of a read. *)
padPollingThread ==
    /\ Polled /\ poll.thread = "running"
    /\ IF ~poll.isRunning
       THEN poll' = [poll EXCEPT !.thread = "none", !.semFinish = 1] /\ UNCHANGED <<pads, changes_left>>
       ELSE /\ poll' = [poll EXCEPT !.semPoll = 1]
            /\ \E bad \in SUBSET Ports :
                   /\ Cardinality(bad) <= changes_left
                   /\ changes_left' = changes_left - Cardinality(bad)
                   /\ pads' = [p \in Ports |->
                          LET pad == Asked(pads[p], p \notin bad)
                          IN IF reader.at # "idle" \/ poll.semPoll = 1
                             THEN [pad EXCEPT !.excused = @ \/ pads[p].excused \/ pad.paddata # pads[p].paddata] ELSE pad]
    /\ UNCHANGED reader
(* A read waits, takes the edges and looks at the sticks, and compares     *)
(* with what was held before: in two steps for each port.                  *)
WaitSema ==
    /\ Polled /\ reader.at = "idle" /\ poll.semPoll = 1
    /\ poll' = [poll EXCEPT !.semPoll = 0]
    /\ reader' = [reader EXCEPT !.at = "edge", !.port = 1]
    /\ UNCHANGED <<pads, changes_left>>
ReadEdge ==
    /\ reader.at = "edge"
    /\ LET pad == pads[reader.port]
       IN IF pad.ret
          THEN /\ pads' = [pads EXCEPT ![reader.port] = Edge(JoyScan(pad, reader.test_joy = 1))]
               /\ reader' = [reader EXCEPT !.at = "repeat", !.test_joy = 1 - @]
          ELSE /\ pads' = [pads EXCEPT ![reader.port].new_pad = {}]
               /\ reader' = [reader EXCEPT !.at = "told"]
    /\ UNCHANGED <<poll, changes_left>>
ReadRepeat ==
    /\ reader.at = "repeat"
    /\ pads' = [pads EXCEPT ![reader.port] = Repeat(@)]
    /\ reader' = [reader EXCEPT !.at = "told"]
    /\ UNCHANGED <<poll, changes_left>>
ReadTold ==
    /\ reader.at = "told"
    /\ pads' = [pads EXCEPT ![reader.port] = Told(@)]
    /\ reader' = IF reader.port < Cardinality(Ports) THEN [reader EXCEPT !.at = "edge", !.port = @ + 1]
                 ELSE readpad([reader EXCEPT !.at = "idle", !.port = 1], pads')
    /\ UNCHANGED <<poll, changes_left>>
-----------------------------------------------------------------------------
(* Before the ports are opened again the thread is stopped; opening may    *)
(* fail, and then no thread is started, which nothing looks at.            *)
stopDs34Input ==
    /\ Polled /\ reader.at = "idle" /\ changes_left > 0
    /\ changes_left' = changes_left - 1
    /\ reader' = [reader EXCEPT !.at = "stopping"]
    /\ poll' = [poll EXCEPT !.isRunning = FALSE]
    /\ UNCHANGED pads
(* Variant: the ports are opened again while the thread still runs.        *)
SetupAtOnce ==
    /\ reader.at = "stopping"
    /\ reader' = [reader EXCEPT !.at = "idle"]
    /\ poll' = [poll EXCEPT !.semPoll = 0, !.isRunning = TRUE, !.thread = IF @ = "running" THEN "twice" ELSE "running"]
    /\ UNCHANGED <<pads, changes_left>>
setupPad ==
    /\ reader.at = "stopping" /\ poll.semFinish = 1
    /\ reader' = [reader EXCEPT !.at = "idle"]
    /\ \/ poll' = [poll EXCEPT !.semPoll = 0, !.semFinish = 0, !.isRunning = TRUE, !.thread = "running"]
       \/ poll' = [poll EXCEPT !.semFinish = 0, !.failed = TRUE]
    /\ pads' = [p \in Ports |-> [pads[p] EXCEPT !.excused = TRUE]]
    /\ UNCHANGED changes_left
(* Buttons that are held are new again.                                    *)
clearPadPressState ==
    /\ reader.at = "idle" /\ changes_left > 0
    /\ changes_left' = changes_left - 1
    /\ pads' = [p \in Ports |-> [pads[p] EXCEPT !.old_pad = {}, !.new_pad = {}, !.paddata = {}, !.ret = IF Polled THEN FALSE ELSE @,
                                     !.told = Quiet.told]]
    /\ UNCHANGED <<reader, poll>>
-----------------------------------------------------------------------------
PadInit ==
    /\ pads = [p \in Ports |-> Quiet] /\ changes_left = MaxChanges
    /\ reader = [at |-> "idle", port |-> 1, test_joy |-> 0, keys |-> <<>>, typed |-> 0, told_keys |-> 0]
    /\ poll = [thread |-> "running", isRunning |-> TRUE, semPoll |-> 0, semFinish |-> 0, failed |-> FALSE]
PadNext ==
    \/ Hand \/ Type \/ Tick \/ clearPadPressState
    \/ readpad_no_KB
    \/ padPollingThread \/ WaitSema \/ ReadEdge \/ ReadRepeat \/ ReadTold \/ stopDs34Input \/ setupPad
-----------------------------------------------------------------------------
(* A button is told again no sooner than the repeats allow, and none that  *)
(* is held goes untold, unless a stick is pushed as well (the reads take   *)
(* turns), a read failed, or the thread asked in the midst of the read or  *)
(* was started again.                                                      *)
ToldOnce == \A p \in Ports : ~pads[p].hasty /\ ~pads[p].missed
(* A key that stands for a button is told once, and waits while the ports  *)
(* have new buttons.                                                       *)
KeysTold ==
    reader.typed = reader.told_keys + Cardinality({i \in 1..Len(reader.keys) : reader.keys[i] = "known"})
(* There is a thread to wait for whenever a read may wait, unless the      *)
(* ports could not be opened, and never two on the one stack.              *)
Served == poll.thread = "running" \/ reader.at = "stopping" \/ poll.failed
=============================================================================
