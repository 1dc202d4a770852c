--------------------------- MODULE MemoryCardProofs --------------------------
(***************************************************************************)
(* The file system of memory card emulators gives the bus back, takes only *)
(* real answers and keeps its handles but where calls met before the lock, *)
(* for any number of threads, files and handles.  The invariant has a part *)
(* for the bus, with what each place of a call knows of the interrupt and  *)
(* the alarm, one for the port, which a call that has met no other may     *)
(* rely on, and one for the handles that two opens did not choose at once. *)
(*                                                                         *)
(* The play history on the cards forgets no title, for any list, titles    *)
(* and number of cards: one update of a list is a lemma about lists.       *)
(***************************************************************************)
EXTENDS MmceFs, History, FiniteSetTheorems, WellFoundedInduction, TLAPS

Packets == {"reply", "result", "plain", "data", "last", "fd", "closed"}
Places == {"out", "port", "handle", "lock", "send", "wait", "cancel", "clear", "answer", "failed"}
Opens == {mmce_fs_open, mmce_fs_dopen}
Closes == {mmce_fs_close, mmce_fs_dclose}
Batches == {{}, Opens, Closes, OnFile, OnPath}
Callings ==
    [at : Places, unit : {0, 1}, file : FileSlots \cup {0}, handle : Handles \cup {0}, calls : Batches,
     todo : Seq(Packets)]
OpenFiles == [unit : {0, 1}, handle : Handles, fd : CardFds]

Opener(c) == mmce_fs_open \in c.calls
Closer(c) == mmce_fs_close \in c.calls

TypeInv ==
    /\ mmce_fs_fds \in [Handles -> Int]
    /\ last_unit \in {-1, 0, 1}
    /\ file \in [FileSlots -> OpenFiles \cup {NoFile}]
    /\ event_flag \in SUBSET {"COMPLETE", "TIMEOUT"} /\ alarm \in BOOLEAN
    /\ bus \in {"idle", "busy", "done"}
    /\ call \in [Threads -> Callings]
    /\ overlap \in [calls : SUBSET Threads, port : BOOLEAN, handles : SUBSET Handles]

(* The places of a thread that holds the lock. *)
Held == {"send", "wait", "cancel", "clear", "answer", "failed"}

(* What each of them knows. *)
Waiting == bus # "idle" /\ ("COMPLETE" \in event_flag <=> bus = "done") /\ (alarm <=> "TIMEOUT" \notin event_flag)
Cleared == ~alarm /\ event_flag = {} /\ bus # "busy"
Knows(at) ==
    /\ at \in {"send", "answer", "failed"} => Cleared
    /\ at = "wait" => Waiting
    /\ at \in {"cancel", "clear", "answer"} => bus = "done"
    /\ at = "clear" => ~alarm
Talks(t) ==
    call[t].at \in {"wait", "cancel", "clear", "answer"} =>
        t \in overlap.calls \/ overlap.port \/ talks = PortOf(call[t].unit)

BusInv ==
    /\ \A t \in Threads : call[t].at \in Held <=> owner = t
    /\ handler = IF owner \in Threads THEN "mmce" ELSE "sio2man"
    /\ owner \notin Threads => ~alarm /\ event_flag = {}
    /\ owner = "nobody" => bus = "idle"
    /\ \A t \in Threads : Knows(call[t].at) /\ Talks(t)

(* The port is that of the unit but while one call changes it, and a call  *)
(* that has met no other is for that unit.                                 *)
Changing(t) == call[t].at = "port"
Alone(t) == call[t].at # "out" /\ t \notin overlap.calls
UnitInv ==
    /\ \A t \in Threads : call[t].at # "out" => last_unit # -1
    /\ \A t \in Threads : Alone(t) => call[t].unit = last_unit
    /\ ~overlap.port =>
        /\ last_unit = -1 \/ mmce_port = PortOf(last_unit) \/ \E t \in Threads : Changing(t)
        /\ \A t \in Threads : Changing(t) =>
              call[t].unit = last_unit /\ \A u \in Threads \ {t} : ~Alone(u)

(* Its packets tell whether a call fills or frees a handle. *)
Told(c) ==
    \A i \in DOMAIN c.todo : (c.todo[i] = "fd" => Opener(c)) /\ (c.todo[i] = "closed" => Closer(c))
Fills(c) == Opener(c) \/ Closer(c)

(* What an open knows of its handle: none before it has chosen one, and    *)
(* then one that is still free unless another open has chosen it too.      *)
Chooses(t) ==
    /\ call[t].file \in FileSlots
    /\ call[t].handle = 0 => call[t].at \in {"port", "handle"}
    /\ call[t].handle \in Handles \ overlap.handles => mmce_fs_fds[call[t].handle] < 0

(* A call that fills or frees a handle has it for its own, unless two      *)
(* opens chose it at once.                                                 *)
HandleInv ==
    /\ \A t \in Threads : call[t].at = "out" => call[t].calls = {}
    /\ \A t \in Threads : Told(call[t])
    /\ \A t \in Threads : Opener(call[t]) => Chooses(t)
    /\ \A t \in Threads : Closer(call[t]) =>
          /\ call[t].file \in FileSlots /\ file[call[t].file] # NoFile
          /\ call[t].handle = file[call[t].file].handle
    /\ \A t, u \in Threads : Opener(call[t]) /\ Opener(call[u]) /\ t # u /\ call[t].handle = call[u].handle =>
          call[t].handle \in overlap.handles \cup {0}
    /\ \A t, u \in Threads : Fills(call[t]) /\ Fills(call[u]) /\ t # u => call[t].file # call[u].file
    /\ HandlesTrue

MmceInv == TypeInv /\ BusInv /\ UnitInv /\ HandleInv
-----------------------------------------------------------------------------
(* The packets tell the calls apart.                                       *)

LEMMA CallsApart ==
  /\ mmce_fs_open \in Opens /\ mmce_fs_open \notin Closes \cup OnFile \cup OnPath
  /\ mmce_fs_close \in Closes /\ mmce_fs_close \notin Opens \cup OnFile \cup OnPath
<1>1. \A s \in OnFile \cup OnPath : s[1] # "closed"
  BY DEF OnFile, OnPath, mmce_fs_read, mmce_fs_write, mmce_fs_lseek, mmce_fs_lseek64, mmce_fs_dread, mmce_fs_remove,
         mmce_fs_mkdir, mmce_fs_rmdir, mmce_fs_getstat, mmce_fs_rename, mmce_fs_devctl, mmce_cmd_ping,
         mmce_cmd_get_status, mmce_cmd_get_card, mmce_cmd_set_card, mmce_cmd_get_channel, mmce_cmd_set_channel,
         mmce_cmd_get_gameid, mmce_cmd_set_gameid, mmce_cmd_reset, mmce_cmd_set_card_channel
<1>2. \A s \in OnFile \cup OnPath : Len(s) < 3 \/ s[3] # "fd"
  BY DEF OnFile, OnPath, mmce_fs_read, mmce_fs_write, mmce_fs_lseek, mmce_fs_lseek64, mmce_fs_dread, mmce_fs_remove,
         mmce_fs_mkdir, mmce_fs_rmdir, mmce_fs_getstat, mmce_fs_rename, mmce_fs_devctl, mmce_cmd_ping,
         mmce_cmd_get_status, mmce_cmd_get_card, mmce_cmd_set_card, mmce_cmd_get_channel, mmce_cmd_set_channel,
         mmce_cmd_get_gameid, mmce_cmd_set_gameid, mmce_cmd_reset, mmce_cmd_set_card_channel
<1>3. mmce_fs_open \notin OnFile \cup OnPath
  <2>1. Len(mmce_fs_open) = 3 /\ mmce_fs_open[3] = "fd"
    BY DEF mmce_fs_open
  <2> QED BY <1>2, <2>1
<1>4. mmce_fs_close \notin OnFile \cup OnPath
  <2>1. mmce_fs_close[1] = "closed"
    BY DEF mmce_fs_close
  <2> QED BY <1>1, <2>1
<1>5. mmce_fs_open \notin Closes /\ mmce_fs_close \notin Opens
  <2>1. mmce_fs_open[1] = "reply" /\ mmce_fs_dopen[1] = "reply"
    BY DEF mmce_fs_open, mmce_fs_dopen
  <2>2. mmce_fs_close[1] = "closed" /\ mmce_fs_dclose[1] = "closed"
    BY DEF mmce_fs_close, mmce_fs_dclose
  <2> QED BY <2>1, <2>2 DEF Opens, Closes
<1> QED BY <1>3, <1>4, <1>5 DEF Opens, Closes

LEMMA Tuples ==
  ASSUME NEW P, NEW p \in P, NEW q \in P, NEW r \in P, NEW u \in P
  PROVE  <<p>> \in Seq(P) /\ <<p, q, r>> \in Seq(P) /\ <<p, q, r, u>> \in Seq(P)
<1>1. <<p>> \in Seq(P)
  OBVIOUS
<1>2. <<p, q, r>> \in Seq(P)
  OBVIOUS
<1>3. <<p, q, r, u>> \in Seq(P)
  OBVIOUS
<1> QED BY <1>1, <1>2, <1>3

(* A packet that fills a handle is of an open, one that frees it of a      *)
(* close.                                                                  *)
LEMMA PacketsTell ==
  ASSUME NEW calls \in Batches, NEW s \in calls
  PROVE  /\ s \in Seq(Packets)
         /\ \A i \in DOMAIN s : /\ s[i] = "fd" => mmce_fs_open \in calls
                                /\ s[i] = "closed" => mmce_fs_close \in calls
<1> DEFINE Inner == {"reply", "result", "plain", "data", "last"}
<1>0. ASSUME s \in Seq(Inner)
      PROVE  /\ s \in Seq(Packets)
             /\ \A i \in DOMAIN s : s[i] # "fd" /\ s[i] # "closed"
  <2>1. Inner \subseteq Packets /\ "fd" \notin Inner /\ "closed" \notin Inner
    BY DEF Packets
  <2> HIDE DEF Inner
  <2> QED BY <1>0, <2>1
<1>1. CASE calls = Opens
  <2>1. s = <<"reply", "plain", "fd">>
    BY <1>1 DEF Opens, mmce_fs_open, mmce_fs_dopen
  <2>2. "reply" \in Packets /\ "plain" \in Packets /\ "fd" \in Packets
    BY DEF Packets
  <2>3. s \in Seq(Packets)
    BY <2>1, <2>2, Tuples
  <2>4. \A i \in DOMAIN s : s[i] # "closed"
    BY <2>1
  <2> QED BY <1>1, <2>3, <2>4, CallsApart
<1>2. CASE calls = Closes
  <2>1. s = <<"closed">>
    BY <1>2 DEF Closes, mmce_fs_close, mmce_fs_dclose
  <2>2. "closed" \in Packets
    BY DEF Packets
  <2>3. s \in Seq(Packets)
    BY <2>1, <2>2, Tuples
  <2>4. \A i \in DOMAIN s : s[i] # "fd"
    BY <2>1
  <2> QED BY <1>2, <2>3, <2>4, CallsApart
<1>3. CASE calls \in {OnFile, OnPath}
  <2>1. s \in {<<"last">>, <<"result", "data", "plain">>, <<"result", "plain", "plain", "plain">>,
               <<"reply", "plain", "last">>, <<"reply", "plain", "plain">>, <<"reply", "plain", "plain", "last">>}
    BY <1>3 DEF OnFile, OnPath, mmce_fs_read, mmce_fs_write, mmce_fs_lseek, mmce_fs_lseek64, mmce_fs_dread,
         mmce_fs_remove, mmce_fs_mkdir, mmce_fs_rmdir, mmce_fs_getstat, mmce_fs_rename, mmce_fs_devctl,
         mmce_cmd_ping, mmce_cmd_get_status, mmce_cmd_get_card, mmce_cmd_set_card, mmce_cmd_get_channel,
         mmce_cmd_set_channel, mmce_cmd_get_gameid, mmce_cmd_set_gameid, mmce_cmd_reset, mmce_cmd_set_card_channel
  <2>2. "reply" \in Inner /\ "result" \in Inner /\ "plain" \in Inner /\ "data" \in Inner /\ "last" \in Inner
    OBVIOUS
  <2> HIDE DEF Inner
  <2>3. s \in Seq(Inner)
    BY <2>1, <2>2, Tuples
  <2> QED BY <1>0, <2>3
<1> QED BY <1>1, <1>2, <1>3 DEF Batches
-----------------------------------------------------------------------------
(* What becomes of the calls.                                              *)

Same(c, d) == d.unit = c.unit /\ d.file = c.file /\ d.handle = c.handle /\ d.calls = c.calls

LEMMA Moved ==
  ASSUME TypeInv, NEW t \in Threads, NEW at \in Places, Moves(t, at)
  PROVE  /\ call' \in [Threads -> Callings] /\ \A u \in Threads \ {t} : call'[u] = call[u]
         /\ call'[t].at = at /\ call'[t].todo = call[t].todo /\ Same(call[t], call'[t])
<1> DEFINE d == [call[t] EXCEPT !.at = at]
<1>1. call[t] \in Callings /\ call \in [Threads -> Callings]
  BY DEF TypeInv
<1>2. d \in Callings
  BY <1>1 DEF Callings
<1>3. d.at = at /\ d.todo = call[t].todo /\ Same(call[t], d)
  BY <1>1 DEF Callings, Same
<1>4. call' = [call EXCEPT ![t] = d]
  BY DEF Moves
<1> HIDE DEF d
<1> QED BY <1>1, <1>2, <1>3, <1>4

LEMMA Sends ==
  ASSUME TypeInv, NEW t \in Threads, NEW todo \in Seq(Packets),
         call' = [call EXCEPT ![t] = [call[t] EXCEPT !.at = "send", !.todo = todo]]
  PROVE  /\ call' \in [Threads -> Callings] /\ \A u \in Threads \ {t} : call'[u] = call[u]
         /\ call'[t].at = "send" /\ call'[t].todo = todo /\ Same(call[t], call'[t])
<1> DEFINE d == [call[t] EXCEPT !.at = "send", !.todo = todo]
<1>1. call[t] \in Callings /\ call \in [Threads -> Callings]
  BY DEF TypeInv
<1>2. d \in Callings
  BY <1>1 DEF Callings, Places
<1>3. d.at = "send" /\ d.todo = todo /\ Same(call[t], d)
  BY <1>1 DEF Callings, Same
<1> HIDE DEF d
<1>4. call' = [call EXCEPT ![t] = d]
  BY DEF d
<1> QED BY <1>1, <1>2, <1>3, <1>4

LEMMA RestingIs ==
  /\ Resting \in Callings /\ Resting.at = "out" /\ Resting.calls = {} /\ DOMAIN Resting.todo = {}
<1>1. <<>> \in Seq(Packets)
  OBVIOUS
<1> QED BY <1>1 DEF Resting, Callings, Places, Batches

LEMMA Rests ==
  ASSUME TypeInv, NEW t \in Threads, Done(t)
  PROVE  /\ call' \in [Threads -> Callings] /\ call'[t] = Resting /\ \A u \in Threads \ {t} : call'[u] = call[u]
         /\ overlap' \in [calls : SUBSET Threads, port : BOOLEAN, handles : SUBSET Handles]
         /\ overlap'.calls = overlap.calls \ {t} /\ overlap'.port = overlap.port /\ overlap'.handles = overlap.handles
<1>1. Resting \in Callings /\ call \in [Threads -> Callings]
  BY RestingIs DEF TypeInv
<1>2. overlap \in [calls : SUBSET Threads, port : BOOLEAN, handles : SUBSET Handles]
  BY DEF TypeInv
<1> QED BY <1>1, <1>2 DEF Done

(* The handles are as before where a call goes on or ends. *)
LEMMA HandlesStay ==
  ASSUME TypeInv, HandleInv, UNCHANGED <<mmce_fs_fds, file>>, overlap'.handles = overlap.handles, NEW t \in Threads,
         \A u \in Threads \ {t} : call'[u] = call[u],
         \/ call'[t] = Resting
         \/ /\ Same(call[t], call'[t]) /\ call'[t].at # "out" /\ Told(call'[t])
            /\ ~Opener(call[t]) \/ call[t].at \notin {"port", "handle"} \/ call'[t].at \in {"port", "handle"}
  PROVE  HandleInv'
<1>1. HandlesTrue'
  BY DEF HandleInv, HandlesTrue
<1>2. Told(Resting) /\ ~Opener(Resting) /\ ~Closer(Resting) /\ Resting.calls = {}
  BY RestingIs DEF Told, Opener, Closer
<1>3. \A u \in Threads : Opener(call'[u]) => Opener(call[u]) /\ call'[u].file = call[u].file
                                             /\ call'[u].handle = call[u].handle
  BY <1>2 DEF Same, Opener
<1>4. \A u \in Threads : Closer(call'[u]) => Closer(call[u]) /\ call'[u].file = call[u].file
                                             /\ call'[u].handle = call[u].handle
  BY <1>2 DEF Same, Closer
<1>5. \A u \in Threads : Told(call'[u]) /\ (call'[u].at = "out" => call'[u].calls = {})
  BY <1>2 DEF HandleInv
<1>6. ASSUME NEW u \in Threads, Opener(call'[u]) PROVE Chooses(u)'
  <2>1. Opener(call[u]) /\ Chooses(u)
    BY <1>3, <1>6 DEF HandleInv
  <2>2. CASE u = t
    BY <1>2, <1>3, <1>6, <2>1, <2>2 DEF Chooses
  <2>3. CASE u # t
    BY <2>1, <2>3 DEF Chooses
  <2> QED BY <2>2, <2>3
<1> HIDE DEF HandlesTrue, Chooses
<1> QED BY <1>1, <1>3, <1>4, <1>5, <1>6 DEF HandleInv, Fills

(* The unit is that of the calls that go on. *)
LEMMA UnitStays ==
  ASSUME TypeInv, UnitInv, UNCHANGED <<last_unit, mmce_port>>, NEW t \in Threads,
         overlap'.port = overlap.port, call[t].at \notin {"out", "port"},
         \A u \in Threads \ {t} : call'[u] = call[u] /\ (u \in overlap'.calls <=> u \in overlap.calls),
         \/ call'[t] = Resting
         \/ Same(call[t], call'[t]) /\ call'[t].at # "port" /\ (t \in overlap'.calls <=> t \in overlap.calls)
  PROVE  UnitInv'
<1>1. Resting.at = "out"
  BY RestingIs
<1>2. \A u \in Threads : /\ Changing(u)' <=> Changing(u)
                         /\ call'[u].at # "out" => call[u].at # "out" /\ call'[u].unit = call[u].unit
                         /\ Alone(u)' => Alone(u)
  BY <1>1 DEF Changing, Alone, Same
<1>3. \A u \in Threads : Changing(u) => call'[u].unit = call[u].unit
  BY DEF Changing
<1>4. \A u \in Threads : call'[u].at # "out" => last_unit' # -1
  BY <1>2 DEF UnitInv
<1>5. \A u \in Threads : Alone(u)' => call'[u].at # "out"
  BY DEF Alone
<1> HIDE DEF Changing, Alone
<1>6. \A u \in Threads : Alone(u)' => call'[u].unit = last_unit'
  BY <1>2, <1>5 DEF UnitInv
<1> QED BY <1>2, <1>3, <1>4, <1>6 DEF UnitInv
-----------------------------------------------------------------------------
(* A call begins.                                                          *)

LEMMA FreeHandle ==
  ASSUME TypeInv, MmceAssumption, mmce_fs_find_free_handle # 0
  PROVE  mmce_fs_find_free_handle \in Handles /\ mmce_fs_fds[mmce_fs_find_free_handle] < 0
<1>1. FreeHandles # {} /\ FreeHandles \subseteq Nat
  BY DEF mmce_fs_find_free_handle, FreeHandles, Handles, MmceAssumption
<1>2. PICK i \in FreeHandles : \A j \in FreeHandles : ~ (<<j, i>> \in OpToRel(<, Nat))
  BY <1>1, NatLessThanWellFounded, WFMin, Zenon
<1>3. ASSUME NEW j \in FreeHandles PROVE i <= j
  <2>1. ~ (j < i)
    BY <1>1, <1>2 DEF OpToRel
  <2> QED BY <1>1, <2>1
<1>4. mmce_fs_find_free_handle \in FreeHandles
  BY <1>1, <1>3 DEF mmce_fs_find_free_handle
<1> QED BY <1>4 DEF FreeHandles

(* The bus is as before where a call that does not hold it moves, and none *)
(* is taken for one that has met no other.                                 *)
LEMMA EarlyKeeps ==
  ASSUME TypeInv, BusInv, NEW t \in Threads, ~(call[t].at \in Held), ~(call'[t].at \in Held),
         \A u \in Threads \ {t} : call'[u] = call[u],
         \A u \in Threads \ {t} : Talks(u)',
         UNCHANGED <<owner, handler, event_flag, alarm, bus>>
  PROVE  BusInv'
<1>1. \A u \in Threads : Talks(u)'
  BY DEF Talks, Held
<1>2. \A u \in Threads : Knows(call[u].at)'
  BY DEF BusInv, Knows, Held, Cleared, Waiting
<1>3. \A u \in Threads : call'[u].at \in Held <=> owner' = u
  BY DEF BusInv
<1> HIDE DEF Talks, Knows
<1> QED BY <1>1, <1>2, <1>3 DEF BusInv

(* What a call must have when it begins. *)
LEMMA EnterKeeps ==
  ASSUME MmceInv, MmceAssumption, NEW t \in Threads, NEW unit \in {0, 1}, NEW f \in FileSlots \cup {0},
         NEW handle \in Handles \cup {0}, NEW calls \in Batches,
         mmce_fs_open \in calls => f \in FileSlots \ UsedFiles /\ handle = 0,
         mmce_fs_close \in calls => f \in FileSlots \ UsedFiles /\ file[f] # NoFile /\ handle = file[f].handle,
         mmce_fs_open \notin calls \/ mmce_fs_close \notin calls,
         Enter(t, unit, f, handle, calls)
  PROVE  MmceInv'
<1> DEFINE at == IF unit # last_unit THEN "port" ELSE Ready(calls)
           c == [at |-> at, unit |-> unit, file |-> f, handle |-> handle, calls |-> calls, todo |-> <<>>]
           changing == {u \in Inside : call[u].at = "port"}
           others == {u \in Inside : call[u].unit # unit}
<1>1. /\ call[t] = Resting /\ last_unit' = unit /\ overlap' = Meets(t, unit)
      /\ UNCHANGED <<mmce_fs_fds, mmce_port, file, owner, handler, event_flag, alarm, bus, talks>>
      /\ call' = [call EXCEPT ![t] = c]
  BY DEF Enter, mmce_fs_update_unit
<1>2. /\ at \in {"port", "handle", "lock"} /\ (at = "port" <=> unit # last_unit)
      /\ mmce_fs_open \in calls => at \in {"port", "handle"}
  BY DEF Ready
<1> HIDE DEF at
<1>3. /\ c.at = at /\ c.unit = unit /\ c.file = f /\ c.handle = handle /\ c.calls = calls /\ DOMAIN c.todo = {}
      /\ c \in Callings
  <2>1. <<>> \in Seq(Packets)
    OBVIOUS
  <2> QED BY <1>2, <2>1 DEF Callings, Places
<1> HIDE DEF c
<1>4. call \in [Threads -> Callings] /\ TypeInv /\ BusInv /\ UnitInv /\ HandleInv
  BY DEF MmceInv, TypeInv
<1>5. call' \in [Threads -> Callings] /\ call'[t] = c /\ \A u \in Threads \ {t} : call'[u] = call[u]
  BY <1>1, <1>3, <1>4
<1>6. /\ overlap' \in [calls : SUBSET Threads, port : BOOLEAN, handles : SUBSET Handles]
      /\ overlap'.handles = overlap.handles
      /\ overlap'.calls = overlap.calls \cup others \cup IF changing \cup others # {} THEN {t} ELSE {}
      /\ overlap'.port = IF unit = last_unit THEN overlap.port ELSE changing # {}
  <2>1. overlap \in [calls : SUBSET Threads, port : BOOLEAN, handles : SUBSET Handles]
    BY <1>4 DEF TypeInv
  <2>2. /\ overlap' = [overlap EXCEPT !.calls = @ \cup others \cup IF changing \cup others # {} THEN {t} ELSE {},
                                      !.port = IF unit = last_unit THEN @ ELSE changing # {}]
        /\ others \subseteq Threads
    BY <1>1 DEF Meets, Inside
  <2> HIDE DEF others, changing
  <2>3. (overlap.calls \cup others \cup IF changing \cup others # {} THEN {t} ELSE {}) \in SUBSET Threads
    BY <2>1, <2>2
  <2>4. (IF unit = last_unit THEN overlap.port ELSE changing # {}) \in BOOLEAN
    BY <2>1
  <2> QED BY <2>1, <2>2, <2>3, <2>4
<1>7. TypeInv'
  BY <1>1, <1>4, <1>5, <1>6 DEF TypeInv
<1>8. \A u \in Threads : u \in changing <=> Changing(u)
  BY DEF Changing, Inside
<1>9. ASSUME NEW u \in Threads \ {t}, Alone(u)'
      PROVE  Alone(u) /\ call[u].unit = unit /\ unit = last_unit
  <2>1. call'[u] = call[u] /\ u \notin overlap.calls \cup others
    BY <1>5, <1>6, <1>9 DEF Alone
  <2>2. call[u].at # "out" /\ call[u].unit = unit
    BY <1>9, <2>1 DEF Alone, Inside
  <2>3. Alone(u)
    BY <2>1, <2>2 DEF Alone
  <2> QED BY <1>4, <2>2, <2>3 DEF UnitInv
<1>10. call[t].at = "out" /\ ~Changing(t) /\ ~Alone(t)
  BY <1>1, RestingIs DEF Changing, Alone
<1> HIDE DEF others
<1>11. \A u \in Threads \ {t} : Changing(u)' <=> Changing(u)
  BY <1>5 DEF Changing
<1>12. Alone(t)' => changing = {}
  BY <1>6 DEF Alone
<1> HIDE DEF changing
<1>13. UnitInv'
  <2>1. last_unit' # -1
    BY <1>1
  <2>2. \A u \in Threads : Alone(u)' => call'[u].unit = last_unit'
    BY <1>1, <1>3, <1>5, <1>9
  <2>3. ASSUME ~overlap'.port
        PROVE  /\ last_unit' = -1 \/ mmce_port' = PortOf(last_unit') \/ \E u \in Threads : Changing(u)'
               /\ \A u \in Threads : Changing(u)' =>
                     call'[u].unit = last_unit' /\ \A v \in Threads \ {u} : ~Alone(v)'
    <3>1. CASE unit = last_unit
      <4>1. ~overlap.port /\ ~Changing(t)' /\ unit # -1
        BY <1>2, <1>3, <1>5, <1>6, <2>3, <3>1 DEF Changing
      <4>2. ASSUME NEW u \in Threads, Changing(u)' PROVE Changing(u) /\ u # t /\ ~Alone(t)'
        BY <1>8, <1>11, <1>12, <4>1, <4>2
      <4>3. \A u \in Threads : Changing(u) => Changing(u)'
        BY <1>10, <1>11
      <4>4. mmce_port' = PortOf(last_unit') \/ \E u \in Threads : Changing(u)'
        BY <1>1, <1>4, <3>1, <4>1, <4>3 DEF UnitInv
      <4>5. ASSUME NEW u \in Threads, Changing(u)' PROVE call'[u].unit = last_unit' /\ \A v \in Threads \ {u} : ~Alone(v)'
        <5>1. Changing(u) /\ u # t /\ ~Alone(t)'
          BY <4>2, <4>5
        <5>2. call[u].unit = last_unit /\ \A v \in Threads \ {u} : ~Alone(v)
          BY <1>4, <4>1, <5>1 DEF UnitInv
        <5> QED BY <1>1, <1>5, <1>9, <3>1, <5>1, <5>2
      <4> QED BY <4>4, <4>5
    <3>2. CASE unit # last_unit
      <4>1. changing = {} /\ Changing(t)'
        BY <1>2, <1>3, <1>5, <1>6, <2>3, <3>2 DEF Changing
      <4>2. \A u \in Threads : Changing(u)' => u = t
        BY <1>8, <1>11, <4>1
      <4>3. \A v \in Threads \ {t} : ~Alone(v)'
        BY <1>9, <3>2
      <4> QED BY <1>1, <1>3, <1>5, <4>1, <4>2, <4>3
    <3> QED BY <3>1, <3>2
  <2> HIDE DEF Changing, Alone
  <2> QED BY <2>1, <2>2, <2>3 DEF UnitInv
<1>14. BusInv'
  <2>1. ~(call[t].at \in Held) /\ ~(call'[t].at \in Held)
    BY <1>2, <1>3, <1>5, <1>10 DEF Held
  <2>2. ASSUME NEW u \in Threads \ {t} PROVE Talks(u)'
    <3>1. CASE Alone(u)' /\ ~overlap'.port
      <4>1. Alone(u) /\ ~overlap.port
        BY <1>6, <1>9, <3>1
      <4>2. Talks(u)
        BY <1>4 DEF BusInv
      <4> QED BY <1>1, <1>5, <4>1, <4>2 DEF Talks, Alone
    <3>2. CASE ~Alone(u)' \/ overlap'.port
      BY <3>2 DEF Talks, Alone
    <3> QED BY <3>1, <3>2
  <2> QED BY <1>1, <1>4, <1>5, <2>1, <2>2, EarlyKeeps
<1>15. HandleInv'
  <2>1. HandlesTrue'
    BY <1>1, <1>4, <1>6 DEF HandleInv, HandlesTrue
  <2>2. Told(c) /\ (Opener(c) <=> mmce_fs_open \in calls) /\ (Closer(c) <=> mmce_fs_close \in calls)
    BY <1>3 DEF Told, Opener, Closer
  <2>3. ASSUME NEW u \in Threads, Fills(call[u])
        PROVE  u \in Inside /\ call[u].file \in UsedFiles
    BY <1>4, <2>3 DEF HandleInv, Fills, Opener, Closer, Inside, UsedFiles
  <2>4. ~Opener(call[t]) /\ ~Closer(call[t])
    BY <1>1, RestingIs DEF Opener, Closer
  <2>5. \A u \in Threads : Told(call'[u]) /\ (call'[u].at = "out" => call'[u].calls = {})
    BY <1>2, <1>3, <1>4, <1>5, <2>2 DEF HandleInv
  <2>6. 0 \notin Handles
    BY DEF Handles
  <2>7. ASSUME NEW u \in Threads, Opener(call'[u]) PROVE Chooses(u)'
    <3>1. CASE u = t
      BY <1>2, <1>3, <1>5, <2>2, <2>6, <2>7, <3>1 DEF Chooses
    <3>2. CASE u # t
      <4>1. Chooses(u) /\ call'[u] = call[u]
        BY <1>4, <1>5, <2>7, <3>2 DEF HandleInv
      <4> QED BY <1>1, <1>6, <4>1 DEF Chooses
    <3> QED BY <3>1, <3>2
  <2>8. \A u \in Threads : Closer(call'[u]) =>
          call'[u].file \in FileSlots /\ file'[call'[u].file] # NoFile /\ call'[u].handle = file'[call'[u].file].handle
    BY <1>1, <1>3, <1>4, <1>5, <2>2 DEF HandleInv
  <2>9. \A u, v \in Threads : Opener(call'[u]) /\ Opener(call'[v]) /\ u # v /\ call'[u].handle = call'[v].handle =>
           call'[u].handle \in overlap'.handles \cup {0}
    BY <1>3, <1>4, <1>5, <1>6, <2>2 DEF HandleInv
  <2>10. \A u, v \in Threads : Fills(call'[u]) /\ Fills(call'[v]) /\ u # v => call'[u].file # call'[v].file
    BY <1>3, <1>4, <1>5, <2>2, <2>3 DEF HandleInv, Fills
  <2> HIDE DEF Chooses
  <2> QED BY <2>1, <2>5, <2>7, <2>8, <2>9, <2>10 DEF HandleInv
<1> QED BY <1>7, <1>13, <1>14, <1>15 DEF MmceInv

LEMMA OpenKeeps ==
  ASSUME MmceInv, MmceAssumption, NEW t \in Threads, NEW unit \in Units, NEW f \in FileSlots, Open(t, unit, f)
  PROVE  MmceInv'
<1>1. Opens \in Batches /\ mmce_fs_open \in Opens /\ mmce_fs_close \notin Opens
  BY CallsApart DEF Batches
<1>2. Enter(t, unit, f, 0, Opens) /\ f \notin UsedFiles
  BY DEF Open, Opens
<1>3. unit \in {0, 1}
  BY DEF MmceAssumption
<1> QED BY <1>1, <1>2, <1>3, EnterKeeps

LEMMA OnOpenFileKeeps ==
  ASSUME MmceInv, MmceAssumption, NEW t \in Threads, NEW f \in FileSlots, OnOpenFile(t, f)
  PROVE  MmceInv'
<1>1. PICK calls \in {OnFile, Closes} : Enter(t, file[f].unit, f, file[f].handle, calls)
  BY DEF OnOpenFile, Closes
<1>2. file[f] # NoFile /\ f \notin UsedFiles
  BY DEF OnOpenFile
<1>3. file[f].unit \in {0, 1} /\ file[f].handle \in Handles
  BY <1>2 DEF MmceInv, TypeInv, OpenFiles
<1>4. calls \in Batches /\ mmce_fs_open \notin calls
  BY CallsApart DEF Batches
<1> QED BY <1>1, <1>2, <1>3, <1>4, EnterKeeps

LEMMA OnAPathKeeps ==
  ASSUME MmceInv, MmceAssumption, NEW t \in Threads, NEW unit \in Units, OnAPath(t, unit)
  PROVE  MmceInv'
<1>1. OnPath \in Batches /\ mmce_fs_open \notin OnPath /\ mmce_fs_close \notin OnPath
  BY CallsApart DEF Batches
<1>2. unit \in {0, 1}
  BY DEF MmceAssumption
<1> QED BY <1>1, <1>2, EnterKeeps DEF OnAPath

(* The second assignment of a change of the port. *)
LEMMA SetPortKeeps ==
  ASSUME MmceInv, MmceAssumption, NEW t \in Threads, mmce_sio2_set_port(t)
  PROVE  MmceInv'
<1> DEFINE at == Ready(call[t].calls)
<1>1. /\ call[t].at = "port" /\ mmce_port' = PortOf(call[t].unit) /\ Moves(t, at)
      /\ UNCHANGED <<mmce_fs_fds, last_unit, file, owner, handler, event_flag, alarm, bus, talks, overlap>>
  BY DEF mmce_sio2_set_port
<1>2. at \in {"handle", "lock"} /\ (Opener(call[t]) => at = "handle")
  BY DEF Ready, Opener
<1> HIDE DEF at
<1>3. TypeInv /\ BusInv /\ UnitInv /\ HandleInv
  BY DEF MmceInv
<1>4. /\ call' \in [Threads -> Callings] /\ \A u \in Threads \ {t} : call'[u] = call[u]
      /\ call'[t].at = at /\ call'[t].todo = call[t].todo /\ Same(call[t], call'[t])
  <2>1. at \in Places
    BY <1>2 DEF Places
  <2> QED BY <1>1, <1>3, <2>1, Moved
<1>5. TypeInv'
  BY <1>1, <1>3, <1>4 DEF TypeInv
<1>6. UnitInv'
  <2>1. \A u \in Threads : Alone(u)' <=> Alone(u)
    BY <1>1, <1>2, <1>4 DEF Alone
  <2>2. \A u \in Threads : (Changing(u)' => u # t /\ Changing(u)) /\ call'[u].unit = call[u].unit
    BY <1>2, <1>4 DEF Changing, Same
  <2>3. Changing(t) /\ call[t].at # "out"
    BY <1>1 DEF Changing
  <2>4. \A u \in Threads : call'[u].at # "out" => last_unit' # -1
    BY <1>1, <1>3, <2>3 DEF UnitInv
  <2> HIDE DEF Alone, Changing
  <2> QED BY <1>1, <1>3, <2>1, <2>2, <2>3, <2>4 DEF UnitInv
<1>7. BusInv'
  <2>1. ~(call[t].at \in Held) /\ ~(call'[t].at \in Held)
    BY <1>1, <1>2, <1>4 DEF Held
  <2>2. \A u \in Threads \ {t} : Talks(u)'
    BY <1>1, <1>3, <1>4 DEF BusInv, Talks
  <2> QED BY <1>1, <1>3, <1>4, <2>1, <2>2, EarlyKeeps
<1>8. Told(call'[t]) /\ call'[t].at # "out"
  BY <1>2, <1>3, <1>4 DEF HandleInv, Told, Same, Opener, Closer
<1>9. HandleInv'
  BY <1>1, <1>2, <1>3, <1>4, <1>8, HandlesStay
<1> QED BY <1>5, <1>6, <1>7, <1>9 DEF MmceInv

(* A call before the lock goes on to it or is over: the handles are left   *)
(* to show.                                                                *)
LEMMA BeforeLockKeeps ==
  ASSUME MmceInv, MmceAssumption, NEW t \in Threads, call[t].at = "handle",
         call' \in [Threads -> Callings], \A u \in Threads \ {t} : call'[u] = call[u],
         \/ call'[t] = Resting
         \/ call'[t].at = "lock" /\ call'[t].unit = call[t].unit /\ (t \in overlap'.calls <=> t \in overlap.calls),
         UNCHANGED <<mmce_fs_fds, last_unit, mmce_port, owner, handler, event_flag, alarm, bus, talks>>,
         file' \in [FileSlots -> OpenFiles \cup {NoFile}],
         overlap' \in [calls : SUBSET Threads, port : BOOLEAN, handles : SUBSET Handles],
         overlap'.port = overlap.port,
         \A u \in Threads \ {t} : u \in overlap'.calls <=> u \in overlap.calls,
         HandleInv'
  PROVE  MmceInv'
<1>1. TypeInv /\ BusInv /\ UnitInv
  BY DEF MmceInv
<1>2. TypeInv'
  BY <1>1 DEF TypeInv
<1>3. Resting.at = "out"
  BY RestingIs
<1>4. UnitInv'
  <2>1. \A u \in Threads : /\ Changing(u)' <=> Changing(u)
                           /\ call'[u].at # "out" => call[u].at # "out" /\ call'[u].unit = call[u].unit
                           /\ Alone(u)' => Alone(u)
                           /\ Changing(u) => call'[u].unit = call[u].unit
    BY <1>3 DEF Changing, Alone
  <2>2. \A u \in Threads : call'[u].at # "out" => last_unit' # -1
    BY <1>1, <2>1 DEF UnitInv
  <2>3. \A u \in Threads : Alone(u)' => call'[u].at # "out"
    BY DEF Alone
  <2> HIDE DEF Changing, Alone
  <2>4. \A u \in Threads : Alone(u)' => call'[u].unit = last_unit'
    BY <1>1, <2>1, <2>3 DEF UnitInv
  <2> QED BY <1>1, <2>1, <2>2, <2>4 DEF UnitInv
<1>5. BusInv'
  <2>1. ~(call[t].at \in Held) /\ ~(call'[t].at \in Held)
    BY <1>3 DEF Held
  <2>2. \A u \in Threads \ {t} : Talks(u)'
    BY <1>1 DEF BusInv, Talks
  <2> QED BY <1>1, <2>1, <2>2, EarlyKeeps
<1> QED BY <1>2, <1>4, <1>5 DEF MmceInv

LEMMA ChooseHandleKeeps ==
  ASSUME MmceInv, MmceAssumption, NEW t \in Threads, ChooseHandle(t)
  PROVE  MmceInv'
<1> DEFINE h == mmce_fs_find_free_handle
           shared == \E u \in Threads \ {t} : Opening(u) /\ call[u].handle = h
<1>1. /\ call[t].at = "handle" /\ Opener(call[t])
      /\ UNCHANGED <<mmce_fs_fds, last_unit, mmce_port, file, owner, handler, event_flag, alarm, bus, talks>>
  BY DEF ChooseHandle, Opening, Opener
<1>2. TypeInv /\ HandleInv /\ call[t] \in Callings /\ call \in [Threads -> Callings]
  BY DEF MmceInv, TypeInv
<1>3. CASE h = 0 /\ Done(t)
  <2>1. /\ call' \in [Threads -> Callings] /\ call'[t] = Resting /\ \A u \in Threads \ {t} : call'[u] = call[u]
        /\ overlap' \in [calls : SUBSET Threads, port : BOOLEAN, handles : SUBSET Handles]
        /\ overlap'.calls = overlap.calls \ {t} /\ overlap'.port = overlap.port /\ overlap'.handles = overlap.handles
    BY <1>2, <1>3, Rests
  <2>2. HandleInv'
    BY <1>1, <1>2, <2>1, HandlesStay
  <2>3. file' \in [FileSlots -> OpenFiles \cup {NoFile}]
    BY <1>1, <1>2 DEF TypeInv
  <2> QED BY <1>1, <2>1, <2>2, <2>3, BeforeLockKeeps
<1>4. CASE /\ h # 0
           /\ call' = [call EXCEPT ![t].at = "lock", ![t].handle = h]
           /\ overlap' = [overlap EXCEPT !.handles = IF shared THEN @ \cup {h} ELSE @]
  <2>1. h \in Handles /\ mmce_fs_fds[h] < 0
    BY <1>2, <1>4, FreeHandle
  <2> DEFINE d == [call[t] EXCEPT !.at = "lock", !.handle = h]
  <2>2. d \in Callings /\ d.at = "lock" /\ d.handle = h /\ d.unit = call[t].unit /\ d.file = call[t].file
        /\ d.calls = call[t].calls /\ d.todo = call[t].todo
    BY <1>2, <2>1 DEF Callings, Places
  <2>3. call' = [call EXCEPT ![t] = d]
    BY <1>4
  <2> HIDE DEF d
  <2>4. call' \in [Threads -> Callings] /\ call'[t] = d /\ \A u \in Threads \ {t} : call'[u] = call[u]
    BY <1>2, <2>2, <2>3
  <2>5. overlap \in [calls : SUBSET Threads, port : BOOLEAN, handles : SUBSET Handles]
    BY <1>2 DEF TypeInv
  <2>6. (shared => \E u \in Threads \ {t} : Opener(call[u]) /\ call[u].handle = h) /\
        (~shared => \A u \in Threads \ {t} : ~Opener(call[u]) \/ call[u].handle # h)
    BY DEF Opening, Opener
  <2> DEFINE handles == IF shared THEN overlap.handles \cup {h} ELSE overlap.handles
  <2>7. overlap' = [overlap EXCEPT !.handles = handles] /\ handles \in SUBSET Handles
    BY <1>4, <2>1, <2>5
  <2>8. overlap.handles \subseteq handles /\ (shared => h \in handles)
    OBVIOUS
  <2> HIDE DEF shared, h, handles
  <2>9. /\ overlap' \in [calls : SUBSET Threads, port : BOOLEAN, handles : SUBSET Handles]
        /\ overlap'.calls = overlap.calls /\ overlap'.port = overlap.port /\ overlap'.handles = handles
    BY <2>5, <2>7
  <2>10. HandleInv'
    <3>1. HandlesTrue'
      BY <1>1, <1>2, <2>8, <2>9 DEF HandleInv, HandlesTrue
    <3>2. \A u \in Threads : /\ Opener(call'[u]) <=> Opener(call[u])
                             /\ Closer(call'[u]) <=> Closer(call[u])
                             /\ call'[u].file = call[u].file
      BY <2>2, <2>4 DEF Opener, Closer
    <3>3. \A u \in Threads : Told(call'[u]) /\ (call'[u].at = "out" => call'[u].calls = {})
      BY <1>2, <2>2, <2>4 DEF HandleInv, Told, Opener, Closer
    <3>4. ASSUME NEW u \in Threads, Opener(call'[u]) PROVE Chooses(u)'
      <4>1. Chooses(u)
        BY <1>2, <3>2, <3>4 DEF HandleInv
      <4>2. CASE u = t
        BY <1>1, <2>1, <2>2, <2>4, <4>1, <4>2 DEF Chooses, Handles
      <4>3. CASE u # t
        BY <1>1, <2>4, <2>8, <2>9, <4>1, <4>3 DEF Chooses
      <4> QED BY <4>2, <4>3
    <3>5. ~Closer(call[t])
      <4>1. call[t].calls = Opens
        BY <1>1, <1>2, CallsApart DEF Opener, Callings, Batches
      <4> QED BY <4>1, CallsApart DEF Closer
    <3>6. \A u \in Threads : Closer(call'[u]) =>
            /\ call'[u].file \in FileSlots /\ file'[call'[u].file] # NoFile
            /\ call'[u].handle = file'[call'[u].file].handle
      BY <1>1, <1>2, <2>4, <3>2, <3>5 DEF HandleInv
    <3>7. ASSUME NEW u \in Threads, NEW v \in Threads,
                 Opener(call'[u]), Opener(call'[v]), u # v, call'[u].handle = call'[v].handle
          PROVE  call'[u].handle \in overlap'.handles \cup {0}
      <4>1. CASE u # t /\ v # t
        BY <1>2, <2>4, <2>8, <2>9, <3>2, <3>7, <4>1 DEF HandleInv
      <4>2. CASE u = t
        BY <2>2, <2>4, <2>6, <2>8, <2>9, <3>2, <3>7, <4>2
      <4>3. CASE v = t
        BY <2>2, <2>4, <2>6, <2>8, <2>9, <3>2, <3>7, <4>3
      <4> QED BY <4>1, <4>2, <4>3
    <3>8. \A u, v \in Threads : Fills(call'[u]) /\ Fills(call'[v]) /\ u # v => call'[u].file # call'[v].file
      BY <1>2, <3>2 DEF HandleInv, Fills
    <3> HIDE DEF HandlesTrue, Chooses
    <3> QED BY <3>1, <3>3, <3>4, <3>6, <3>7, <3>8 DEF HandleInv
  <2>11. file' \in [FileSlots -> OpenFiles \cup {NoFile}]
    BY <1>1, <1>2 DEF TypeInv
  <2> QED BY <1>1, <2>2, <2>4, <2>9, <2>10, <2>11, BeforeLockKeeps
<1> QED BY <1>3, <1>4 DEF ChooseHandle
-----------------------------------------------------------------------------
(* A call has the bus.                                                     *)

LEMMA LockKeeps ==
  ASSUME MmceInv, MmceAssumption, NEW t \in Threads, mmce_sio2_lock(t)
  PROVE  MmceInv'
<1>1. TypeInv /\ BusInv /\ UnitInv /\ HandleInv /\ call[t] \in Callings
  BY DEF MmceInv, TypeInv
<1>2. PICK todo \in call[t].calls : call' = [call EXCEPT ![t].at = "send", ![t].todo = todo]
  BY DEF mmce_sio2_lock
<1>3. /\ todo \in Seq(Packets)
      /\ \A i \in DOMAIN todo : (todo[i] = "fd" => Opener(call[t])) /\ (todo[i] = "closed" => Closer(call[t]))
  BY <1>1, PacketsTell DEF Callings, Opener, Closer
<1>4. /\ call' \in [Threads -> Callings] /\ \A u \in Threads \ {t} : call'[u] = call[u]
      /\ call'[t].at = "send" /\ call'[t].todo = todo /\ Same(call[t], call'[t])
  BY <1>1, <1>2, <1>3, Sends
<1>5. /\ call[t].at = "lock" /\ owner = "nobody" /\ owner' = t /\ handler' = "mmce"
      /\ UNCHANGED <<mmce_fs_fds, last_unit, mmce_port, file, event_flag, alarm, bus, talks, overlap>>
  BY DEF mmce_sio2_lock
<1>6. TypeInv'
  BY <1>1, <1>4, <1>5 DEF TypeInv
<1>7. UnitInv'
  BY <1>1, <1>4, <1>5, UnitStays
<1>8. Told(call'[t])
  BY <1>3, <1>4 DEF Told, Same, Opener, Closer
<1>9. HandleInv'
  BY <1>1, <1>4, <1>5, <1>8, HandlesStay
<1>10. BusInv'
  <2>1. owner \notin Threads => ~alarm /\ event_flag = {} /\ bus = "idle"
    BY <1>1, <1>5 DEF BusInv
  <2>2. owner \notin Threads
    BY <1>5 DEF MmceAssumption
  <2>3. \A u \in Threads : ~(call[u].at \in Held)
    BY <1>1, <2>2 DEF BusInv
  <2>4. "send" \in Held /\ owner' \in Threads /\ owner' # "nobody"
    BY <1>5 DEF Held, MmceAssumption
  <2>5. Knows(call[t].at)' /\ Talks(t)'
    BY <1>4, <1>5, <2>1, <2>2 DEF Knows, Talks, Cleared
  <2>6. \A u \in Threads \ {t} : Knows(call[u].at)' /\ Talks(u)'
    BY <1>4, <2>3 DEF Held, Knows, Talks
  <2>7. \A u \in Threads : Knows(call[u].at)' /\ Talks(u)'
    BY <2>5, <2>6
  <2>8. \A u \in Threads : call'[u].at \in Held <=> owner' = u
    BY <1>4, <1>5, <2>3, <2>4
  <2> HIDE DEF Knows, Talks
  <2> QED BY <1>5, <2>4, <2>7, <2>8 DEF BusInv
<1> QED BY <1>6, <1>7, <1>9, <1>10 DEF MmceInv

(* A step of the call that holds the bus: the handles stay, and the bus    *)
(* part is left to show.                                                   *)
LEMMA StepKeeps ==
  ASSUME MmceInv, MmceAssumption, NEW t \in Threads, NEW at \in Places \ {"out"}, call[t].at \in Held, Moves(t, at),
         UNCHANGED <<mmce_fs_fds, last_unit, mmce_port, file, overlap>>,
         event_flag' \in SUBSET {"COMPLETE", "TIMEOUT"}, alarm' \in BOOLEAN, bus' \in {"idle", "busy", "done"},
         UNCHANGED <<owner, handler>>, at \in Held, Knows(at)',
         \/ at \notin {"wait", "cancel", "clear", "answer"} \/ t \in overlap.calls \/ overlap.port
         \/ talks' = PortOf(call[t].unit)
  PROVE  MmceInv'
<1>1. TypeInv /\ BusInv /\ UnitInv /\ HandleInv
  BY DEF MmceInv
<1>2. /\ call' \in [Threads -> Callings] /\ \A u \in Threads \ {t} : call'[u] = call[u]
      /\ call'[t].at = at /\ call'[t].todo = call[t].todo /\ Same(call[t], call'[t])
  BY <1>1, Moved
<1>3. TypeInv'
  BY <1>1, <1>2 DEF TypeInv
<1>4. call[t].at \notin {"out", "port"}
  BY DEF Held
<1>9. at # "port" /\ call[t].at # "handle"
  BY DEF Held
<1>5. UnitInv'
  BY <1>1, <1>2, <1>4, <1>9, UnitStays
<1>6. Told(call'[t])
  BY <1>1, <1>2 DEF HandleInv, Told, Same, Opener, Closer
<1>7. HandleInv'
  BY <1>1, <1>2, <1>4, <1>6, <1>9, HandlesStay
<1>8. BusInv'
  <2>1. owner = t /\ \A u \in Threads \ {t} : ~(call[u].at \in Held)
    BY <1>1 DEF BusInv
  <2>2. Talks(t)'
    BY <1>2 DEF Talks, Same
  <2>3. \A u \in Threads \ {t} : Knows(call[u].at)' /\ Talks(u)'
    BY <1>2, <2>1 DEF Held, Knows, Talks
  <2>8. Knows(call[t].at)'
    BY <1>2 DEF Knows
  <2>4. \A u \in Threads : Knows(call[u].at)' /\ Talks(u)'
    BY <2>2, <2>3, <2>8
  <2>5. owner' = t /\ handler' = "mmce"
    BY <1>1, <2>1 DEF BusInv
  <2>6. \A u \in Threads : call'[u].at \in Held <=> owner' = u
    BY <1>2, <2>1, <2>5
  <2>7. owner' # "nobody" \/ bus' = "idle"
    BY <2>5 DEF MmceAssumption
  <2> HIDE DEF Knows, Talks
  <2> QED BY <2>4, <2>5, <2>6, <2>7 DEF BusInv
<1> QED BY <1>3, <1>5, <1>7, <1>8 DEF MmceInv

(* What the holder knows. *)
LEMMA HolderKnows ==
  ASSUME MmceInv, NEW t \in Threads
  PROVE  /\ Knows(call[t].at) /\ Talks(t)
         /\ \/ call[t].at \in {"out", "port"} \/ t \in overlap.calls \/ overlap.port
            \/ mmce_port = PortOf(call[t].unit)
         /\ event_flag \in SUBSET {"COMPLETE", "TIMEOUT"} /\ alarm \in BOOLEAN /\ bus \in {"idle", "busy", "done"}
<1>1. ASSUME call[t].at \notin {"out", "port"}, t \notin overlap.calls, ~overlap.port
      PROVE  mmce_port = PortOf(call[t].unit)
  <2>1. Alone(t) /\ ~Changing(t) /\ last_unit # -1 /\ call[t].unit = last_unit
    BY <1>1 DEF MmceInv, UnitInv, Alone, Changing
  <2> HIDE DEF Alone, Changing
  <2>2. \A u \in Threads : ~Changing(u)
    BY <1>1, <2>1 DEF MmceInv, UnitInv
  <2> QED BY <1>1, <2>1, <2>2 DEF MmceInv, UnitInv
<1> QED BY <1>1 DEF MmceInv, TypeInv, BusInv

LEMMA SendKeeps ==
  ASSUME MmceInv, MmceAssumption, NEW t \in Threads, Send(t)
  PROVE  MmceInv'
<1>1. /\ call[t].at = "send" /\ bus' = "busy" /\ talks' = mmce_port /\ alarm' = TRUE /\ Moves(t, "wait")
      /\ UNCHANGED <<mmce_fs_fds, last_unit, mmce_port, file, owner, handler, event_flag, overlap>>
  BY DEF Send
<1>2. event_flag = {} /\ (t \in overlap.calls \/ overlap.port \/ talks' = PortOf(call[t].unit))
  BY <1>1, HolderKnows DEF Knows, Cleared
<1>3. Knows("wait")'
  BY <1>1, <1>2 DEF Knows, Waiting
<1>4. "wait" \in Places \ {"out"} /\ "send" \in Held /\ "wait" \in Held
  BY DEF Places, Held
<1> HIDE DEF Knows
<1> QED BY <1>1, <1>2, <1>3, <1>4, StepKeeps

LEMMA CompletesKeeps ==
  ASSUME MmceInv, MmceAssumption, NEW t \in Threads, Completes(t)
  PROVE  MmceInv'
<1>1. /\ call[t].at = "wait" /\ event_flag = {"COMPLETE"} /\ Moves(t, "cancel")
      /\ UNCHANGED <<mmce_fs_fds, last_unit, mmce_port, file, owner, handler, event_flag, alarm, bus, talks, overlap>>
  BY DEF Completes
<1>2. bus = "done" /\ (t \in overlap.calls \/ overlap.port \/ talks = PortOf(call[t].unit)) /\ alarm \in BOOLEAN
  BY <1>1, HolderKnows DEF Knows, Waiting, Talks
<1>3. Knows("cancel")'
  BY <1>1, <1>2 DEF Knows
<1>4. "cancel" \in Places \ {"out"} /\ "wait" \in Held /\ "cancel" \in Held
  BY DEF Places, Held
<1> HIDE DEF Knows
<1> QED BY <1>1, <1>2, <1>3, <1>4, StepKeeps

LEMMA TimesOutKeeps ==
  ASSUME MmceInv, MmceAssumption, NEW t \in Threads, TimesOut(t)
  PROVE  MmceInv'
<1>1. /\ call[t].at = "wait" /\ "TIMEOUT" \in event_flag /\ bus' = "idle" /\ event_flag' = {} /\ Moves(t, "failed")
      /\ UNCHANGED <<mmce_fs_fds, last_unit, mmce_port, file, owner, handler, alarm, talks, overlap>>
  BY DEF TimesOut
<1>2. ~alarm /\ alarm \in BOOLEAN
  BY <1>1, HolderKnows DEF Knows, Waiting
<1>3. Knows("failed")'
  BY <1>1, <1>2 DEF Knows, Cleared
<1>4. "failed" \in Places \ {"out"} /\ "wait" \in Held /\ "failed" \in Held
  BY DEF Places, Held
<1> HIDE DEF Knows
<1> QED BY <1>1, <1>2, <1>3, <1>4, StepKeeps

LEMMA CancelAlarmKeeps ==
  ASSUME MmceInv, MmceAssumption, NEW t \in Threads, CancelAlarm(t)
  PROVE  MmceInv'
<1>1. /\ call[t].at = "cancel" /\ alarm' = FALSE /\ Moves(t, "clear")
      /\ UNCHANGED <<mmce_fs_fds, last_unit, mmce_port, file, owner, handler, event_flag, bus, talks, overlap>>
  BY DEF CancelAlarm
<1>2. bus = "done" /\ (t \in overlap.calls \/ overlap.port \/ talks = PortOf(call[t].unit)) /\ event_flag \in SUBSET {"COMPLETE", "TIMEOUT"}
  BY <1>1, HolderKnows DEF Knows, Talks
<1>3. Knows("clear")'
  BY <1>1, <1>2 DEF Knows
<1>4. "clear" \in Places \ {"out"} /\ "cancel" \in Held /\ "clear" \in Held
  BY DEF Places, Held
<1> HIDE DEF Knows
<1> QED BY <1>1, <1>2, <1>3, <1>4, StepKeeps

LEMMA ClearKeeps ==
  ASSUME MmceInv, MmceAssumption, NEW t \in Threads, ClearEventFlag(t)
  PROVE  MmceInv'
<1>1. /\ call[t].at = "clear" /\ event_flag' = {} /\ Moves(t, "answer")
      /\ UNCHANGED <<mmce_fs_fds, last_unit, mmce_port, file, owner, handler, alarm, bus, talks, overlap>>
  BY DEF ClearEventFlag
<1>2. bus = "done" /\ (t \in overlap.calls \/ overlap.port \/ talks = PortOf(call[t].unit)) /\ ~alarm /\ alarm \in BOOLEAN
  BY <1>1, HolderKnows DEF Knows, Talks
<1>3. Knows("answer")'
  BY <1>1, <1>2 DEF Knows, Cleared
<1>4. "answer" \in Places \ {"out"} /\ "clear" \in Held /\ "answer" \in Held
  BY DEF Places, Held
<1> HIDE DEF Knows
<1> QED BY <1>1, <1>2, <1>3, <1>4, StepKeeps

LEMMA BadAnswerKeeps ==
  ASSUME MmceInv, MmceAssumption, NEW t \in Threads, BadAnswer(t)
  PROVE  MmceInv'
<1>1. /\ call[t].at = "answer" /\ Moves(t, "failed")
      /\ UNCHANGED <<mmce_fs_fds, last_unit, mmce_port, file, owner, handler, event_flag, alarm, bus, talks, overlap>>
  BY DEF BadAnswer
<1>2. Cleared /\ event_flag \in SUBSET {"COMPLETE", "TIMEOUT"} /\ alarm \in BOOLEAN /\ bus \in {"idle", "busy", "done"}
  BY <1>1, HolderKnows DEF Knows
<1>3. Knows("failed")'
  BY <1>1, <1>2 DEF Knows, Cleared
<1>4. "failed" \in Places \ {"out"} /\ "answer" \in Held /\ "failed" \in Held
  BY DEF Places, Held
<1> HIDE DEF Knows
<1> QED BY <1>1, <1>2, <1>3, <1>4, StepKeeps

LEMMA GoesKeeps ==
  ASSUME MmceInv, MmceAssumption, NEW t \in Threads, Goes(t)
  PROVE  MmceInv'
<1>1. TypeInv /\ BusInv /\ UnitInv /\ HandleInv /\ call[t] \in Callings /\ call[t].todo \in Seq(Packets)
  BY DEF MmceInv, TypeInv, Callings
<1>2. PICK todo \in {Tail(call[t].todo), call[t].todo} : call' = [call EXCEPT ![t].todo = todo, ![t].at = "send"]
  BY DEF Goes
<1>3. /\ call[t].at = "answer" /\ Len(call[t].todo) > 1
      /\ UNCHANGED <<mmce_fs_fds, last_unit, mmce_port, file, owner, handler, event_flag, alarm, bus, talks, overlap>>
  BY DEF Goes
<1>4. todo \in Seq(Packets) /\ \A i \in DOMAIN todo : \E j \in DOMAIN call[t].todo : todo[i] = call[t].todo[j]
  <2>1. CASE todo = call[t].todo
    BY <1>1, <2>1
  <2>2. CASE todo = Tail(call[t].todo)
    <3>1. call[t].todo # <<>>
      BY <1>1, <1>3
    <3>2. todo \in Seq(Packets) /\ Len(todo) = Len(call[t].todo) - 1
      BY <1>1, <2>2, <3>1
    <3>3. \A i \in 1..Len(todo) : todo[i] = call[t].todo[i + 1] /\ i + 1 \in 1..Len(call[t].todo)
      BY <1>1, <2>2, <3>1, <3>2
    <3> QED BY <1>1, <3>2, <3>3
  <2> QED BY <1>2, <2>1, <2>2
<1>5. call' = [call EXCEPT ![t] = [call[t] EXCEPT !.at = "send", !.todo = todo]]
  BY <1>2
<1>6. /\ call' \in [Threads -> Callings] /\ \A u \in Threads \ {t} : call'[u] = call[u]
      /\ call'[t].at = "send" /\ call'[t].todo = todo /\ Same(call[t], call'[t])
  BY <1>1, <1>4, <1>5, Sends
<1>7. TypeInv'
  BY <1>1, <1>3, <1>6 DEF TypeInv
<1>8. UnitInv'
  BY <1>1, <1>3, <1>6, UnitStays
<1>9. Told(call'[t])
  BY <1>1, <1>4, <1>6 DEF HandleInv, Told, Same, Opener, Closer
<1>10. HandleInv'
  BY <1>1, <1>3, <1>6, <1>9, HandlesStay
<1>11. BusInv'
  <2>1. Cleared
    BY <1>3, HolderKnows DEF Knows
  <2>2. Knows(call[t].at)' /\ Talks(t)'
    BY <1>3, <1>6, <2>1 DEF Knows, Talks, Cleared
  <2>3. owner = t /\ \A u \in Threads \ {t} : ~(call[u].at \in Held)
    BY <1>1, <1>3 DEF BusInv, Held
  <2>4. \A u \in Threads \ {t} : Knows(call[u].at)' /\ Talks(u)'
    BY <1>6, <2>3 DEF Held, Knows, Talks
  <2>5. \A u \in Threads : Knows(call[u].at)' /\ Talks(u)'
    BY <2>2, <2>4
  <2>6. \A u \in Threads : call'[u].at \in Held <=> owner' = u
    BY <1>3, <1>6, <2>3 DEF Held
  <2> HIDE DEF Knows, Talks
  <2> QED BY <1>1, <1>3, <2>5, <2>6 DEF BusInv
<1> QED BY <1>7, <1>8, <1>10, <1>11 DEF MmceInv
-----------------------------------------------------------------------------
(* A call ends.                                                            *)

LEMMA EndKeeps ==
  ASSUME MmceInv, MmceAssumption, NEW t \in Threads, call[t].at \in {"answer", "failed"},
         mmce_sio2_unlock(t), Done(t), UNCHANGED <<last_unit, mmce_port, event_flag, alarm>>,
         mmce_fs_fds' \in [Handles -> Int], file' \in [FileSlots -> OpenFiles \cup {NoFile}], HandleInv'
  PROVE  MmceInv'
<1>1. TypeInv /\ BusInv /\ UnitInv /\ HandleInv
  BY DEF MmceInv
<1>2. /\ call' \in [Threads -> Callings] /\ \A u \in Threads \ {t} : call'[u] = call[u]
      /\ call'[t] = Resting
      /\ overlap' \in [calls : SUBSET Threads, port : BOOLEAN, handles : SUBSET Handles]
      /\ overlap'.calls = overlap.calls \ {t} /\ overlap'.port = overlap.port
  BY <1>1, Rests
<1>3. owner' = "nobody" /\ handler' = "sio2man" /\ bus' = "idle"
  BY DEF mmce_sio2_unlock
<1>4. TypeInv'
  BY <1>1, <1>2, <1>3 DEF TypeInv
<1>5. UnitInv'
  BY <1>1, <1>2, UnitStays
<1>6. BusInv'
  <2>1. Cleared
    BY HolderKnows DEF Knows
  <2>2. owner = t /\ \A u \in Threads \ {t} : ~(call[u].at \in Held)
    BY <1>1 DEF BusInv, Held
  <2>3. ~(Resting.at \in Held)
    BY RestingIs DEF Held
  <2>4. \A u \in Threads : ~(call'[u].at \in Held)
    BY <1>2, <2>2, <2>3
  <2>5. \A u \in Threads : Knows(call[u].at)' /\ Talks(u)'
    BY <2>4 DEF Held, Knows, Talks
  <2>6. owner' \notin Threads /\ ~alarm' /\ event_flag' = {}
    BY <1>3, <2>1 DEF MmceAssumption, Cleared
  <2>7. \A u \in Threads : call'[u].at \in Held <=> owner' = u
    BY <2>4, <2>6
  <2> HIDE DEF Knows, Talks
  <2> QED BY <1>3, <2>5, <2>6, <2>7 DEF BusInv
<1> QED BY <1>4, <1>5, <1>6 DEF MmceInv

LEMMA EndsKeeps ==
  ASSUME MmceInv, MmceAssumption, NEW t \in Threads, Ends(t)
  PROVE  MmceInv'
<1>1. /\ call[t].at = "answer" /\ mmce_sio2_unlock(t) /\ Done(t)
      /\ UNCHANGED <<last_unit, mmce_port, event_flag, alarm, mmce_fs_fds, file>>
  BY DEF Ends, Answered
<1>2. TypeInv /\ HandleInv
  BY DEF MmceInv
<1>3. call'[t] = Resting /\ overlap'.handles = overlap.handles /\ \A u \in Threads \ {t} : call'[u] = call[u]
  BY <1>1, <1>2, Rests
<1>4. HandleInv'
  BY <1>1, <1>2, <1>3, HandlesStay
<1>5. mmce_fs_fds' \in [Handles -> Int] /\ file' \in [FileSlots -> OpenFiles \cup {NoFile}]
  BY <1>1, <1>2 DEF TypeInv
<1> QED BY <1>1, <1>4, <1>5, EndKeeps

(* The handles where the call of t is over and a file was let go of. *)
LEMMA LetGo ==
  ASSUME MmceInv, NEW t \in Threads, Closer(call[t]), call'[t] = Resting,
         overlap'.handles = overlap.handles, \A u \in Threads \ {t} : call'[u] = call[u],
         file' = [file EXCEPT ![call[t].file] = NoFile],
         \/ UNCHANGED mmce_fs_fds
         \/ mmce_fs_fds' = [mmce_fs_fds EXCEPT ![call[t].handle] = -1]
  PROVE  /\ HandleInv' /\ mmce_fs_fds' \in [Handles -> Int]
         /\ file' \in [FileSlots -> OpenFiles \cup {NoFile}]
<1> DEFINE f == call[t].file
           h == call[t].handle
<1>1. TypeInv /\ HandleInv
  BY DEF MmceInv
<1>2. f \in FileSlots /\ file[f] # NoFile /\ h = file[f].handle /\ h \in Handles
  BY <1>1 DEF HandleInv, TypeInv, OpenFiles
<1> HIDE DEF f, h
<1>3. /\ file'[f] = NoFile /\ \A g \in FileSlots \ {f} : file'[g] = file[g]
      /\ file' \in [FileSlots -> OpenFiles \cup {NoFile}]
  BY <1>1, <1>2 DEF f, TypeInv
<1>4. /\ mmce_fs_fds' \in [Handles -> Int]
      /\ \A i \in Handles : mmce_fs_fds'[i] = mmce_fs_fds[i] \/ (i = h /\ mmce_fs_fds'[i] = -1)
  BY <1>1, <1>2 DEF h, TypeInv
<1>5. \A g \in FileSlots : file[g] # NoFile => file[g].handle \in Handles
  BY <1>1 DEF TypeInv, OpenFiles
<1>6. \A g \in FileSlots \ {f} : file[g] # NoFile /\ file[g].handle \notin overlap.handles => file[g].handle # h
  BY <1>1, <1>2 DEF HandleInv, HandlesTrue
<1>7. NoFile.handle \notin Handles
  BY DEF NoFile, Handles
<1>8. HandlesTrue'
  BY <1>1, <1>3, <1>4, <1>5, <1>6, <1>7 DEF HandleInv, HandlesTrue
<1>9. Told(Resting) /\ ~Opener(Resting) /\ ~Closer(Resting) /\ Resting.calls = {}
  BY RestingIs DEF Told, Opener, Closer
<1>10. \A u \in Threads : Told(call'[u]) /\ (call'[u].at = "out" => call'[u].calls = {})
  BY <1>1, <1>9 DEF HandleInv
<1>11. \A u \in Threads : Opener(call'[u]) => Chooses(u)'
  BY <1>1, <1>4, <1>9 DEF HandleInv, Chooses
<1>12. \A u \in Threads : Closer(call'[u]) =>
          call'[u].file \in FileSlots /\ file'[call'[u].file] # NoFile /\ call'[u].handle = file'[call'[u].file].handle
  <2>1. \A u \in Threads \ {t} : Closer(call[u]) => call[u].file # f
    BY <1>1 DEF HandleInv, Fills, f
  <2> QED BY <1>1, <1>3, <1>9, <2>1 DEF HandleInv
<1>13. \A u, v \in Threads : Opener(call'[u]) /\ Opener(call'[v]) /\ u # v /\ call'[u].handle = call'[v].handle =>
          call'[u].handle \in overlap'.handles \cup {0}
  BY <1>1, <1>9 DEF HandleInv
<1>14. \A u, v \in Threads : Fills(call'[u]) /\ Fills(call'[v]) /\ u # v => call'[u].file # call'[v].file
  BY <1>1, <1>9 DEF HandleInv, Fills
<1> HIDE DEF HandlesTrue, Chooses
<1> QED BY <1>3, <1>4, <1>8, <1>10, <1>11, <1>12, <1>13, <1>14 DEF HandleInv

LEMMA LookAtHandleKeeps ==
  ASSUME MmceInv, MmceAssumption, NEW t \in Threads, LookAtHandle(t)
  PROVE  MmceInv'
<1>1. /\ call[t].at = "handle" /\ Closer(call[t])
      /\ UNCHANGED <<mmce_fs_fds, last_unit, mmce_port, owner, handler, event_flag, alarm, bus, talks>>
  BY DEF LookAtHandle, Closing, Closer
<1>2. TypeInv /\ HandleInv
  BY DEF MmceInv
<1>3. CASE Moves(t, "lock") /\ UNCHANGED <<file, overlap>>
  <2>1. "lock" \in Places
    BY DEF Places
  <2>2. /\ call' \in [Threads -> Callings] /\ \A u \in Threads \ {t} : call'[u] = call[u]
        /\ call'[t].at = "lock" /\ call'[t].todo = call[t].todo /\ Same(call[t], call'[t])
    BY <1>2, <1>3, <2>1, Moved
  <2>3. Told(call'[t])
    BY <1>2, <2>2 DEF HandleInv, Told, Same, Opener, Closer
  <2>4. ~Opener(call[t])
    <3>1. call[t].calls = Closes
      BY <1>1, <1>2, CallsApart DEF Closer, TypeInv, Callings, Batches
    <3> QED BY <3>1, CallsApart DEF Opener
  <2>5. HandleInv'
    BY <1>1, <1>2, <1>3, <2>2, <2>3, <2>4, HandlesStay
  <2>6. /\ file' \in [FileSlots -> OpenFiles \cup {NoFile}]
        /\ overlap' \in [calls : SUBSET Threads, port : BOOLEAN, handles : SUBSET Handles]
    BY <1>2, <1>3 DEF TypeInv
  <2> QED BY <1>1, <1>3, <2>2, <2>5, <2>6, BeforeLockKeeps DEF Same
<1>4. CASE file' = [file EXCEPT ![call[t].file] = NoFile] /\ Done(t)
  <2>1. /\ call' \in [Threads -> Callings] /\ call'[t] = Resting /\ \A u \in Threads \ {t} : call'[u] = call[u]
        /\ overlap' \in [calls : SUBSET Threads, port : BOOLEAN, handles : SUBSET Handles]
        /\ overlap'.calls = overlap.calls \ {t} /\ overlap'.port = overlap.port /\ overlap'.handles = overlap.handles
    BY <1>2, <1>4, Rests
  <2>2. HandleInv' /\ file' \in [FileSlots -> OpenFiles \cup {NoFile}]
    BY <1>1, <1>4, <2>1, LetGo
  <2> QED BY <1>1, <2>1, <2>2, BeforeLockKeeps
<1> QED BY <1>3, <1>4 DEF LookAtHandle

LEMMA FailedKeeps ==
  ASSUME MmceInv, MmceAssumption, NEW t \in Threads, Failed(t)
  PROVE  MmceInv'
<1>1. /\ call[t].at = "failed" /\ mmce_sio2_unlock(t) /\ Done(t)
      /\ UNCHANGED <<mmce_fs_fds, last_unit, mmce_port, event_flag, alarm>>
      /\ file' = IF Closer(call[t]) THEN [file EXCEPT ![call[t].file] = NoFile] ELSE file
  BY DEF Failed, Closer
<1>2. TypeInv /\ HandleInv
  BY DEF MmceInv
<1>3. call'[t] = Resting /\ overlap'.handles = overlap.handles /\ \A u \in Threads \ {t} : call'[u] = call[u]
  BY <1>1, <1>2, Rests
<1>4. /\ HandleInv' /\ mmce_fs_fds' \in [Handles -> Int]
      /\ file' \in [FileSlots -> OpenFiles \cup {NoFile}]
  <2>1. CASE Closer(call[t])
    BY <1>1, <1>3, <2>1, LetGo
  <2>2. CASE ~Closer(call[t])
    BY <1>1, <1>2, <1>3, <2>2, HandlesStay DEF TypeInv
  <2> QED BY <2>1, <2>2
<1> QED BY <1>1, <1>4, EndKeeps

LEMMA ClosedKeeps ==
  ASSUME MmceInv, MmceAssumption, NEW t \in Threads, Closed(t)
  PROVE  MmceInv'
<1>1. /\ call[t].at = "answer" /\ call[t].todo = <<"closed">> /\ mmce_sio2_unlock(t) /\ Done(t)
      /\ UNCHANGED <<last_unit, mmce_port, event_flag, alarm>>
      /\ file' = [file EXCEPT ![call[t].file] = NoFile]
      /\ mmce_fs_fds' = [mmce_fs_fds EXCEPT ![call[t].handle] = -1] \/ UNCHANGED mmce_fs_fds
  BY DEF Closed, Answered
<1>2. Closer(call[t])
  BY <1>1 DEF MmceInv, HandleInv, Told
<1>3. call'[t] = Resting /\ overlap'.handles = overlap.handles /\ \A u \in Threads \ {t} : call'[u] = call[u]
  BY <1>1, Rests DEF MmceInv
<1>4. /\ HandleInv' /\ mmce_fs_fds' \in [Handles -> Int]
      /\ file' \in [FileSlots -> OpenFiles \cup {NoFile}]
  BY <1>1, <1>2, <1>3, LetGo
<1> QED BY <1>1, <1>4, EndKeeps

LEMMA OpenedKeeps ==
  ASSUME MmceInv, MmceAssumption, NEW t \in Threads, Opened(t)
  PROVE  MmceInv'
<1>1. /\ call[t].at = "answer" /\ call[t].todo = <<"fd">> /\ mmce_sio2_unlock(t) /\ Done(t)
      /\ UNCHANGED <<last_unit, mmce_port, event_flag, alarm>>
  BY DEF Opened, Answered
<1>2. TypeInv /\ HandleInv
  BY DEF MmceInv
<1>3. call'[t] = Resting /\ overlap'.handles = overlap.handles /\ \A u \in Threads \ {t} : call'[u] = call[u]
  BY <1>1, <1>2, Rests
<1>4. CASE UNCHANGED <<mmce_fs_fds, file>>
  <2>1. HandleInv'
    BY <1>2, <1>3, <1>4, HandlesStay
  <2>2. mmce_fs_fds' \in [Handles -> Int] /\ file' \in [FileSlots -> OpenFiles \cup {NoFile}]
    BY <1>2, <1>4 DEF TypeInv
  <2> QED BY <1>1, <2>1, <2>2, EndKeeps
<1>5. ASSUME NEW fd \in CardFds,
             mmce_fs_fds' = [mmce_fs_fds EXCEPT ![call[t].handle] = fd],
             file' = [file EXCEPT ![call[t].file] = [unit |-> call[t].unit, handle |-> call[t].handle, fd |-> fd]]
      PROVE  MmceInv'
  <2> DEFINE f == call[t].file
             h == call[t].handle
             new == [unit |-> call[t].unit, handle |-> h, fd |-> fd]
  <2>1. Opener(call[t])
    BY <1>1, <1>2 DEF HandleInv, Told
  <2>2. f \in FileSlots /\ h \in Handles /\ (h \notin overlap.handles => mmce_fs_fds[h] < 0) /\ call[t].unit \in {0, 1}
    <3>1. Chooses(t) /\ call[t] \in Callings
      BY <1>2, <2>1 DEF HandleInv, TypeInv
    <3> QED BY <1>1, <3>1 DEF Chooses, Callings
  <2> HIDE DEF f, h
  <2>3. new \in OpenFiles /\ new.handle = h /\ new.fd = fd
    BY <2>2 DEF OpenFiles
  <2> HIDE DEF new
  <2>4. /\ file'[f] = new /\ \A g \in FileSlots \ {f} : file'[g] = file[g]
        /\ file' \in [FileSlots -> OpenFiles \cup {NoFile}]
    BY <1>2, <1>5, <2>2, <2>3 DEF f, h, new, TypeInv
  <2>5. fd \in Nat
    BY DEF MmceAssumption
  <2>6. /\ mmce_fs_fds' \in [Handles -> Int] /\ mmce_fs_fds'[h] = fd
        /\ \A i \in Handles \ {h} : mmce_fs_fds'[i] = mmce_fs_fds[i]
    BY <1>2, <1>5, <2>2, <2>5 DEF h, TypeInv
  <2>7. \A g \in FileSlots : file[g] # NoFile => /\ file[g].handle \in Handles
                                                 /\ file[g].handle \notin overlap.handles => file[g].handle # h
    <3>1. \A g \in FileSlots : file[g] # NoFile => file[g].handle \in Handles /\ file[g].fd \in Nat
      BY <1>2 DEF TypeInv, OpenFiles, MmceAssumption
    <3>2. \A g \in FileSlots : file[g] # NoFile /\ file[g].handle \notin overlap.handles =>
             mmce_fs_fds[file[g].handle] = file[g].fd
      BY <1>2 DEF HandleInv, HandlesTrue
    <3> QED BY <2>2, <3>1, <3>2
  <2>8. NoFile.handle \notin Handles
    BY DEF NoFile, Handles
  <2>9. HandlesTrue'
    <3>1. ASSUME NEW g \in FileSlots, file'[g] # NoFile, file'[g].handle \notin overlap.handles
          PROVE  mmce_fs_fds'[file'[g].handle] = file'[g].fd
      <4>1. CASE g = f
        BY <2>3, <2>4, <2>6, <4>1
      <4>2. CASE g # f
        <5>1. mmce_fs_fds[file[g].handle] = file[g].fd /\ file'[g] = file[g]
          BY <1>2, <2>4, <3>1, <4>2 DEF HandleInv, HandlesTrue
        <5> QED BY <2>6, <2>7, <3>1, <4>2, <5>1
      <4> QED BY <4>1, <4>2
    <3>2. ASSUME NEW g \in FileSlots, file'[g] # NoFile, file'[g].handle \notin overlap.handles, NEW k \in FileSlots \ {g}
          PROVE  file'[k].handle # file'[g].handle
      <4>1. CASE g = f
        <5>1. h \notin overlap.handles /\ mmce_fs_fds[h] < 0 /\ file'[k] = file[k]
          BY <2>2, <2>3, <2>4, <3>2, <4>1
        <5>2. CASE file[k] = NoFile
          BY <2>2, <2>3, <2>4, <2>8, <4>1, <5>1, <5>2
        <5>3. CASE file[k] # NoFile
          BY <2>3, <2>4, <2>7, <4>1, <5>1, <5>3
        <5> QED BY <5>2, <5>3
      <4>2. CASE k = f /\ g # f
        BY <2>3, <2>4, <2>7, <3>2, <4>2
      <4>3. CASE g # f /\ k # f
        <5>1. file'[g] = file[g] /\ file'[k] = file[k]
          BY <2>4, <4>3
        <5> QED BY <1>2, <3>2, <5>1 DEF HandleInv, HandlesTrue
      <4> QED BY <4>1, <4>2, <4>3
    <3> QED BY <1>3, <3>1, <3>2 DEF HandlesTrue
  <2>10. Told(Resting) /\ ~Opener(Resting) /\ ~Closer(Resting) /\ Resting.calls = {}
    BY RestingIs DEF Told, Opener, Closer
  <2>11. \A u \in Threads : Told(call'[u]) /\ (call'[u].at = "out" => call'[u].calls = {})
    BY <1>2, <1>3, <2>10 DEF HandleInv
  <2>12. ASSUME NEW u \in Threads, Opener(call'[u]) PROVE Chooses(u)'
    <3>1. u # t /\ call'[u] = call[u] /\ Opener(call[u]) /\ Chooses(u)
      BY <1>2, <1>3, <2>10, <2>12 DEF HandleInv
    <3>2. call[u].handle = h => h \in overlap.handles \cup {0}
      BY <1>2, <2>1, <3>1 DEF HandleInv, h
    <3> QED BY <1>3, <2>2, <2>6, <3>1, <3>2 DEF Chooses, Handles
  <2>16. \A u, v \in Threads : Opener(call'[u]) /\ Opener(call'[v]) /\ u # v /\ call'[u].handle = call'[v].handle =>
           call'[u].handle \in overlap'.handles \cup {0}
    BY <1>2, <1>3, <2>10 DEF HandleInv
  <2>13. \A u \in Threads : Closer(call'[u]) =>
          call'[u].file \in FileSlots /\ file'[call'[u].file] # NoFile /\ call'[u].handle = file'[call'[u].file].handle
    <3>1. \A u \in Threads \ {t} : Closer(call[u]) => call[u].file # f
      BY <1>2, <2>1 DEF HandleInv, Fills, f
    <3> QED BY <1>2, <1>3, <2>4, <2>10, <3>1 DEF HandleInv
  <2>14. \A u, v \in Threads : Fills(call'[u]) /\ Fills(call'[v]) /\ u # v => call'[u].file # call'[v].file
    BY <1>2, <1>3, <2>10 DEF HandleInv, Fills
  <2> HIDE DEF HandlesTrue, Chooses
  <2>15. HandleInv'
    BY <2>9, <2>11, <2>12, <2>13, <2>14, <2>16 DEF HandleInv
  <2> QED BY <1>1, <2>4, <2>6, <2>15, EndKeeps
<1> QED BY <1>4, <1>5 DEF Opened
-----------------------------------------------------------------------------
(* The interrupt, the alarm and the pads.                                  *)

(* Where no call moves, only the bus is left to show. *)
LEMMA OthersKeep ==
  ASSUME MmceInv, UNCHANGED <<mmce_fs_fds, last_unit, mmce_port, file, call, overlap>>,
         event_flag' \in SUBSET {"COMPLETE", "TIMEOUT"}, alarm' \in BOOLEAN, bus' \in {"idle", "busy", "done"},
         BusInv'
  PROVE  MmceInv'
<1>1. TypeInv' /\ UnitInv'
  BY DEF MmceInv, TypeInv, UnitInv, Alone, Changing
<1>2. HandleInv'
  BY DEF MmceInv, HandleInv, HandlesTrue, Told, Opener, Closer, Fills, Chooses
<1> QED BY <1>1, <1>2 DEF MmceInv

LEMMA InterruptKeeps ==
  ASSUME MmceInv, MmceAssumption, Interrupt
  PROVE  MmceInv'
<1>1. BusInv /\ TypeInv
  BY DEF MmceInv
<1>2. /\ bus = "busy" /\ bus' = "done"
      /\ event_flag' = IF handler = "mmce" THEN event_flag \cup {"COMPLETE"} ELSE event_flag
      /\ UNCHANGED <<mmce_fs_fds, last_unit, mmce_port, file, owner, handler, alarm, talks, call, overlap>>
  BY DEF Interrupt
<1>3. event_flag' \in SUBSET {"COMPLETE", "TIMEOUT"} /\ alarm' \in BOOLEAN
  BY <1>1, <1>2 DEF TypeInv
<1>4. ASSUME NEW t \in Threads PROVE Knows(call[t].at)' /\ Talks(t)'
  <2>1. Knows(call[t].at) /\ Talks(t) /\ call[t].at \notin {"send", "answer", "failed"}
    BY <1>1, <1>2 DEF BusInv, Knows, Cleared
  <2>2. CASE call[t].at = "wait"
    <3>1. handler = "mmce"
      BY <1>1, <2>2 DEF BusInv, Held
    <3> QED BY <1>2, <2>1, <2>2, <3>1 DEF Knows, Talks, Waiting
  <2>3. CASE call[t].at # "wait"
    BY <1>2, <2>1, <2>3 DEF Knows, Talks
  <2> QED BY <2>2, <2>3
<1>5. BusInv'
  <2>1. owner \notin Threads => event_flag' = {} /\ ~alarm
    BY <1>1, <1>2 DEF BusInv
  <2> HIDE DEF Knows, Talks
  <2> QED BY <1>1, <1>2, <1>4, <2>1 DEF BusInv
<1> QED BY <1>2, <1>3, <1>5, OthersKeep

LEMMA TimeoutKeeps ==
  ASSUME MmceInv, MmceAssumption, mmce_sio2_timeout_handler
  PROVE  MmceInv'
<1>1. BusInv /\ TypeInv
  BY DEF MmceInv
<1>2. /\ alarm /\ alarm' = FALSE /\ event_flag' = event_flag \cup {"TIMEOUT"}
      /\ UNCHANGED <<mmce_fs_fds, last_unit, mmce_port, file, owner, handler, bus, talks, call, overlap>>
  BY DEF mmce_sio2_timeout_handler
<1>3. event_flag' \in SUBSET {"COMPLETE", "TIMEOUT"} /\ bus' \in {"idle", "busy", "done"}
  BY <1>1, <1>2 DEF TypeInv
<1>4. ASSUME NEW t \in Threads PROVE Knows(call[t].at)' /\ Talks(t)'
  BY <1>1, <1>2 DEF BusInv, Knows, Talks, Waiting, Cleared
<1>5. BusInv'
  BY <1>1, <1>2, <1>4 DEF BusInv
<1> QED BY <1>2, <1>3, <1>5, OthersKeep

LEMMA PadsKeep ==
  ASSUME MmceInv, MmceAssumption, PadBegins \/ PadEnds
  PROVE  MmceInv'
<1>1. BusInv /\ TypeInv
  BY DEF MmceInv
<1>2. /\ owner \in {"nobody", "pads"} /\ owner' \in {"nobody", "pads"} /\ (owner' = "nobody" => bus' = "idle")
      /\ bus' \in {"idle", "busy"} /\ UNCHANGED <<mmce_fs_fds, last_unit, mmce_port, file, handler, event_flag, alarm, call, overlap>>
  BY DEF PadBegins, PadEnds
<1>3. owner \notin Threads /\ owner' \notin Threads
  BY <1>2 DEF MmceAssumption
<1>4. \A t \in Threads : ~(call[t].at \in Held)
  BY <1>1, <1>3 DEF BusInv
<1>5. ASSUME NEW t \in Threads PROVE Knows(call[t].at)' /\ Talks(t)'
  BY <1>2, <1>4 DEF Held, Knows, Talks
<1>6. BusInv'
  BY <1>1, <1>2, <1>3, <1>4, <1>5 DEF BusInv
<1> QED BY <1>1, <1>2, <1>6, OthersKeep DEF TypeInv
-----------------------------------------------------------------------------
(* The driver.                                                             *)

LEMMA InitInv == ASSUME MmceFsInit, MmceAssumption PROVE MmceInv
<1>1. TypeInv
  <2>1. mmce_fs_fds \in [Handles -> Int]
    BY DEF MmceFsInit
  <2>2. file \in [FileSlots -> OpenFiles \cup {NoFile}]
    BY DEF MmceFsInit
  <2>3. call \in [Threads -> Callings]
    BY RestingIs DEF MmceFsInit
  <2>4. overlap \in [calls : SUBSET Threads, port : BOOLEAN, handles : SUBSET Handles]
    BY DEF MmceFsInit, NoOverlap
  <2> QED BY <2>1, <2>2, <2>3, <2>4 DEF MmceFsInit, TypeInv
<1>2. \A t \in Threads : call[t] = Resting
  BY DEF MmceFsInit
<1>3. UnitInv
  BY <1>2, RestingIs DEF MmceFsInit, UnitInv, Alone, Changing
<1>4. owner \notin Threads /\ \A t \in Threads : ~(call[t].at \in Held)
  BY <1>2, RestingIs DEF MmceFsInit, MmceAssumption, Held
<1>5. \A t \in Threads : Knows(call[t].at) /\ Talks(t)
  BY <1>4 DEF Held, Knows, Talks
<1>6. BusInv
  BY <1>4, <1>5 DEF MmceFsInit, BusInv
<1>7. HandlesTrue
  BY DEF MmceFsInit, HandlesTrue
<1>8. HandleInv
  BY <1>2, <1>7, RestingIs DEF HandleInv, Told, Opener, Closer, Fills
<1> QED BY <1>1, <1>3, <1>6, <1>8 DEF MmceInv

LEMMA NextInv == ASSUME MmceInv, MmceAssumption, MmceFsNext PROVE MmceInv'
<1>1. ASSUME NEW t \in Threads, NEW f \in FileSlots, NEW unit \in Units, Open(t, unit, f)
      PROVE  MmceInv'
  BY <1>1, OpenKeeps
<1>2. ASSUME NEW t \in Threads, NEW f \in FileSlots, OnOpenFile(t, f) PROVE MmceInv'
  BY <1>2, OnOpenFileKeeps
<1>3. ASSUME NEW t \in Threads, mmce_sio2_set_port(t) \/ ChooseHandle(t) \/ LookAtHandle(t) PROVE MmceInv'
  BY <1>3, SetPortKeeps, ChooseHandleKeeps, LookAtHandleKeeps
<1>4. ASSUME NEW t \in Threads, NEW unit \in Units, OnAPath(t, unit) PROVE MmceInv'
  BY <1>4, OnAPathKeeps
<1>5. ASSUME NEW t \in Threads, mmce_sio2_lock(t) \/ Transfer(t) PROVE MmceInv'
  BY <1>5, LockKeeps, SendKeeps, CompletesKeeps, TimesOutKeeps, CancelAlarmKeeps, ClearKeeps DEF Transfer
<1>6. ASSUME NEW t \in Threads, Goes(t) \/ BadAnswer(t) \/ Failed(t) \/ Ends(t) \/ Opened(t) \/ Closed(t)
      PROVE  MmceInv'
  BY <1>6, GoesKeeps, BadAnswerKeeps, FailedKeeps, EndsKeeps, OpenedKeeps, ClosedKeeps
<1>7. CASE Interrupt \/ mmce_sio2_timeout_handler \/ PadBegins \/ PadEnds
  BY <1>7, InterruptKeeps, TimeoutKeeps, PadsKeep
<1> QED BY <1>1, <1>2, <1>3, <1>4, <1>5, <1>6, <1>7 DEF MmceFsNext

(* However the interrupt, the alarm, the pads and the threads meet, and    *)
(* wherever a transfer times out: sio2man has its bus and handler back     *)
(* with no bit or alarm of an old transfer; and but for calls that met     *)
(* before the lock an answer that a call takes is of the card of its unit, *)
(* and each open file has a handle of its own with its own descriptor      *)
(* (iop/mmceman); for any number of threads, open files and handles.       *)
THEOREM MmceFsIsSafe ==
  ASSUME MmceAssumption
  PROVE  Spec => []MmceFsSafe
<1>1. MmceFsInit => MmceInv
  BY InitInv
<1>2. MmceInv /\ [MmceFsNext]_mmceVars => MmceInv'
  <2>1. ASSUME MmceInv, UNCHANGED mmceVars PROVE MmceInv'
    <3>1. BusInv'
      BY <2>1 DEF MmceInv, BusInv, Knows, Talks, Waiting, Cleared, mmceVars
    <3>2. event_flag' \in SUBSET {"COMPLETE", "TIMEOUT"} /\ alarm' \in BOOLEAN /\ bus' \in {"idle", "busy", "done"}
      BY <2>1 DEF MmceInv, TypeInv, mmceVars
    <3> QED BY <2>1, <3>1, <3>2, OthersKeep DEF mmceVars
  <2> QED BY <2>1, NextInv
<1>3. MmceInv => MmceFsSafe
  <2>1. ASSUME MmceInv PROVE BusReturned
    BY <2>1 DEF MmceInv, BusInv, Knows, Cleared, BusReturned
  <2>2. ASSUME MmceInv PROVE AnswerReal
    BY <2>2 DEF MmceInv, BusInv, Knows, Talks, AnswerReal
  <2> QED BY <2>1, <2>2 DEF MmceInv, HandleInv, MmceFsSafe
<1> QED BY <1>1, <1>2, <1>3, PTL DEF Spec
-----------------------------------------------------------------------------
(* The play history.                                                       *)
Lists == [Slots -> Entries]
Faults == Outcomes \ {"none"}
HistoryType ==
    /\ cards \in [Ports -> [file : Lists \cup {NoHistory}, old : SUBSET Names]]
    /\ update \in [title : Titles \cup {None}, port : Ports]
    /\ past \in [launches : Nat, failures : [Ports -> SUBSET Faults], seen : [Ports -> SUBSET Names],
                 evicted : [title : Names, from : Lists]]
(* What is kept is inductive with its types: the rest is about one list.   *)
HistoryInv == HistoryType /\ HistoryKept

(* Sets of numbers have a least one, and those with a bound a greatest one. *)
LEMMA SomeLeast ==
  ASSUME NEW S \in SUBSET Nat, S # {}
  PROVE  \E i \in S : \A j \in S : i <= j
<1>1. PICK i \in S : \A j \in S : <<j, i>> \notin OpToRel(<, Nat)
  BY NatLessThanWellFounded, WFMin, Zenon
<1>2. ASSUME NEW j \in S PROVE i <= j
  <2>1. <<j, i>> \notin OpToRel(<, Nat)
    BY <1>1
  <2>2. i \in Nat /\ j \in Nat
    OBVIOUS
  <2>3. ~(j < i)
    BY <2>1, <2>2 DEF OpToRel
  <2> QED BY <2>2, <2>3
<1> QED BY <1>2

LEMMA SomeGreatest ==
  ASSUME NEW n \in Nat, NEW S \in SUBSET (1 .. n), S # {}
  PROVE  \E i \in S : \A j \in S : j <= i
<1> DEFINE T == {n - i : i \in S}
<1>1. T \in SUBSET Nat /\ T # {}
  <2>1. \A i \in S : n - i \in Nat
    OBVIOUS
  <2> QED BY <2>1
<1>2. PICK t \in T : \A j \in T : t <= j
  BY <1>1, SomeLeast
<1>3. PICK i \in S : t = n - i
  BY <1>2
<1>4. ASSUME NEW j \in S PROVE j <= i
  <2>1. n - j \in T
    OBVIOUS
  <2>2. i \in 1 .. n /\ j \in 1 .. n
    OBVIOUS
  <2> HIDE DEF T
  <2> QED BY <1>2, <1>3, <2>1, <2>2
<1> QED BY <1>4
-----------------------------------------------------------------------------
(* The entry that makes room.                                              *)
LEMMA KeptHasLast ==
  ASSUME HistoryAssumption, NEW list \in Lists, KeptByLoop(list) # {}
  PROVE  LeastUsed(list) \in KeptByLoop(list) /\ \A j \in KeptByLoop(list) : j <= LeastUsed(list)
<1>1. KeptByLoop(list) \in SUBSET (1 .. MAX_ENTRIES) /\ MAX_ENTRIES \in Nat
  BY DEF KeptByLoop, OnceLeast, Slots, HistoryAssumption
<1>2. \E i \in KeptByLoop(list) : \A j \in KeptByLoop(list) : j <= i
  BY <1>1, SomeGreatest
<1> QED BY <1>2 DEF LeastUsed

LEMMA EntryNumbers ==
  ASSUME NEW list \in Lists, NEW i \in Slots
  PROVE  /\ list[i] \in Entries /\ list[i].count \in Nat /\ list[i].day \in Nat /\ list[i].title \in Names
         /\ list[i].bits \in SUBSET Bits
<1>1. list[i] \in Entries
  BY DEF Lists
<1> QED BY <1>1 DEF Entries

LEMMA LeastHasFewest ==
  ASSUME HistoryAssumption, NEW list \in Lists
  PROVE  LeastUsed(list) \in Slots /\ \A i \in Slots : list[LeastUsed(list)].count <= list[i].count
<1> DEFINE least == LeastUsed(list)
           C == {list[i].count : i \in Slots}
<1>1. Slots \subseteq Nat /\ 1 \in Slots
  BY DEF Slots, HistoryAssumption
<1>2. PICK c \in C : \A d \in C : c <= d
  <2>1. C \in SUBSET Nat /\ C # {}
    BY <1>1, EntryNumbers
  <2> QED BY <2>1, SomeLeast
<1> DEFINE F == {i \in Slots : list[i].count = c}
<1>3. PICK f \in F : \A j \in F : f <= j
  <2>1. F \in SUBSET Nat /\ F # {}
    BY <1>1, <1>2
  <2> HIDE DEF F
  <2> QED BY <2>1, SomeLeast
<1>4. \A i \in Slots : list[f].count <= list[i].count
  BY <1>2, <1>3
<1>5. \A j \in 1 .. f - 1 : j \in Slots /\ list[f].count < list[j].count
  <2> SUFFICES ASSUME NEW j \in 1 .. f - 1 PROVE j \in Slots /\ list[f].count < list[j].count
    OBVIOUS
  <2>1. f \in 1 .. MAX_ENTRIES /\ MAX_ENTRIES \in Nat
    BY <1>3 DEF Slots, HistoryAssumption
  <2>2. j \in Slots /\ j < f
    BY <2>1 DEF Slots
  <2>3. j \notin F
    BY <1>1, <1>3, <2>2
  <2>4. list[j].count \in Nat /\ list[f].count \in Nat /\ list[f].count <= list[j].count
    BY <1>3, <1>4, <2>2, EntryNumbers
  <2>5. list[j].count # list[f].count
    BY <1>3, <2>2, <2>3
  <2> QED BY <2>2, <2>4, <2>5
<1>6. f \in KeptByLoop(list)
  <2>1. \A j \in 1 .. f - 1 : list[f].count <= list[j].count
    <3> SUFFICES ASSUME NEW j \in 1 .. f - 1 PROVE list[f].count <= list[j].count
      OBVIOUS
    <3> QED BY <1>3, <1>4, <1>5
  <2> QED BY <1>3, <1>5, <2>1 DEF KeptByLoop, OnceLeast
<1>7. least \in KeptByLoop(list) /\ f <= least
  BY <1>6, KeptHasLast
<1>8. least \in Slots /\ \A j \in 1 .. least - 1 : list[least].count <= list[j].count
  BY <1>7 DEF KeptByLoop, OnceLeast
<1>9. list[least].count <= list[f].count
  <2>1. CASE least = f
    BY <2>1, <1>3, EntryNumbers
  <2>2. CASE least # f
    <3>1. f \in 1 .. least - 1
      BY <1>1, <1>3, <1>7, <1>8, <2>2 DEF Slots, HistoryAssumption
    <3> QED BY <3>1, <1>8
  <2> QED BY <2>1, <2>2
<1> HIDE DEF least
<1>10. ASSUME NEW i \in Slots PROVE list[least].count <= list[i].count
  <2>1. list[i].count \in Nat /\ list[f].count \in Nat /\ list[least].count \in Nat
    BY <1>3, <1>8, EntryNumbers
  <2> QED BY <1>4, <1>9, <2>1
<1> QED BY <1>8, <1>10 DEF least

LEMMA LeastIsOldest ==
  ASSUME HistoryAssumption, NEW list \in Lists, \A i \in Slots : list[i].count = list[LeastUsed(list)].count
  PROVE  \A i \in Slots : list[LeastUsed(list)].day <= list[i].day
<1> DEFINE least == LeastUsed(list)
           D == {list[i].day : i \in Slots}
<1>1. Slots \subseteq Nat /\ 1 \in Slots
  BY DEF Slots, HistoryAssumption
<1>2. PICK day \in D : \A d \in D : day <= d
  <2>1. D \in SUBSET Nat /\ D # {}
    BY <1>1, EntryNumbers
  <2> QED BY <2>1, SomeLeast
<1> DEFINE F == {i \in Slots : list[i].day = day}
<1>3. PICK f \in F : \A j \in F : f <= j
  <2>1. F \in SUBSET Nat /\ F # {}
    BY <1>1, <1>2
  <2> HIDE DEF F
  <2> QED BY <2>1, SomeLeast
<1>4. \A i \in Slots : list[f].day <= list[i].day
  BY <1>2, <1>3
<1>5. OnceLeast(list) = Slots
  <2> SUFFICES ASSUME NEW i \in Slots, NEW j \in 1 .. i - 1 PROVE list[i].count <= list[j].count
    BY DEF OnceLeast
  <2>1. j \in Slots
    BY DEF Slots, HistoryAssumption
  <2>2. list[i].count = list[j].count /\ list[i].count \in Nat
    BY <2>1, EntryNumbers
  <2> QED BY <2>2
<1>6. f \in KeptByLoop(list)
  <2>1. ASSUME NEW j \in Slots, j < f PROVE list[f].day < list[j].day
    <3>1. j \notin F
      BY <1>1, <1>3, <2>1
    <3>2. list[j].day # list[f].day /\ list[f].day <= list[j].day
      BY <1>3, <1>4, <3>1
    <3>3. list[j].day \in Nat /\ list[f].day \in Nat
      BY <1>3, EntryNumbers
    <3> QED BY <3>2, <3>3
  <2> QED BY <1>3, <1>5, <2>1 DEF KeptByLoop
<1>7. least \in KeptByLoop(list) /\ f <= least
  BY <1>6, KeptHasLast
<1>8. least \in Slots /\ f \in Slots
  BY <1>3, <1>5, <1>7 DEF KeptByLoop
<1> HIDE DEF least
<1>9. least = f
  <2> SUFFICES ASSUME f < least PROVE FALSE
    BY <1>1, <1>7, <1>8
  <2>1. ~ \A j \in 1 .. least - 1 : list[least].count < list[j].count
    <3>1. 1 \in 1 .. least - 1 /\ 1 \in Slots
      BY <1>1, <1>8 DEF Slots, HistoryAssumption
    <3>2. list[1].count = list[least].count /\ list[1].count \in Nat
      BY <3>1, EntryNumbers DEF least
    <3> QED BY <3>1, <3>2
  <2>2. list[least].day < list[f].day
    BY <1>5, <1>7, <1>8, <2>1 DEF KeptByLoop
  <2>3. list[f].day <= list[least].day /\ list[f].day \in Nat /\ list[least].day \in Nat
    BY <1>4, <1>8, EntryNumbers
  <2> QED BY <2>2, <2>3
<1> QED BY <1>4, <1>9 DEF least
-----------------------------------------------------------------------------
(* The counts at which a bit is added.                                     *)
Steps == {14, 24, 34, 44, 54}
Passed(n) == Cardinality(Steps \cap (1 .. n))

LEMMA OneMore ==
  ASSUME NEW S, IsFiniteSet(S), NEW x, x \notin S
  PROVE  IsFiniteSet(S \cup {x}) /\ Cardinality(S \cup {x}) = Cardinality(S) + 1
BY FS_AddElement

LEMMA PassedSize ==
  ASSUME NEW n \in Nat
  PROVE  Passed(n) = IF n < 14 THEN 0 ELSE IF n < 24 THEN 1 ELSE IF n < 34 THEN 2
                     ELSE IF n < 44 THEN 3 ELSE IF n < 54 THEN 4 ELSE 5
<1>1. IsFiniteSet({}) /\ Cardinality({}) = 0
  BY FS_EmptySet
<1>2. IsFiniteSet({14}) /\ Cardinality({14}) = 1
  BY <1>1, FS_Singleton
<1>3. IsFiniteSet({14, 24}) /\ Cardinality({14, 24}) = 2
  <2>1. {14, 24} = {14} \cup {24} /\ 24 \notin {14}
    OBVIOUS
  <2> QED BY <1>2, <2>1, OneMore
<1>4. IsFiniteSet({14, 24, 34}) /\ Cardinality({14, 24, 34}) = 3
  <2>1. {14, 24, 34} = {14, 24} \cup {34} /\ 34 \notin {14, 24}
    OBVIOUS
  <2> QED BY <1>3, <2>1, OneMore
<1>5. IsFiniteSet({14, 24, 34, 44}) /\ Cardinality({14, 24, 34, 44}) = 4
  <2>1. {14, 24, 34, 44} = {14, 24, 34} \cup {44} /\ 44 \notin {14, 24, 34}
    OBVIOUS
  <2> QED BY <1>4, <2>1, OneMore
<1>6. Cardinality(Steps) = 5
  <2>1. Steps = {14, 24, 34, 44} \cup {54} /\ 54 \notin {14, 24, 34, 44}
    BY DEF Steps
  <2> QED BY <1>5, <2>1, OneMore
<1>7. CASE n < 14
  <2>1. Steps \cap (1 .. n) = {}
    BY <1>7 DEF Steps
  <2> QED BY <1>1, <1>7, <2>1 DEF Passed
<1>8. CASE n >= 14 /\ n < 24
  <2>1. Steps \cap (1 .. n) = {14}
    BY <1>8 DEF Steps
  <2> QED BY <1>2, <1>8, <2>1 DEF Passed
<1>9. CASE n >= 24 /\ n < 34
  <2>1. Steps \cap (1 .. n) = {14, 24}
    BY <1>9 DEF Steps
  <2> QED BY <1>3, <1>9, <2>1 DEF Passed
<1>10. CASE n >= 34 /\ n < 44
  <2>1. Steps \cap (1 .. n) = {14, 24, 34}
    BY <1>10 DEF Steps
  <2> QED BY <1>4, <1>10, <2>1 DEF Passed
<1>11. CASE n >= 44 /\ n < 54
  <2>1. Steps \cap (1 .. n) = {14, 24, 34, 44}
    BY <1>11 DEF Steps
  <2> QED BY <1>5, <1>11, <2>1 DEF Passed
<1>12. CASE n >= 54
  <2>1. Steps \cap (1 .. n) = Steps
    BY <1>12 DEF Steps
  <2> QED BY <1>6, <1>12, <2>1 DEF Passed
<1> QED BY <1>7, <1>8, <1>9, <1>10, <1>11, <1>12

LEMMA BitsSize ==
  ASSUME NEW bits \in SUBSET Bits
  PROVE  /\ IsFiniteSet(bits) /\ Cardinality(bits) \in 0 .. 6
         /\ Cardinality(bits) = 6 <=> bits = Bits
<1>1. IsFiniteSet(Bits) /\ Cardinality(Bits) = 6
  <2>1. \A n \in Nat : IsFiniteSet(0 .. n) /\ Cardinality(0 .. n) = n + 1
    BY FS_Interval
  <2>2. PICK n \in Nat : n = 5
    OBVIOUS
  <2>3. Bits = 0 .. n
    BY <2>2 DEF Bits
  <2>4. IsFiniteSet(Bits) /\ Cardinality(Bits) = n + 1
    BY <2>1, <2>3, Zenon
  <2> QED BY <2>2, <2>4
<1>2. IsFiniteSet(bits) /\ Cardinality(bits) <= 6 /\ (Cardinality(bits) = 6 => bits = Bits)
  BY <1>1, FS_Subset
<1>3. Cardinality(bits) \in Nat
  BY <1>2, FS_CardinalityType
<1> QED BY <1>1, <1>2, <1>3

(* A field that is set to a value of its own leaves an entry.              *)
LEMMA EntrySet ==
  ASSUME NEW e \in Entries
  PROVE  /\ \A v \in Nat : [e EXCEPT !.day = v] \in Entries
         /\ \A v \in 0 .. 63 : [e EXCEPT !.count = v] \in Entries
         /\ \A v \in SUBSET Bits : [e EXCEPT !.bits = v] \in Entries
         /\ \A v \in 0 .. 7 : [e EXCEPT !.shift = v] \in Entries
<1>1. \A v \in Nat : [e EXCEPT !.day = v] \in Entries
  BY DEF Entries
<1>2. \A v \in 0 .. 63 : [e EXCEPT !.count = v] \in Entries
  BY DEF Entries
<1>3. \A v \in SUBSET Bits : [e EXCEPT !.bits = v] \in Entries
  BY DEF Entries
<1>4. \A v \in 0 .. 7 : [e EXCEPT !.shift = v] \in Entries
  BY DEF Entries
<1> QED BY <1>1, <1>2, <1>3, <1>4

IsEntry(d, title, n, bits, s) == d \in Entries /\ d.title = title /\ d.count = n /\ d.bits = bits /\ d.shift = s
Changed(e, day, n) == [e EXCEPT !.day = day, !.count = n]
Shifted(e, day, n, s) == [e EXCEPT !.day = day, !.count = n, !.shift = s]
Grown(e, day, n, bits, s) == [e EXCEPT !.day = day, !.count = n, !.bits = bits, !.shift = s]

LEMMA EntryChanged ==
  ASSUME NEW e \in Entries, NEW day \in Nat, NEW n \in 0 .. 63
  PROVE  IsEntry(Changed(e, day, n), e.title, n, e.bits, e.shift)
<1>1. PICK a \in Entries : a = [e EXCEPT !.day = day]
  BY EntrySet
<1>2. [a EXCEPT !.count = n] \in Entries
  BY EntrySet
<1>3. Changed(e, day, n) \in Entries
  BY <1>1, <1>2 DEF Changed
<1> QED BY <1>3 DEF IsEntry, Entries, Changed

LEMMA EntryShifted ==
  ASSUME NEW e \in Entries, NEW day \in Nat, NEW n \in 0 .. 63, NEW s \in 0 .. 7
  PROVE  IsEntry(Shifted(e, day, n, s), e.title, n, e.bits, s)
<1>1. PICK a \in Entries : a = [e EXCEPT !.day = day, !.count = n]
  BY EntryChanged DEF IsEntry, Changed
<1>2. [a EXCEPT !.shift = s] \in Entries
  BY EntrySet
<1>3. Shifted(e, day, n, s) \in Entries
  BY <1>1, <1>2 DEF Shifted
<1> QED BY <1>3 DEF IsEntry, Entries, Shifted

LEMMA EntryGrown ==
  ASSUME NEW e \in Entries, NEW day \in Nat, NEW n \in 0 .. 63, NEW bits \in SUBSET Bits, NEW s \in 0 .. 7
  PROVE  IsEntry(Grown(e, day, n, bits, s), e.title, n, bits, s)
<1>1. PICK a \in Entries : a = [e EXCEPT !.day = day, !.count = n]
  BY EntryChanged DEF IsEntry, Changed
<1>2. PICK b \in Entries : b = [a EXCEPT !.bits = bits]
  BY EntrySet
<1>3. [b EXCEPT !.shift = s] \in Entries
  BY EntrySet
<1>4. Grown(e, day, n, bits, s) \in Entries
  BY <1>1, <1>2, <1>3 DEF Grown
<1> QED BY <1>4 DEF IsEntry, Entries, Grown

LEMMA CountedRight ==
  ASSUME NEW e \in Entries, CountRight(e), NEW day \in Nat, NEW d \in Counted(e, day)
  PROVE  d \in Entries /\ CountRight(d) /\ d.title = e.title
<1> DEFINE n == Low(e.count + 1)
<1>1. /\ e.count \in 1 .. 63 /\ e.bits \in SUBSET Bits /\ e.shift \in 0 .. 7
      /\ Cardinality(e.bits) = 1 + Passed(e.count)
      /\ e.shift \in e.bits \/ (e.shift = 7 /\ e.count = 63)
  BY DEF CountRight, Entries, Passed, Steps
<1>2. e.bits = Bits <=> e.count >= 54
  BY <1>1, PassedSize, BitsSize
<1>3. n = e.count + 1
  BY <1>1 DEF Low
<1>4. Passed(e.count) \in 0 .. 5 /\ (e.count < 63 => Passed(e.count + 1) \in 0 .. 5)
  BY <1>1, PassedSize
<1> HIDE DEF n
<1>5. CASE e.bits = Bits /\ e.count < 63
  <2>1. d = Changed(e, day, e.count + 1) /\ e.count + 1 \in 0 .. 63
    BY <1>1, <1>5 DEF Counted, Changed
  <2>2. d \in Entries /\ d.count = e.count + 1 /\ d.bits = e.bits /\ d.shift = e.shift /\ d.title = e.title
    BY <2>1, EntryChanged DEF IsEntry
  <2>3. Passed(d.count) = Passed(e.count) /\ d.count \in 1 .. 63 /\ d.shift \in d.bits
    BY <1>1, <1>2, <1>5, <2>2, PassedSize
  <2> QED BY <1>1, <2>2, <2>3 DEF CountRight, Passed, Steps
<1>6. CASE e.bits = Bits /\ e.count >= 63
  <2>1. d = Shifted(e, day, Weight(e.bits), 7)
    BY <1>6, <1>1 DEF Counted, Shifted
  <2>2. Weight(e.bits) = 63 /\ Weight(e.bits) \in 0 .. 63 /\ 7 \in 0 .. 7
    BY <1>6 DEF Weight, Bits
  <2>3. d \in Entries /\ d.count = 63 /\ d.bits = e.bits /\ d.shift = 7 /\ d.title = e.title
    <3>1. PICK m \in 0 .. 63, s \in 0 .. 7 : m = Weight(e.bits) /\ s = 7
      BY <2>2
    <3>2. d = Shifted(e, day, m, s)
      BY <2>1, <3>1
    <3>3. IsEntry(d, e.title, m, e.bits, s)
      BY <3>2, EntryShifted
    <3> QED BY <2>2, <3>1, <3>3 DEF IsEntry
  <2>4. e.count = 63
    BY <1>1, <1>6
  <2> QED BY <1>1, <2>3, <2>4 DEF CountRight, Passed, Steps
<1>7. CASE e.bits # Bits /\ Grows(n)
  <2>1. PICK b \in Bits \ e.bits : d = [e EXCEPT !.day = day, !.count = n, !.bits = @ \cup {b}, !.shift = b]
    BY <1>7 DEF Counted, n
  <2> DEFINE grown == e.bits \cup {b}
  <2>2. e.count < 54 /\ n \in 1 .. 54 /\ n \in 0 .. 63
    BY <1>1, <1>2, <1>3, <1>7
  <2>3. d \in Entries /\ d.count = n /\ d.bits = e.bits \cup {b} /\ d.shift = b /\ d.title = e.title
    <3>1. n \in 0 .. 63 /\ b \in 0 .. 7 /\ grown \in SUBSET Bits
      BY <1>1, <2>1, <2>2 DEF Bits
    <3>2. d = Grown(e, day, n, grown, b)
      BY <2>1 DEF Grown
    <3> HIDE DEF grown
    <3>3. d \in Entries /\ d.count = n /\ d.bits = grown /\ d.shift = b /\ d.title = e.title
      <4>1. PICK m \in 0 .. 63, s \in 0 .. 7, bits \in SUBSET Bits : m = n /\ s = b /\ bits = grown
        BY <3>1
      <4>2. d = Grown(e, day, m, bits, s)
        BY <3>2, <4>1
      <4>3. IsEntry(d, e.title, m, bits, s)
        BY <4>2, EntryGrown
      <4> QED BY <4>1, <4>3 DEF IsEntry
    <3> QED BY <3>3 DEF grown
  <2>4. n \in {14, 24, 34, 44, 54}
    BY <1>7, <2>2 DEF Grows
  <2>5. Passed(n) = Passed(e.count) + 1
    BY <1>1, <1>3, <2>4, PassedSize
  <2>6. Cardinality(d.bits) = Cardinality(e.bits) + 1
    BY <1>1, <2>1, <2>3, BitsSize, OneMore
  <2>7. Cardinality(d.bits) = 1 + Passed(d.count)
    BY <1>1, <1>4, <2>3, <2>5, <2>6
  <2> QED BY <2>2, <2>3, <2>7 DEF CountRight, Passed, Steps
<1>8. CASE e.bits # Bits /\ ~Grows(n)
  <2>1. d = Changed(e, day, n)
    BY <1>8 DEF Counted, Changed, n
  <2>2. e.count < 54 /\ n \in 1 .. 54 /\ n \in 0 .. 63
    BY <1>1, <1>2, <1>3, <1>8
  <2>3. d \in Entries /\ d.count = n /\ d.bits = e.bits /\ d.shift = e.shift /\ d.title = e.title
    BY <2>1, <2>2, EntryChanged DEF IsEntry
  <2>4. n \notin {14, 24, 34, 44, 54}
    BY <1>8, <2>2 DEF Grows
  <2>5. Passed(n) = Passed(e.count)
    BY <1>1, <1>3, <2>4, PassedSize
  <2>6. e.shift \in e.bits
    BY <1>1, <2>2
  <2> QED BY <1>1, <2>2, <2>3, <2>5, <2>6 DEF CountRight, Passed, Steps
<1> QED BY <1>1, <1>5, <1>6, <1>7, <1>8

LEMMA NewRight ==
  ASSUME NEW title \in Names, NEW day \in Nat
  PROVE  NewEntry(title, day) \in Entries /\ CountRight(NewEntry(title, day)) /\ NewEntry(title, day).title = title
<1> DEFINE e == NewEntry(title, day)
<1>1. e \in Entries /\ e.title = title /\ e.count = 1 /\ e.bits = {0} /\ e.shift = 0
  BY DEF NewEntry, Entries, Bits
<1>2. Cardinality(e.bits) = 1
  BY <1>1, FS_Singleton
<1>3. Passed(1) = 0
  BY PassedSize
<1> QED BY <1>1, <1>2, <1>3 DEF CountRight, Passed, Steps
-----------------------------------------------------------------------------
(* One update of a list: what is in it afterwards.                         *)
Good(saved) == TitlesOnce(saved) /\ \A i \in ListedIn(saved) : CountRight(saved[i])
TitlesOf(saved) == {saved[i].title : i \in ListedIn(saved)}

LEMMA ListIsFile ==
  ASSUME HistoryAssumption, NEW list \in Lists
  PROVE  list # NoHistory /\ ListedIn(list) = {i \in Slots : list[i].title # None}
<1>1. DOMAIN list = 1 .. MAX_ENTRIES /\ 1 \in 1 .. MAX_ENTRIES
  BY DEF Lists, Slots, HistoryAssumption
<1>2. 1 \notin DOMAIN NoHistory
  BY DEF NoHistory
<1>3. list # NoHistory
  BY <1>1, <1>2
<1> QED BY <1>3 DEF ListedIn

LEMMA BlankGood ==
  ASSUME HistoryAssumption
  PROVE  BlankList \in Lists /\ Good(BlankList) /\ TitlesOf(BlankList) = {}
<1>1. Blank \in Entries /\ Blank.title = None
  <2>1. None \in Names
    BY DEF Names
  <2> QED BY <2>1 DEF Blank, Entries, Bits
<1>2. BlankList \in Lists /\ \A i \in Slots : BlankList[i].title = None
  BY <1>1 DEF BlankList, Lists
<1>3. ListedIn(BlankList) = {}
  BY <1>2, ListIsFile
<1> QED BY <1>2, <1>3 DEF Good, TitlesOf, TitlesOnce

(* An entry put in its place: of a title that is nowhere else.             *)
HasPut(new, list, s, title) ==
    /\ new \in Lists /\ Good(new)
    /\ TitlesOf(new) = {list[i].title : i \in ListedIn(list) \ {s}} \cup {title}

LEMMA Placed ==
  ASSUME HistoryAssumption, NEW list \in Lists, Good(list), NEW s \in Slots, NEW e \in Entries,
         CountRight(e), e.title # None, \A i \in Slots : list[i].title = e.title => i = s,
         NEW new, new = [list EXCEPT ![s] = e]
  PROVE  HasPut(new, list, s, e.title)
<1>1. new \in Lists /\ new[s] = e /\ \A i \in Slots : i # s => new[i] = list[i]
  BY DEF Lists
<1>2. ListedIn(new) = ListedIn(list) \cup {s}
  BY <1>1, ListIsFile
<1>3. ListedIn(list) \subseteq Slots
  BY ListIsFile
<1>4. TitlesOnce(new)
  <2> SUFFICES ASSUME NEW i \in ListedIn(new), NEW j \in ListedIn(new), new[i].title = new[j].title
               PROVE  i = j
    BY DEF TitlesOnce
  <2>1. CASE i # s /\ j # s
    BY <1>1, <1>2, <1>3, <2>1 DEF Good, TitlesOnce
  <2>2. CASE i = s \/ j = s
    BY <1>1, <1>2, <1>3, <2>2
  <2> QED BY <2>1, <2>2
<1>5. \A i \in ListedIn(new) : CountRight(new[i])
  BY <1>1, <1>2, <1>3 DEF Good
<1>6. TitlesOf(new) = {list[i].title : i \in ListedIn(list) \ {s}} \cup {e.title}
  <2>1. ASSUME NEW i \in ListedIn(new)
        PROVE  new[i].title \in {list[j].title : j \in ListedIn(list) \ {s}} \cup {e.title}
    <3>1. CASE i = s
      BY <1>1, <3>1
    <3>2. CASE i # s
      BY <1>1, <1>2, <1>3, <3>2
    <3> QED BY <3>1, <3>2
  <2>2. ASSUME NEW i \in ListedIn(list) \ {s}
        PROVE  i \in ListedIn(new) /\ list[i].title = new[i].title
    BY <1>1, <1>2, <1>3
  <2>3. s \in ListedIn(new) /\ e.title = new[s].title
    BY <1>1, <1>2
  <2> DEFINE L == {list[j].title : j \in ListedIn(list) \ {s}}
  <2>4. ASSUME NEW x \in TitlesOf(new) PROVE x \in L \cup {e.title}
    BY <2>1 DEF TitlesOf
  <2>5. ASSUME NEW x \in L PROVE x \in TitlesOf(new)
    BY <2>2 DEF TitlesOf
  <2>6. e.title \in TitlesOf(new)
    BY <2>3 DEF TitlesOf
  <2> HIDE DEF L
  <2>7. TitlesOf(new) = L \cup {e.title}
    BY <2>4, <2>5, <2>6
  <2> QED BY <2>7 DEF L
<1> QED BY <1>1, <1>4, <1>5, <1>6 DEF Good, HasPut

(* The title is there, and what is not any more was evicted: the entry     *)
(* with the fewest starts, and the oldest where all have as many.          *)
Evicts(list, gone) ==
    /\ \A i \in Slots : list[i].count >= list[gone].count
    /\ (\A i \in Slots : list[i].count = list[gone].count) => \A i \in Slots : list[i].day >= list[gone].day

LEMMA ListUpdated ==
  ASSUME HistoryAssumption, NEW list \in Lists, Good(list), NEW title \in Titles, NEW day \in Nat,
         NEW new \in processHistoryList(list, title, day)
  PROVE  /\ new.list \in Lists /\ Good(new.list) /\ title \in TitlesOf(new.list)
         /\ \/ new.evicted = Blank /\ TitlesOf(list) \subseteq TitlesOf(new.list)
            \/ \E gone \in Slots : /\ new.evicted = list[gone] /\ list[gone].title # None /\ Evicts(list, gone)
                                   /\ \A i \in Slots : list[i].title # None
                                   /\ TitlesOf(list) \subseteq TitlesOf(new.list) \cup {list[gone].title}
<1> DEFINE here == {i \in Slots : list[i].title = title}
           blank == {i \in Slots : list[i].title = None}
           first == CHOOSE i \in here : \A j \in here : i <= j
           least == LeastUsed(list)
           Kept(l) == [list |-> l, evicted |-> Blank]
<1>1. title \in Names /\ title # None /\ ListedIn(list) = {i \in Slots : list[i].title # None}
  BY ListIsFile DEF HistoryAssumption, Names
<1>2. CASE here # {}
  <2>1. PICK s \in here : new \in {Kept([list EXCEPT ![s] = e]) : e \in Counted(list[s], day)}
    <3>1. first \in here
      <4>1. here \in SUBSET Nat
        BY DEF Slots
      <4> HIDE DEF here
      <4> QED BY <1>2, <4>1, SomeLeast
    <3>2. new \in {Kept([list EXCEPT ![first] = e]) : e \in Counted(list[first], day)}
      BY <1>2 DEF processHistoryList
    <3> QED BY <3>1, <3>2
  <2>2. PICK e \in Counted(list[s], day) : new = Kept([list EXCEPT ![s] = e])
    BY <2>1
  <2>3. list[s] \in Entries /\ CountRight(list[s]) /\ list[s].title = title
    BY <1>1, <2>1, EntryNumbers DEF Good
  <2>4. e \in Entries /\ CountRight(e) /\ e.title = title
    BY <2>2, <2>3, CountedRight
  <2>5. \A i \in Slots : list[i].title = e.title => i = s
    BY <1>1, <2>1, <2>3, <2>4 DEF Good, TitlesOnce
  <2>6. new.list = [list EXCEPT ![s] = e] /\ new.evicted = Blank
    BY <2>2
  <2>7. /\ new.list \in Lists /\ Good(new.list)
        /\ TitlesOf(new.list) = {list[i].title : i \in ListedIn(list) \ {s}} \cup {title}
    BY <1>1, <2>1, <2>4, <2>5, <2>6, Placed DEF HasPut
  <2>8. TitlesOf(list) \subseteq TitlesOf(new.list)
    BY <2>3, <2>7 DEF TitlesOf
  <2> QED BY <2>6, <2>7, <2>8
<1>3. CASE here = {} /\ blank # {}
  <2>1. PICK s \in blank : new = Kept([list EXCEPT ![s] = NewEntry(title, day)])
    BY <1>3 DEF processHistoryList
  <2>2. new.list = [list EXCEPT ![s] = NewEntry(title, day)] /\ new.evicted = Blank
    BY <2>1
  <2>3. /\ new.list \in Lists /\ Good(new.list)
        /\ TitlesOf(new.list) = {list[i].title : i \in ListedIn(list) \ {s}} \cup {title}
    <3>1. \A i \in Slots : list[i].title = NewEntry(title, day).title => i = s
      BY <1>1, <1>3, NewRight
    <3>2. s \in Slots
      BY <2>1
    <3>3. PICK e \in Entries : e = NewEntry(title, day) /\ CountRight(e) /\ e.title = title
      BY <1>1, NewRight
    <3> HIDE DEF here, blank
    <3>4. new.list = [list EXCEPT ![s] = e] /\ \A i \in Slots : list[i].title = e.title => i = s
      BY <2>2, <3>1, <3>3
    <3>5. HasPut(new.list, list, s, e.title)
      BY <1>1, <3>2, <3>3, <3>4, Placed
    <3> QED BY <3>3, <3>5 DEF HasPut
  <2>4. s \notin ListedIn(list)
    BY <1>1, <2>1
  <2>5. TitlesOf(list) \subseteq TitlesOf(new.list)
    BY <2>3, <2>4 DEF TitlesOf
  <2> QED BY <2>2, <2>3, <2>5
<1>4. CASE here = {} /\ blank = {}
  <2>1. new = [list |-> [list EXCEPT ![least] = NewEntry(title, day)], evicted |-> list[least]]
    BY <1>4 DEF processHistoryList
  <2>2. new.list = [list EXCEPT ![least] = NewEntry(title, day)] /\ new.evicted = list[least]
    BY <2>1
  <2>3. least \in Slots /\ \A i \in Slots : list[least].count <= list[i].count
    BY LeastHasFewest
  <2>4. (\A i \in Slots : list[i].count = list[least].count) => \A i \in Slots : list[least].day <= list[i].day
    BY LeastIsOldest
  <2> HIDE DEF least
  <2>5. Evicts(list, least)
    BY <2>3, <2>4, EntryNumbers DEF Evicts
  <2>6. /\ new.list \in Lists /\ Good(new.list)
        /\ TitlesOf(new.list) = {list[i].title : i \in ListedIn(list) \ {least}} \cup {title}
    <3>1. \A i \in Slots : list[i].title = NewEntry(title, day).title => i = least
      BY <1>1, <1>4, NewRight
    <3>2. PICK e \in Entries : e = NewEntry(title, day) /\ CountRight(e) /\ e.title = title
      BY <1>1, NewRight
    <3> HIDE DEF here, blank
    <3>3. new.list = [list EXCEPT ![least] = e] /\ \A i \in Slots : list[i].title = e.title => i = least
      BY <2>2, <3>1, <3>2
    <3>4. HasPut(new.list, list, least, e.title)
      BY <1>1, <2>3, <3>2, <3>3, Placed
    <3> QED BY <3>2, <3>4 DEF HasPut
  <2>7. TitlesOf(list) \subseteq TitlesOf(new.list) \cup {list[least].title}
    BY <2>6 DEF TitlesOf
  <2> QED BY <1>4, <2>2, <2>3, <2>5, <2>6, <2>7
<1> QED BY <1>2, <1>3, <1>4
-----------------------------------------------------------------------------
(* The steps.                                                              *)
LEMMA NoHistoryGood ==
  Good(NoHistory) /\ TitlesOf(NoHistory) = {}
BY DEF Good, TitlesOf, TitlesOnce, ListedIn

LEMMA InvParts ==
  ASSUME HistoryInv
  PROVE  /\ \A p \in Ports : Good(cards[p].file)
         /\ \A p \in Ports : past.failures[p] \subseteq {"open"} => past.seen[p] \subseteq TitlesOf(cards[p].file) \cup cards[p].old
BY DEF HistoryInv, HistoryKept, NoTwins, CountsRight, NothingForgotten, Good, TitlesOf, Listed

LEMMA InitKept ==
  ASSUME HistoryAssumption, HistoryInit
  PROVE  HistoryInv
<1>1. /\ cards \in [Ports -> [file : FirstFiles \cup {NoHistory}, old : {{}}]]
      /\ \A p \in Ports : cards[p].file \in FirstFiles \cup {NoHistory} /\ cards[p].old = {}
  BY DEF HistoryInit
<1>2. \A saved \in FirstFiles : saved \in Lists /\ Good(saved)
  BY DEF HistoryAssumption, Lists, Good
<1>3. \A p \in Ports : cards[p].file \in Lists \cup {NoHistory} /\ Good(cards[p].file)
  BY <1>1, <1>2, NoHistoryGood
<1>4. /\ past.launches = 0 /\ past.failures = [p \in Ports |-> {}]
      /\ past.seen = [p \in Ports |-> IF cards[p].file = NoHistory THEN {}
                                      ELSE {cards[p].file[i].title : i \in Slots} \ {None}]
      /\ past.evicted = [title |-> None, from |-> BlankList]
  BY DEF HistoryInit
<1>5. ASSUME NEW p \in Ports PROVE past.seen[p] = TitlesOf(cards[p].file) /\ past.seen[p] \in SUBSET Names
  <2>1. CASE cards[p].file = NoHistory
    BY <1>4, <2>1, NoHistoryGood
  <2>2. CASE cards[p].file # NoHistory
    <3> DEFINE saved == cards[p].file
    <3>1. saved \in Lists /\ past.seen[p] = {saved[i].title : i \in Slots} \ {None}
      BY <1>3, <1>4, <2>2
    <3>2. ListedIn(saved) = {i \in Slots : saved[i].title # None}
      BY <2>2 DEF ListedIn
    <3> HIDE DEF saved
    <3>3. past.seen[p] = TitlesOf(saved)
      BY <3>1, <3>2 DEF TitlesOf
    <3>4. past.seen[p] \in SUBSET Names
      BY <3>1, EntryNumbers
    <3> QED BY <3>3, <3>4 DEF saved
  <2> QED BY <2>1, <2>2
<1>6. HistoryType
  <2>1. cards \in [Ports -> [file : Lists \cup {NoHistory}, old : SUBSET Names]]
    BY <1>1, <1>3
  <2>2. update \in [title : Titles \cup {None}, port : Ports]
    BY DEF HistoryInit, NoUpdate, Ports, HistoryAssumption
  <2>3. past.failures \in [Ports -> SUBSET Faults] /\ past.seen \in [Ports -> SUBSET Names]
    <3>1. \A p \in Ports : past.seen[p] \in SUBSET Names
      BY <1>5
    <3> DEFINE S(p) == IF cards[p].file = NoHistory THEN {} ELSE {cards[p].file[i].title : i \in Slots} \ {None}
    <3>2. past.seen = [p \in Ports |-> S(p)]
      BY <1>4
    <3> HIDE DEF S
    <3>3. past.seen \in [Ports -> SUBSET Names]
      BY <3>1, <3>2
    <3> QED BY <1>4, <3>3
  <2>4. past.evicted \in [title : Names, from : Lists]
    BY <1>4, BlankGood DEF Names
  <2>5. past = [launches |-> past.launches, failures |-> past.failures, seen |-> past.seen, evicted |-> past.evicted]
    BY DEF HistoryInit
  <2> QED BY <1>4, <2>1, <2>2, <2>3, <2>4, <2>5 DEF HistoryType
<1>7. NoTwins /\ CountsRight
  BY <1>3 DEF NoTwins, CountsRight, Good, Listed
<1>8. NothingForgotten
  BY <1>5 DEF NothingForgotten, TitlesOf, Listed
<1>9. LeastMakesRoom
  BY <1>4 DEF LeastMakesRoom
<1> QED BY <1>6, <1>7, <1>8, <1>9 DEF HistoryInv, HistoryKept

LEMMA OnwardTyped ==
  ASSUME HistoryAssumption, HistoryType, Onward
  PROVE  update' \in [title : Titles \cup {None}, port : Ports]
<1>1. CASE update.port + 1 \in Ports
  BY <1>1 DEF HistoryType, Onward
<1>2. CASE update.port + 1 \notin Ports
  <2>1. NoUpdate \in [title : Titles \cup {None}, port : Ports]
    BY DEF NoUpdate, Ports, HistoryAssumption
  <2> QED BY <1>2, <2>1 DEF Onward
<1> QED BY <1>1, <1>2

LEMMA CardsStay ==
  ASSUME HistoryAssumption, HistoryInv, UNCHANGED cards,
         past' = past \/ past' = [past EXCEPT !.launches = @ + 1],
         update' \in [title : Titles \cup {None}, port : Ports]
  PROVE  HistoryInv'
<1>1. past \in [launches : Nat, failures : [Ports -> SUBSET Faults], seen : [Ports -> SUBSET Names],
                 evicted : [title : Names, from : Lists]]
  BY DEF HistoryInv, HistoryType
<1>2. past' \in [launches : Nat, failures : [Ports -> SUBSET Faults], seen : [Ports -> SUBSET Names],
                 evicted : [title : Names, from : Lists]]
  BY <1>1
<1>3. past'.failures = past.failures /\ past'.seen = past.seen /\ past'.evicted = past.evicted
  BY <1>1
<1>4. HistoryType'
  BY <1>2 DEF HistoryInv, HistoryType
<1>5. HistoryKept'
  <2> USE DEF HistoryInv, HistoryKept
  <2>1. NothingForgotten'
    BY <1>3 DEF NothingForgotten, Listed
  <2>2. NoTwins' /\ CountsRight'
    BY DEF NoTwins, CountsRight, Listed
  <2>3. LeastMakesRoom'
    <3>1. LeastMakesRoom
      OBVIOUS
    <3> QED BY ONLY <1>3, <3>1 DEF LeastMakesRoom
  <2> QED BY <2>1, <2>2, <2>3
<1> QED BY <1>4, <1>5 DEF HistoryInv

LEMMA UpdateKeeps ==
  ASSUME HistoryAssumption, HistoryInv, NEW failure \in Outcomes, NEW day \in Days \cup {0}, UpdateCard(failure, day)
  PROVE  HistoryInv'
<1> DEFINE port == update.port
           saved == cards[port].file
           old == cards[port].old
           before == ListOf(saved, failure)
<1>1. /\ cards \in [Ports -> [file : Lists \cup {NoHistory}, old : SUBSET Names]]
      /\ past.failures \in [Ports -> SUBSET Faults] /\ past.seen \in [Ports -> SUBSET Names]
      /\ past.evicted \in [title : Names, from : Lists]
      /\ port \in Ports /\ saved \in Lists \cup {NoHistory} /\ old \in SUBSET Names
      /\ update.title \in Titles /\ day \in Nat /\ Onward
  BY DEF HistoryInv, HistoryType, UpdateCard, HistoryAssumption
<1>2. before \in Lists /\ Good(before) /\ (failure # "read" => TitlesOf(before) = TitlesOf(saved))
  <2>1. CASE failure = "read" \/ saved = NoHistory
    <3>1. before = BlankList
      BY <2>1 DEF ListOf
    <3> QED BY <2>1, <3>1, BlankGood, NoHistoryGood
  <2>2. CASE failure # "read" /\ saved # NoHistory
    <3>1. before = saved /\ saved \in Lists
      BY <1>1, <2>2 DEF ListOf
    <3> QED BY <1>1, <3>1, InvParts
  <2> QED BY <2>1, <2>2
<1>3. PICK new \in processHistoryList(before, update.title, day) :
        /\ cards' = [cards EXCEPT
             ![port].old = appendEvictedHistoryEntry(@, new.evicted, failure),
             ![port].file = CASE failure = "open" -> @ [] failure = "write" -> NoHistory [] OTHER -> new.list]
        /\ past' = [past EXCEPT
             !.failures[port] = IF failure = "none" THEN @ ELSE @ \cup {failure},
             !.seen[port] = IF failure \in {"open", "write"} THEN @ ELSE @ \cup {update.title},
             !.evicted = IF new.evicted = Blank THEN @ ELSE [title |-> new.evicted.title, from |-> before]]
  BY DEF UpdateCard
<1> HIDE DEF before
<1>4. /\ new.list \in Lists /\ Good(new.list) /\ update.title \in TitlesOf(new.list)
      /\ \/ new.evicted = Blank /\ TitlesOf(before) \subseteq TitlesOf(new.list)
         \/ \E gone \in Slots : /\ new.evicted = before[gone] /\ before[gone].title # None /\ Evicts(before, gone)
                                /\ \A i \in Slots : before[i].title # None
                                /\ TitlesOf(before) \subseteq TitlesOf(new.list) \cup {before[gone].title}
  BY <1>1, <1>2, ListUpdated
<1> DEFINE newFile == CASE failure = "open" -> saved [] failure = "write" -> NoHistory [] OTHER -> new.list
           newOld == appendEvictedHistoryEntry(old, new.evicted, failure)
<1>5. /\ newFile \in Lists \cup {NoHistory} /\ Good(newFile)
      /\ newFile = IF failure = "open" THEN saved ELSE IF failure = "write" THEN NoHistory ELSE new.list
  BY <1>1, <1>4, InvParts, NoHistoryGood
<1>6. old \subseteq newOld /\ newOld \in SUBSET Names
  <2>1. new.evicted # Blank => new.evicted.title \in Names
    BY <1>2, <1>4, EntryNumbers
  <2> QED BY <1>1, <2>1 DEF appendEvictedHistoryEntry
<1>7. /\ cards' \in [Ports -> [file : Lists \cup {NoHistory}, old : SUBSET Names]]
      /\ cards'[port].file = newFile /\ cards'[port].old = newOld
      /\ \A p \in Ports : p # port => cards'[p] = cards[p]
  <2>1. cards' = [cards EXCEPT ![port].old = newOld, ![port].file = newFile]
    BY <1>1, <1>3
  <2> HIDE DEF newOld, newFile, port
  <2> QED BY <1>1, <1>5, <1>6, <2>1
<1> DEFINE newSeen == IF failure \in {"open", "write"} THEN past.seen[port] ELSE past.seen[port] \cup {update.title}
           newFailures == IF failure = "none" THEN past.failures[port] ELSE past.failures[port] \cup {failure}
           newEvicted == IF new.evicted = Blank THEN past.evicted ELSE [title |-> new.evicted.title, from |-> before]
<1>8. /\ newSeen \in SUBSET Names /\ newFailures \in SUBSET Faults
      /\ newEvicted \in [title : Names, from : Lists]
  <2>1. new.evicted # Blank => new.evicted.title \in Names
    BY <1>2, <1>4, EntryNumbers
  <2>2. newEvicted \in [title : Names, from : Lists]
    BY <1>1, <1>2, <2>1
  <2>3. update.title \in Names
    BY <1>1 DEF Names
  <2> QED BY <1>1, <2>2, <2>3 DEF Faults
<1>9. past' = [past EXCEPT !.failures[port] = newFailures, !.seen[port] = newSeen, !.evicted = newEvicted]
  BY <1>3
<1> HIDE DEF newSeen, newFailures, newEvicted, newOld, newFile
<1>10. /\ past' \in [launches : Nat, failures : [Ports -> SUBSET Faults], seen : [Ports -> SUBSET Names],
                      evicted : [title : Names, from : Lists]]
       /\ past'.failures[port] = newFailures /\ past'.seen[port] = newSeen /\ past'.evicted = newEvicted
       /\ \A p \in Ports : p # port => past'.failures[p] = past.failures[p] /\ past'.seen[p] = past.seen[p]
  <2> HIDE DEF port
  <2>1. past \in [launches : Nat, failures : [Ports -> SUBSET Faults], seen : [Ports -> SUBSET Names],
                  evicted : [title : Names, from : Lists]]
    BY DEF HistoryInv, HistoryType
  <2> QED BY <1>1, <1>8, <1>9, <2>1
<1>11. HistoryType'
  <2>1. update' \in [title : Titles \cup {None}, port : Ports]
    BY <1>1, OnwardTyped DEF HistoryInv
  <2> QED BY <1>7, <1>10, <2>1 DEF HistoryType
<1>12. \A p \in Ports : Good(cards'[p].file)
  BY <1>5, <1>7, InvParts
<1>13. NoTwins' /\ CountsRight'
  BY <1>12 DEF NoTwins, CountsRight, Good, Listed
<1>14. ASSUME newFailures \subseteq {"open"}
       PROVE  newSeen \subseteq TitlesOf(newFile) \cup newOld
  <2>1. failure \in {"none", "open"} /\ past.failures[port] \subseteq {"open"}
    BY <1>14 DEF newFailures
  <2>2. past.seen[port] \subseteq TitlesOf(saved) \cup old
    BY <1>1, <2>1, InvParts
  <2>3. CASE failure = "open"
    BY <1>5, <1>6, <2>2, <2>3 DEF newSeen
  <2>4. CASE failure = "none"
    <3>1. newFile = new.list /\ newSeen = past.seen[port] \cup {update.title} /\ TitlesOf(before) = TitlesOf(saved)
      BY <1>2, <1>5, <2>4 DEF newSeen
    <3>2. TitlesOf(before) \subseteq TitlesOf(new.list) \cup newOld
      <4>1. CASE new.evicted = Blank /\ TitlesOf(before) \subseteq TitlesOf(new.list)
        BY <4>1
      <4>2. CASE \E gone \in Slots : /\ new.evicted = before[gone] /\ before[gone].title # None
                                    /\ TitlesOf(before) \subseteq TitlesOf(new.list) \cup {before[gone].title}
        <5>1. new.evicted # Blank
          BY <4>2 DEF Blank
        <5>2. new.evicted.title \in newOld
          BY <2>4, <5>1 DEF newOld, appendEvictedHistoryEntry
        <5> QED BY <4>2, <5>2
      <4> QED BY <1>4, <4>1, <4>2
    <3> QED BY <1>4, <1>6, <2>2, <3>1, <3>2
  <2> QED BY <2>1, <2>3, <2>4
<1>15. NothingForgotten'
  <2>1. ASSUME NEW p \in Ports, past'.failures[p] \subseteq {"open"}
        PROVE  past'.seen[p] \subseteq TitlesOf(cards'[p].file) \cup cards'[p].old
    <3>1. CASE p = port
      BY <1>7, <1>10, <1>14, <2>1, <3>1
    <3>2. CASE p # port
      BY <1>7, <1>10, <2>1, <3>2, InvParts
    <3> QED BY <3>1, <3>2
  <2> QED BY <2>1 DEF NothingForgotten, TitlesOf, Listed
<1>16. LeastMakesRoom'
  <2>1. CASE new.evicted = Blank
    <3>1. past'.evicted = past.evicted
      BY <1>10, <2>1 DEF newEvicted
    <3>2. LeastMakesRoom
      BY DEF HistoryInv, HistoryKept
    <3> QED BY ONLY <3>1, <3>2 DEF LeastMakesRoom
  <2>2. CASE new.evicted # Blank
    <3>1. PICK gone \in Slots : /\ new.evicted = before[gone] /\ Evicts(before, gone)
                                /\ \A i \in Slots : before[i].title # None
      BY <1>4, <2>2
    <3>2. past'.evicted.title = before[gone].title /\ past'.evicted.from = before
      BY <1>10, <2>2, <3>1 DEF newEvicted
    <3>3. \A i \in Slots : before[i].title = before[gone].title => i = gone
      BY <1>2, <3>1, ListIsFile DEF Good, TitlesOnce
    <3>4. (CHOOSE i \in Slots : before[i].title = before[gone].title) = gone
      BY <3>3
    <3> QED BY <3>1, <3>2, <3>4 DEF LeastMakesRoom, Evicts
  <2> QED BY <2>1, <2>2
<1> QED BY <1>11, <1>13, <1>15, <1>16 DEF HistoryInv, HistoryKept

(* Whatever fails on the way, for any cards and lists: a title that was    *)
(* recorded on a card stays in its list or goes to history.old unless a    *)
(* call on that card lost it, has one entry, its count and its bits grow   *)
(* together, and the title that makes room has the fewest starts           *)
(* (main_history.c).                                                       *)
THEOREM HistoryIsKept ==
  ASSUME HistoryAssumption
  PROVE  HistorySpec => []HistoryKept
<1>1. HistoryInit => HistoryInv
  BY InitKept
<1>2. HistoryInv /\ [HistoryNext]_historyVars => HistoryInv'
  <2> SUFFICES ASSUME HistoryInv, [HistoryNext]_historyVars PROVE HistoryInv'
    OBVIOUS
  <2>1. ASSUME NEW title \in Titles, StartDisc(title) PROVE HistoryInv'
    <3>1. update' \in [title : Titles \cup {None}, port : Ports]
      BY <2>1 DEF StartDisc, Ports, HistoryAssumption
    <3> QED BY <2>1, <3>1, CardsStay DEF StartDisc
  <2>2. CASE SkipCard
    <3>1. update' \in [title : Titles \cup {None}, port : Ports]
      BY <2>2, OnwardTyped DEF SkipCard, HistoryInv
    <3> QED BY <2>2, <3>1, CardsStay DEF SkipCard
  <2>3. ASSUME NEW failure \in Outcomes, NEW day \in Days \cup {0}, UpdateCard(failure, day) PROVE HistoryInv'
    BY <2>3, UpdateKeeps
  <2>4. CASE UNCHANGED historyVars
    <3>1. update \in [title : Titles \cup {None}, port : Ports]
      BY DEF HistoryInv, HistoryType
    <3> QED BY <2>4, <3>1, CardsStay DEF historyVars
  <2> QED BY <2>1, <2>2, <2>3, <2>4 DEF HistoryNext
<1>3. HistoryInv => HistoryKept
  BY DEF HistoryInv
<1> QED BY <1>1, <1>2, <1>3, PTL DEF HistorySpec
=============================================================================
