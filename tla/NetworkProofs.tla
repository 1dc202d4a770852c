--------------------------- MODULE NetworkProofs ----------------------------
(***************************************************************************)
(* What the two services on the network promise.                           *)
(*                                                                         *)
(* The FTP server leaks nothing but the socket of a PASV that fails at its *)
(* last step, and moves data only with the file open that the command      *)
(* needs, for any number of clients.  Clients share nothing, so the        *)
(* invariant is about one client, and each handler is a lemma about the    *)
(* clients that it may leave.                                              *)
(*                                                                         *)
(* The files of the PC: a reply answers the call that takes it, and what a *)
(* caller has open is what the PC has open for it, for any callers, any    *)
(* handles and any number of connections.                                  *)
(***************************************************************************)
EXTENDS FtpServer, Ps2Host, FiniteSetTheorems, WellFoundedInduction, TLAPS

Actions == {"NONE", "RETR"} \cup WriteActions \cup ListActions
Clients ==
    [on : {TRUE}, m_eAuthState : {"INVALID", "VALID", "PASSWORD", "FAKEPASS"}, m_iAuthAttempt : Nat,
     m_iDataSocket : {"none", "listen", "data"}, m_eDataMode : {"IDLE", "READ", "WRITE"},
     m_eDataAction : Actions, m_eConnState : {"IDLE", "LISTEN", "RUNNING"}, m_iRemotePort : BOOLEAN,
     m_eType : {"INVALID", "DEVLIST", "IODEVICE"}, mode : {"none", "dir", "read", "write"},
     sockets : Nat, lost : Nat, opened : Nat, talk : {"idle", "asked", "open"}, polite : BOOLEAN]

(* What is open is what the record names, and the lost sockets. *)
Sound(c) ==
    /\ c \in Clients
    /\ c.sockets = c.lost + IF c.m_iDataSocket = "none" THEN 0 ELSE 1
    /\ c.opened = IF IsOpen(c) THEN 1 ELSE 0

(* The file is open as the action needs it. *)
Ready(c) == c.mode = Needs(c.m_eDataAction) \/ (c.m_eDataAction \in ListActions /\ c.m_eType = "DEVLIST")

(* No data flows; and nothing was asked for either. *)
Still(c) == c.polite => c.m_eDataMode = "IDLE"
Quiet(c) == c.polite => c.m_eDataMode = "IDLE" /\ c.talk = "idle"

(* While a client waits for its transfer its file is open, and stays so    *)
(* while data flows.                                                       *)
Good(c) ==
    /\ Sound(c)
    /\ c.polite /\ c.talk = "asked" => Ready(c)
    /\ c.polite /\ c.m_eDataMode # "IDLE" => c.talk = "open" /\ c.m_eConnState = "RUNNING" /\ Ready(c)

(* Only the files of d are not those of c. *)
OnlyFiles(c, d) ==
    /\ d.talk = c.talk /\ d.polite = c.polite /\ d.m_eDataMode = c.m_eDataMode
    /\ d.m_eDataAction = c.m_eDataAction

(* The same is open, under the same names. *)
SameOpen(c, d) ==
    /\ d.m_iDataSocket = c.m_iDataSocket /\ d.sockets = c.sockets /\ d.lost = c.lost
    /\ d.m_eType = c.m_eType /\ d.mode = c.mode /\ d.opened = c.opened

(* A client that has gone. *)
Left(d) == d.on = FALSE /\ d.lost \in Nat /\ d.sockets = d.lost /\ d.opened = 0

(* A slot without a client. *)
Free(c) ==
    /\ c.on = FALSE /\ c.lost \in Nat /\ c.sockets = c.lost /\ c.opened = 0
    /\ c.m_iDataSocket = "none" /\ c.mode = "none" /\ c.m_eDataMode = "IDLE"

FtpInv ==
    /\ client = [s \in Slots |-> client[s]]
    /\ \A s \in Slots : Good(client[s]) \/ Free(client[s])
-----------------------------------------------------------------------------
(* The files.                                                              *)

(* A field that is set to a value of its own leaves a client. *)
LEMMA FieldSet ==
  ASSUME NEW c \in Clients
  PROVE  /\ \A v \in {"INVALID", "DEVLIST", "IODEVICE"} : [c EXCEPT !.m_eType = v] \in Clients
         /\ \A v \in {"none", "dir", "read", "write"} : [c EXCEPT !.mode = v] \in Clients
         /\ \A v \in Nat : [c EXCEPT !.opened = v] \in Clients
         /\ \A v \in {"IDLE", "READ", "WRITE"} : [c EXCEPT !.m_eDataMode = v] \in Clients
         /\ \A v \in {"IDLE", "LISTEN", "RUNNING"} : [c EXCEPT !.m_eConnState = v] \in Clients
         /\ \A v \in {"idle", "asked", "open"} : [c EXCEPT !.talk = v] \in Clients
         /\ [c EXCEPT !.m_eDataAction = "NONE"] \in Clients
<1>1. \A v \in {"INVALID", "DEVLIST", "IODEVICE"} : [c EXCEPT !.m_eType = v] \in Clients
  BY DEF Clients
<1>2. \A v \in {"none", "dir", "read", "write"} : [c EXCEPT !.mode = v] \in Clients
  BY DEF Clients
<1>3. \A v \in Nat : [c EXCEPT !.opened = v] \in Clients
  BY DEF Clients
<1>4. \A v \in {"IDLE", "READ", "WRITE"} : [c EXCEPT !.m_eDataMode = v] \in Clients
  BY DEF Clients
<1>5. \A v \in {"IDLE", "LISTEN", "RUNNING"} : [c EXCEPT !.m_eConnState = v] \in Clients
  BY DEF Clients
<1>6. \A v \in {"idle", "asked", "open"} : [c EXCEPT !.talk = v] \in Clients
  BY DEF Clients
<1>7. [c EXCEPT !.m_eDataAction = "NONE"] \in Clients
  <2>1. "NONE" \in Actions
    BY DEF Actions
  <2> QED BY <2>1 DEF Clients
<1> QED BY <1>1, <1>2, <1>3, <1>4, <1>5, <1>6, <1>7

(* The client with these files. *)
Holding(c, type, mode, n) == [c EXCEPT !.m_eType = type, !.mode = mode, !.opened = n]

LEMMA FilesSet ==
  ASSUME NEW c, Sound(c), NEW type \in {"INVALID", "DEVLIST", "IODEVICE"}, NEW mode \in {"none", "dir", "read", "write"},
         NEW n \in Nat, n = IF type = "IODEVICE" /\ mode # "none" THEN 1 ELSE 0
  PROVE  /\ Sound(Holding(c, type, mode, n)) /\ OnlyFiles(c, Holding(c, type, mode, n))
         /\ Holding(c, type, mode, n).mode = mode /\ Holding(c, type, mode, n).m_eType = type
         /\ Holding(c, type, mode, n).opened = n
<1> DEFINE d == Holding(c, type, mode, n)
<1>0. d = [c EXCEPT !.m_eType = type, !.mode = mode, !.opened = n]
  BY DEF Holding
<1> HIDE DEF d
<1>1. c \in Clients
  BY DEF Sound
<1>2. d \in Clients
  <2>1. PICK a \in Clients : a = [c EXCEPT !.m_eType = type]
    BY <1>1, FieldSet
  <2>2. PICK b \in Clients : b = [a EXCEPT !.mode = mode]
    BY FieldSet
  <2>3. [b EXCEPT !.opened = n] \in Clients
    BY FieldSet
  <2> QED BY <1>0, <2>1, <2>2, <2>3
<1>3. /\ d.mode = mode /\ d.m_eType = type /\ d.opened = n /\ OnlyFiles(c, d)
      /\ d.sockets = c.sockets /\ d.lost = c.lost /\ d.m_iDataSocket = c.m_iDataSocket
  BY <1>0, <1>1 DEF Clients, OnlyFiles
<1> QED BY <1>2, <1>3 DEF Sound, IsOpen, d

(* A close leaves nothing open. *)
LEMMA CloseSound ==
  ASSUME NEW c, Sound(c)
  PROVE  /\ Sound(FileSystem_Close(c)) /\ OnlyFiles(c, FileSystem_Close(c))
         /\ FileSystem_Close(c).mode = "none" /\ FileSystem_Close(c).opened = 0
         /\ FileSystem_Close(c).m_eType = "INVALID"
         /\ FileSystem_Close(c) = Holding(c, "INVALID", "none", 0)
<1>1. c.opened \in {0, 1} /\ (c.opened = 1 => c.m_eType = "IODEVICE")
  BY DEF Sound, IsOpen
<1>2. (IF c.m_eType = "IODEVICE" /\ c.opened > 0 THEN c.opened - 1 ELSE c.opened) = 0
  BY <1>1
<1>3. FileSystem_Close(c) = Holding(c, "INVALID", "none", 0)
  BY <1>2 DEF FileSystem_Close, Holding
<1> QED BY <1>3, FilesSet

(* Nor does the classification of a path. *)
LEMMA ClassifySound ==
  ASSUME NEW c, Sound(c), NEW d \in FileSystem_ClassifyPath(c)
  PROVE  Sound(d) /\ OnlyFiles(c, d) /\ d.mode = "none"
<1>1. PICK type \in {"INVALID", "DEVLIST", "IODEVICE"} :
        d = [Holding(c, "INVALID", "none", 0) EXCEPT !.m_eType = type]
  BY CloseSound DEF FileSystem_ClassifyPath
<1>2. d = Holding(c, type, "none", 0)
  BY <1>1 DEF Holding
<1> QED BY <1>2, FilesSet

(* The context without an open file. *)
LEMMA UnopenedSound ==
  ASSUME NEW c, Sound(c), NEW d \in FileSystem_ClassifyPath(c), NEW e,
         e = [d EXCEPT !.m_eType = IF @ = "DEVLIST" THEN @ ELSE "INVALID"] \/ e = Settled(d)
  PROVE  Sound(e) /\ OnlyFiles(c, e) /\ ~IsOpen(e)
<1>1. Sound(d) /\ OnlyFiles(c, d) /\ d.mode = "none" /\ d \in Clients
  BY ClassifySound DEF Sound
<1>2. PICK type \in {"INVALID", "DEVLIST"} : e = [d EXCEPT !.m_eType = type]
  BY <1>1 DEF Settled, Clients
<1>3. e \in Clients
  BY <1>1, <1>2 DEF Clients
<1>4. /\ e.mode = "none" /\ e.opened = d.opened /\ e.sockets = d.sockets /\ e.m_iDataSocket = d.m_iDataSocket
      /\ e.lost = d.lost /\ OnlyFiles(d, e)
  BY <1>1, <1>2 DEF Clients, OnlyFiles
<1> QED BY <1>1, <1>3, <1>4 DEF Sound, IsOpen, OnlyFiles

(* An open that succeeds. *)
LEMMA OpensSound ==
  ASSUME NEW c, Sound(c), NEW d \in FileSystem_ClassifyPath(c), d.m_eType = "IODEVICE",
         NEW mode \in {"dir", "read", "write"}
  PROVE  /\ Sound(Opens(d, mode)) /\ OnlyFiles(c, Opens(d, mode))
         /\ IsOpen(Opens(d, mode)) /\ Opens(d, mode).mode = mode
<1>1. Sound(d) /\ OnlyFiles(c, d) /\ d.opened = 0
  BY ClassifySound DEF Sound, IsOpen
<1>2. Opens(d, mode) = Holding(d, "IODEVICE", mode, 1)
  BY <1>1 DEF Opens, Holding
<1>3. /\ Sound(Opens(d, mode)) /\ OnlyFiles(d, Opens(d, mode)) /\ Opens(d, mode).mode = mode
      /\ Opens(d, mode).m_eType = "IODEVICE"
  BY <1>1, <1>2, FilesSet
<1> QED BY <1>1, <1>3 DEF OnlyFiles, IsOpen

LEMMA OpenFileSound ==
  ASSUME NEW c, Sound(c), NEW mode \in {"read", "write"}, NEW e \in FileSystem_OpenFile(c, mode)
  PROVE  Sound(e) /\ OnlyFiles(c, e) /\ (IsOpen(e) => e.mode = mode)
BY UnopenedSound, OpensSound DEF FileSystem_OpenFile

LEMMA OpenDirSound ==
  ASSUME NEW c, Sound(c), NEW e \in FileSystem_OpenDir(c)
  PROVE  Sound(e) /\ OnlyFiles(c, e) /\ (IsOpen(e) => e.mode = "dir")
BY UnopenedSound, OpensSound DEF FileSystem_OpenDir

(* The commands that only touch files. *)
LEMMA MountSound ==
  ASSUME NEW c, Sound(c), NEW d \in FileSystem_MountDevice(c) \cup FileSystem_UnmountDevice(c) \cup FileSystem_SyncDevice(c)
  PROVE  Sound(d) /\ OnlyFiles(c, d)
BY UnopenedSound DEF FileSystem_MountDevice, FileSystem_UnmountDevice, FileSystem_SyncDevice

LEMMA ChangeDirSound ==
  ASSUME NEW c, Sound(c), NEW d \in FileSystem_ChangeDir(c)
  PROVE  Sound(d) /\ OnlyFiles(c, d)
<1>1. CASE d = c
  BY <1>1 DEF OnlyFiles
<1>2. CASE d \in FileSystem_UnmountDevice(c)
  BY <1>2, MountSound
<1>3. ASSUME NEW e \in FileSystem_UnmountDevice(c), d \in FileSystem_MountDevice(e)
      PROVE  Sound(d) /\ OnlyFiles(c, d)
  <2>1. Sound(e) /\ OnlyFiles(c, e)
    BY MountSound
  <2>2. Sound(d) /\ OnlyFiles(e, d)
    BY <1>3, <2>1, MountSound
  <2> QED BY <2>1, <2>2 DEF OnlyFiles
<1> QED BY <1>1, <1>2, <1>3 DEF FileSystem_ChangeDir

LEMMA RnfrSound ==
  ASSUME NEW c, Sound(c), NEW d \in FtpClient_OnCmdRnfr(c)
  PROVE  Sound(d) /\ OnlyFiles(c, d)
<1> DEFINE file == FileSystem_OpenFile(c, "read")
           dir == UNION {FileSystem_OpenDir(e) : e \in {g \in file : ~IsOpen(g)}}
<1>1. \A e \in file : Sound(e) /\ OnlyFiles(c, e)
  BY OpenFileSound
<1>2. \A e \in dir : Sound(e) /\ OnlyFiles(c, e)
  <2>1. SUFFICES ASSUME NEW f \in file, NEW e \in FileSystem_OpenDir(f)
                 PROVE  Sound(e) /\ OnlyFiles(c, e)
    OBVIOUS
  <2>2. Sound(e) /\ OnlyFiles(f, e)
    BY <1>1, OpenDirSound
  <2> QED BY <1>1, <2>2 DEF OnlyFiles
<1>3. PICK e \in file \cup dir : d = e \/ d \in FileSystem_ClassifyPath(e)
  BY DEF FtpClient_OnCmdRnfr
<1>4. Sound(e) /\ OnlyFiles(c, e)
  BY <1>1, <1>2
<1>5. CASE d = e
  BY <1>4, <1>5
<1>6. CASE d \in FileSystem_ClassifyPath(e)
  BY <1>4, <1>6, ClassifySound DEF OnlyFiles
<1> QED BY <1>3, <1>5, <1>6

(* A quiet client stays so where only its files change. *)
LEMMA FilesGood ==
  ASSUME NEW c, Quiet(c), NEW d, Sound(d), OnlyFiles(c, d)
  PROVE  Good(d)
BY DEF Quiet, OnlyFiles, Good
-----------------------------------------------------------------------------
(* The data connection.                                                    *)

(* The client with this socket. *)
Socketed(c, socket, n) == [c EXCEPT !.m_iDataSocket = socket, !.sockets = n]

LEMMA SocketSet ==
  ASSUME NEW c, Sound(c), NEW socket \in {"none", "listen", "data"}, NEW n \in Nat,
         n = c.lost + IF socket = "none" THEN 0 ELSE 1
  PROVE  /\ Sound(Socketed(c, socket, n)) /\ OnlyFiles(c, Socketed(c, socket, n))
         /\ Socketed(c, socket, n).m_iDataSocket = socket /\ Socketed(c, socket, n).sockets = n
         /\ Socketed(c, socket, n).mode = c.mode /\ Socketed(c, socket, n).m_eType = c.m_eType
         /\ Socketed(c, socket, n).opened = c.opened /\ Socketed(c, socket, n).lost = c.lost
<1> DEFINE d == Socketed(c, socket, n)
<1>0. d = [c EXCEPT !.m_iDataSocket = socket, !.sockets = n]
  BY DEF Socketed
<1> HIDE DEF d
<1>1. c \in Clients
  BY DEF Sound
<1>2. d \in Clients
  BY <1>0, <1>1 DEF Clients
<1>3. /\ d.mode = c.mode /\ d.m_eType = c.m_eType /\ d.opened = c.opened /\ OnlyFiles(c, d)
      /\ d.sockets = n /\ d.m_iDataSocket = socket /\ d.lost = c.lost
  BY <1>0, <1>1 DEF Clients, OnlyFiles
<1> QED BY <1>2, <1>3 DEF Sound, IsOpen, d

LEMMA DisconnectedSound ==
  ASSUME NEW c, Sound(c)
  PROVE  /\ Sound(Disconnected(c)) /\ OnlyFiles(c, Disconnected(c))
         /\ Disconnected(c).m_iDataSocket = "none" /\ Disconnected(c).sockets = c.lost /\ Disconnected(c).lost = c.lost
         /\ Disconnected(c).mode = c.mode /\ Disconnected(c).m_eType = c.m_eType /\ Disconnected(c).opened = c.opened
<1>1. c \in Clients /\ c.lost \in Nat /\ c.sockets = c.lost + IF c.m_iDataSocket = "none" THEN 0 ELSE 1
  BY DEF Sound, Clients
<1>2. CASE c.m_iDataSocket = "none"
  BY <1>1, <1>2 DEF Disconnected, OnlyFiles
<1>3. CASE c.m_iDataSocket # "none"
  <2> DEFINE d == Disconnected(c)
  <2>0. c.sockets - 1 = c.lost
    BY <1>1, <1>3
  <2>1. d = Socketed(c, "none", c.lost)
    BY <1>3, <2>0 DEF Disconnected, Socketed
  <2> HIDE DEF d
  <2>2. /\ Sound(d) /\ OnlyFiles(c, d) /\ d.m_iDataSocket = "none" /\ d.sockets = c.lost /\ d.lost = c.lost
        /\ d.mode = c.mode /\ d.m_eType = c.m_eType /\ d.opened = c.opened
    BY <1>1, <2>1, SocketSet
  <2> QED BY <2>2 DEF d
<1> QED BY <1>2, <1>3

LEMMA CleanupSound ==
  ASSUME NEW c, Sound(c)
  PROVE  /\ Sound(FtpClient_OnDataCleanup(c)) /\ FtpClient_OnDataCleanup(c).m_eDataMode = "IDLE"
         /\ FtpClient_OnDataCleanup(c).polite = c.polite /\ FtpClient_OnDataCleanup(c).talk = c.talk
         /\ FtpClient_OnDataCleanup(c).m_iDataSocket = "none"
         /\ FtpClient_OnDataCleanup(c).sockets = FtpClient_OnDataCleanup(c).lost
         /\ FtpClient_OnDataCleanup(c).mode = "none" /\ FtpClient_OnDataCleanup(c).opened = 0
<1> DEFINE d == FileSystem_Close(c)
           e == Disconnected(d)
           f == FtpClient_OnDataCleanup(c)
<1>1. Sound(d) /\ OnlyFiles(c, d) /\ d.mode = "none" /\ d.opened = 0
  BY CloseSound
<1> HIDE DEF d
<1>2. /\ Sound(e) /\ OnlyFiles(d, e) /\ e.mode = "none" /\ e.opened = 0
      /\ e.m_iDataSocket = "none" /\ e.sockets = e.lost
  BY <1>1, DisconnectedSound
<1>3. f = [e EXCEPT !.m_iRemotePort = FALSE, !.m_eConnState = "IDLE", !.m_eDataMode = "IDLE"]
  BY DEF FtpClient_OnDataCleanup, d
<1> HIDE DEF e, f
<1>4. e \in Clients
  BY <1>2 DEF Sound
<1>5. f \in Clients
  BY <1>3, <1>4 DEF Clients
<1>6. /\ f.mode = e.mode /\ f.m_eType = e.m_eType /\ f.opened = e.opened /\ f.sockets = e.sockets
      /\ f.lost = e.lost /\ f.m_iDataSocket = e.m_iDataSocket /\ f.m_eDataMode = "IDLE" /\ f.polite = e.polite /\ f.talk = e.talk
  BY <1>3, <1>4 DEF Clients
<1> QED BY <1>1, <1>2, <1>5, <1>6 DEF Sound, IsOpen, OnlyFiles, f

(* What a client names depends on these. *)
LEMMA Unmoved ==
  ASSUME NEW c, Sound(c), NEW d \in Clients, SameOpen(c, d)
  PROVE  Sound(d)
BY DEF Sound, SameOpen, IsOpen

(* The end of a transfer, good or bad. *)
LEMMA CompleteGood ==
  ASSUME NEW c, Sound(c)
  PROVE  Good(FtpClient_OnDataComplete(c))
<1> DEFINE d == FtpClient_OnDataCleanup(c)
           e == FtpClient_OnDataComplete(c)
<1>1. Sound(d) /\ d.m_eDataMode = "IDLE" /\ d \in Clients
  BY CleanupSound DEF Sound
<1>2. e = [d EXCEPT !.talk = "idle"]
  BY DEF FtpClient_OnDataComplete
<1> HIDE DEF d, e
<1>3. e \in Clients /\ SameOpen(d, e) /\ e.talk = "idle" /\ e.m_eDataMode = d.m_eDataMode
  <2>1. e \in Clients
    BY <1>1, <1>2, FieldSet
  <2>2. SameOpen(d, e) /\ e.talk = "idle" /\ e.m_eDataMode = d.m_eDataMode
    BY <1>1, <1>2 DEF Clients, SameOpen
  <2> QED BY <2>1, <2>2
<1>4. Good(e)
  BY <1>1, <1>3, Unmoved DEF Good
<1> QED BY <1>4 DEF e

LEMMA FailedGood ==
  ASSUME NEW c, Sound(c)
  PROVE  Good(FtpClient_OnDataFailed(c))
<1> DEFINE d == [c EXCEPT !.m_eDataAction = "NONE"]
<1>1. c \in Clients
  BY DEF Sound
<1>2. d \in Clients /\ SameOpen(c, d)
  <2>1. d \in Clients
    BY <1>1, FieldSet
  <2>2. SameOpen(c, d)
    BY <1>1 DEF Clients, SameOpen
  <2> QED BY <2>1, <2>2
<1>3. Sound(d)
  BY <1>2, Unmoved
<1> QED BY <1>3, CompleteGood DEF FtpClient_OnDataFailed

(* Data flows. *)
LEMMA FlowSet ==
  ASSUME NEW c, Sound(c), c.polite => Ready(c), NEW m \in {"READ", "WRITE"},
         NEW d, d = [c EXCEPT !.m_eDataMode = m, !.m_eConnState = "RUNNING", !.talk = "open"]
  PROVE  Good(d)
<1>1. c \in Clients
  BY DEF Sound
<1>2. d \in Clients /\ SameOpen(c, d)
  <2>1. PICK a \in Clients : a = [c EXCEPT !.m_eDataMode = m]
    BY <1>1, FieldSet
  <2>2. PICK b \in Clients : b = [a EXCEPT !.m_eConnState = "RUNNING"]
    BY FieldSet
  <2>3. [b EXCEPT !.talk = "open"] \in Clients
    BY FieldSet
  <2>4. d \in Clients
    BY <2>1, <2>2, <2>3
  <2>5. SameOpen(c, d)
    BY <1>1 DEF Clients, SameOpen
  <2> QED BY <2>4, <2>5
<1>3. /\ d.polite = c.polite /\ d.talk = "open" /\ d.m_eConnState = "RUNNING"
      /\ d.m_eDataAction = c.m_eDataAction /\ d.mode = c.mode /\ d.m_eType = c.m_eType
  BY <1>1 DEF Clients
<1>4. d.polite => Ready(d)
  BY <1>3 DEF Ready
<1> QED BY <1>2, <1>3, <1>4, Unmoved DEF Good

(* The connection is there: data flows for the action, if there is one. *)
LEMMA ConnectedGood ==
  ASSUME NEW c, Sound(c), Still(c), c.polite => Ready(c)
  PROVE  Good(FtpClient_OnDataConnected(c))
<1>1. CASE c.m_eDataAction \in ListActions \cup {"RETR"}
  BY <1>1, FlowSet DEF FtpClient_OnDataConnected
<1>2. CASE c.m_eDataAction \in WriteActions
  <2>1. c.m_eDataAction \notin ListActions \cup {"RETR"}
    BY <1>2 DEF WriteActions, ListActions
  <2> QED BY <1>2, <2>1, FlowSet DEF FtpClient_OnDataConnected
<1>3. CASE c.m_eDataAction \notin ListActions \cup {"RETR"} \cup WriteActions
  <2> DEFINE d == FtpClient_OnDataConnected(c)
  <2>1. d = [c EXCEPT !.m_eDataMode = "IDLE", !.m_eConnState = "RUNNING"]
    BY <1>3 DEF FtpClient_OnDataConnected
  <2> HIDE DEF d
  <2>2. c \in Clients
    BY DEF Sound
  <2>3. d \in Clients /\ SameOpen(c, d)
    BY <2>1, <2>2 DEF Clients, SameOpen
  <2>4. d.m_eDataMode = "IDLE" /\ d.polite = c.polite /\ d.m_eDataAction = c.m_eDataAction
    BY <2>1, <2>2 DEF Clients
  <2>5. d.polite => Ready(d)
    BY <2>3, <2>4 DEF Ready, SameOpen
  <2>6. Good(d)
    BY <2>3, <2>4, <2>5, Unmoved DEF Good
  <2> QED BY <2>6 DEF d
<1> QED BY <1>1, <1>2, <1>3

LEMMA ConnectGood ==
  ASSUME NEW c, Sound(c), Still(c), Ready(c), NEW d \in FtpClient_OnDataConnect(c)
  PROVE  Good(d)
<1> DEFINE alone == Disconnected(c)
           new == [alone EXCEPT !.m_iDataSocket = "data", !.sockets = @ + 1]
<1>1. d \in {FtpClient_OnDataFailed(alone), FtpClient_OnDataFailed(new), FtpClient_OnDataConnected(new)}
  BY DEF FtpClient_OnDataConnect
<1>2. /\ Sound(alone) /\ OnlyFiles(c, alone) /\ alone.sockets = alone.lost
      /\ alone.mode = c.mode /\ alone.m_eType = c.m_eType
  BY DisconnectedSound
<1> HIDE DEF alone
<1>0. alone.lost \in Nat
  <2>1. alone \in Clients
    BY <1>2 DEF Sound
  <2> QED BY <2>1 DEF Clients
<1>3. new = Socketed(alone, "data", alone.lost + 1) /\ alone.lost + 1 \in Nat
  BY <1>0, <1>2 DEF Socketed
<1> HIDE DEF new
<1>4. Sound(new) /\ OnlyFiles(alone, new) /\ new.mode = alone.mode /\ new.m_eType = alone.m_eType
  BY <1>2, <1>3, SocketSet
<1>5. Still(new) /\ Ready(new)
  BY <1>2, <1>4 DEF Still, Ready, OnlyFiles
<1> QED BY <1>1, <1>2, <1>4, <1>5, FailedGood, ConnectedGood

(* A client that asked, with its file open. *)
LEMMA HandleConnectGood ==
  ASSUME NEW c, Sound(c), Still(c), Ready(c), NEW d \in FtpClient_HandleDataConnect(c)
  PROVE  Good(d)
<1>1. CASE d = c
  BY <1>1 DEF Good, Still
<1> QED BY <1>1, ConnectedGood, ConnectGood, FailedGood DEF FtpClient_HandleDataConnect
-----------------------------------------------------------------------------
(* The commands of a transfer.                                             *)

LEMMA AskedSound ==
  ASSUME NEW c, Sound(c), Quiet(c)
  PROVE  Sound(Asked(c)) /\ Still(Asked(c))
<1>1. c \in Clients
  BY DEF Sound
<1>2. Asked(c) \in Clients /\ SameOpen(c, Asked(c))
  <2>1. Asked(c) \in Clients
    BY <1>1, FieldSet DEF Asked
  <2>2. SameOpen(c, Asked(c))
    BY <1>1 DEF Clients, SameOpen, Asked
  <2> QED BY <2>1, <2>2
<1>3. Asked(c).polite = c.polite /\ Asked(c).m_eDataMode = c.m_eDataMode
  BY <1>1 DEF Clients, Asked
<1> QED BY <1>2, <1>3, Unmoved DEF Still, Quiet

LEMMA RefusedGood ==
  ASSUME NEW c, Sound(c), Still(c)
  PROVE  Good(Refused(c))
<1>1. c \in Clients
  BY DEF Sound
<1>2. Refused(c) \in Clients /\ SameOpen(c, Refused(c))
  <2>1. Refused(c) \in Clients
    BY <1>1, FieldSet DEF Refused
  <2>2. SameOpen(c, Refused(c))
    BY <1>1 DEF Clients, SameOpen, Refused
  <2> QED BY <2>1, <2>2
<1>3. Refused(c).polite = c.polite /\ Refused(c).m_eDataMode = c.m_eDataMode /\ Refused(c).talk = "idle"
  BY <1>1 DEF Clients, Refused
<1> QED BY <1>2, <1>3, Unmoved DEF Good, Still

LEMMA ActionSet ==
  ASSUME NEW c, Sound(c), Still(c), NEW action \in Actions, NEW d, d = [c EXCEPT !.m_eDataAction = action]
  PROVE  Sound(d) /\ Still(d) /\ SameOpen(c, d) /\ d.m_eDataAction = action
<1>1. c \in Clients
  BY DEF Sound
<1>2. d \in Clients /\ SameOpen(c, d)
  BY <1>1 DEF Clients, SameOpen
<1>3. d.polite = c.polite /\ d.m_eDataMode = c.m_eDataMode /\ d.m_eDataAction = action
  BY <1>1 DEF Clients
<1> QED BY <1>2, <1>3, Unmoved DEF Still

LEMMA ListGood ==
  ASSUME NEW c, Sound(c), Quiet(c), NEW d \in FtpClient_OnCmdList(c)
  PROVE  Good(d)
<1>1. PICK action \in ListActions, e \in FileSystem_OpenDir(Asked(c)) :
        LET f == [e EXCEPT !.m_eDataAction = action] IN
          \/ d = Refused(f)
          \/ DirReady(f) /\ d \in FtpClient_HandleDataConnect(f)
  BY DEF FtpClient_OnCmdList
<1> DEFINE f == [e EXCEPT !.m_eDataAction = action]
<1>2. Sound(e) /\ Still(e) /\ (IsOpen(e) => e.mode = "dir")
  BY AskedSound, OpenDirSound DEF OnlyFiles, Still
<1>3. Sound(f) /\ Still(f) /\ SameOpen(e, f) /\ f.m_eDataAction = action
  BY <1>2, ActionSet DEF Actions
<1>4. Needs(action) = "dir"
  BY DEF Needs, ListActions, WriteActions
<1> HIDE DEF f
<1>5. DirReady(f) => Ready(f)
  BY <1>2, <1>3, <1>4 DEF Ready, DirReady, SameOpen, IsOpen
<1> QED BY <1>1, <1>3, <1>5, RefusedGood, HandleConnectGood DEF f

LEMMA TransferGood ==
  ASSUME NEW c, Sound(c), Quiet(c), NEW action \in {"RETR", "STOR", "APPE"}, NEW d \in Transfers(c, action)
  PROVE  Good(d)
<1>1. PICK e \in FileSystem_OpenFile(Asked(c), Needs(action)) :
        \/ d = Refused(e)
        \/ IsOpen(e) /\ d \in FtpClient_HandleDataConnect([e EXCEPT !.m_eDataAction = action])
  BY DEF Transfers
<1>2. Needs(action) \in {"read", "write"}
  <2>1. action \notin ListActions
    BY DEF ListActions
  <2> QED BY <2>1 DEF Needs
<1>3. Sound(e) /\ Still(e) /\ (IsOpen(e) => e.mode = Needs(action))
  BY <1>2, AskedSound, OpenFileSound DEF OnlyFiles, Still
<1> DEFINE f == [e EXCEPT !.m_eDataAction = action]
<1>4. Sound(f) /\ Still(f) /\ SameOpen(e, f) /\ f.m_eDataAction = action
  BY <1>3, ActionSet DEF Actions, WriteActions
<1> HIDE DEF f
<1>5. IsOpen(e) => Ready(f)
  BY <1>3, <1>4 DEF Ready, SameOpen
<1> QED BY <1>1, <1>3, <1>4, <1>5, RefusedGood, HandleConnectGood DEF f

LEMMA PasvGood ==
  ASSUME NEW c, Sound(c), Quiet(c), NEW d \in FtpClient_OnCmdPasv(c)
  PROVE  Good(d)
<1> DEFINE clean == FtpClient_OnDataCleanup(c)
           open == Socketed(clean, "listen", clean.lost + 1)
<1>1. /\ Sound(clean) /\ clean.m_eDataMode = "IDLE" /\ clean.polite = c.polite /\ clean.talk = c.talk
      /\ clean.sockets = clean.lost /\ clean.m_iDataSocket = "none"
  BY CleanupSound
<1>2. \/ d = clean \/ d = [clean EXCEPT !.m_iDataSocket = "listen", !.sockets = @ + 1, !.m_eConnState = "LISTEN"]
      \/ d = [clean EXCEPT !.sockets = @ + 1, !.lost = @ + 1]
  BY DEF FtpClient_OnCmdPasv
<1> HIDE DEF clean
<1>0. clean \in Clients /\ clean.lost \in Nat
  <2>1. clean \in Clients
    BY <1>1 DEF Sound
  <2> QED BY <2>1 DEF Clients
<1>3. PICK n \in Nat : n = clean.lost + 1 /\ clean \in Clients
  BY <1>0
<1>4. Sound(open) /\ OnlyFiles(clean, open) /\ open \in Clients
  BY <1>1, <1>3, SocketSet DEF Sound
<1>5. CASE d = [open EXCEPT !.m_eConnState = "LISTEN"]
  <2> HIDE DEF open
  <2>1. d \in Clients /\ SameOpen(open, d) /\ OnlyFiles(open, d)
    BY <1>4, <1>5 DEF Clients, SameOpen, OnlyFiles
  <2> QED BY <1>1, <1>4, <2>1, Unmoved DEF Good, OnlyFiles, Quiet
<1>6. CASE d = clean
  BY <1>1, <1>6 DEF Good, Quiet
<1>7. CASE d = [clean EXCEPT !.sockets = n, !.lost = n]
  <2>1. d \in Clients
    BY <1>3, <1>7 DEF Clients
  <2>2. /\ d.sockets = d.lost /\ d.m_iDataSocket = "none" /\ d.m_eType = clean.m_eType /\ d.mode = clean.mode
        /\ d.opened = clean.opened /\ OnlyFiles(clean, d) /\ d.lost \in Nat
    BY <1>1, <1>3, <1>7 DEF Clients, OnlyFiles
  <2>3. Sound(d)
    BY <1>1, <2>1, <2>2 DEF Sound, IsOpen
  <2> QED BY <1>1, <2>2, <2>3 DEF Good, OnlyFiles, Quiet
<1>8. \/ d = [open EXCEPT !.m_eConnState = "LISTEN"] \/ d = clean
      \/ d = [clean EXCEPT !.sockets = n, !.lost = n]
  BY <1>1, <1>2, <1>3 DEF Socketed
<1> QED BY <1>5, <1>6, <1>7, <1>8

(* A command in the middle of a transfer is not polite. *)
LEMMA ImpoliteQuiet ==
  ASSUME NEW c, Good(c)
  PROVE  Sound(Impolite(c)) /\ Quiet(Impolite(c))
<1>1. c \in Clients /\ c.talk \in {"idle", "asked", "open"} /\ Sound(c)
  BY DEF Good, Sound, Clients
<1>2. CASE ~InTransfer(c)
  BY <1>1, <1>2 DEF Impolite, Good, InTransfer, Quiet
<1>3. CASE InTransfer(c)
  <2> DEFINE d == Impolite(c)
  <2>1. d = [c EXCEPT !.polite = FALSE]
    BY <1>3 DEF Impolite
  <2> HIDE DEF d
  <2>2. d \in Clients /\ SameOpen(c, d) /\ d.polite = FALSE
    BY <1>1, <2>1 DEF Clients, SameOpen
  <2> QED BY <1>1, <2>2, Unmoved DEF Quiet, d
<1> QED BY <1>2, <1>3

(* Neither the login, its attempts nor the port count. *)
LEMMA LoginSet ==
  ASSUME NEW c, Good(c), NEW d \in Clients, SameOpen(c, d), OnlyFiles(c, d), d.m_eConnState = c.m_eConnState
  PROVE  Good(d)
<1>1. Sound(d)
  BY Unmoved DEF Good
<1>2. Ready(c) => Ready(d)
  BY DEF Ready, SameOpen, OnlyFiles
<1> QED BY <1>1, <1>2 DEF Good, OnlyFiles

LEMMA PortGood ==
  ASSUME NEW c, Good(c), NEW d \in FtpClient_OnCmdPort(c)
  PROVE  Good(d)
<1>1. c \in Clients
  BY DEF Good, Sound
<1>2. d \in Clients /\ SameOpen(c, d) /\ OnlyFiles(c, d) /\ d.m_eConnState = c.m_eConnState
  BY <1>1 DEF FtpClient_OnCmdPort, Clients, SameOpen, OnlyFiles
<1> QED BY <1>2, LoginSet

LEMMA CommandGood ==
  ASSUME NEW c, Good(c), NEW d \in FtpClient_OnCommand(c)
  PROVE  Good(d)
<1> DEFINE p == Impolite(c)
<1>1. Sound(p) /\ Quiet(p)
  BY ImpoliteQuiet
<1>2. \/ d \in FtpClient_OnCmdPort(c) \/ d \in FtpClient_OnCmdPasv(p) \cup FtpClient_OnCmdList(p)
      \/ d \in Transfers(p, "RETR") \cup Transfers(p, "STOR") \cup Transfers(p, "APPE")
      \/ d = p \/ d \in FtpClient_OnCmdRnfr(p) \cup FileSystem_ChangeDir(p) \cup FileSystem_ClassifyPath(p)
      \/ d \in FileSystem_MountDevice(p) \cup FileSystem_UnmountDevice(p) \cup FileSystem_SyncDevice(p)
      \/ d = [FileSystem_Close(p) EXCEPT !.m_eType = "INVALID"]
  BY DEF FtpClient_OnCommand, FtpClient_OnCmdRetr, FtpClient_OnCmdStor, FtpClient_OnCmdAppe, FtpClient_OnCmdSite,
         FileSystem_DeleteFile, FileSystem_CreateDir, FileSystem_DeleteDir, FileSystem_Rename, OnPath,
         FileSystem_GetFileSize
<1> HIDE DEF p
<1>3. CASE d \in FtpClient_OnCmdPort(c) \/ d \in FtpClient_OnCmdPasv(p) \cup FtpClient_OnCmdList(p)
  BY <1>1, <1>3, PasvGood, PortGood, ListGood
<1>4. CASE d \in Transfers(p, "RETR") \cup Transfers(p, "STOR") \cup Transfers(p, "APPE")
  BY <1>1, <1>4, TransferGood
<1>5. CASE d = p \/ d \in FtpClient_OnCmdRnfr(p) \cup FileSystem_ChangeDir(p) \cup FileSystem_ClassifyPath(p)
  <2>1. Sound(d) /\ OnlyFiles(p, d)
    BY <1>1, <1>5, RnfrSound, ChangeDirSound, ClassifySound DEF OnlyFiles
  <2> QED BY <1>1, <2>1, FilesGood
<1>6. CASE d \in FileSystem_MountDevice(p) \cup FileSystem_UnmountDevice(p) \cup FileSystem_SyncDevice(p)
  BY <1>1, <1>6, MountSound, FilesGood
<1>7. CASE d = [FileSystem_Close(p) EXCEPT !.m_eType = "INVALID"]
  <2> DEFINE e == FileSystem_Close(p)
  <2>0. Sound(e) /\ OnlyFiles(p, e) /\ e.mode = "none" /\ e.opened = 0 /\ e.m_eType = "INVALID" /\ e \in Clients
    BY <1>1, CloseSound DEF Sound
  <2>2. d = [e EXCEPT !.m_eType = "INVALID"]
    BY <1>7
  <2> HIDE DEF e
  <2>3. d \in Clients /\ SameOpen(e, d) /\ OnlyFiles(e, d)
    BY <2>0, <2>2 DEF Clients, SameOpen, OnlyFiles
  <2>1. Sound(d) /\ OnlyFiles(p, d)
    BY <2>0, <2>3, Unmoved DEF OnlyFiles
  <2> QED BY <1>1, <2>1, FilesGood
<1> QED BY <1>2, <1>3, <1>4, <1>5, <1>6, <1>7
-----------------------------------------------------------------------------
(* Logins, departures, and the data socket.                                *)

LEMMA DisconnectGood ==
  ASSUME NEW c, Sound(c)
  PROVE  Left(FtpServer_OnClientDisconnect(c))
<1> DEFINE d == FileSystem_Close(FtpClient_OnDataCleanup(c))
           e == FtpServer_OnClientDisconnect(c)
<1>1. Sound(FtpClient_OnDataCleanup(c)) /\ FtpClient_OnDataCleanup(c).m_iDataSocket = "none"
  BY CleanupSound
<1>2. Sound(d) /\ d.opened = 0 /\ d = Holding(FtpClient_OnDataCleanup(c), "INVALID", "none", 0)
  BY <1>1, CloseSound
<1>3. d.m_iDataSocket = "none" /\ d \in Clients /\ d.lost \in Nat
  BY <1>1, <1>2 DEF Sound, Clients, Holding
<1>4. d.sockets = d.lost /\ e = [d EXCEPT !.on = FALSE]
  BY <1>2, <1>3 DEF Sound, FtpServer_OnClientDisconnect
<1> HIDE DEF d, e
<1>5. e.on = FALSE /\ e.sockets = d.sockets /\ e.opened = d.opened /\ e.lost = d.lost
  BY <1>3, <1>4 DEF Clients
<1> QED BY <1>2, <1>3, <1>4, <1>5 DEF Left, e

LEMMA LoginGood ==
  ASSUME NEW c, Good(c), NEW d \in FtpClient_OnCmdUser(c) \cup FtpClient_OnCmdPass(c)
  PROVE  Good(d) \/ Left(d)
<1> DEFINE e == [c EXCEPT !.m_iAuthAttempt = @ + 1, !.m_eAuthState = "INVALID"]
<1>1. c.m_iAuthAttempt \in Nat /\ c \in Clients
  BY DEF Good, Sound, Clients
<1>2. \/ \E s \in {"VALID", "PASSWORD", "FAKEPASS"} : d = [c EXCEPT !.m_eAuthState = s]
      \/ d = c \/ d = e \/ d = FtpServer_OnClientDisconnect(e)
  BY DEF FtpClient_OnCmdUser, FtpClient_OnCmdPass
<1>3. ASSUME NEW s \in {"VALID", "PASSWORD", "FAKEPASS"}, d = [c EXCEPT !.m_eAuthState = s]
      PROVE  Good(d)
  <2>1. d \in Clients
    BY <1>1, <1>3 DEF Clients
  <2>2. SameOpen(c, d) /\ OnlyFiles(c, d) /\ d.m_eConnState = c.m_eConnState
    BY <1>1, <1>3 DEF Clients, SameOpen, OnlyFiles
  <2> QED BY <2>1, <2>2, LoginSet
<1>4. Good(e)
  <2>0. PICK n \in Nat : n = c.m_iAuthAttempt + 1
    BY <1>1
  <2>3. e = [c EXCEPT !.m_iAuthAttempt = n, !.m_eAuthState = "INVALID"]
    BY <2>0
  <2> HIDE DEF e
  <2>1. e \in Clients
    BY <1>1, <2>3 DEF Clients
  <2>2. SameOpen(c, e) /\ OnlyFiles(c, e) /\ e.m_eConnState = c.m_eConnState
    BY <1>1, <2>3 DEF Clients, SameOpen, OnlyFiles
  <2> QED BY <2>1, <2>2, LoginSet
<1> HIDE DEF e
<1>5. Left(FtpServer_OnClientDisconnect(e))
  BY <1>4, DisconnectGood DEF Good
<1> QED BY <1>2, <1>3, <1>4, <1>5

LEMMA AcceptedGood ==
  ASSUME NEW c, Good(c), c.m_iDataSocket # "none", c.m_eConnState = "LISTEN"
  PROVE  Good(Accepted(c))
<1> DEFINE d == [c EXCEPT !.polite = @ /\ c.talk = "asked", !.m_iDataSocket = "data"]
<1>1. c \in Clients /\ Sound(c)
  BY DEF Good, Sound
<1>2. d \in Clients
  BY <1>1 DEF Clients
<1>3. /\ d.m_iDataSocket = "data" /\ d.sockets = c.sockets /\ d.lost = c.lost /\ d.mode = c.mode /\ d.m_eType = c.m_eType
      /\ d.opened = c.opened /\ d.m_eDataMode = c.m_eDataMode /\ d.m_eDataAction = c.m_eDataAction
  BY <1>1 DEF Clients
<1>4. d.polite => c.polite /\ c.talk = "asked"
  BY <1>1 DEF Clients
<1> HIDE DEF d
<1>5. Sound(d)
  BY <1>1, <1>2, <1>3 DEF Sound, IsOpen
<1>6. Still(d) /\ (d.polite => Ready(d))
  BY <1>3, <1>4 DEF Good, Still, Ready
<1>7. Good(FtpClient_OnDataConnected(d))
  BY <1>5, <1>6, ConnectedGood
<1> QED BY <1>7 DEF Accepted, d

LEMMA DataGood ==
  ASSUME NEW c, Good(c), NEW d \in FtpClient_OnDataRead(c) \cup FtpClient_OnDataWrite(c)
  PROVE  Good(d)
<1>1. d \in {c, FtpClient_OnDataFailed(c), FtpClient_OnDataComplete(c)}
  <2>1. CASE d \in FtpClient_OnDataRead(c)
    BY <2>1 DEF FtpClient_OnDataRead
  <2>2. CASE d \in FtpClient_OnDataWrite(c)
    <3>1. CASE c.m_eDataAction = "RETR"
      BY <2>2, <3>1 DEF FtpClient_OnDataWrite
    <3>2. CASE c.m_eDataAction \in ListActions
      <4>1. c.m_eDataAction # "RETR"
        BY <3>2 DEF ListActions
      <4> QED BY <2>2, <3>2, <4>1 DEF FtpClient_OnDataWrite
    <3>3. CASE c.m_eDataAction \notin ListActions \cup {"RETR"}
      BY <2>2, <3>3 DEF FtpClient_OnDataWrite
    <3> QED BY <3>1, <3>2, <3>3
  <2> QED BY <2>1, <2>2
<1> QED BY <1>1, CompleteGood, FailedGood DEF Good
-----------------------------------------------------------------------------
(* The server.                                                             *)

(* A slot is taken over with what its clients lost. *)
LEMMA NewGood ==
  ASSUME NEW c, Free(c)
  PROVE  Good(LeftOpen(c, FtpClient_Create))
<1> DEFINE d == LeftOpen(c, FtpClient_Create)
<1>1. FtpClient_Create \in Clients
  BY DEF FtpClient_Create, Clients, Actions
<1>2. PICK n \in Nat : n = c.lost /\ n = c.sockets /\ c.opened = 0
  BY DEF Free
<1>3. d = [FtpClient_Create EXCEPT !.sockets = n, !.lost = n, !.opened = 0]
  BY <1>2 DEF LeftOpen
<1> HIDE DEF d
<1>4. d \in Clients
  BY <1>1, <1>3 DEF Clients
<1>5. /\ d.sockets = n /\ d.lost = n /\ d.opened = 0 /\ d.m_iDataSocket = "none" /\ d.mode = "none"
      /\ d.talk = "idle" /\ d.m_eDataMode = "IDLE"
  BY <1>3 DEF FtpClient_Create
<1>6. Sound(d)
  BY <1>4, <1>5 DEF Sound, IsOpen
<1> QED BY <1>5, <1>6 DEF Good, d

LEMMA BecomesGood ==
  ASSUME FtpInv, NEW s \in Slots, NEW d, Good(d) \/ Left(d), Becomes(s, d)
  PROVE  FtpInv'
<1> DEFINE e == IF d.on THEN d ELSE LeftOpen(d, Unused)
<1>1. Good(e) \/ Free(e)
  <2>1. CASE Good(d)
    <3>1. d.on
      BY <2>1 DEF Good, Sound, Clients
    <3> QED BY <2>1, <3>1
  <2>2. CASE Left(d)
    <3>1. PICK n \in Nat : n = d.lost /\ e = [Unused EXCEPT !.sockets = n, !.lost = n, !.opened = 0]
      BY <2>2 DEF Left, LeftOpen
    <3> HIDE DEF e
    <3> QED BY <3>1 DEF Free, Unused, FtpClient_Create
  <2> QED BY <2>1, <2>2
<1>2. client' = [client EXCEPT ![s] = e]
  BY DEF Becomes
<1> HIDE DEF e
<1>3. client' = [t \in Slots |-> IF t = s THEN e ELSE client[t]]
  BY <1>2 DEF FtpInv
<1> QED BY <1>1, <1>3 DEF FtpInv

LEMMA InitGood == ASSUME FtpInit PROVE FtpInv
BY DEF FtpInit, FtpInv, Free, Unused, FtpClient_Create

LEMMA StepGood == ASSUME FtpInv, FtpServer_HandleEvents PROVE FtpInv'
<1>1. PICK s \in Slots : FtpServer_OnClientConnect(s) \/ OnControl(s) \/ Leaves(s) \/ OnData(s)
  BY DEF FtpServer_HandleEvents
<1>2. client[s].on => Good(client[s]) /\ Sound(client[s])
  BY DEF FtpInv, Good, Free
<1>3. CASE FtpServer_OnClientConnect(s)
  <2>1. Free(client[s])
    BY <1>3 DEF FtpServer_OnClientConnect, FtpInv, Good, Sound, Clients
  <2>2. Good(LeftOpen(client[s], FtpClient_Create))
    BY <2>1, NewGood
  <2> QED BY <1>3, <2>2, BecomesGood DEF FtpServer_OnClientConnect
<1>4. CASE OnControl(s)
  <2>1. PICK d \in FtpClient_OnCommand(client[s]) \cup FtpClient_OnCmdUser(client[s])
                   \cup FtpClient_OnCmdPass(client[s]) : Becomes(s, d)
    BY <1>4 DEF OnControl
  <2>2. Good(d) \/ Left(d)
    BY <1>2, <1>4, CommandGood, LoginGood DEF OnControl
  <2> QED BY <2>1, <2>2, BecomesGood
<1>5. CASE Leaves(s)
  <2>1. Left(FtpServer_OnClientDisconnect(client[s]))
    BY <1>2, <1>5, DisconnectGood DEF Leaves
  <2> QED BY <1>5, <2>1, BecomesGood DEF Leaves
<1>6. CASE OnData(s)
  <2>1. CASE client[s].m_eConnState = "LISTEN"
    <3>1. Becomes(s, Accepted(client[s])) /\ Good(Accepted(client[s]))
      BY <1>2, <1>6, <2>1, AcceptedGood DEF OnData
    <3> QED BY <3>1, BecomesGood
  <2>2. CASE client[s].m_eConnState # "LISTEN"
    <3>1. PICK d \in FtpClient_OnDataRead(client[s]) \cup FtpClient_OnDataWrite(client[s]) : Becomes(s, d)
      BY <1>6, <2>2 DEF OnData
    <3>2. Good(d)
      BY <1>2, <1>6, DataGood DEF OnData
    <3> QED BY <3>1, <3>2, BecomesGood
  <2> QED BY <2>1, <2>2
<1> QED BY <1>1, <1>3, <1>4, <1>5, <1>6

(* What the invariant says of the clients is what the server promises. *)
LEMMA InvIsSafe == ASSUME FtpInv PROVE FtpServerSafe
<1>1. ASSUME NEW s \in Slots
      PROVE  /\ client[s].sockets = client[s].lost + IF client[s].m_iDataSocket = "none" THEN 0 ELSE 1
             /\ client[s].opened = IF IsOpen(client[s]) THEN 1 ELSE 0
  <2>1. CASE Good(client[s])
    BY <2>1 DEF Good, Sound
  <2>2. CASE Free(client[s])
    BY <2>2 DEF Free, IsOpen
  <2> QED BY <2>1, <2>2 DEF FtpInv
<1>2. ASSUME NEW s \in Slots, client[s].polite, client[s].m_eDataMode # "IDLE"
      PROVE  /\ client[s].talk = "open" /\ client[s].m_eConnState = "RUNNING"
             /\ \/ client[s].mode = Needs(client[s].m_eDataAction)
                \/ client[s].m_eDataAction \in ListActions /\ client[s].m_eType = "DEVLIST"
  <2>1. Good(client[s])
    BY <1>2 DEF FtpInv, Free
  <2> QED BY <1>2, <2>1 DEF Good, Ready
<1> QED BY <1>1, <1>2 DEF FtpServerSafe, NothingLeaked, TransferHasFile

(* Whatever its clients send, and however their connections and the        *)
(* devices answer, the server leaves no data socket and no file open that  *)
(* a client's record does not name, but for the listening sockets of PASVs *)
(* whose last step failed; and once data flows for a client that asks      *)
(* first and waits for each transfer to end, the reply 150 was sent and    *)
(* the file is open as the command needs (FtpClient.c, FileSystem.c,       *)
(* FtpCommands.c).                                                         *)
THEOREM FtpServerIsSafe == Spec => []FtpServerSafe
<1>1. FtpInit => FtpInv
  BY InitGood
<1>2. FtpInv /\ [FtpServer_HandleEvents]_client => FtpInv'
  <2>1. ASSUME FtpInv, UNCHANGED client PROVE FtpInv'
    BY <2>1 DEF FtpInv
  <2> QED BY <2>1, StepGood
<1>3. FtpInv => FtpServerSafe
  BY InvIsSafe
<1> QED BY <1>1, <1>2, <1>3, PTL DEF Spec

-----------------------------------------------------------------------------
(* The files of the PC. First what the types do not say: only the newest   *)
(* connection may be up, and one that is gone has neither files nor a      *)
(* request.                                                                *)
Ids == Callers \X Handles
Messages == [op : AllCalls, fd : Int, by : Ids]
HostFiles == [fd : Nat \ {0}, by : Ids]
Conns == [up : BOOLEAN, files : SUBSET HostFiles, request : Messages \cup {None}, reply : Messages \cup {None}]
Turn == {"send", "sent", "receive"}
Waiting == {"sent", "receive"}
Stages == {"idle", "ioman", "wait", "after"} \cup Turn
Hows == {"", "skipped", "refused", "reply", "foreign", "stale"}
CallStates == [op : AllCalls \cup {"none"}, at : Stages, h : Handles \cup {0}, fd : Int, left : Int, on : Nat,
               how : Hows, ret : Int, bug : BOOLEAN]
FdStates == [fd : Int, on : Nat, renamed : BOOLEAN]
Memory == [sema : BOOLEAN, lastopen_fd : Int, renamed_fd : Int, remove_flag : BOOLEAN, remove_result : Int,
           recv_packet : Int]
sock == pko_fileio_sock

HostType ==
    /\ pc \in Seq(Conns) /\ sock \in {0, Len(pc)}
    /\ calls \in [Callers -> CallStates] /\ open_fds \in [Callers -> [Handles -> FdStates]]
    /\ fsys \in Memory /\ mixed \in BOOLEAN
ConnInv ==
    \A k \in 1 .. Len(pc) :
        /\ IsFiniteSet(pc[k].files)
        /\ pc[k].up => k = sock
        /\ ~pc[k].up => pc[k].files = {} /\ pc[k].request = None
(* How far a call has come, and what it has to show for it.                *)
CallOk(c) ==
    /\ Of(c).at \in {"idle", "ioman"} => Of(c).op = "none" /\ ~Of(c).bug
    /\ Of(c).at \notin {"idle", "ioman"} =>
          /\ Of(c).op \in AllCalls /\ Of(c).h \in Handles
          /\ Of(c).op \in Ops[c] \/ (Of(c).op = "mkdir" /\ Of(c).bug)
    /\ Of(c).at = "ioman" \/ Of(c).bug => "remove" \in Ops[c]
    /\ Of(c).at = "ioman" \/ Of(c).op = "remove" => 1 \in Handles
    /\ Of(c).bug => Of(c).op = "mkdir"
    /\ IF Of(c).at = "after" THEN Of(c).how \in {"skipped", "refused", "reply", "stale"} ELSE Of(c).how = ""
    /\ Of(c).on <= Len(pc)
    /\ Of(c).left > 1 => Of(c).op = "write"
    /\ Of(c).at = "after" /\ Of(c).op \in OpenCalls => Of(c).on > 0 \/ Of(c).ret < 0
CallInv == \A c \in Callers : CallOk(c)
(* A handle is open while a call that needs it runs, closed while one      *)
(* opens.                                                                  *)
HandleInv ==
    /\ \A c \in Callers, h \in Handles :
          open_fds[c][h].on <= Len(pc) /\ (open_fds[c][h].on = 0 => open_fds[c][h] = Closed)
    /\ \A c \in Callers : Of(c).op \in OpenCalls => Handle(c) = Closed
    /\ \A c \in Callers : Of(c).op \in OnHandle =>
          /\ Handle(c).on > 0 /\ Of(c).fd = Handle(c).fd

(* A message is of the one call that has the semaphore, on the connection  *)
(* that the call reads.                                                    *)
Own(m, c) == m.op = Of(c).op /\ m.by = <<c, Of(c).h>>
Target(c) == IF Of(c).at = "sent" THEN sock ELSE Of(c).on
StreamInv ==
    /\ \A c \in Callers : Of(c).at \in Turn => ~fsys.sema
    /\ \A c, d \in Callers : Of(c).at \in Turn /\ Of(d).at \in Turn => c = d
    /\ \A c \in Callers : Of(c).at \in Waiting => Target(c) > 0
    /\ \A k \in 1 .. Len(pc) : pc[k].request = None \/ pc[k].reply = None
    /\ \A k \in 1 .. Len(pc) : pc[k].request # None =>
          \E c \in Callers : Of(c).at \in Waiting /\ k = Target(c) /\ Own(pc[k].request, c) /\ pc[k].request.fd = Of(c).fd
    /\ \A k \in 1 .. Len(pc) : pc[k].reply # None =>
          \E c \in Callers : Of(c).at \in Waiting /\ k = Target(c) /\ Own(pc[k].reply, c)

(* With one caller that removes, the flag is up while its remove or        *)
(* ioman's mkdir is due, and that mkdir alone is skipped.                  *)
Removing(c) == Of(c).op = "remove" \/ Of(c).at = "ioman"
MkdirInv ==
    /\ fsys.remove_flag <=> \E c \in Callers : Removing(c)
    /\ \A c \in Callers : Of(c).op = "mkdir" => (Of(c).how = "skipped" <=> Of(c).bug)

HostBase == HostType /\ ConnInv /\ CallInv /\ HandleInv /\ StreamInv /\ (RemovesAlone => MkdirInv)
-----------------------------------------------------------------------------
LEMMA NoneIs == None \notin Messages /\ None.op = "none" /\ "none" \notin AllCalls
BY DEF None, Messages, AllCalls, FileCalls, PathCalls, DirCalls

LEMMA CallSets ==
  /\ OpenCalls \subseteq AllCalls /\ Closes \subseteq OnHandle /\ "ioctl" \in OnHandle \ Closes
  /\ OnHandle \subseteq AllCalls /\ OnHandle \cap OpenCalls = {} /\ "mkdir" \in AllCalls
  /\ "mkdir" \notin OnHandle \cup OpenCalls \cup Closes /\ "remove" \notin OnHandle \cup OpenCalls \cup Closes
  /\ "none" \notin OnHandle \cup OpenCalls \cup Closes
BY DEF OpenCalls, Closes, OnHandle, AllCalls, FileCalls, PathCalls, DirCalls

LEMMA LowestIs ==
  ASSUME NEW files \in SUBSET HostFiles, IsFiniteSet(files)
  PROVE  Lowest(files) \in Nat \ {0} /\ Untaken(Lowest(files), files)
<1> DEFINE n == Cardinality(files)
           S == {k \in 1 .. (n + 1) : Untaken(k, files)}
           Owner == [k \in 1 .. (n + 1) |-> CHOOSE f \in files : f.fd = k]
<1>1. n \in Nat
  BY FS_CardinalityType
<1>2. S # {}
  <2> SUFFICES ASSUME \A k \in 1 .. (n + 1) : ~Untaken(k, files)
               PROVE  FALSE
    OBVIOUS
  <2>1. \A k \in 1 .. (n + 1) : Owner[k] \in files /\ Owner[k].fd = k
    BY DEF Untaken
  <2>2. Owner \in [1 .. (n + 1) -> files]
    BY <2>1
  <2>3. IsFiniteSet(1 .. (n + 1)) /\ Cardinality(1 .. (n + 1)) = n + 1
    BY <1>1, FS_Interval
  <2> HIDE DEF Owner
  <2>4. \E x, y \in 1 .. (n + 1) : x # y /\ Owner[x] = Owner[y]
    <3> DEFINE T == 1 .. (n + 1)
    <3> HIDE DEF T
    <3>1. Cardinality(files) < Cardinality(T)
      BY <1>1, <2>3 DEF T
    <3>2. IsFiniteSet(T) /\ Owner \in [T -> files]
      BY <2>2, <2>3 DEF T
    <3>3. \E x, y \in T : x # y /\ Owner[x] = Owner[y]
      BY <3>1, <3>2, FS_PigeonHole
    <3> QED BY <3>3 DEF T
  <2> QED BY <2>1, <2>4
<1>3. PICK i \in S : \A j \in S : <<j, i>> \notin OpToRel(<, Nat)
  <2>1. S \in SUBSET Nat
    OBVIOUS
  <2> HIDE DEF S
  <2> QED BY <1>2, <2>1, NatLessThanWellFounded, WFMin, Zenon
<1>4. i \in 1 .. (n + 1) /\ Untaken(i, files) /\ i \in Nat
  BY <1>1
<1>5. ASSUME NEW k \in 1 .. (i - 1)
      PROVE  ~Untaken(k, files)
  <2>1. k \in 1 .. (n + 1) /\ k < i /\ k \in Nat /\ i \in Nat
    BY ONLY <1>1, <1>4, <1>5
  <2>2. k \notin S
    <3> SUFFICES ASSUME k \in S PROVE FALSE
      OBVIOUS
    <3>1. <<k, i>> \in OpToRel(<, Nat)
      BY <2>1 DEF OpToRel
    <3> QED BY <1>3, <3>1
  <2> QED BY <2>1, <2>2
<1>6. Lowest(files) \in 1 .. (n + 1) /\ Untaken(Lowest(files), files)
  BY <1>4, <1>5 DEF Lowest
<1> QED BY <1>1, <1>6
-----------------------------------------------------------------------------
(* What each step does.                                                    *)
OthersStay(c) == \A d \in Callers : d # c => calls'[d] = calls[d]
PutConn(k, conn) ==
    pc' \in Seq(Conns) /\ Len(pc') = Len(pc) /\ pc'[k] = conn /\ \A j \in 1 .. Len(pc) : j # k => pc'[j] = pc[j]
(* The call c goes on: all but its stage, its result and what is left.     *)
GoesOn(c) ==
    /\ calls' \in [Callers -> CallStates] /\ OthersStay(c)
    /\ calls'[c].op = Of(c).op /\ calls'[c].h = Of(c).h /\ calls'[c].fd = Of(c).fd
    /\ (calls'[c].bug <=> Of(c).bug) /\ calls'[c].left <= Of(c).left

LEMMA MovesIs ==
  ASSUME HostType, NEW c \in Callers, NEW v \in CallStates, Moves(c, v)
  PROVE  calls' \in [Callers -> CallStates] /\ calls'[c] = v /\ OthersStay(c)
BY DEF HostType, Moves, OthersStay

LEMMA PutIs ==
  ASSUME HostType, NEW k \in 1 .. Len(pc), NEW conn \in Conns, pc' = [pc EXCEPT ![k] = conn]
  PROVE  PutConn(k, conn)
BY DEF HostType, PutConn

LEMMA OfIs ==
  ASSUME HostType, NEW c \in Callers
  PROVE  Of(c) \in CallStates
BY DEF HostType, Of

LEMMA ConnIs ==
  ASSUME HostType, NEW k \in 1 .. Len(pc)
  PROVE  /\ pc[k] \in Conns /\ pc[k].up \in BOOLEAN /\ pc[k].files \in SUBSET HostFiles
         /\ pc[k].request \in Messages \cup {None} /\ pc[k].reply \in Messages \cup {None}
<1>1. pc[k] \in Conns
  BY DEF HostType
<1> QED BY <1>1 DEF Conns

Entered(c, op, h) ==
    /\ UNCHANGED <<pko_fileio_sock, pc, open_fds>> /\ (mixed => mixed')
    /\ calls' \in [Callers -> CallStates] /\ OthersStay(c)
    /\ calls'[c].op = op /\ calls'[c].h = h /\ calls'[c].on = 0 /\ (calls'[c].bug <=> Of(c).at = "ioman")
    /\ (calls'[c].left > 1 => op = "write")
    /\ calls'[c].fd = (IF op \in OnHandle THEN open_fds[c][h].fd ELSE 0)
    /\ \/ calls'[c].at = "wait" /\ calls'[c].how = ""
       \/ /\ calls'[c].at = "after" /\ calls'[c].how = "skipped"
          /\ op = "mkdir" \/ op \in Closes \/ op = "ioctl"
          /\ op \in Closes => open_fds[c][h].fd = fsys.renamed_fd
    /\ op \in Closes /\ open_fds[c][h].fd = fsys.renamed_fd => calls'[c].how = "skipped"
    /\ op = "mkdir" => (calls'[c].how = "skipped" <=> fsys.remove_flag)
    /\ ~mixed' /\ op \in OnHandle => open_fds[c][h].on = sock
    /\ fsys' \in Memory /\ (fsys'.sema <=> fsys.sema) /\ fsys'.renamed_fd = fsys.renamed_fd
    /\ fsys'.remove_flag <=> op = "remove"

LEMMA EnterIs ==
  ASSUME HostAssumption, HostType, NEW c \in Callers, NEW op \in AllCalls, NEW h \in Handles,
         Enter(c, op, h, Of(c).at = "ioman")
  PROVE  Entered(c, op, h) /\ mixed' \in BOOLEAN
<1> DEFINE bug == Of(c).at = "ioman"
           number == IF op = "write" THEN Segments ELSE 1
           file == IF op \in OnHandle THEN open_fds[c][h].fd ELSE 0
           call == [Idle EXCEPT !.op = op, !.h = h, !.bug = bug, !.left = number, !.fd = file]
<1>1. /\ fsys \in Memory /\ mixed \in BOOLEAN /\ calls \in [Callers -> CallStates]
      /\ open_fds[c][h] \in FdStates
  BY DEF HostType
<1>2. bug \in BOOLEAN /\ number \in Int /\ file \in Int
  BY <1>1 DEF HostAssumption, FdStates
<1>3. /\ Idle \in CallStates
      /\ Idle.at = "idle" /\ Idle.on = 0 /\ Idle.how = ""
  BY DEF Idle, CallStates, Stages, Hows
<1> DEFINE m == mixed \/ (op \in OnHandle /\ open_fds[c][h].on # sock)
           flag == [fsys EXCEPT !.remove_flag = op = "remove"]
<1>4. /\ UNCHANGED <<pko_fileio_sock, pc, open_fds>> /\ mixed' = m
      /\ IF op = "mkdir" THEN fsysMkdir(c, call)
         ELSE /\ fsys' = flag
              /\ IF op \in Closes THEN fsysClose(c, call)
                 ELSE IF op = "ioctl" THEN fsysIoctl(c, call) ELSE Waits(c, call)
  BY DEF Enter, sock
<1>5. m \in BOOLEAN /\ (mixed => m) /\ (~m /\ op \in OnHandle => open_fds[c][h].on = sock)
  BY <1>1, Zenon
<1>6. /\ flag \in Memory /\ (flag.sema <=> fsys.sema) /\ flag.renamed_fd = fsys.renamed_fd
      /\ (flag.remove_flag <=> op = "remove")
  <2> DEFINE r == op = "remove"
  <2>1. r \in BOOLEAN /\ flag = [fsys EXCEPT !.remove_flag = r]
    OBVIOUS
  <2> HIDE DEF r, flag
  <2>2. flag \in Memory /\ (flag.sema <=> fsys.sema) /\ flag.renamed_fd = fsys.renamed_fd /\ flag.remove_flag = r
    BY <1>1, <2>1 DEF Memory
  <2> QED BY <2>2 DEF r
<1> HIDE DEF bug, number, file, m, flag
<1>7. /\ call \in CallStates /\ call.op = op /\ call.h = h /\ call.bug = bug /\ call.fd = file /\ call.left = number
      /\ call.at = "idle" /\ call.on = 0 /\ call.how = ""
  BY <1>2, <1>3 DEF CallStates
<1> HIDE DEF call
<1>8. ASSUME NEW ret \in Int, Skips(c, call, ret)
      PROVE  /\ calls' \in [Callers -> CallStates] /\ OthersStay(c)
             /\ calls'[c].op = op /\ calls'[c].h = h /\ calls'[c].bug = bug /\ calls'[c].fd = file /\ calls'[c].left = number
             /\ calls'[c].on = 0 /\ calls'[c].at = "after" /\ calls'[c].how = "skipped"
  <2> DEFINE v == [call EXCEPT !.at = "after", !.how = "skipped", !.ret = ret]
  <2>1. /\ v \in CallStates /\ v.op = op /\ v.h = h /\ v.bug = bug /\ v.fd = file /\ v.left = number
        /\ v.on = 0 /\ v.at = "after" /\ v.how = "skipped"
    BY <1>7 DEF CallStates, Stages, Hows
  <2>2. Moves(c, v)
    BY <1>8 DEF Skips
  <2> HIDE DEF v
  <2>3. calls' \in [Callers -> CallStates] /\ calls'[c] = v /\ OthersStay(c)
    BY <2>1, <2>2, MovesIs
  <2> QED BY <2>1, <2>3
<1>9. ASSUME Waits(c, call)
      PROVE  /\ calls' \in [Callers -> CallStates] /\ OthersStay(c)
             /\ calls'[c].op = op /\ calls'[c].h = h /\ calls'[c].bug = bug /\ calls'[c].fd = file /\ calls'[c].left = number
             /\ calls'[c].on = 0 /\ calls'[c].at = "wait" /\ calls'[c].how = ""
  <2> DEFINE v == [call EXCEPT !.at = "wait"]
  <2>1. /\ v \in CallStates /\ v.op = op /\ v.h = h /\ v.bug = bug /\ v.fd = file /\ v.left = number
        /\ v.on = 0 /\ v.at = "wait" /\ v.how = ""
    BY <1>7 DEF CallStates, Stages, Hows
  <2>2. Moves(c, v)
    BY <1>9 DEF Waits
  <2> HIDE DEF v
  <2>3. calls' \in [Callers -> CallStates] /\ calls'[c] = v /\ OthersStay(c)
    BY <2>1, <2>2, MovesIs
  <2> QED BY <2>1, <2>3
<1>15. number > 1 => op = "write"
  BY DEF number
<1>10. (bug <=> Of(c).at = "ioman") /\ (op \in OnHandle => file = open_fds[c][h].fd) /\ (op \notin OnHandle => file = 0)
  BY DEF bug, file
<1>11. CASE op = "mkdir"
  <2>1. fsys.remove_result \in Int /\ fsys.remove_flag \in BOOLEAN
    BY <1>1 DEF Memory
  <2>2. CASE fsys.remove_flag
    <3>1. Skips(c, call, fsys.remove_result) /\ fsys' = [fsys EXCEPT !.remove_flag = FALSE]
      BY <1>4, <1>11, <2>2 DEF fsysMkdir
    <3>2. fsys' \in Memory /\ (fsys'.sema <=> fsys.sema) /\ fsys'.renamed_fd = fsys.renamed_fd /\ ~fsys'.remove_flag
      BY <1>1, <3>1 DEF Memory
    <3> QED BY <1>4, <1>5, <1>8, <1>10, <1>15, <1>11, <2>1, <2>2, <3>1, <3>2, CallSets DEF Entered
  <2>3. CASE ~fsys.remove_flag
    <3>1. Waits(c, call) /\ fsys' = fsys
      BY <1>4, <1>11, <2>3 DEF fsysMkdir
    <3> QED BY <1>1, <1>4, <1>5, <1>9, <1>10, <1>15, <1>11, <2>3, <3>1, CallSets DEF Entered
  <2> QED BY <2>2, <2>3
<1>12. CASE op \in Closes
  <2>1. op # "mkdir" /\ op # "ioctl" /\ op \in OnHandle
    BY <1>12, CallSets
  <2>2. CASE call.fd = fsys.renamed_fd
    <3>1. Skips(c, call, 0) /\ fsys' = flag
      BY <1>4, <1>12, <2>1, <2>2 DEF fsysClose
    <3>2. open_fds[c][h].fd = fsys.renamed_fd /\ 0 \in Int
      <4>1. file = open_fds[c][h].fd
        BY ONLY <1>10, <2>1
      <4>2. call.fd = file
        BY ONLY <1>7
      <4> QED BY ONLY <2>2, <4>1, <4>2
    <3>3. /\ calls' \in [Callers -> CallStates] /\ OthersStay(c)
          /\ calls'[c].op = op /\ calls'[c].h = h /\ (calls'[c].bug <=> Of(c).at = "ioman")
          /\ calls'[c].fd = open_fds[c][h].fd /\ calls'[c].on = 0 /\ calls'[c].left = number
          /\ calls'[c].at = "after" /\ calls'[c].how = "skipped"
      BY <1>8, <1>10, <2>1, <3>1, <3>2
    <3> QED BY <1>4, <1>5, <1>6, <1>12, <1>15, <2>1, <3>1, <3>2, <3>3 DEF Entered
  <2>3. CASE call.fd # fsys.renamed_fd
    <3>1. Waits(c, call) /\ fsys' = flag
      BY <1>4, <1>12, <2>1, <2>3 DEF fsysClose
    <3> QED BY <1>4, <1>5, <1>6, <1>7, <1>9, <1>10, <1>15, <1>12, <2>1, <2>3, <3>1 DEF Entered
  <2> QED BY <2>2, <2>3
<1>13. CASE op = "ioctl"
  <2>1. op # "mkdir" /\ op \notin Closes
    BY <1>13, CallSets
  <2>2. (Skips(c, call, -5) \/ Waits(c, call)) /\ fsys' = flag
    BY <1>4, <1>13, <2>1 DEF fsysIoctl
  <2>3. CASE Skips(c, call, -5)
    <3>1. -5 \in Int /\ op \in OnHandle
      BY <1>13, CallSets
    <3>2. /\ calls' \in [Callers -> CallStates] /\ OthersStay(c)
          /\ calls'[c].op = op /\ calls'[c].h = h /\ (calls'[c].bug <=> Of(c).at = "ioman")
          /\ calls'[c].fd = open_fds[c][h].fd /\ calls'[c].on = 0 /\ calls'[c].left = number
          /\ calls'[c].at = "after" /\ calls'[c].how = "skipped"
      BY <1>8, <1>10, <2>3, <3>1
    <3> QED BY <1>4, <1>5, <1>6, <1>13, <1>15, <2>1, <2>2, <3>1, <3>2 DEF Entered
  <2>4. CASE Waits(c, call)
    BY <1>4, <1>5, <1>6, <1>9, <1>10, <1>15, <1>13, <2>1, <2>2, <2>4 DEF Entered
  <2> QED BY <2>2, <2>3, <2>4
<1>14. CASE op # "mkdir" /\ op \notin Closes /\ op # "ioctl"
  <2>1. Waits(c, call) /\ fsys' = flag
    BY <1>4, <1>14
  <2> QED BY <1>4, <1>5, <1>6, <1>9, <1>10, <1>15, <1>14, <2>1 DEF Entered
<1> QED BY <1>11, <1>12, <1>13, <1>14

SameMemory == fsys' \in Memory /\ fsys'.renamed_fd = fsys.renamed_fd /\ (fsys'.remove_flag <=> fsys.remove_flag)

LEMMA TakesIs ==
  ASSUME HostType, NEW c \in Callers, Takes(c)
  PROVE  /\ GoesOn(c) /\ calls'[c].at = "send" /\ calls'[c].how = Of(c).how /\ calls'[c].on = Of(c).on
         /\ SameMemory /\ ~fsys'.sema
<1> DEFINE v == [Of(c) EXCEPT !.at = "send"]
<1>1. Moves(c, v) /\ fsys' = [fsys EXCEPT !.sema = FALSE] /\ fsys \in Memory
  BY DEF Takes, HostType
<1>2. Of(c) \in CallStates
  BY OfIs
<1>3. /\ v \in CallStates /\ v.op = Of(c).op /\ v.h = Of(c).h /\ v.fd = Of(c).fd /\ v.bug = Of(c).bug
      /\ v.left = Of(c).left /\ v.at = "send" /\ v.how = Of(c).how /\ v.on = Of(c).on /\ v.left \in Int
  BY <1>2 DEF CallStates, Stages, Turn
<1> HIDE DEF v
<1>4. calls' \in [Callers -> CallStates] /\ calls'[c] = v /\ OthersStay(c)
  BY <1>1, <1>3, MovesIs
<1>5. SameMemory /\ ~fsys'.sema
  BY <1>1 DEF Memory, SameMemory
<1> QED BY <1>3, <1>4, <1>5 DEF GoesOn

LEMMA DoneIs ==
  ASSUME HostType, NEW c \in Callers, NEW how \in Hows, NEW ret \in Int, Done(c, how, ret)
  PROVE  /\ GoesOn(c) /\ calls'[c].at = "after" /\ calls'[c].how = how /\ calls'[c].ret = ret
         /\ calls'[c].on = Of(c).on /\ SameMemory
<1> DEFINE v == [Of(c) EXCEPT !.at = "after", !.how = how, !.ret = ret]
<1>1. Moves(c, v) /\ fsys' = [fsys EXCEPT !.sema = TRUE] /\ fsys \in Memory
  BY DEF Done, HostType
<1>2. Of(c) \in CallStates
  BY OfIs
<1>3. /\ v \in CallStates /\ v.op = Of(c).op /\ v.h = Of(c).h /\ v.fd = Of(c).fd /\ v.bug = Of(c).bug
      /\ v.left = Of(c).left /\ v.at = "after" /\ v.how = how /\ v.ret = ret /\ v.on = Of(c).on /\ v.left \in Int
  BY <1>2 DEF CallStates, Stages
<1> HIDE DEF v
<1>4. calls' \in [Callers -> CallStates] /\ calls'[c] = v /\ OthersStay(c)
  BY <1>1, <1>3, MovesIs
<1>5. SameMemory
  BY <1>1 DEF Memory, SameMemory
<1> QED BY <1>3, <1>4, <1>5 DEF GoesOn

SendRefused(c) ==
    /\ sock > 0 => ~pc[sock].up
    /\ pc' = pc /\ (sock' = sock \/ sock' = 0)
    /\ GoesOn(c) /\ calls'[c].at = "after" /\ calls'[c].how = "refused" /\ calls'[c].ret = -1
    /\ calls'[c].on = Of(c).on /\ SameMemory
SentOff(c) ==
    /\ sock > 0 /\ sock' = sock
    /\ \/ ~pc[sock].up /\ pc' = pc
       \/ /\ pc[sock].up /\ \E conn \in Conns : PutConn(sock, conn)
          /\ pc'[sock].up /\ pc'[sock].files = pc[sock].files /\ pc'[sock].reply = pc[sock].reply
          /\ pc'[sock].request \in Messages /\ pc'[sock].request.op = Of(c).op
          /\ pc'[sock].request.fd = Of(c).fd /\ pc'[sock].request.by = <<c, Of(c).h>>
    /\ GoesOn(c) /\ calls'[c].at = "sent" /\ calls'[c].how = Of(c).how /\ calls'[c].on = Of(c).on
    /\ fsys' = fsys

LEMMA SendIs ==
  ASSUME HostType, CallInv, NEW c \in Callers, pko_lwip_send(c)
  PROVE  /\ SendRefused(c) \/ SentOff(c)
         /\ open_fds' = open_fds /\ mixed' \in BOOLEAN /\ (mixed => mixed')
         /\ ~mixed' /\ Of(c).op \in OnHandle => Handle(c).on = sock
<1>1. /\ Of(c) \in CallStates /\ Of(c).at = "send" /\ Of(c).op \in AllCalls /\ Of(c).h \in Handles
      /\ Of(c).fd \in Int
  <2>1. Of(c) \in CallStates /\ Of(c).at = "send"
    BY OfIs DEF pko_lwip_send
  <2> QED BY <2>1 DEF CallInv, CallOk, CallStates
<1>2. sock \in {0, Len(pc)} /\ Len(pc) \in Nat /\ mixed \in BOOLEAN
  BY DEF HostType
<1> DEFINE m == mixed \/ (Of(c).op \in OnHandle /\ Handle(c).on # sock)
<1>3. mixed' = m /\ open_fds' = open_fds
  BY DEF pko_lwip_send, sock
<1>4. m \in BOOLEAN /\ (mixed => m) /\ (~m /\ Of(c).op \in OnHandle => Handle(c).on = sock)
  BY <1>2, Zenon
<1> HIDE DEF m
<1>5. CASE sock = 0 /\ Done(c, "refused", -1) /\ UNCHANGED <<pko_fileio_sock, pc>>
  <2>1. "refused" \in Hows /\ -1 \in Int
    BY DEF Hows
  <2>2. SendRefused(c)
    BY <1>5, <2>1, DoneIs DEF SendRefused, sock
  <2> QED BY <1>3, <1>4, <2>2
<1>6. CASE /\ sock # 0
           /\ pc' = IF pc[sock].up
                   THEN [pc EXCEPT ![sock].request = [op |-> Of(c).op, fd |-> Of(c).fd, by |-> <<c, Of(c).h>>]]
                   ELSE pc
           /\ Moves(c, [Of(c) EXCEPT !.at = "sent"])
           /\ UNCHANGED <<pko_fileio_sock, fsys>>
  <2> DEFINE v == [Of(c) EXCEPT !.at = "sent"]
             q == [op |-> Of(c).op, fd |-> Of(c).fd, by |-> <<c, Of(c).h>>]
             conn == [pc[sock] EXCEPT !.request = q]
  <2>1. /\ v \in CallStates /\ v.op = Of(c).op /\ v.h = Of(c).h /\ v.fd = Of(c).fd /\ v.bug = Of(c).bug
        /\ v.left = Of(c).left /\ v.at = "sent" /\ v.how = Of(c).how /\ v.on = Of(c).on /\ v.left \in Int
    BY <1>1 DEF CallStates, Stages, Turn
  <2>2. sock \in 1 .. Len(pc) /\ sock > 0 /\ sock' = sock
    BY <1>2, <1>6 DEF sock
  <2>3. q \in Messages /\ q.op = Of(c).op /\ q.fd = Of(c).fd /\ q.by = <<c, Of(c).h>>
    BY <1>1 DEF Messages, Ids
  <2>4. pc[sock] \in Conns
    BY <2>2, ConnIs
  <2>5. pc' = IF pc[sock].up THEN [pc EXCEPT ![sock] = conn] ELSE pc
    BY <1>6
  <2>6. Moves(c, v)
    BY <1>6
  <2> HIDE DEF v, q
  <2>7. /\ conn \in Conns /\ conn.up = pc[sock].up /\ conn.files = pc[sock].files /\ conn.reply = pc[sock].reply
        /\ conn.request = q
    BY <2>3, <2>4 DEF Conns
  <2> HIDE DEF conn
  <2>8. calls' \in [Callers -> CallStates] /\ calls'[c] = v /\ OthersStay(c)
    BY <2>1, <2>6, MovesIs
  <2>9. /\ GoesOn(c) /\ calls'[c].at = "sent" /\ calls'[c].how = Of(c).how /\ calls'[c].on = Of(c).on /\ fsys' = fsys
    BY <1>6, <2>1, <2>8 DEF GoesOn
  <2>10. CASE ~pc[sock].up
    BY <1>3, <1>4, <2>2, <2>5, <2>9, <2>10 DEF SentOff
  <2>11. CASE pc[sock].up
    <3>1. PutConn(sock, conn)
      BY <2>2, <2>5, <2>7, <2>11, PutIs
    <3>2. pc'[sock] = conn
      BY <3>1 DEF PutConn
    <3>3. /\ pc'[sock].up /\ pc'[sock].files = pc[sock].files /\ pc'[sock].reply = pc[sock].reply
          /\ pc'[sock].request \in Messages /\ pc'[sock].request.op = Of(c).op
          /\ pc'[sock].request.fd = Of(c).fd /\ pc'[sock].request.by = <<c, Of(c).h>>
      BY <2>3, <2>7, <2>11, <3>2
    <3> QED BY <1>3, <1>4, <2>2, <2>7, <2>9, <2>11, <3>1, <3>3 DEF SentOff
  <2> QED BY <2>10, <2>11
<1>7. CASE sock # 0 /\ ~pc[sock].up /\ pko_close_socket(c) /\ Done(c, "refused", -1) /\ UNCHANGED pc
  <2>1. "refused" \in Hows /\ -1 \in Int
    BY DEF Hows
  <2>2. sock' = sock \/ sock' = 0
    BY <1>7 DEF pko_close_socket, sock
  <2>3. SendRefused(c)
    BY <1>7, <2>1, <2>2, DoneIs DEF SendRefused
  <2> QED BY <1>3, <1>4, <2>3
<1> QED BY <1>5, <1>6, <1>7 DEF pko_lwip_send, sock

LEMMA ReceiveIs ==
  ASSUME HostType, NEW c \in Callers, pko_recv_bytes(c)
  PROVE  /\ GoesOn(c) /\ calls'[c].at = "receive" /\ calls'[c].how = Of(c).how /\ calls'[c].on = sock
<1> DEFINE v == [Of(c) EXCEPT !.at = "receive", !.on = pko_fileio_sock]
<1>1. Moves(c, v)
  BY DEF pko_recv_bytes
<1>2. Of(c) \in CallStates /\ sock \in Nat
  BY OfIs DEF HostType
<1>3. /\ v \in CallStates /\ v.op = Of(c).op /\ v.h = Of(c).h /\ v.fd = Of(c).fd /\ v.bug = Of(c).bug
      /\ v.left = Of(c).left /\ v.at = "receive" /\ v.how = Of(c).how /\ v.on = sock /\ v.left \in Int
  BY <1>2 DEF CallStates, Stages, Turn, sock
<1> HIDE DEF v
<1>4. calls' \in [Callers -> CallStates] /\ calls'[c] = v /\ OthersStay(c)
  BY <1>1, <1>3, MovesIs
<1> QED BY <1>3, <1>4 DEF GoesOn

(* The reply is the one to the call, or the stream has ended.              *)
ReplyTaken(c) ==
    LET k == Of(c).on
        reply == pc[k].reply IN
    /\ reply # None /\ Own(reply, c) /\ reply.fd \in Int
    /\ \E conn \in Conns : PutConn(k, conn)
    /\ (pc'[k].up <=> pc[k].up) /\ pc'[k].files = pc[k].files /\ pc'[k].request = pc[k].request /\ pc'[k].reply = None
    /\ SameMemory
    /\ \/ /\ Of(c).op = "write"
          /\ GoesOn(c) /\ calls'[c].at = "send" /\ calls'[c].how = "" /\ calls'[c].on = Of(c).on
          /\ (fsys'.sema <=> fsys.sema)
       \/ /\ GoesOn(c) /\ calls'[c].at = "after" /\ calls'[c].how = "reply" /\ calls'[c].ret = reply.fd
          /\ calls'[c].on = Of(c).on
StreamEnded(c) ==
    LET k == Of(c).on IN
    /\ pc' = pc /\ pc[k].reply = None /\ ~pc[k].up
    /\ GoesOn(c) /\ calls'[c].at = "after" /\ calls'[c].how = "stale" /\ calls'[c].on = Of(c).on /\ SameMemory

LEMMA AcceptIs ==
  ASSUME HostType, CallInv, StreamInv, NEW c \in Callers, pko_accept_pkt(c)
  PROVE  /\ ReplyTaken(c) \/ StreamEnded(c)
         /\ UNCHANGED <<pko_fileio_sock, open_fds, mixed>>
         /\ Of(c).on \in 1 .. Len(pc)
<1> DEFINE k == Of(c).on
           reply == pc[k].reply
<1>1. Of(c) \in CallStates /\ Of(c).at = "receive" /\ Of(c).how = "" /\ (Of(c).left > 1 => Of(c).op = "write")
  BY OfIs DEF pko_accept_pkt, CallInv, CallOk
<1>2. k \in 1 .. Len(pc)
  <2>1. Target(c) = k /\ Target(c) > 0
    BY <1>1 DEF StreamInv, Target, Waiting
  <2>2. k \in Nat /\ k <= Len(pc) /\ Len(pc) \in Nat
    <3>1. k \in Nat
      BY <1>1 DEF CallStates
    <3>2. k <= Len(pc)
      BY DEF CallInv, CallOk
    <3>3. Len(pc) \in Nat
      BY DEF HostType
    <3> QED BY <3>1, <3>2, <3>3
  <2> QED BY <2>1, <2>2
<1>3. /\ pc[k] \in Conns /\ reply \in Messages \cup {None} /\ fsys \in Memory
  BY <1>2, ConnIs DEF HostType
<1>4. reply # None => Own(reply, c)
  <2>1. reply # None => \E d \in Callers : Of(d).at \in Waiting /\ Own(reply, d)
    BY <1>2 DEF StreamInv
  <2>2. \A d \in Callers : Of(d).at \in Waiting => d = c
    BY <1>1 DEF StreamInv, Waiting, Turn
  <2> QED BY <2>1, <2>2
<1>5. UNCHANGED <<pko_fileio_sock, open_fds, mixed>>
  BY DEF pko_accept_pkt
<1>6. CASE /\ reply # None
           /\ pc' = [pc EXCEPT ![k].reply = None]
           /\ IF reply.op # Of(c).op THEN Done(c, "foreign", -1)
              ELSE IF Of(c).left > 1 /\ reply.fd >= 0
              THEN pko_write_file(c, reply)
              ELSE /\ Moves(c, [Of(c) EXCEPT !.at = "after", !.ret = reply.fd,
                                             !.how = IF reply.by = <<c, Of(c).h>> THEN "reply" ELSE "foreign"])
                   /\ fsys' = [fsys EXCEPT !.sema = TRUE, !.recv_packet = reply.fd]
  <2> DEFINE conn == [pc[k] EXCEPT !.reply = None]
  <2>1. reply \in Messages /\ reply.fd \in Int /\ Own(reply, c)
    BY <1>3, <1>4, <1>6 DEF Messages
  <2>2. reply.op = Of(c).op /\ reply.by = <<c, Of(c).h>>
    BY <2>1 DEF Own
  <2>3. pc' = [pc EXCEPT ![k] = conn]
    BY <1>6
  <2>4. /\ conn \in Conns /\ conn.up = pc[k].up /\ conn.files = pc[k].files /\ conn.request = pc[k].request
        /\ conn.reply = None
    BY <1>3 DEF Conns
  <2>5. /\ \/ pko_write_file(c, reply) /\ Of(c).op = "write"
           \/ /\ Moves(c, [Of(c) EXCEPT !.at = "after", !.ret = reply.fd, !.how = "reply"])
              /\ fsys' = [fsys EXCEPT !.sema = TRUE, !.recv_packet = reply.fd]
    BY <1>1, <1>6, <2>2
  <2> HIDE DEF conn, k, reply
  <2>6. PutConn(k, conn)
    BY <1>2, <2>3, <2>4, PutIs
  <2>7. /\ (pc'[k].up <=> pc[k].up) /\ pc'[k].files = pc[k].files /\ pc'[k].request = pc[k].request
        /\ pc'[k].reply = None
    BY <2>4, <2>6 DEF PutConn
  <2>8. CASE pko_write_file(c, reply) /\ Of(c).op = "write"
    <3> DEFINE v == [Of(c) EXCEPT !.at = "send", !.left = @ - 1]
    <3>1. Moves(c, v) /\ fsys' = [fsys EXCEPT !.recv_packet = reply.fd]
      BY <2>8 DEF pko_write_file
    <3>2. /\ v \in CallStates /\ v.op = Of(c).op /\ v.h = Of(c).h /\ v.fd = Of(c).fd /\ v.bug = Of(c).bug
          /\ v.left <= Of(c).left /\ v.at = "send" /\ v.how = "" /\ v.on = Of(c).on
      <4> DEFINE l == Of(c).left - 1
      <4>1. l \in Int /\ l <= Of(c).left /\ v = [Of(c) EXCEPT !.at = "send", !.left = l]
        <5>1. Of(c).left \in Int
          BY <1>1 DEF CallStates
        <5> QED BY <5>1
      <4> HIDE DEF l, v
      <4> QED BY <1>1, <4>1 DEF CallStates, Stages, Turn
    <3> HIDE DEF v
    <3>3. calls' \in [Callers -> CallStates] /\ calls'[c] = v /\ OthersStay(c)
      BY <3>1, <3>2, MovesIs
    <3>4. SameMemory /\ (fsys'.sema <=> fsys.sema)
      BY <1>3, <2>1, <3>1 DEF Memory, SameMemory
    <3>5. GoesOn(c) /\ calls'[c].at = "send" /\ calls'[c].how = "" /\ calls'[c].on = Of(c).on
      BY <3>2, <3>3 DEF GoesOn
    <3>6. ReplyTaken(c)
      BY <1>6, <2>1, <2>4, <2>6, <2>7, <2>8, <3>4, <3>5 DEF ReplyTaken, k, reply
    <3> QED BY <1>2, <1>5, <3>6 DEF k
  <2>9. CASE /\ Moves(c, [Of(c) EXCEPT !.at = "after", !.ret = reply.fd, !.how = "reply"])
             /\ fsys' = [fsys EXCEPT !.sema = TRUE, !.recv_packet = reply.fd]
    <3> DEFINE v == [Of(c) EXCEPT !.at = "after", !.ret = reply.fd, !.how = "reply"]
    <3>1. /\ v \in CallStates /\ v.op = Of(c).op /\ v.h = Of(c).h /\ v.fd = Of(c).fd /\ v.bug = Of(c).bug
          /\ v.left = Of(c).left /\ v.at = "after" /\ v.how = "reply" /\ v.on = Of(c).on /\ v.ret = reply.fd
          /\ v.left \in Int
      BY <1>1, <2>1 DEF CallStates, Stages, Hows
    <3>2. Moves(c, v)
      BY <2>9
    <3> HIDE DEF v
    <3>3. calls' \in [Callers -> CallStates] /\ calls'[c] = v /\ OthersStay(c)
      BY <3>1, <3>2, MovesIs
    <3>4. SameMemory
      BY <1>3, <2>1, <2>9 DEF Memory, SameMemory
    <3>5. /\ GoesOn(c) /\ calls'[c].at = "after" /\ calls'[c].how = "reply" /\ calls'[c].on = Of(c).on
          /\ calls'[c].ret = reply.fd
      BY <3>1, <3>3 DEF GoesOn
    <3>6. ReplyTaken(c)
      BY <1>6, <2>1, <2>4, <2>6, <2>7, <3>4, <3>5 DEF ReplyTaken, k, reply
    <3> QED BY <1>2, <1>5, <3>6 DEF k
  <2> QED BY <2>5, <2>8, <2>9
<1>7. CASE reply = None /\ ~pc[k].up /\ Done(c, "stale", fsys.recv_packet) /\ UNCHANGED pc
  <2>1. "stale" \in Hows /\ fsys.recv_packet \in Int
    BY <1>3 DEF Hows, Memory
  <2>2. StreamEnded(c)
    BY <1>7, <2>1, DoneIs DEF StreamEnded
  <2> QED BY <1>2, <1>5, <2>2
<1>8. k # 0
  BY <1>2
<1> QED BY <1>6, <1>7, <1>8 DEF pko_accept_pkt

Renames(c) == Of(c).op = "ioctl" /\ Of(c).how # "skipped" /\ Of(c).ret \in {0, -6}
NewHandle(c) ==
    IF Of(c).op \in OpenCalls /\ Of(c).ret >= 0 THEN [fd |-> Of(c).ret, on |-> Of(c).on, renamed |-> FALSE]
    ELSE IF Of(c).op \in Closes THEN Closed
    ELSE IF Of(c).op = "ioctl" /\ Of(c).how # "skipped" THEN [Handle(c) EXCEPT !.renamed = Of(c).ret \in {0, -6}]
    ELSE Handle(c)
Returned(c) ==
    /\ Of(c).at = "after" /\ UNCHANGED <<pko_fileio_sock, pc, mixed>>
    /\ calls' \in [Callers -> CallStates] /\ OthersStay(c)
    /\ calls'[c].op = "none" /\ calls'[c].how = "" /\ ~calls'[c].bug /\ calls'[c].on = 0 /\ calls'[c].left = 0
    /\ calls'[c].at = IF Of(c).op = "remove" THEN "ioman" ELSE "idle"
    /\ open_fds' \in [Callers -> [Handles -> FdStates]]
    /\ open_fds'[c][Of(c).h] = NewHandle(c)
    /\ \A d \in Callers, h \in Handles : d # c \/ h # Of(c).h => open_fds'[d][h] = open_fds[d][h]
    /\ fsys' \in Memory /\ (fsys'.sema <=> fsys.sema) /\ (fsys'.remove_flag <=> fsys.remove_flag)
    /\ fsys'.renamed_fd = IF Of(c).op \in OpenCalls \cup Closes THEN -1
                          ELSE IF Renames(c) THEN Of(c).fd ELSE fsys.renamed_fd

LEMMA ReturnIs ==
  ASSUME HostType, CallInv, NEW c \in Callers, Return(c)
  PROVE  Returned(c)
<1> DEFINE v == IF Of(c).op = "remove" THEN [Idle EXCEPT !.at = "ioman"] ELSE Idle
           n == NewHandle(c)
           f == open_fds[c]
<1>1. /\ Of(c).at = "after" /\ Moves(c, v) /\ UNCHANGED <<pko_fileio_sock, pc, mixed>>
      /\ Remembers(c)
  BY DEF Return
<1>2. /\ Of(c) \in CallStates /\ Of(c).h \in Handles /\ Of(c).op \in AllCalls /\ fsys \in Memory
      /\ Of(c).ret \in Int /\ Of(c).fd \in Int /\ Of(c).on \in Nat
      /\ open_fds \in [Callers -> [Handles -> FdStates]] /\ f \in [Handles -> FdStates] /\ Handle(c) \in FdStates
  <2>1. Of(c) \in CallStates
    BY OfIs
  <2>2. Of(c).h \in Handles /\ Of(c).op \in AllCalls
    BY <1>1 DEF CallInv, CallOk
  <2> QED BY <2>1, <2>2 DEF HostType, CallStates, Handle
<1>3. /\ v \in CallStates /\ v.op = "none" /\ v.how = "" /\ ~v.bug /\ v.on = 0 /\ v.left = 0
      /\ v.at = IF Of(c).op = "remove" THEN "ioman" ELSE "idle"
  <2> DEFINE u == [Idle EXCEPT !.at = "ioman"]
  <2>1. /\ Idle \in CallStates /\ Idle.op = "none" /\ Idle.how = "" /\ ~Idle.bug /\ Idle.on = 0 /\ Idle.left = 0
        /\ Idle.at = "idle"
    BY DEF Idle, CallStates, Stages, Hows
  <2>2. /\ u \in CallStates /\ u.op = "none" /\ u.how = "" /\ ~u.bug /\ u.on = 0 /\ u.left = 0
        /\ u.at = "ioman"
    BY <2>1 DEF CallStates, Stages
  <2> QED BY <2>1, <2>2
<1>4. n \in FdStates
  <2> DEFINE r == Of(c).ret \in {0, -6}
  <2>1. [Handle(c) EXCEPT !.renamed = r] \in FdStates
    <3>1. r \in BOOLEAN
      OBVIOUS
    <3> HIDE DEF r
    <3> QED BY <1>2, <3>1 DEF FdStates
  <2>2. Closed \in FdStates /\ [fd |-> Of(c).ret, on |-> Of(c).on, renamed |-> FALSE] \in FdStates
    BY <1>2 DEF Closed, FdStates
  <2> QED BY <1>2, <2>1, <2>2 DEF NewHandle
<1>5. open_fds' = [open_fds EXCEPT ![c] = [f EXCEPT ![Of(c).h] = n]]
  BY DEF Return, NewHandle, Handle
<1> HIDE DEF v, n
<1>6. calls' \in [Callers -> CallStates] /\ calls'[c] = v /\ OthersStay(c)
  BY <1>1, <1>3, MovesIs
<1>7. /\ open_fds' \in [Callers -> [Handles -> FdStates]]
      /\ open_fds'[c][Of(c).h] = n
      /\ \A d \in Callers, h \in Handles : d # c \/ h # Of(c).h => open_fds'[d][h] = open_fds[d][h]
  <2> DEFINE g == [f EXCEPT ![Of(c).h] = n]
  <2>1. g \in [Handles -> FdStates] /\ g[Of(c).h] = n /\ \A h \in Handles : h # Of(c).h => g[h] = f[h]
    BY <1>2, <1>4
  <2> HIDE DEF g
  <2> QED BY <1>2, <1>5, <2>1
<1>8. /\ fsys' \in Memory /\ (fsys'.sema <=> fsys.sema) /\ (fsys'.remove_flag <=> fsys.remove_flag)
      /\ fsys'.renamed_fd = IF Of(c).op \in OpenCalls \cup Closes THEN -1
                            ELSE IF Renames(c) THEN Of(c).fd ELSE fsys.renamed_fd
  <2>1. CASE Of(c).op \in OpenCalls
    <3>1. fsys' = [fsys EXCEPT !.renamed_fd = -1, !.lastopen_fd = Of(c).ret] /\ -1 \in Int
      BY <1>1, <2>1 DEF Remembers
    <3>2. /\ fsys' \in Memory /\ (fsys'.sema <=> fsys.sema) /\ (fsys'.remove_flag <=> fsys.remove_flag)
          /\ fsys'.renamed_fd = -1
      BY ONLY <1>2, <3>1 DEF Memory
    <3> QED BY <2>1, <3>2
  <2>2. CASE Of(c).op \in Closes /\ Of(c).op \notin OpenCalls
    BY <1>1, <1>2, <2>2 DEF Remembers, Memory
  <2>3. CASE Of(c).op \notin OpenCalls \cup Closes /\ Renames(c)
    BY <1>1, <1>2, <2>3 DEF Remembers, Memory, Renames
  <2>4. CASE Of(c).op \notin OpenCalls \cup Closes /\ ~Renames(c)
    BY <1>1, <1>2, <2>4 DEF Remembers, Memory, Renames
  <2> QED BY <2>1, <2>2, <2>3, <2>4
<1> QED BY <1>1, <1>3, <1>6, <1>7, <1>8 DEF Returned, n

(* What the PC makes of a request: its answer, and its files.              *)
Answered(q, files, ret, after) ==
    /\ ret \in Int
    /\ \/ /\ q.op \in OpenCalls
          /\ \/ ret = -1 /\ after = files
             \/ ret = Lowest(files) /\ after = files \cup {[fd |-> Lowest(files), by |-> q.by]}
       \/ q.op \in Closes /\ after = {f \in files : f.fd # q.fd}
       \/ q.op = "ioctl" /\ ret = -1 /\ after = files
       \/ q.op = "ioctl" /\ ret \in {0, -6} /\ after = {f \in files : f.fd # q.fd}
       \/ q.op \notin OpenCalls \cup Closes \cup {"ioctl"} /\ after = files
ServedBy(k) ==
    /\ pc[k].up /\ pc[k].request \in Messages
    /\ \E conn \in Conns : PutConn(k, conn)
    /\ pc'[k].up /\ pc'[k].request = None /\ pc'[k].reply \in Messages
    /\ pc'[k].reply.op = pc[k].request.op /\ pc'[k].reply.by = pc[k].request.by
    /\ IsFiniteSet(pc'[k].files)
    /\ Answered(pc[k].request, pc[k].files, pc'[k].reply.fd, pc'[k].files)

LEMMA ServedIs ==
  ASSUME NEW q \in Messages, NEW files \in SUBSET HostFiles, IsFiniteSet(files), NEW s \in Served(q, files)
  PROVE  /\ s[1] = [q EXCEPT !.fd = s[1].fd] /\ s[1].fd \in Int /\ Answered(q, files, s[1].fd, s[2])
         /\ s[2] \in SUBSET HostFiles /\ IsFiniteSet(s[2])
<1> DEFINE Has == {f \in files : f.fd = q.fd}
           With(ret) == [q EXCEPT !.fd = ret]
           low == Lowest(files)
           new == [fd |-> low, by |-> q.by]
<1>1. low \in Nat \ {0} /\ low \in Int
  BY LowestIs
<1> HIDE DEF low
<1>2. q.op \in AllCalls /\ q.fd \in Int /\ q.by \in Ids /\ new \in HostFiles
  BY <1>1 DEF Messages, HostFiles
<1>3. \A ret \in Int : With(ret).fd = ret /\ With(ret) = [q EXCEPT !.fd = With(ret).fd]
  BY DEF Messages
<1>4. files \ Has = {f \in files : f.fd # q.fd}
  OBVIOUS
<1>5. IsFiniteSet(files \ Has) /\ IsFiniteSet(files \cup {new})
  <2>1. files \ Has \in SUBSET files
    OBVIOUS
  <2>2. IsFiniteSet(files \ Has)
    BY <2>1, FS_Subset
  <2> HIDE DEF new
  <2>3. IsFiniteSet(files \cup {new})
    BY FS_AddElement
  <2> QED BY <2>2, <2>3
<1>6. ASSUME NEW ret \in Int, NEW after \in SUBSET HostFiles, IsFiniteSet(after), s = <<With(ret), after>>,
             Answered(q, files, ret, after)
      PROVE  /\ s[1] = [q EXCEPT !.fd = s[1].fd] /\ s[1].fd \in Int /\ Answered(q, files, s[1].fd, s[2])
             /\ s[2] \in SUBSET HostFiles /\ IsFiniteSet(s[2])
  <2>1. s[1] = With(ret) /\ s[2] = after
    BY <1>6
  <2> HIDE DEF With
  <2>2. s[1].fd = ret /\ s[1] = [q EXCEPT !.fd = s[1].fd]
    BY <1>3, <2>1
  <2> QED BY <1>6, <2>1, <2>2
<1> HIDE DEF With
<1>7. -1 \in Int /\ 0 \in Int /\ -6 \in Int /\ files \ Has \in SUBSET HostFiles /\ files \cup {new} \in SUBSET HostFiles
  BY <1>2
<1>8. /\ q.op \in OpenCalls => q.op \notin Closes /\ q.op # "ioctl"
      /\ q.op \in Closes => q.op # "ioctl"
  BY CallSets
<1>9. CASE q.op \in OpenCalls
  <2>1. s = <<With(-1), files>> \/ s = <<With(low), files \cup {new}>>
    BY <1>9 DEF Served, With, low
  <2>2. Answered(q, files, -1, files) /\ Answered(q, files, low, files \cup {new})
    BY <1>1, <1>7, <1>9 DEF Answered, low
  <2> QED BY <1>1, <1>5, <1>6, <1>7, <2>1, <2>2
<1>10. CASE q.op \in Closes
  <2>1. s = <<With(-1), files \ Has>> \/ s = <<With(0), files \ Has>>
    BY <1>8, <1>10 DEF Served, With
  <2>2. Answered(q, files, -1, files \ Has) /\ Answered(q, files, 0, files \ Has)
    BY <1>4, <1>7, <1>10 DEF Answered
  <2> QED BY <1>5, <1>6, <1>7, <2>1, <2>2
<1>11. CASE q.op = "ioctl"
  <2>1. s = <<With(-1), files>> \/ s = <<With(0), files \ Has>> \/ s = <<With(-6), files \ Has>>
    BY <1>8, <1>11 DEF Served, With
  <2>2. /\ Answered(q, files, -1, files) /\ Answered(q, files, 0, files \ Has)
        /\ Answered(q, files, -6, files \ Has)
    BY <1>4, <1>7, <1>11 DEF Answered
  <2> QED BY <1>5, <1>6, <1>7, <2>1, <2>2
<1>12. CASE q.op \notin OpenCalls \cup Closes \cup {"ioctl"}
  <2>1. s = <<With(-1), files>> \/ s = <<With(0), files>>
    BY <1>12 DEF Served, With
  <2>2. Answered(q, files, -1, files) /\ Answered(q, files, 0, files)
    BY <1>7, <1>12 DEF Answered
  <2> QED BY <1>6, <1>7, <2>1, <2>2
<1> QED BY <1>9, <1>10, <1>11, <1>12

LEMMA ServesIs ==
  ASSUME HostType, ConnInv, NEW k \in 1 .. Len(pc), Serves(k)
  PROVE  ServedBy(k)
<1> DEFINE q == pc[k].request
           files == pc[k].files
<1>1. /\ pc[k] \in Conns /\ files \in SUBSET HostFiles /\ q \in Messages /\ IsFiniteSet(files) /\ pc[k].up
  BY ConnIs DEF Serves, ConnInv
<1>2. PICK s \in Served(q, files) : pc' = [pc EXCEPT ![k].request = None, ![k].reply = s[1], ![k].files = s[2]]
  BY DEF Serves
<1> DEFINE conn == [pc[k] EXCEPT !.request = None, !.reply = s[1], !.files = s[2]]
<1>3. pc' = [pc EXCEPT ![k] = conn]
  <2> DEFINE one == [pc EXCEPT ![k].request = None]
             two == [one EXCEPT ![k].reply = s[1]]
  <2>1. pc \in Seq(Conns)
    BY DEF HostType
  <2>2. one = [pc EXCEPT ![k] = [pc[k] EXCEPT !.request = None]]
    OBVIOUS
  <2>3. pc' = [two EXCEPT ![k].files = s[2]]
    BY <1>2
  <2>4. two = [pc EXCEPT ![k] = [pc[k] EXCEPT !.request = None, !.reply = s[1]]]
    BY <2>1, <2>2
  <2> HIDE DEF two
  <2> QED BY <2>1, <2>3, <2>4
<1> HIDE DEF q, files
<1>4. /\ s[1] = [q EXCEPT !.fd = s[1].fd] /\ s[1].fd \in Int /\ Answered(q, files, s[1].fd, s[2])
      /\ s[2] \in SUBSET HostFiles /\ IsFiniteSet(s[2])
  BY <1>1, <1>2, ServedIs
<1>5. s[1] \in Messages /\ s[1].op = q.op /\ s[1].by = q.by
  <2> DEFINE r == s[1].fd
             a == s[1]
  <2>1. a = [q EXCEPT !.fd = r] /\ r \in Int
    BY <1>4
  <2> HIDE DEF a, r
  <2>2. a \in Messages /\ a.op = q.op /\ a.by = q.by
    BY ONLY <1>1, <2>1 DEF Messages
  <2> QED BY <2>2 DEF a
<1>6. conn \in Conns /\ conn.up = pc[k].up /\ conn.request = None /\ conn.reply = s[1] /\ conn.files = s[2]
  BY <1>1, <1>4, <1>5 DEF Conns
<1> HIDE DEF conn
<1>7. PutConn(k, conn)
  BY <1>3, <1>6, PutIs
<1>8. pc'[k] = conn
  BY <1>7 DEF PutConn
<1> QED BY <1>1, <1>4, <1>5, <1>6, <1>7, <1>8 DEF ServedBy, q, files

LeftPc(k) ==
    /\ pc[k].up /\ \E conn \in Conns : PutConn(k, conn)
    /\ ~pc'[k].up /\ pc'[k].request = None /\ pc'[k].files = {} /\ pc'[k].reply \in {None, pc[k].reply}
LEMMA LeavesIs ==
  ASSUME HostType, NEW k \in 1 .. Len(pc), PcLeaves(k)
  PROVE  LeftPc(k)
<1>1. PICK reply \in {None, pc[k].reply} : pc' = [pc EXCEPT ![k] = Ends(@, reply)]
  BY DEF PcLeaves
<1> DEFINE conn == Ends(pc[k], reply)
<1>2. pc' = [pc EXCEPT ![k] = conn]
  BY <1>1
<1>3. /\ pc[k] \in Conns /\ pc[k].reply \in Messages \cup {None}
  BY ConnIs
<1>4. conn \in Conns /\ ~conn.up /\ conn.request = None /\ conn.reply = reply /\ conn.files = {}
  BY <1>3 DEF Conns, Ends
<1> HIDE DEF conn
<1>5. PutConn(k, conn)
  BY <1>2, <1>4, PutIs
<1>6. pc'[k] = conn
  BY <1>5 DEF PutConn
<1> QED BY <1>1, <1>4, <1>5, <1>6 DEF LeftPc, PcLeaves

Connected ==
    LET n == Len(pc) + 1 IN
    /\ pc' \in Seq(Conns) /\ Len(pc') = n /\ sock' = n
    /\ pc'[n].up /\ pc'[n].files = {} /\ pc'[n].request = None /\ pc'[n].reply = None
    /\ \A k \in 1 .. Len(pc) : k # sock => pc'[k] = pc[k]
    /\ sock > 0 => ~pc'[sock].up /\ pc'[sock].files = {} /\ pc'[sock].request = None /\ pc'[sock].reply = None
LEMMA ConnectedIs ==
  ASSUME HostType, pko_file_serv
  PROVE  Connected
<1> DEFINE conn == Ends(pc[sock], None)
           old == IF sock > 0 THEN [pc EXCEPT ![sock] = conn] ELSE pc
           new == [up |-> TRUE, files |-> {}, request |-> None, reply |-> None]
<1>1. pc' = Append(old, new) /\ sock' = Len(pc) + 1
  BY DEF pko_file_serv, sock
<1>2. /\ new \in Conns /\ new.up /\ new.files = {} /\ new.request = None /\ new.reply = None
  BY DEF Conns
<1>3. /\ old \in Seq(Conns) /\ Len(old) = Len(pc) /\ \A k \in 1 .. Len(pc) : k # sock => old[k] = pc[k]
      /\ sock > 0 => /\ ~old[sock].up /\ old[sock].files = {} /\ old[sock].request = None /\ old[sock].reply = None
                     /\ sock \in 1 .. Len(pc)
  <2>1. pc \in Seq(Conns) /\ sock \in {0, Len(pc)} /\ Len(pc) \in Nat
    BY DEF HostType
  <2>2. CASE sock > 0
    <3>1. sock \in 1 .. Len(pc)
      BY <2>1, <2>2
    <3>2. pc[sock] \in Conns
      BY <3>1, ConnIs
    <3>3. conn \in Conns /\ ~conn.up /\ conn.request = None /\ conn.reply = None /\ conn.files = {}
      BY <3>2 DEF Conns, Ends
    <3> HIDE DEF conn
    <3> QED BY <2>1, <2>2, <3>1, <3>3
  <2>3. CASE ~(sock > 0)
    BY <2>1, <2>3
  <2> QED BY <2>2, <2>3
<1> HIDE DEF old, new
<1>4. /\ pc' \in Seq(Conns) /\ Len(pc') = Len(pc) + 1 /\ pc'[Len(pc) + 1] = new
      /\ \A k \in 1 .. Len(pc) : pc'[k] = old[k]
  BY <1>1, <1>2, <1>3 DEF HostType
<1> QED BY <1>1, <1>2, <1>3, <1>4 DEF Connected
-----------------------------------------------------------------------------
(* A call that goes on.                                                    *)
Going(c) ==
    /\ GoesOn(c) /\ Of(c).at \in {"wait"} \cup Turn /\ calls'[c].at \in {"after"} \cup Turn
    /\ IF calls'[c].at = "after" THEN calls'[c].how \in {"refused", "reply", "stale"} ELSE calls'[c].how = ""
    /\ calls'[c].at = "after" => calls'[c].on > 0 \/ calls'[c].ret < 0
    /\ calls'[c].on <= Len(pc) /\ Len(pc') = Len(pc)

LEMMA GoingCalls ==
  ASSUME HostType, CallInv, NEW c \in Callers, Going(c)
  PROVE  CallInv'
<1> SUFFICES ASSUME NEW d \in Callers
             PROVE  CallOk(d)'
  BY DEF CallInv
<1>1. CASE d # c
  <2>1. calls'[d] = calls[d] /\ Len(pc') = Len(pc)
    BY <1>1 DEF Going, GoesOn, OthersStay
  <2>2. CallOk(d)
    BY DEF CallInv
  <2> QED BY ONLY <2>1, <2>2 DEF CallOk, Of
<1>2. CASE d = c
  <2>1. /\ calls'[c].op = Of(c).op /\ calls'[c].h = Of(c).h /\ (calls'[c].bug <=> Of(c).bug)
        /\ calls'[c].left <= Of(c).left /\ calls'[c].left \in Int /\ Of(c).left \in Int
    BY OfIs DEF Going, GoesOn, CallStates
  <2>2. /\ Of(c).op \in AllCalls /\ Of(c).h \in Handles
        /\ Of(c).op \in Ops[c] \/ (Of(c).op = "mkdir" /\ Of(c).bug)
        /\ Of(c).bug => "remove" \in Ops[c]
        /\ Of(c).op = "remove" => 1 \in Handles
        /\ Of(c).bug => Of(c).op = "mkdir"
        /\ Of(c).left > 1 => Of(c).op = "write"
    BY DEF CallInv, CallOk, Going, Turn
  <2>3. /\ calls'[c].at \in {"after"} \cup Turn /\ calls'[c].on <= Len(pc')
        /\ calls'[c].at = "after" => calls'[c].on > 0 \/ calls'[c].ret < 0
    BY DEF Going
  <2>4. IF calls'[c].at = "after" THEN calls'[c].how \in {"skipped", "refused", "reply", "stale"} ELSE calls'[c].how = ""
    BY DEF Going
  <2>5. calls'[c].left > 1 => calls'[c].op = "write"
    BY <2>1, <2>2
  <2> QED BY ONLY <1>2, <2>1, <2>2, <2>3, <2>4, <2>5 DEF CallOk, Of, Turn
<1> QED BY <1>1, <1>2

LEMMA GoingHandles ==
  ASSUME HostType, HandleInv, NEW c \in Callers, Going(c), open_fds' = open_fds
  PROVE  HandleInv'
<1>1. \A d \in Callers : calls'[d].op = Of(d).op /\ calls'[d].h = Of(d).h /\ calls'[d].fd = Of(d).fd
  BY DEF Going, GoesOn, OthersStay, Of
<1>2. Len(pc') = Len(pc)
  BY DEF Going
<1> QED BY <1>1, <1>2 DEF HandleInv, Handle, Of

LEMMA GoingMkdir ==
  ASSUME HostType, CallInv, MkdirInv, NEW c \in Callers, Going(c), fsys'.remove_flag <=> fsys.remove_flag
  PROVE  MkdirInv'
<1>1. \A d \in Callers : d # c => calls'[d] = calls[d]
  BY DEF Going, GoesOn, OthersStay
<1>2. /\ calls'[c].op = Of(c).op /\ (calls'[c].bug <=> Of(c).bug) /\ calls'[c].how # "skipped"
      /\ calls'[c].at # "ioman" /\ Of(c).at # "ioman" /\ Of(c).at # "after"
  BY DEF Going, GoesOn, Turn
<1>3. \A d \in Callers : Removing(d)' <=> Removing(d)
  BY <1>1, <1>2 DEF Removing, Of
<1>4. Of(c).op = "mkdir" => ~Of(c).bug
  <2>1. Of(c).how = ""
    BY <1>2 DEF CallInv, CallOk
  <2> QED BY <2>1 DEF MkdirInv
<1>5. \A d \in Callers : calls'[d].op = "mkdir" => (calls'[d].how = "skipped" <=> calls'[d].bug)
  BY <1>1, <1>2, <1>4 DEF MkdirInv, Of
<1> QED BY <1>3, <1>5 DEF MkdirInv, Of

(* Nothing is in transit while no call waits.                              *)
QuietStream == \A k \in 1 .. Len(pc) : pc[k].request = None /\ pc[k].reply = None
LEMMA QuietIs ==
  ASSUME StreamInv, \A c \in Callers : Of(c).at \notin Waiting
  PROVE  QuietStream
BY DEF StreamInv, QuietStream

LEMMA TurnIs ==
  ASSUME StreamInv, NEW c \in Callers, Of(c).at \in Turn
  PROVE  \A d \in Callers : d # c => Of(d).at \notin Turn
BY DEF StreamInv

HostMkdir == RemovesAlone => MkdirInv
LEMMA TakesKeeps ==
  ASSUME HostAssumption, HostBase, NEW c \in Callers, Takes(c)
  PROVE  HostBase'
<1> USE DEF HostBase
<1>1. /\ GoesOn(c) /\ calls'[c].at = "send" /\ calls'[c].how = Of(c).how /\ calls'[c].on = Of(c).on
      /\ SameMemory /\ ~fsys'.sema
  BY TakesIs
<1>2. /\ Of(c).at = "wait" /\ fsys.sema /\ UNCHANGED <<pko_fileio_sock, pc, open_fds, mixed>>
  BY DEF Takes
<1>3. Going(c)
  <2>1. Of(c).how = "" /\ Of(c).on <= Len(pc)
    BY <1>2 DEF CallInv, CallOk
  <2> QED BY <1>1, <1>2, <2>1 DEF Going, Turn
<1>4. HostType'
  BY <1>1, <1>2 DEF HostType, GoesOn, SameMemory, sock
<1>5. ConnInv'
  BY <1>2 DEF ConnInv, sock
<1>6. CallInv'
  BY <1>3, GoingCalls
<1>7. HandleInv'
  BY <1>2, <1>3, GoingHandles
<1>8. StreamInv'
  <2>1. \A d \in Callers : Of(d).at \notin Turn
    BY <1>2 DEF StreamInv
  <2>2. QuietStream
    BY <2>1, QuietIs DEF Waiting, Turn
  <2>3. \A d \in Callers : d # c => calls'[d].at \notin Turn
    BY <1>1, <2>1 DEF GoesOn, OthersStay, Of
  <2>4. \A d \in Callers : calls'[d].at \notin Waiting
    BY <1>1, <2>3 DEF Waiting, Turn
  <2> QED BY <1>1, <1>2, <2>2, <2>3, <2>4 DEF StreamInv, QuietStream, Of
<1>9. HostMkdir'
  BY <1>1, <1>3, GoingMkdir DEF HostMkdir, SameMemory
<1> QED BY <1>4, <1>5, <1>6, <1>7, <1>8, <1>9 DEF HostMkdir

LEMMA SendKeeps ==
  ASSUME HostAssumption, HostBase, NEW c \in Callers, pko_lwip_send(c)
  PROVE  HostBase'
<1> USE DEF HostBase
<1>1. /\ SendRefused(c) \/ SentOff(c)
      /\ open_fds' = open_fds /\ mixed' \in BOOLEAN
  BY SendIs
<1>2. Of(c).at = "send" /\ Of(c).how = "" /\ Of(c).on <= Len(pc)
  BY DEF pko_lwip_send, CallInv, CallOk
<1>3. \A d \in Callers : d # c => Of(d).at \notin Turn
  BY <1>2, TurnIs DEF Turn
<1>4. QuietStream
  BY <1>2, <1>3, QuietIs DEF Waiting, Turn
<1>5. \A d \in Callers : d # c => calls'[d].at \notin Turn
  BY <1>1, <1>3 DEF SendRefused, SentOff, GoesOn, OthersStay, Of
<1>6. sock \in {0, Len(pc)} /\ Len(pc) \in Nat
  BY DEF HostType
<1>7. CASE SendRefused(c)
  <2>1. /\ GoesOn(c) /\ calls'[c].at = "after" /\ calls'[c].how = "refused" /\ calls'[c].ret = -1
        /\ calls'[c].on = Of(c).on /\ SameMemory /\ pc' = pc /\ (sock' = sock \/ sock' = 0) /\ (sock > 0 => ~pc[sock].up)
    BY <1>7 DEF SendRefused
  <2>2. Going(c)
    <3>1. calls'[c].ret < 0
      BY ONLY <2>1
    <3>2. /\ GoesOn(c) /\ Of(c).at \in {"wait"} \cup Turn /\ calls'[c].at \in {"after"} \cup Turn
          /\ calls'[c].at = "after" /\ calls'[c].how \in {"refused", "reply", "stale"}
          /\ calls'[c].on <= Len(pc) /\ Len(pc') = Len(pc)
      BY ONLY <1>2, <2>1 DEF Turn
    <3> QED BY ONLY <3>1, <3>2 DEF Going
  <2>3. HostType'
    BY <1>1, <2>1 DEF HostType, GoesOn, SameMemory, sock
  <2>4. ConnInv'
    BY <1>6, <2>1 DEF ConnInv
  <2>5. CallInv' /\ HandleInv' /\ HostMkdir'
    BY <1>1, <2>1, <2>2, GoingCalls, GoingHandles, GoingMkdir DEF HostMkdir, SameMemory
  <2>6. StreamInv'
    <3>1. \A d \in Callers : calls'[d].at \notin Turn
      BY <1>5, <2>1 DEF Turn
    <3> QED BY <1>4, <2>1, <3>1 DEF StreamInv, QuietStream, Of, Turn, Waiting
  <2> QED BY <2>3, <2>4, <2>5, <2>6 DEF HostMkdir
<1>8. CASE SentOff(c)
  <2>1. /\ GoesOn(c) /\ calls'[c].at = "sent" /\ calls'[c].how = Of(c).how /\ calls'[c].on = Of(c).on
        /\ fsys' = fsys /\ sock > 0 /\ sock' = sock
    BY <1>8 DEF SentOff
  <2>2. /\ pc' \in Seq(Conns) /\ Len(pc') = Len(pc) /\ \A k \in 1 .. Len(pc) : k # sock => pc'[k] = pc[k]
        /\ (pc'[sock].up <=> pc[sock].up) /\ pc'[sock].files = pc[sock].files /\ pc'[sock].reply = pc[sock].reply
        /\ ~pc[sock].up => pc'[sock].request = pc[sock].request
        /\ \/ pc'[sock].request = pc[sock].request
           \/ /\ pc'[sock].request.op = Of(c).op
              /\ pc'[sock].request.fd = Of(c).fd /\ pc'[sock].request.by = <<c, Of(c).h>>
    <3>1. CASE ~pc[sock].up /\ pc' = pc
      BY <3>1 DEF HostType
    <3>2. CASE /\ pc[sock].up /\ \E conn \in Conns : PutConn(sock, conn)
               /\ pc'[sock].up /\ pc'[sock].files = pc[sock].files /\ pc'[sock].reply = pc[sock].reply
               /\ pc'[sock].request.op = Of(c).op
               /\ pc'[sock].request.fd = Of(c).fd /\ pc'[sock].request.by = <<c, Of(c).h>>
      BY <3>2 DEF PutConn
    <3> QED BY <1>8, <3>1, <3>2 DEF SentOff
  <2>3. Going(c)
    BY <1>2, <2>1, <2>2 DEF Going, Turn
  <2>4. sock \in 1 .. Len(pc)
    BY <1>6, <2>1
  <2>5. HostType'
    BY <1>1, <2>1, <2>2 DEF HostType, GoesOn, sock
  <2>6. ConnInv'
    <3> SUFFICES ASSUME NEW k \in 1 .. Len(pc)
                 PROVE  /\ IsFiniteSet(pc'[k].files)
                        /\ pc'[k].up => k = sock'
                        /\ ~pc'[k].up => pc'[k].files = {} /\ pc'[k].request = None
      BY <2>2 DEF ConnInv
    <3>1. /\ IsFiniteSet(pc[k].files)
          /\ pc[k].up => k = sock
          /\ ~pc[k].up => pc[k].files = {} /\ pc[k].request = None
      BY DEF ConnInv
    <3>2. CASE k = sock
      BY <2>1, <2>2, <3>1, <3>2
    <3>3. CASE k # sock
      BY <2>1, <2>2, <3>1, <3>3
    <3> QED BY <3>2, <3>3
  <2>7. CallInv' /\ HandleInv' /\ HostMkdir'
    BY <1>1, <2>1, <2>3, GoingCalls, GoingHandles, GoingMkdir DEF HostMkdir
  <2>8. StreamInv'
    <3>1. \A k \in 1 .. Len(pc) : k # sock => pc'[k].request = None /\ pc'[k].reply = None
      BY <1>4, <2>2 DEF QuietStream
    <3>2. pc'[sock].reply = None
      BY <1>4, <2>2, <2>4 DEF QuietStream
    <3>3. /\ calls'[c].op = Of(c).op /\ calls'[c].h = Of(c).h /\ calls'[c].fd = Of(c).fd /\ Target(c)' = sock'
      BY <2>1 DEF GoesOn, Target, Of
    <3>4. pc'[sock].request # None => Own(pc[sock].request, c)' /\ pc'[sock].request.fd = calls'[c].fd
      BY <1>4, <2>1, <2>2, <2>4, <3>3 DEF QuietStream, Own, Of
    <3>5. \A d \in Callers : calls'[d].at \in Turn => ~fsys'.sema
      BY <1>2, <1>5, <2>1 DEF StreamInv, Turn
    <3>6. \A d, e \in Callers : calls'[d].at \in Turn /\ calls'[e].at \in Turn => d = e
      BY <1>5
    <3>7. \A d \in Callers : calls'[d].at \in Waiting => d = c
      BY <1>5 DEF Turn, Waiting
    <3>8. calls'[c].at \in Waiting
      BY <2>1 DEF Waiting
    <3>9. \A k \in 1 .. Len(pc') : pc'[k].reply = None
      BY <2>2, <3>1, <3>2
    <3>10. \A k \in 1 .. Len(pc') : pc'[k].request # None => k = sock'
      BY <2>1, <2>2, <3>1
    <3>11. \A k \in 1 .. Len(pc') : pc'[k].request # None =>
              \E d \in Callers : /\ calls'[d].at \in Waiting /\ k = Target(d)' /\ Own(pc[k].request, d)'
                                 /\ pc'[k].request.fd = calls'[d].fd
      BY <2>1, <3>3, <3>4, <3>8, <3>10
    <3>12. sock' > 0
      BY <2>1
    <3> QED BY <3>3, <3>5, <3>6, <3>7, <3>9, <3>11, <3>12 DEF StreamInv, Of
  <2> QED BY <2>5, <2>6, <2>7, <2>8 DEF HostMkdir
<1> QED BY <1>1, <1>7, <1>8

LEMMA ReceiveKeeps ==
  ASSUME HostAssumption, HostBase, NEW c \in Callers, pko_recv_bytes(c)
  PROVE  HostBase'
<1> USE DEF HostBase
<1>1. GoesOn(c) /\ calls'[c].at = "receive" /\ calls'[c].how = Of(c).how /\ calls'[c].on = sock
  BY ReceiveIs
<1>2. Of(c).at = "sent" /\ UNCHANGED <<pko_fileio_sock, pc, open_fds, fsys, mixed>>
  BY DEF pko_recv_bytes
<1>3. sock <= Len(pc) /\ Of(c).how = ""
  <2>1. sock \in {0, Len(pc)} /\ Len(pc) \in Nat
    BY DEF HostType
  <2>2. Of(c).how = ""
    BY <1>2 DEF CallInv, CallOk
  <2>3. sock <= Len(pc)
    BY ONLY <2>1 DEF sock
  <2> QED BY <2>2, <2>3
<1>4. Going(c)
  BY <1>1, <1>2, <1>3 DEF Going, Turn
<1>5. HostType'
  BY <1>1, <1>2 DEF HostType, GoesOn, sock
<1>6. ConnInv'
  BY <1>2 DEF ConnInv, sock
<1>7. CallInv' /\ HandleInv' /\ HostMkdir'
  BY <1>2, <1>4, GoingCalls, GoingHandles, GoingMkdir DEF HostMkdir
<1>8. StreamInv'
  <2>1. \A d \in Callers : d # c => calls'[d] = calls[d]
    BY <1>1 DEF GoesOn, OthersStay
  <2>2. /\ calls'[c].op = Of(c).op /\ calls'[c].h = Of(c).h /\ calls'[c].fd = Of(c).fd
        /\ calls'[c].at \in Turn /\ Of(c).at \in Turn /\ Target(c)' = Target(c)
    BY <1>1, <1>2 DEF GoesOn, Turn, Target, Of
  <2>3. \A d \in Callers : /\ (calls'[d].at \in Turn <=> Of(d).at \in Turn)
                           /\ (calls'[d].at \in Waiting <=> Of(d).at \in Waiting) /\ Target(d)' = Target(d)
                           /\ calls'[d].op = Of(d).op /\ calls'[d].h = Of(d).h /\ calls'[d].fd = Of(d).fd
    <3> SUFFICES ASSUME NEW d \in Callers
                 PROVE  /\ (calls'[d].at \in Turn <=> Of(d).at \in Turn)
                        /\ (calls'[d].at \in Waiting <=> Of(d).at \in Waiting) /\ Target(d)' = Target(d)
                        /\ calls'[d].op = Of(d).op /\ calls'[d].h = Of(d).h /\ calls'[d].fd = Of(d).fd
      OBVIOUS
    <3>1. CASE d = c
      BY <1>1, <1>2, <2>2, <3>1 DEF Waiting
    <3>2. CASE d # c
      BY <1>2, <2>1, <3>2 DEF Target, Of, sock
    <3> QED BY <3>1, <3>2
  <2> QED BY <1>2, <2>3 DEF StreamInv, Own, Of
<1> QED BY <1>5, <1>6, <1>7, <1>8 DEF HostMkdir

LEMMA AcceptKeeps ==
  ASSUME HostAssumption, HostBase, NEW c \in Callers, pko_accept_pkt(c)
  PROVE  HostBase'
<1> USE DEF HostBase
<1> DEFINE k == Of(c).on
<1>1. /\ ReplyTaken(c) \/ StreamEnded(c)
      /\ UNCHANGED <<pko_fileio_sock, open_fds, mixed>>
      /\ k \in 1 .. Len(pc)
  BY AcceptIs
<1>2. Of(c).at = "receive" /\ Of(c).on <= Len(pc)
  BY DEF pko_accept_pkt, CallInv, CallOk
<1>3. \A d \in Callers : d # c => Of(d).at \notin Turn
  BY <1>2, TurnIs DEF Turn
<1>4. \A j \in 1 .. Len(pc) : j # k => pc[j].request = None /\ pc[j].reply = None
  <2>1. \A d \in Callers : Of(d).at \in Waiting => d = c
    BY <1>3 DEF Turn, Waiting
  <2>2. Target(c) = k
    BY <1>2 DEF Target
  <2> QED BY <2>1, <2>2 DEF StreamInv
<1>5. /\ GoesOn(c) /\ SameMemory /\ Going(c) /\ calls'[c].at \notin Waiting
      /\ (calls'[c].at \in Turn => (fsys'.sema <=> fsys.sema))
  <2>1. CASE ReplyTaken(c)
    <3>1. GoesOn(c) /\ SameMemory /\ Len(pc') = Len(pc)
      BY <2>1 DEF ReplyTaken, PutConn
    <3>2. \/ calls'[c].at = "send" /\ calls'[c].how = "" /\ calls'[c].on = Of(c).on /\ (fsys'.sema <=> fsys.sema)
          \/ calls'[c].at = "after" /\ calls'[c].how = "reply" /\ calls'[c].on = Of(c).on
      BY <2>1 DEF ReplyTaken
    <3>3. k > 0 /\ k <= Len(pc)
      BY <1>1
    <3>4. /\ calls'[c].at \in {"after"} \cup Turn /\ calls'[c].at \notin Waiting /\ calls'[c].on = k
          /\ IF calls'[c].at = "after" THEN calls'[c].how \in {"refused", "reply", "stale"} ELSE calls'[c].how = ""
          /\ calls'[c].at \in Turn => (fsys'.sema <=> fsys.sema)
      BY ONLY <3>2 DEF Turn, Waiting
    <3>5. Of(c).at \in {"wait"} \cup Turn
      BY <1>2 DEF Turn
    <3> QED BY ONLY <3>1, <3>3, <3>4, <3>5 DEF Going
  <2>2. CASE StreamEnded(c)
    BY <1>1, <1>2, <2>2 DEF StreamEnded, Going, Turn, Waiting
  <2> QED BY <1>1, <2>1, <2>2
<1>6. /\ pc' \in Seq(Conns) /\ Len(pc') = Len(pc)
      /\ \A j \in 1 .. Len(pc) : /\ (pc'[j].up <=> pc[j].up) /\ pc'[j].files = pc[j].files
                                 /\ pc'[j].request = pc[j].request
      /\ \A j \in 1 .. Len(pc) : pc'[j].request = None /\ pc'[j].reply = None
  <2>1. CASE ReplyTaken(c)
    <3>1. /\ pc' \in Seq(Conns) /\ Len(pc') = Len(pc) /\ \A j \in 1 .. Len(pc) : j # k => pc'[j] = pc[j]
          /\ (pc'[k].up <=> pc[k].up) /\ pc'[k].files = pc[k].files /\ pc'[k].request = pc[k].request /\ pc'[k].reply = None
          /\ pc[k].reply # None
      BY <2>1 DEF ReplyTaken, PutConn
    <3>2. pc[k].request = None
      BY <1>1, <3>1 DEF StreamInv
    <3> HIDE DEF k
    <3> QED BY ONLY <1>1, <1>4, <3>1, <3>2
  <2>2. CASE StreamEnded(c)
    <3>1. pc' = pc /\ pc[k].reply = None /\ ~pc[k].up
      BY <2>2 DEF StreamEnded
    <3>2. pc[k].request = None
      BY <1>1, <3>1 DEF ConnInv
    <3>3. pc \in Seq(Conns)
      BY DEF HostType
    <3> HIDE DEF k
    <3> QED BY ONLY <1>1, <1>4, <3>1, <3>2, <3>3
  <2> QED BY <1>1, <2>1, <2>2
<1>7. HostType'
  BY <1>1, <1>5, <1>6 DEF HostType, GoesOn, SameMemory, sock
<1>8. ConnInv'
  BY <1>1, <1>6 DEF ConnInv, sock
<1>9. CallInv' /\ HandleInv' /\ HostMkdir'
  BY <1>1, <1>5, GoingCalls, GoingHandles, GoingMkdir DEF HostMkdir, SameMemory
<1>10. StreamInv'
  <2>1. \A d \in Callers : d # c => calls'[d].at \notin Turn
    BY <1>3, <1>5 DEF GoesOn, OthersStay, Of
  <2>2. \A d \in Callers : calls'[d].at \notin Waiting
    BY <1>5, <2>1 DEF Turn, Waiting
  <2>3. \A d \in Callers : calls'[d].at \in Turn => ~fsys'.sema
    <3>1. ~fsys.sema
      BY <1>2 DEF StreamInv, Turn
    <3> QED BY <1>5, <2>1, <3>1
  <2>4. \A d, e \in Callers : calls'[d].at \in Turn /\ calls'[e].at \in Turn => d = e
    BY <2>1
  <2> QED BY <1>6, <2>2, <2>3, <2>4 DEF StreamInv, Of
<1> QED BY <1>7, <1>8, <1>9, <1>10 DEF HostMkdir

(* The calls that wait stay as they are, and the stream as well.           *)
LEMMA OutsideTurn ==
  ASSUME StreamInv, NEW c \in Callers, OthersStay(c), Of(c).at \notin Turn, calls'[c].at \notin Turn,
         pc' = pc, sock' = sock, fsys'.sema <=> fsys.sema
  PROVE  StreamInv'
<1>1. \A d \in Callers : d # c => calls'[d] = calls[d]
  BY DEF OthersStay
<1>2. \A d \in Callers : /\ (calls'[d].at \in Turn <=> Of(d).at \in Turn)
                         /\ (calls'[d].at \in Waiting <=> Of(d).at \in Waiting)
                         /\ (Of(d).at \in Waiting => Of(d)' = Of(d) /\ Target(d)' = Target(d))
  <2> SUFFICES ASSUME NEW d \in Callers
               PROVE  /\ (calls'[d].at \in Turn <=> Of(d).at \in Turn)
                      /\ (calls'[d].at \in Waiting <=> Of(d).at \in Waiting)
                      /\ (Of(d).at \in Waiting => Of(d)' = Of(d) /\ Target(d)' = Target(d))
    OBVIOUS
  <2>1. CASE d = c
    BY <2>1 DEF Turn, Waiting
  <2>2. CASE d # c
    BY <1>1, <2>2 DEF Of, Target
  <2> QED BY <2>1, <2>2
<1>4. /\ \A d \in Callers : Of(d)'.at \in Turn => ~fsys'.sema
      /\ \A d, e \in Callers : Of(d)'.at \in Turn /\ Of(e)'.at \in Turn => d = e
      /\ \A d \in Callers : Of(d)'.at \in Waiting => Target(d)' > 0
  BY <1>2 DEF StreamInv, Of
<1>5. \A k \in 1 .. Len(pc) : pc[k].request # None =>
          \E d \in Callers : /\ Of(d)'.at \in Waiting /\ k = Target(d)' /\ pc[k].request.op = Of(d)'.op
                             /\ pc[k].request.by = <<d, Of(d)'.h>> /\ pc[k].request.fd = Of(d)'.fd
  BY <1>2 DEF StreamInv, Own
<1>6. \A k \in 1 .. Len(pc) : pc[k].reply # None =>
          \E d \in Callers : /\ Of(d)'.at \in Waiting /\ k = Target(d)' /\ pc[k].reply.op = Of(d)'.op
                             /\ pc[k].reply.by = <<d, Of(d)'.h>>
  BY <1>2 DEF StreamInv, Own
<1>7. \A k \in 1 .. Len(pc) : pc[k].request = None \/ pc[k].reply = None
  BY DEF StreamInv
<1> QED BY <1>4, <1>5, <1>6, <1>7 DEF StreamInv, Own

Begins(c, op, h) ==
    \/ Of(c).at = "idle" /\ op \in Ops[c] /\ MayCall(c, op, h)
    \/ Of(c).at = "ioman" /\ op = "mkdir" /\ h = 1
LEMMA EnterKeeps ==
  ASSUME HostAssumption, HostBase, NEW c \in Callers, NEW op \in AllCalls, NEW h \in Handles,
         Begins(c, op, h), Enter(c, op, h, Of(c).at = "ioman")
  PROVE  HostBase'
<1> USE DEF HostBase
<1>1. Entered(c, op, h) /\ mixed' \in BOOLEAN
  BY EnterIs
<1>2. /\ UNCHANGED <<pko_fileio_sock, pc, open_fds>> /\ calls' \in [Callers -> CallStates] /\ OthersStay(c)
      /\ calls'[c].op = op /\ calls'[c].h = h /\ calls'[c].on = 0 /\ (calls'[c].bug <=> Of(c).at = "ioman")
      /\ (calls'[c].left > 1 => op = "write")
      /\ calls'[c].fd = (IF op \in OnHandle THEN open_fds[c][h].fd ELSE 0)
  BY <1>1 DEF Entered
<1>3. \/ calls'[c].at = "wait" /\ calls'[c].how = ""
      \/ calls'[c].at = "after" /\ calls'[c].how = "skipped"
  BY <1>1 DEF Entered
<1>4. /\ op = "mkdir" => (calls'[c].how = "skipped" <=> fsys.remove_flag)
      /\ fsys' \in Memory /\ (fsys'.sema <=> fsys.sema) /\ (fsys'.remove_flag <=> op = "remove")
  BY <1>1 DEF Entered
<1>5. /\ Of(c).at \in {"idle", "ioman"} /\ Of(c).op = "none"
      /\ Of(c).at = "ioman" => "remove" \in Ops[c] /\ op = "mkdir"
      /\ Of(c).at = "idle" => op \in Ops[c] /\ MayCall(c, op, h)
  BY DEF Begins, CallInv, CallOk
<1>6. \A d \in Callers : d # c => calls'[d] = calls[d]
  BY <1>2 DEF OthersStay
<1>7. HostType'
  BY <1>1, <1>2, <1>4 DEF HostType, sock
<1>8. ConnInv'
  BY <1>2 DEF ConnInv, sock
<1>9. CallInv'
  <2> SUFFICES ASSUME NEW d \in Callers
               PROVE  CallOk(d)'
    BY DEF CallInv
  <2>1. CASE d # c
    <3>1. CallOk(d)
      BY DEF CallInv
    <3> QED BY ONLY <1>2, <1>6, <2>1, <3>1 DEF CallOk, Of
  <2>2. CASE d = c
    <3>1. op = "remove" => 1 \in Handles
      BY <1>5 DEF MayCall, OpenCalls, PathCalls
    <3>2. Len(pc) \in Nat
      BY DEF HostType
    <3>3. op \in Ops[c] \/ (op = "mkdir" /\ Of(c).at = "ioman")
      BY <1>5
    <3>4. Of(c).at = "ioman" => "remove" \in Ops[c] /\ op = "mkdir"
      BY <1>5
    <3>5. op \in AllCalls /\ h \in Handles
      OBVIOUS
    <3>6. pc' = pc
      BY <1>2
    <3>7. calls'[c].at = "after" => op \notin OpenCalls
      BY <1>1, CallSets DEF Entered
    <3> DEFINE v == calls'[c]
    <3>8. /\ v.op = op /\ v.h = h /\ v.on = 0 /\ (v.bug <=> Of(c).at = "ioman") /\ (v.left > 1 => op = "write")
          /\ v.at \notin {"idle", "ioman"}
          /\ IF v.at = "after" THEN v.how \in {"skipped", "refused", "reply", "stale"} ELSE v.how = ""
      BY <1>2, <1>3
    <3> HIDE DEF v
    <3>10. 0 <= Len(pc)
      BY ONLY <3>2
    <3>9. /\ v.at \notin {"idle", "ioman"} =>
                /\ v.op \in AllCalls /\ v.h \in Handles /\ (v.op \in Ops[c] \/ (v.op = "mkdir" /\ v.bug))
          /\ (v.at = "ioman" \/ v.bug => "remove" \in Ops[c])
          /\ (v.at = "ioman" \/ v.op = "remove" => 1 \in Handles)
          /\ (v.bug => v.op = "mkdir") /\ v.on <= Len(pc) /\ (v.left > 1 => v.op = "write")
      BY ONLY <3>1, <3>3, <3>4, <3>5, <3>8, <3>10
    <3> QED BY ONLY <2>2, <3>6, <3>7, <3>8, <3>9 DEF CallOk, Of, v
  <2> QED BY <2>1, <2>2
<1>10. HandleInv'
  <2>1. open_fds' = open_fds /\ pc' = pc /\ open_fds[c][h].on \in Nat
    BY <1>2 DEF HostType, FdStates
  <2>2. op \in OpenCalls => open_fds[c][h] = Closed
    BY <1>5, CallSets DEF MayCall
  <2>3. op \in OnHandle => open_fds[c][h].on > 0 /\ calls'[c].fd = open_fds[c][h].fd
    <3> SUFFICES ASSUME op \in OnHandle
                 PROVE  open_fds[c][h].on > 0 /\ calls'[c].fd = open_fds[c][h].fd
      OBVIOUS
    <3>1. op \notin OpenCalls \cup PathCalls /\ op # "mkdir"
      BY DEF OnHandle, OpenCalls, PathCalls, FileCalls, DirCalls
    <3>2. open_fds[c][h] # Closed
      BY <1>5, <3>1 DEF MayCall
    <3>3. open_fds[c][h].on = 0 => open_fds[c][h] = Closed
      BY DEF HandleInv
    <3> QED BY <1>2, <2>1, <3>2, <3>3
  <2> QED BY <1>2, <1>6, <2>1, <2>2, <2>3 DEF HandleInv, Handle, Of
<1>11. StreamInv'
  <2>1. Of(c).at \notin Turn /\ calls'[c].at \notin Turn
    BY <1>3, <1>5 DEF Turn
  <2>2. sock' = sock
    BY <1>2 DEF sock
  <2> QED BY <1>2, <1>4, <2>1, <2>2, OutsideTurn
<1>12. ASSUME RemovesAlone
       PROVE  MkdirInv'
  <2>1. MkdirInv
    BY <1>12
  <2>2. \A d \in Callers : Removing(d) => "remove" \in Ops[d]
    BY DEF Removing, CallInv, CallOk
  <2>3. \A d \in Callers : d # c => ~Removing(d)
    BY <1>5, <1>12, <2>2 DEF RemovesAlone
  <2>4. Removing(c) <=> Of(c).at = "ioman"
    BY <1>5 DEF Removing
  <2>5. fsys.remove_flag <=> Of(c).at = "ioman"
    BY <2>1, <2>3, <2>4 DEF MkdirInv
  <2>6. \A d \in Callers : d # c => ~Removing(d)'
    BY <1>6, <2>3 DEF Removing, Of
  <2>7. Removing(c)' <=> op = "remove"
    BY <1>2, <1>3 DEF Removing, Of
  <2>8. op = "mkdir" => (calls'[c].how = "skipped" <=> calls'[c].bug)
    BY <1>2, <1>4, <2>5
  <2>9. \A d \in Callers : calls'[d].op = "mkdir" => (calls'[d].how = "skipped" <=> calls'[d].bug)
    BY <1>2, <1>6, <2>1, <2>8 DEF MkdirInv, Of
  <2>10. fsys'.remove_flag <=> \E d \in Callers : Removing(d)'
    BY <1>4, <2>6, <2>7
  <2> QED BY <2>9, <2>10 DEF MkdirInv, Of
<1> QED BY <1>7, <1>8, <1>9, <1>10, <1>11, <1>12 DEF RemovesAlone

LEMMA ReturnKeeps ==
  ASSUME HostAssumption, HostBase, NEW c \in Callers, Return(c)
  PROVE  HostBase'
<1> USE DEF HostBase
<1>1. Returned(c)
  BY ReturnIs
<1>2. /\ Of(c).at = "after" /\ UNCHANGED <<pko_fileio_sock, pc, mixed>>
      /\ calls' \in [Callers -> CallStates] /\ OthersStay(c)
      /\ calls'[c].op = "none" /\ calls'[c].how = "" /\ ~calls'[c].bug /\ calls'[c].on = 0 /\ calls'[c].left = 0
      /\ calls'[c].at = IF Of(c).op = "remove" THEN "ioman" ELSE "idle"
  BY <1>1 DEF Returned
<1>3. /\ open_fds' \in [Callers -> [Handles -> FdStates]]
      /\ open_fds'[c][Of(c).h] = NewHandle(c)
      /\ \A d \in Callers, h \in Handles : d # c \/ h # Of(c).h => open_fds'[d][h] = open_fds[d][h]
      /\ fsys' \in Memory /\ (fsys'.sema <=> fsys.sema) /\ (fsys'.remove_flag <=> fsys.remove_flag)
  BY <1>1 DEF Returned
<1>4. \A d \in Callers : d # c => calls'[d] = calls[d]
  BY <1>2 DEF OthersStay
<1>5. /\ Of(c).op \in AllCalls /\ Of(c).h \in Handles /\ Of(c).on <= Len(pc) /\ Len(pc) \in Nat
      /\ Of(c).op = "remove" => "remove" \in Ops[c] /\ 1 \in Handles
  <2>1. CallOk(c) /\ Len(pc) \in Nat
    BY DEF CallInv, HostType
  <2> QED BY <1>2, <2>1 DEF CallOk
<1>6. HostType'
  BY <1>2, <1>3 DEF HostType, sock
<1>7. ConnInv'
  BY <1>2 DEF ConnInv, sock
<1>8. CallInv'
  <2> SUFFICES ASSUME NEW d \in Callers
               PROVE  CallOk(d)'
    BY DEF CallInv
  <2>1. CASE d # c
    <3>1. CallOk(d)
      BY DEF CallInv
    <3> QED BY ONLY <1>2, <1>4, <2>1, <3>1 DEF CallOk, Of
  <2>2. CASE d = c
    <3> DEFINE v == calls'[c]
    <3>1. /\ v.op = "none" /\ v.how = "" /\ ~v.bug /\ v.on = 0 /\ v.left = 0 /\ v.at \in {"idle", "ioman"}
          /\ v.at = "ioman" => "remove" \in Ops[c] /\ 1 \in Handles
      BY <1>2, <1>5
    <3>2. pc' = pc
      BY <1>2
    <3>5. 0 <= Len(pc)
      BY ONLY <1>5
    <3> HIDE DEF v
    <3>3. /\ v.at \in {"idle", "ioman"} => v.op = "none" /\ ~v.bug
          /\ (v.at = "ioman" \/ v.bug => "remove" \in Ops[c])
          /\ (v.at = "ioman" \/ v.op = "remove" => 1 \in Handles)
          /\ (v.bug => v.op = "mkdir")
          /\ v.at \in {"idle", "ioman"} /\ v.how = ""
      BY ONLY <3>1
    <3>7. v.on = 0 /\ v.left = 0
      BY ONLY <3>1
    <3>6. v.on <= Len(pc) /\ ~(v.left > 1)
      BY ONLY <3>5, <3>7
    <3>4. (v.at \in {"idle", "ioman"} => v.at # "after")
      BY ONLY <3>1
    <3> QED BY ONLY <2>2, <3>2, <3>3, <3>4, <3>6 DEF CallOk, Of, v
  <2> QED BY <2>1, <2>2
<1>9. HandleInv'
  <2>1. \A d \in Callers, h \in Handles :
           open_fds'[d][h].on <= Len(pc) /\ (open_fds'[d][h].on = 0 => open_fds'[d][h] = Closed)
    <3> SUFFICES ASSUME NEW d \in Callers, NEW h \in Handles
                 PROVE  open_fds'[d][h].on <= Len(pc) /\ (open_fds'[d][h].on = 0 => open_fds'[d][h] = Closed)
      OBVIOUS
    <3>1. CASE d # c \/ h # Of(c).h
      BY <1>3, <3>1 DEF HandleInv
    <3>2. CASE d = c /\ h = Of(c).h
      <4>1. Handle(c).on <= Len(pc) /\ (Handle(c).on = 0 => Handle(c) = Closed) /\ Handle(c) \in FdStates
        BY <1>5 DEF HandleInv, Handle, HostType
      <4>2. Of(c).op \in OpenCalls => Of(c).on > 0 \/ Of(c).ret < 0
        BY <1>2 DEF CallInv, CallOk
      <4>3. Of(c).ret \in Int /\ Of(c).on \in Nat
        BY OfIs DEF CallStates
      <4> DEFINE opened == [fd |-> Of(c).ret, on |-> Of(c).on, renamed |-> FALSE]
                 marked == [Handle(c) EXCEPT !.renamed = Of(c).ret \in {0, -6}]
      <4>4. Closed.on = 0 /\ 0 <= Len(pc)
        BY <1>5 DEF Closed
      <4>5. opened.on = Of(c).on /\ marked.on = Handle(c).on /\ (Handle(c) # Closed => marked.on # 0)
        BY <4>1, <4>3 DEF FdStates
      <4>6. CASE Of(c).op \in OpenCalls /\ Of(c).ret >= 0
        <5>1. NewHandle(c) = opened
          BY <4>6 DEF NewHandle
        <5>2. opened.on > 0 /\ opened.on <= Len(pc)
          BY ONLY <1>5, <4>2, <4>3, <4>5, <4>6
        <5> QED BY <1>3, <3>2, <4>3, <5>1, <5>2
      <4>7. CASE Of(c).op \in Closes /\ ~(Of(c).op \in OpenCalls /\ Of(c).ret >= 0)
        BY <1>3, <3>2, <4>4, <4>7 DEF NewHandle
      <4>8. CASE Of(c).op = "ioctl" /\ Of(c).how # "skipped"
        <5>1. NewHandle(c) = marked
          BY <4>8, CallSets DEF NewHandle
        <5>2. Handle(c).on > 0
          BY <4>8, CallSets DEF HandleInv
        <5>3. open_fds'[d][h] = marked
          BY <1>3, <3>2, <5>1
        <5> HIDE DEF marked
        <5>4. marked.on <= Len(pc) /\ marked.on > 0
          BY ONLY <4>1, <4>5, <5>2
        <5> QED BY ONLY <5>3, <5>4
      <4>9. CASE /\ ~(Of(c).op \in OpenCalls /\ Of(c).ret >= 0) /\ Of(c).op \notin Closes
                 /\ ~(Of(c).op = "ioctl" /\ Of(c).how # "skipped")
        <5>1. NewHandle(c) = Handle(c)
          BY <4>9 DEF NewHandle
        <5> QED BY <1>3, <3>2, <4>1, <5>1
      <4> QED BY <4>6, <4>7, <4>8, <4>9
    <3> QED BY <3>1, <3>2
  <2>2. calls'[c].op \notin OpenCalls \cup OnHandle
    BY <1>2, CallSets
  <2>3. \A d \in Callers : d # c /\ (Of(d).op \in OpenCalls \cup OnHandle) => Handle(d)' = Handle(d)
    <3>1. \A d \in Callers : Of(d).op \in OpenCalls \cup OnHandle => Of(d).h \in Handles
      BY CallSets DEF CallInv, CallOk
    <3> QED BY <1>3, <1>4, <3>1 DEF Handle, Of
  <2> QED BY <1>2, <1>4, <2>1, <2>2, <2>3 DEF HandleInv, Of
<1>10. StreamInv'
  <2>1. Of(c).at \notin Turn /\ calls'[c].at \notin Turn
    BY <1>2 DEF Turn
  <2>2. sock' = sock
    BY <1>2 DEF sock
  <2> QED BY <1>2, <1>3, <2>1, <2>2, OutsideTurn
<1>11. ASSUME RemovesAlone
       PROVE  MkdirInv'
  <2>1. MkdirInv
    BY <1>11
  <2>2. Removing(c)' <=> Removing(c)
    BY <1>2 DEF Removing, Of
  <2>3. \A d \in Callers : d # c => (Removing(d)' <=> Removing(d))
    BY <1>4 DEF Removing, Of
  <2>4. fsys'.remove_flag <=> \E d \in Callers : Removing(d)'
    BY <1>3, <2>1, <2>2, <2>3 DEF MkdirInv
  <2>5. \A d \in Callers : calls'[d].op = "mkdir" => (calls'[d].how = "skipped" <=> calls'[d].bug)
    BY <1>2, <1>4, <2>1 DEF MkdirInv, Of
  <2> QED BY <2>4, <2>5 DEF MkdirInv, Of
<1> QED BY <1>6, <1>7, <1>8, <1>9, <1>10, <1>11 DEF RemovesAlone

(* The PC and the stream change, the calls stay.                           *)
LEMMA CallsStay ==
  ASSUME HostBase, UNCHANGED <<calls, open_fds, fsys, mixed>>, Len(pc) <= Len(pc')
  PROVE  CallInv' /\ HandleInv' /\ HostMkdir'
<1> USE DEF HostBase
<1>1. calls' = calls /\ open_fds' = open_fds /\ fsys' = fsys
  OBVIOUS
<1>2. CallInv'
  <2> SUFFICES ASSUME NEW c \in Callers
               PROVE  CallOk(c)'
    BY DEF CallInv
  <2>1. CallOk(c) /\ Of(c)' = Of(c)
    BY <1>1 DEF CallInv, Of
  <2>2. Of(c).on <= Len(pc')
    <3>1. Of(c).on \in Nat /\ Len(pc) \in Nat /\ Of(c).on <= Len(pc)
      <4>1. Of(c).on \in Nat
        BY OfIs DEF CallStates
      <4>2. Len(pc) \in Nat
        BY DEF HostType
      <4> QED BY <2>1, <4>1, <4>2 DEF CallOk
    <3>2. Len(pc') \in Nat
      <4>1. Len(pc) <= Len(pc')
        OBVIOUS
      <4> QED BY <4>1
    <3> QED BY <3>1, <3>2
  <2> QED BY <2>1, <2>2 DEF CallOk
<1>3. HandleInv'
  BY <1>1 DEF HandleInv, HostType, FdStates, Handle, Of
<1>4. HostMkdir'
  BY <1>1 DEF HostMkdir, MkdirInv, Removing, Of, RemovesAlone
<1> QED BY <1>2, <1>3, <1>4

LEMMA ServesKeeps ==
  ASSUME HostAssumption, HostBase, NEW k \in 1 .. Len(pc), Serves(k)
  PROVE  HostBase'
<1> USE DEF HostBase
<1>1. ServedBy(k) /\ UNCHANGED <<pko_fileio_sock, calls, open_fds, fsys, mixed>>
  BY ServesIs DEF Serves
<1>2. /\ pc[k].up /\ pc[k].request \in Messages
      /\ pc' \in Seq(Conns) /\ Len(pc') = Len(pc) /\ \A j \in 1 .. Len(pc) : j # k => pc'[j] = pc[j]
      /\ pc'[k].up /\ pc'[k].request = None /\ pc'[k].reply \in Messages
      /\ pc'[k].reply.op = pc[k].request.op /\ pc'[k].reply.by = pc[k].request.by
      /\ IsFiniteSet(pc'[k].files)
  BY <1>1 DEF ServedBy, PutConn
<1>3. HostType'
  BY <1>1, <1>2 DEF HostType, sock
<1>4. ConnInv'
  <2> SUFFICES ASSUME NEW j \in 1 .. Len(pc)
               PROVE  /\ IsFiniteSet(pc'[j].files)
                      /\ pc'[j].up => j = sock'
                      /\ ~pc'[j].up => pc'[j].files = {} /\ pc'[j].request = None
    BY <1>2 DEF ConnInv
  <2>1. sock' = sock /\ k = sock
    BY <1>1, <1>2 DEF ConnInv, sock
  <2>2. CASE j = k
    BY <1>2, <2>1, <2>2
  <2>3. CASE j # k
    BY <1>2, <2>1, <2>3 DEF ConnInv
  <2> QED BY <2>2, <2>3
<1>5. CallInv' /\ HandleInv' /\ HostMkdir'
  <2>1. Len(pc) <= Len(pc')
    BY <1>2, <1>3 DEF HostType
  <2> QED BY <1>1, <2>1, CallsStay
<1>6. StreamInv'
  <2>1. \A c \in Callers : Of(c)' = Of(c) /\ Target(c)' = Target(c)
    BY <1>1 DEF Of, Target, sock
  <2>2. \E c \in Callers : Of(c).at \in Waiting /\ k = Target(c) /\ Own(pc[k].request, c)
    BY <1>2, NoneIs DEF StreamInv
  <2>3. \E c \in Callers : Of(c).at \in Waiting /\ k = Target(c) /\ Own(pc'[k].reply, c)
    BY <1>2, <2>2 DEF Own
  <2>4. \A j \in 1 .. Len(pc) : pc'[j].request = None \/ pc'[j].reply = None
    BY <1>2 DEF StreamInv
  <2>5. \A j \in 1 .. Len(pc) : pc'[j].reply # None =>
           \E c \in Callers : Of(c).at \in Waiting /\ j = Target(c) /\ Own(pc'[j].reply, c)
    BY <1>2, <2>3 DEF StreamInv
  <2>6. \A j \in 1 .. Len(pc) : pc'[j].request # None =>
           \E c \in Callers : /\ Of(c).at \in Waiting /\ j = Target(c) /\ Own(pc'[j].request, c)
                              /\ pc'[j].request.fd = Of(c).fd
    BY <1>2 DEF StreamInv
  <2>7. /\ \A c \in Callers : Of(c).at \in Turn => ~fsys'.sema
        /\ \A c, d \in Callers : Of(c).at \in Turn /\ Of(d).at \in Turn => c = d
        /\ \A c \in Callers : Of(c).at \in Waiting => Target(c) > 0
    BY <1>1 DEF StreamInv
  <2> HIDE DEF HostBase
  <2> QED BY ONLY <1>2, <2>1, <2>4, <2>5, <2>6, <2>7 DEF StreamInv, Own
<1> QED BY <1>3, <1>4, <1>5, <1>6 DEF HostMkdir

LEMMA LeavesKeeps ==
  ASSUME HostAssumption, HostBase, NEW k \in 1 .. Len(pc), PcLeaves(k)
  PROVE  HostBase'
<1> USE DEF HostBase
<1>1. LeftPc(k) /\ UNCHANGED <<pko_fileio_sock, calls, open_fds, fsys, mixed>>
  BY LeavesIs DEF PcLeaves
<1>2. /\ pc[k].up
      /\ pc' \in Seq(Conns) /\ Len(pc') = Len(pc) /\ \A j \in 1 .. Len(pc) : j # k => pc'[j] = pc[j]
      /\ ~pc'[k].up /\ pc'[k].request = None /\ pc'[k].files = {} /\ pc'[k].reply \in {None, pc[k].reply}
  BY <1>1 DEF LeftPc, PutConn
<1>3. HostType'
  BY <1>1, <1>2 DEF HostType, sock
<1>4. ConnInv'
  <2> SUFFICES ASSUME NEW j \in 1 .. Len(pc)
               PROVE  /\ IsFiniteSet(pc'[j].files)
                      /\ pc'[j].up => j = sock'
                      /\ ~pc'[j].up => pc'[j].files = {} /\ pc'[j].request = None
    BY <1>2 DEF ConnInv
  <2>1. sock' = sock
    BY <1>1 DEF sock
  <2>2. CASE j = k
    BY <1>2, <2>2, FS_EmptySet
  <2>3. CASE j # k
    BY <1>2, <2>1, <2>3 DEF ConnInv
  <2> QED BY <2>2, <2>3
<1>5. CallInv' /\ HandleInv' /\ HostMkdir'
  <2>1. Len(pc) <= Len(pc')
    BY <1>2, <1>3 DEF HostType
  <2> QED BY <1>1, <2>1, CallsStay
<1>6. StreamInv'
  <2>1. \A c \in Callers : Of(c)' = Of(c) /\ Target(c)' = Target(c)
    BY <1>1 DEF Of, Target, sock
  <2>2. \A j \in 1 .. Len(pc) : /\ pc'[j].request \in {None, pc[j].request}
                                /\ pc'[j].reply \in {None, pc[j].reply}
    BY <1>2
  <2>4. \A j \in 1 .. Len(pc) : pc'[j].request = None \/ pc'[j].reply = None
    BY <2>2 DEF StreamInv
  <2>5. \A j \in 1 .. Len(pc) : pc'[j].reply # None =>
           \E c \in Callers : Of(c).at \in Waiting /\ j = Target(c) /\ Own(pc'[j].reply, c)
    BY <2>2 DEF StreamInv
  <2>6. \A j \in 1 .. Len(pc) : pc'[j].request # None =>
           \E c \in Callers : /\ Of(c).at \in Waiting /\ j = Target(c) /\ Own(pc'[j].request, c)
                              /\ pc'[j].request.fd = Of(c).fd
    BY <2>2 DEF StreamInv
  <2>7. /\ \A c \in Callers : Of(c).at \in Turn => ~fsys'.sema
        /\ \A c, d \in Callers : Of(c).at \in Turn /\ Of(d).at \in Turn => c = d
        /\ \A c \in Callers : Of(c).at \in Waiting => Target(c) > 0
    BY <1>1 DEF StreamInv
  <2> HIDE DEF HostBase
  <2> QED BY ONLY <1>2, <2>1, <2>4, <2>5, <2>6, <2>7 DEF StreamInv, Own
<1> QED BY <1>3, <1>4, <1>5, <1>6 DEF HostMkdir

LEMMA ConnectedKeeps ==
  ASSUME HostAssumption, HostBase, pko_file_serv
  PROVE  HostBase'
<1> USE DEF HostBase
<1> DEFINE n == Len(pc) + 1
<1>1. Connected /\ UNCHANGED <<calls, open_fds, fsys, mixed>>
  BY ConnectedIs DEF pko_file_serv
<1>2. sock \in {0, Len(pc)} /\ Len(pc) \in Nat
  BY DEF HostType
<1>3. /\ pc' \in Seq(Conns) /\ Len(pc') = n /\ sock' = n
      /\ pc'[n].up /\ pc'[n].files = {} /\ pc'[n].request = None /\ pc'[n].reply = None
      /\ \A k \in 1 .. Len(pc) : k # sock => pc'[k] = pc[k]
      /\ sock > 0 => ~pc'[sock].up /\ pc'[sock].files = {} /\ pc'[sock].request = None /\ pc'[sock].reply = None
  BY <1>1 DEF Connected
<1>4. HostType'
  BY <1>1, <1>3 DEF HostType, sock
<1>5. \A k \in 1 .. n : k = n \/ (k \in 1 .. Len(pc) /\ k = sock /\ sock > 0) \/ (k \in 1 .. Len(pc) /\ k # sock)
  BY <1>2
<1>6. ConnInv'
  <2> SUFFICES ASSUME NEW j \in 1 .. n
               PROVE  /\ IsFiniteSet(pc'[j].files)
                      /\ pc'[j].up => j = sock'
                      /\ ~pc'[j].up => pc'[j].files = {} /\ pc'[j].request = None
    BY <1>3 DEF ConnInv
  <2>1. CASE j = n
    BY <1>3, <2>1, FS_EmptySet
  <2>2. CASE j = sock /\ sock > 0
    BY <1>3, <2>2, FS_EmptySet
  <2>3. CASE j \in 1 .. Len(pc) /\ j # sock
    BY <1>3, <2>3 DEF ConnInv
  <2> QED BY <1>5, <2>1, <2>2, <2>3
<1>7. CallInv' /\ HandleInv' /\ HostMkdir'
  <2>1. Len(pc) <= Len(pc')
    BY <1>2, <1>3
  <2> QED BY <1>1, <2>1, CallsStay
<1>8. StreamInv'
  <2>1. \A c \in Callers : Of(c)' = Of(c)
    BY <1>1 DEF Of
  <2>2. \A j \in 1 .. n : pc'[j].request = None \/ pc'[j].reply = None
    BY <1>3, <1>5 DEF StreamInv
  <2>3. \A c \in Callers : Of(c).at \in Waiting => Target(c)' > 0 /\ (Target(c) # sock => Target(c)' = Target(c))
    BY <1>2, <1>3, <2>1 DEF StreamInv, Target
  <2>4. \A j \in 1 .. n : pc'[j].request # None \/ pc'[j].reply # None => j \in 1 .. Len(pc) /\ j # sock /\ pc'[j] = pc[j]
    BY <1>3, <1>5
  <2>5. \A j \in 1 .. n : pc'[j].reply # None =>
           \E c \in Callers : Of(c).at \in Waiting /\ j = Target(c)' /\ Own(pc'[j].reply, c)
    <3> SUFFICES ASSUME NEW j \in 1 .. n, pc'[j].reply # None
                 PROVE  \E c \in Callers : Of(c).at \in Waiting /\ j = Target(c)' /\ Own(pc'[j].reply, c)
      OBVIOUS
    <3>1. j \in 1 .. Len(pc) /\ j # sock /\ pc'[j] = pc[j]
      BY <2>4
    <3>2. PICK c \in Callers : Of(c).at \in Waiting /\ j = Target(c) /\ Own(pc[j].reply, c)
      BY <3>1 DEF StreamInv
    <3> QED BY <2>3, <3>1, <3>2
  <2>6. \A j \in 1 .. n : pc'[j].request # None =>
           \E c \in Callers : /\ Of(c).at \in Waiting /\ j = Target(c)' /\ Own(pc'[j].request, c)
                              /\ pc'[j].request.fd = Of(c).fd
    <3> SUFFICES ASSUME NEW j \in 1 .. n, pc'[j].request # None
                 PROVE  \E c \in Callers : /\ Of(c).at \in Waiting /\ j = Target(c)' /\ Own(pc'[j].request, c)
                                           /\ pc'[j].request.fd = Of(c).fd
      OBVIOUS
    <3>1. j \in 1 .. Len(pc) /\ j # sock /\ pc'[j] = pc[j]
      BY <2>4
    <3>2. PICK c \in Callers : Of(c).at \in Waiting /\ j = Target(c) /\ Own(pc[j].request, c) /\ pc[j].request.fd = Of(c).fd
      BY <3>1 DEF StreamInv
    <3> QED BY <2>3, <3>1, <3>2
  <2>7. /\ \A c \in Callers : Of(c).at \in Turn => ~fsys'.sema
        /\ \A c, d \in Callers : Of(c).at \in Turn /\ Of(d).at \in Turn => c = d
    BY <1>1 DEF StreamInv
  <2> HIDE DEF HostBase, n
  <2> QED BY ONLY <1>3, <2>1, <2>2, <2>3, <2>5, <2>6, <2>7 DEF StreamInv, Own
<1> QED BY <1>4, <1>6, <1>7, <1>8 DEF HostMkdir
-----------------------------------------------------------------------------
(* The caller that renames: what is remembered is its renamed file.        *)
Skipping(c, h) == Of(c).at = "after" /\ Of(c).op \in Closes /\ Of(c).h = h /\ Of(c).how = "skipped"
RenamedOk(c, h) ==
    /\ "ioctl" \in Ops[c] /\ fsys.renamed_fd = open_fds[c][h].fd
    /\ Of(c).at = "idle" \/ Skipping(c, h)
RenameInv ==
    /\ \A c \in Callers, h \in Handles : open_fds[c][h].renamed => RenamedOk(c, h)
    /\ fsys.renamed_fd \in {0, -1} \/ \E c \in Callers, h \in Handles : open_fds[c][h].renamed
    /\ \A c \in Callers : Skipping(c, Of(c).h) => Handle(c).renamed \/ Of(c).fd \in {0, -1}

LEMMA OneRenamer ==
  ASSUME RenamesAlone, CallInv, NEW c \in Callers, NEW d \in Callers, "ioctl" \in Ops[d],
         Of(c).op \in OpenCalls \cup Closes \cup {"ioctl"}
  PROVE  d = c
<1>1. Of(c).op # "none" /\ Of(c).op # "mkdir"
  BY CallSets
<1>2. Of(c).op \in Ops[c]
  BY <1>1 DEF CallInv, CallOk
<1> QED BY <1>2 DEF RenamesAlone

(* A step of a call that has the semaphore, or waits for it.               *)
LEMMA GoingRename ==
  ASSUME HostBase, RenameInv, NEW c \in Callers, Going(c), open_fds' = open_fds,
         fsys'.renamed_fd = fsys.renamed_fd
  PROVE  RenameInv'
<1>1. \A d \in Callers : d # c => calls'[d] = calls[d]
  BY DEF Going, GoesOn, OthersStay
<1>2. Of(c).at # "idle" /\ Of(c).at # "after" /\ calls'[c].how # "skipped"
  BY DEF Going, Turn
<1>3. \A h \in Handles : ~open_fds[c][h].renamed
  BY <1>2 DEF RenameInv, RenamedOk, Skipping
<1>4. ASSUME NEW d \in Callers, NEW h \in Handles, open_fds'[d][h].renamed
      PROVE  RenamedOk(d, h)'
  <2>1. d # c /\ RenamedOk(d, h)
    BY <1>3, <1>4 DEF RenameInv
  <2> QED BY <1>1, <2>1 DEF RenamedOk, Skipping, Of
<1>5. ASSUME NEW d \in Callers, Skipping(d, Of(d).h)'
      PROVE  Handle(d)'.renamed \/ Of(d)'.fd \in {0, -1}
  <2>1. d # c
    BY <1>2, <1>5 DEF Skipping, Of
  <2>2. Of(d)' = Of(d) /\ Handle(d)' = Handle(d)
    BY <1>1, <2>1 DEF Of, Handle
  <2>3. Skipping(d, Of(d).h)
    BY <1>1, <1>5, <2>1, <2>2 DEF Skipping, Of
  <2> QED BY <2>2, <2>3 DEF RenameInv
<1>6. fsys'.renamed_fd \in {0, -1} \/ \E d \in Callers, h \in Handles : open_fds'[d][h].renamed
  BY DEF RenameInv
<1> QED BY <1>4, <1>5, <1>6 DEF RenameInv

LEMMA EnterRename ==
  ASSUME HostAssumption, HostBase, RenamesAlone, RenameInv,
         NEW c \in Callers, NEW op \in AllCalls, NEW h \in Handles,
         Begins(c, op, h), Enter(c, op, h, Of(c).at = "ioman")
  PROVE  RenameInv'
<1>1. Entered(c, op, h) /\ open_fds' = open_fds /\ fsys'.renamed_fd = fsys.renamed_fd
  <2>1. Entered(c, op, h)
    BY EnterIs DEF HostBase
  <2> QED BY <2>1 DEF Entered
<1>2. \A d \in Callers : d # c => calls'[d] = calls[d]
  BY <1>1 DEF Entered, OthersStay
<1>3. ASSUME NEW k \in Handles, open_fds[c][k].renamed
      PROVE  op \in Closes /\ k = h
  <2>1. RenamedOk(c, k)
    BY <1>3 DEF RenameInv
  <2>2. Of(c).at = "idle"
    BY <2>1 DEF RenamedOk, Skipping, Begins
  <2> QED BY <1>3, <2>2 DEF Begins, MayCall
<1>4. ASSUME NEW d \in Callers, NEW k \in Handles, open_fds'[d][k].renamed
      PROVE  RenamedOk(d, k)'
  <2>1. RenamedOk(d, k)
    BY <1>1, <1>4 DEF RenameInv
  <2>2. CASE d # c
    BY <1>1, <1>2, <2>1, <2>2 DEF RenamedOk, Skipping, Of
  <2>3. CASE d = c
    <3>1. op \in Closes /\ k = h
      BY <1>1, <1>3, <1>4, <2>3
    <3>2. open_fds[c][h].fd = fsys.renamed_fd
      BY <2>1, <2>3, <3>1 DEF RenamedOk
    <3>3. calls'[c].how = "skipped" /\ calls'[c].op = op /\ calls'[c].h = h
      BY <1>1, <3>1, <3>2 DEF Entered
    <3>4. calls'[c].at = "after"
      BY <1>1, <3>3 DEF Entered
    <3> QED BY <1>1, <2>1, <2>3, <3>1, <3>3, <3>4 DEF RenamedOk, Skipping, Of
  <2> QED BY <2>2, <2>3
<1>5. ASSUME NEW d \in Callers, Skipping(d, Of(d).h)'
      PROVE  Handle(d)'.renamed \/ Of(d)'.fd \in {0, -1}
  <2>1. CASE d # c
    <3>1. Of(d)' = Of(d) /\ Handle(d)' = Handle(d)
      BY <1>1, <1>2, <2>1 DEF Of, Handle
    <3>2. Skipping(d, Of(d).h)
      BY <1>2, <1>5, <2>1, <3>1 DEF Skipping, Of
    <3> QED BY <3>1, <3>2 DEF RenameInv
  <2>2. CASE d = c
    <3>1. calls'[c].op = op /\ calls'[c].h = h /\ op \in Closes
      BY <1>1, <1>5, <2>2 DEF Entered, Skipping, Of
    <3>2. calls'[c].fd = open_fds[c][h].fd /\ open_fds[c][h].fd = fsys.renamed_fd
      <4>1. op \in OnHandle /\ op # "mkdir" /\ op # "ioctl"
        BY <3>1, CallSets
      <4>2. calls'[c].at = "after"
        BY <1>5, <2>2 DEF Skipping, Of
      <4> QED BY <1>1, <3>1, <4>1, <4>2 DEF Entered
    <3>3. CASE fsys.renamed_fd \in {0, -1}
      BY <2>2, <3>2, <3>3 DEF Of
    <3>4. CASE \E e \in Callers, k \in Handles : open_fds[e][k].renamed
      <4>1. PICK e \in Callers, k \in Handles : open_fds[e][k].renamed
        BY <3>4
      <4>2. "ioctl" \in Ops[e]
        BY <4>1 DEF RenameInv, RenamedOk
      <4>3. op \in Ops[c]
        BY <3>1, CallSets DEF Begins
      <4>4. e = c
        BY <3>1, <4>2, <4>3 DEF RenamesAlone
      <4>5. k = h
        BY <1>3, <4>1, <4>4
      <4> QED BY <1>1, <2>2, <3>1, <4>1, <4>4, <4>5 DEF Handle, Of
    <3> QED BY <3>3, <3>4 DEF RenameInv
  <2> QED BY <2>1, <2>2
<1>6. fsys'.renamed_fd \in {0, -1} \/ \E d \in Callers, k \in Handles : open_fds'[d][k].renamed
  BY <1>1 DEF RenameInv
<1> QED BY <1>4, <1>5, <1>6 DEF RenameInv

LEMMA ReturnRename ==
  ASSUME HostAssumption, HostBase, RenamesAlone, RenameInv, NEW c \in Callers, Return(c)
  PROVE  RenameInv'
<1> DEFINE h == Of(c).h
<1>1. Returned(c)
  BY ReturnIs DEF HostBase
<1>2. /\ Of(c).at = "after" /\ OthersStay(c) /\ calls'[c].op = "none" /\ calls'[c].how = ""
      /\ calls'[c].at = IF Of(c).op = "remove" THEN "ioman" ELSE "idle"
      /\ open_fds'[c][h] = NewHandle(c)
      /\ \A d \in Callers, k \in Handles : d # c \/ k # h => open_fds'[d][k] = open_fds[d][k]
      /\ fsys'.renamed_fd = IF Of(c).op \in OpenCalls \cup Closes THEN -1
                            ELSE IF Renames(c) THEN Of(c).fd ELSE fsys.renamed_fd
  BY <1>1 DEF Returned
<1>3. \A d \in Callers : d # c => calls'[d] = calls[d]
  BY <1>2 DEF OthersStay
<1>4. h \in Handles /\ Of(c).op \in AllCalls /\ Handle(c) \in FdStates /\ Of(c).ret \in Int
  <2>1. h \in Handles /\ Of(c).op \in AllCalls
    BY <1>2 DEF HostBase, CallInv, CallOk
  <2>2. Of(c).ret \in Int /\ Handle(c) \in FdStates
    BY <2>1, OfIs DEF HostBase, HostType, CallStates, Handle
  <2> QED BY <2>1, <2>2
<1>5. \A k \in Handles : open_fds[c][k].renamed => Of(c).op \in Closes /\ k = h
  BY <1>2 DEF RenameInv, RenamedOk, Skipping
<1>6. ASSUME Of(c).op \in OpenCalls \cup Closes \cup {"ioctl"}, NEW d \in Callers, NEW k \in Handles,
             open_fds[d][k].renamed
      PROVE  d = c /\ k = h /\ Of(c).op \in Closes
  <2>1. "ioctl" \in Ops[d]
    BY <1>6 DEF RenameInv, RenamedOk
  <2>2. d = c
    BY <1>6, <2>1, OneRenamer DEF HostBase
  <2> QED BY <1>5, <1>6, <2>2
<1>7. ASSUME NEW d \in Callers, Skipping(d, Of(d).h)'
      PROVE  Handle(d)'.renamed \/ Of(d)'.fd \in {0, -1}
  <2>1. d # c
    BY <1>2, <1>7 DEF Skipping, Of
  <2>2. Of(d)' = Of(d)
    BY <1>3, <2>1 DEF Of
  <2>3. Skipping(d, Of(d).h)
    BY <1>7, <2>2 DEF Skipping
  <2>4. Of(d).h \in Handles
    BY <2>3, CallSets DEF Skipping, HostBase, CallInv, CallOk
  <2>5. Handle(d)' = Handle(d)
    BY <1>2, <2>1, <2>2, <2>4 DEF Handle
  <2> QED BY <2>2, <2>3, <2>5 DEF RenameInv
<1>8. CASE Of(c).op \in OpenCalls \cup Closes
  <2>1. ~NewHandle(c).renamed
    <3>1. Of(c).op \in Closes \/ ~Handle(c).renamed
      BY <1>4, <1>5 DEF Handle
    <3>2. Of(c).op \notin Closes => Of(c).op # "ioctl"
      BY <1>8, CallSets
    <3> QED BY <1>8, <3>1, <3>2, CallSets DEF NewHandle, Closed
  <2>2. \A d \in Callers, k \in Handles : ~open_fds'[d][k].renamed
    BY <1>2, <1>6, <1>8, <2>1
  <2>3. fsys'.renamed_fd = -1
    BY <1>2, <1>8
  <2> QED BY <1>7, <2>2, <2>3 DEF RenameInv
<1>9. CASE Renames(c)
  <2>1. Of(c).op = "ioctl" /\ Of(c).op \notin OpenCalls \cup Closes /\ Of(c).op # "remove"
    BY <1>9, CallSets DEF Renames
  <2>2. NewHandle(c) = [Handle(c) EXCEPT !.renamed = Of(c).ret \in {0, -6}] /\ Of(c).ret \in {0, -6}
    BY <1>9, <2>1 DEF NewHandle, Renames
  <2>3. NewHandle(c).renamed /\ NewHandle(c).fd = Handle(c).fd
    BY <1>4, <2>2 DEF FdStates
  <2>4. Of(c).fd = Handle(c).fd /\ fsys'.renamed_fd = Of(c).fd
    BY <1>2, <1>9, <2>1, CallSets DEF HostBase, HandleInv
  <2>5. "ioctl" \in Ops[c] /\ calls'[c].at = "idle"
    <3>1. "ioctl" \in Ops[c]
      BY <1>2, <2>1 DEF HostBase, CallInv, CallOk
    <3> QED BY <1>2, <2>1, <3>1
  <2>6. ASSUME NEW d \in Callers, NEW k \in Handles, open_fds'[d][k].renamed
        PROVE  RenamedOk(d, k)'
    <3>1. d = c /\ k = h
      BY <1>2, <1>6, <2>1, <2>6
    <3> QED BY <1>2, <2>3, <2>4, <2>5, <3>1 DEF RenamedOk, Of
  <2>7. open_fds'[c][h].renamed
    BY <1>2, <2>3
  <2> QED BY <1>4, <1>7, <2>6, <2>7 DEF RenameInv
<1>10. CASE Of(c).op \notin OpenCalls \cup Closes /\ ~Renames(c)
  <2>1. ~NewHandle(c).renamed
    <3>1. ~Handle(c).renamed
      BY <1>4, <1>5, <1>10 DEF Handle
    <3>2. CASE Of(c).op = "ioctl" /\ Of(c).how # "skipped"
      <4>1. Of(c).ret \notin {0, -6}
        BY <1>10, <3>2 DEF Renames
      <4> DEFINE r == Of(c).ret \in {0, -6}
      <4>2. NewHandle(c) = [Handle(c) EXCEPT !.renamed = r] /\ ~r /\ r \in BOOLEAN
        BY <1>10, <3>2, <4>1 DEF NewHandle
      <4> HIDE DEF r
      <4> QED BY <1>4, <4>2 DEF FdStates
    <3>3. CASE ~(Of(c).op = "ioctl" /\ Of(c).how # "skipped")
      BY <1>10, <3>1, <3>3 DEF NewHandle
    <3> QED BY <3>2, <3>3
  <2>2. fsys'.renamed_fd = fsys.renamed_fd
    BY <1>2, <1>10
  <2>3. \A k \in Handles : ~open_fds[c][k].renamed /\ ~open_fds'[c][k].renamed
    BY <1>2, <1>5, <1>10, <2>1
  <2>4. ASSUME NEW d \in Callers, NEW k \in Handles, open_fds'[d][k].renamed
        PROVE  RenamedOk(d, k)'
    <3>1. d # c /\ open_fds'[d][k] = open_fds[d][k]
      BY <1>2, <2>3, <2>4
    <3>2. RenamedOk(d, k)
      BY <2>4, <3>1 DEF RenameInv
    <3> QED BY <1>3, <2>2, <3>1, <3>2 DEF RenamedOk, Skipping, Of
  <2>5. fsys'.renamed_fd \in {0, -1} \/ \E d \in Callers, k \in Handles : open_fds'[d][k].renamed
    BY <1>2, <2>2, <2>3 DEF RenameInv
  <2> QED BY <1>7, <2>4, <2>5 DEF RenameInv
<1> QED BY <1>8, <1>9, <1>10

LEMMA StillRename ==
  ASSUME RenameInv, UNCHANGED <<calls, open_fds, fsys>>
  PROVE  RenameInv'
BY DEF RenameInv, RenamedOk, Skipping, Handle, Of
-----------------------------------------------------------------------------
(* The files of the PC and the handles, while the connection is up and no  *)
(* handle was used on another one.                                         *)
live == sock > 0 /\ pc[sock].up
FileOf(n, c, h) == [fd |-> n, by |-> <<c, h>>]
Told(c) ==
    \/ Of(c).at \in Waiting /\ pc[sock].reply # None
    \/ Of(c).at = "after" /\ Of(c).how = "reply"
Said(c) == IF Of(c).at = "after" THEN Of(c).ret ELSE pc[sock].reply.fd
Gone(c) == Told(c) /\ (Of(c).op \in Closes \/ (Of(c).op = "ioctl" /\ Said(c) \in {0, -6}))
Sent(c) == Of(c).at \in Waiting \/ (Of(c).at = "after" /\ Of(c).how # "skipped")

SentOnNewest(c) == Of(c).op = "ioctl" /\ Sent(c) => \A h \in Handles : open_fds[c][h].on <= Handle(c).on
OwnedBy(f, c, h) ==
    \/ ~open_fds[c][h].renamed /\ open_fds[c][h].on = sock /\ open_fds[c][h].fd = f.fd
    \/ /\ Of(c).op \in OpenCalls /\ Of(c).h = h /\ Told(c) /\ Said(c) = f.fd
       /\ Of(c).at = "after" => Of(c).on = sock
Kept(c, h) ==
    ~open_fds[c][h].renamed /\ open_fds[c][h].on = sock =>
        FileOf(open_fds[c][h].fd, c, h) \in pc[sock].files \/ (Of(c).h = h /\ Gone(c))
CallFiles(c) ==
    /\ Gone(c) /\ Handle(c).on = sock =>
          /\ FileOf(Handle(c).fd, c, Of(c).h) \notin pc[sock].files
          /\ Of(c).op = "ioctl" => Untaken(Handle(c).fd, pc[sock].files)
    /\ Of(c).op \in OpenCalls /\ Of(c).at = "after" /\ Of(c).on = sock /\ Of(c).ret >= 0 =>
          FileOf(Of(c).ret, c, Of(c).h) \in pc[sock].files
    /\ Of(c).op \in OpenCalls /\ Of(c).at \in Waiting /\ pc[sock].reply # None /\ pc[sock].reply.fd >= 0 =>
          FileOf(pc[sock].reply.fd, c, Of(c).h) \in pc[sock].files
    /\ Of(c).op \in OnHandle /\ Handle(c).on = sock =>
          /\ Of(c).at = "receive" => Of(c).on = sock
          /\ Of(c).at = "after" => Of(c).how \in {"skipped", "reply"}
    /\ Of(c).op \in OnHandle /\ Of(c).at \in Waiting /\ (pc[sock].request # None \/ pc[sock].reply # None) =>
          Handle(c).on = sock
FilesLive ==
    /\ \A f, g \in pc[sock].files : f.fd = g.fd => f = g
    /\ Untaken(fsys.renamed_fd, pc[sock].files)
    /\ \A f \in pc[sock].files, c \in Callers, h \in Handles : f.by = <<c, h>> =>
          OwnedBy(f, c, h) /\ \A d \in Callers : "ioctl" \in Ops[d] => d = c
    /\ \A c \in Callers, h \in Handles : Kept(c, h)
    /\ \A c \in Callers : CallFiles(c)
FilesInv == (\A c \in Callers : SentOnNewest(c)) /\ (live => FilesLive)

(* One call moves; the files, the handles and what is remembered stay.     *)
UnmovedFiles(c) ==
    /\ open_fds' = open_fds /\ sock' = sock /\ fsys'.renamed_fd = fsys.renamed_fd /\ OthersStay(c)
    /\ pc'[sock].files = pc[sock].files
    /\ \A d \in Callers : d # c /\ Of(d).at \in Waiting => pc'[sock] = pc[sock]
LEMMA MovedFiles ==
  ASSUME FilesInv, NEW c \in Callers, UnmovedFiles(c), live, SentOnNewest(c)',
         \A f \in pc[sock].files, h \in Handles : f.by = <<c, h>> => OwnedBy(f, c, h)',
         \A h \in Handles : Kept(c, h)', CallFiles(c)'
  PROVE  FilesInv'
<1>1. /\ open_fds' = open_fds /\ sock' = sock /\ fsys'.renamed_fd = fsys.renamed_fd
      /\ pc'[sock].files = pc[sock].files
      /\ \A d \in Callers : d # c => calls'[d] = calls[d]
      /\ \A d \in Callers : d # c /\ Of(d).at \in Waiting => pc'[sock] = pc[sock]
  BY DEF UnmovedFiles, OthersStay
<1>2. FilesLive
  BY DEF FilesInv
<1>3. ASSUME NEW d \in Callers, d # c
      PROVE  /\ Of(d)' = Of(d) /\ Handle(d)' = Handle(d)
             /\ (Told(d)' <=> Told(d)) /\ (Told(d) => Said(d)' = Said(d)) /\ (Gone(d)' <=> Gone(d))
             /\ (Sent(d)' <=> Sent(d))
  <2>1. Of(d)' = Of(d) /\ Handle(d)' = Handle(d)
    BY <1>1, <1>3 DEF Of, Handle
  <2>2. Told(d)' <=> Told(d)
    BY <1>1, <1>3, <2>1 DEF Told
  <2>3. Told(d) => Said(d)' = Said(d)
    BY <1>1, <1>3, <2>1 DEF Told, Said
  <2>4. Gone(d)' <=> Gone(d)
    BY <2>1, <2>2, <2>3 DEF Gone
  <2> QED BY <2>1, <2>2, <2>3, <2>4 DEF Sent
<1>4. ASSUME NEW d \in Callers
      PROVE  SentOnNewest(d)'
  <2>1. CASE d # c
    BY <1>1, <1>3, <2>1 DEF FilesInv, SentOnNewest
  <2> QED BY <2>1
<1>5. ASSUME NEW f \in pc[sock].files, NEW d \in Callers, NEW h \in Handles, f.by = <<d, h>>
      PROVE  OwnedBy(f, d, h)' /\ \A e \in Callers : "ioctl" \in Ops[e] => e = d
  <2>1. OwnedBy(f, d, h) /\ \A e \in Callers : "ioctl" \in Ops[e] => e = d
    BY <1>2, <1>5 DEF FilesLive
  <2>2. CASE d # c
    BY <1>1, <1>3, <2>1, <2>2 DEF OwnedBy
  <2>3. CASE d = c
    BY <1>5, <2>1, <2>3
  <2> QED BY <2>2, <2>3
<1>6. ASSUME NEW d \in Callers, NEW h \in Handles
      PROVE  Kept(d, h)'
  <2>1. CASE d # c
    <3>1. Kept(d, h)
      BY <1>2 DEF FilesLive
    <3> QED BY <1>1, <1>3, <2>1, <3>1 DEF Kept
  <2> QED BY <2>1
<1>7. ASSUME NEW d \in Callers
      PROVE  CallFiles(d)'
  <2>1. CASE d # c
    <3>1. CallFiles(d) /\ Of(d)' = Of(d) /\ Handle(d)' = Handle(d) /\ (Gone(d)' <=> Gone(d))
      BY <1>2, <1>3, <2>1 DEF FilesLive
    <3>2. Of(d).at \in Waiting => pc'[sock] = pc[sock]
      BY <1>1, <2>1
    <3> QED BY ONLY <1>1, <3>1, <3>2 DEF CallFiles
  <2> QED BY <2>1
<1>8. Untaken(fsys.renamed_fd, pc[sock].files)'
  BY <1>1, <1>2 DEF FilesLive, Untaken
<1>9. \A f, g \in pc'[sock].files : f.fd = g.fd => f = g
  BY <1>1, <1>2 DEF FilesLive
<1>10. FilesLive'
  BY <1>1, <1>5, <1>6, <1>7, <1>8, <1>9 DEF FilesLive
<1> QED BY <1>4, <1>10 DEF FilesInv

(* With the connection gone, all that is left is about the renaming calls. *)
LEMMA DeadFiles ==
  ASSUME FilesInv, NEW c \in Callers, OthersStay(c), open_fds' = open_fds, ~live', SentOnNewest(c)'
  PROVE  FilesInv'
<1>1. \A d \in Callers : d # c => calls'[d] = calls[d]
  BY DEF OthersStay
<1>2. \A d \in Callers : d # c => SentOnNewest(d)'
  BY <1>1 DEF FilesInv, SentOnNewest, Sent, Handle, Of
<1> QED BY <1>2 DEF FilesInv

(* Whom a message on the stream belongs to.                                *)
LEMMA InTransit ==
  ASSUME StreamInv, NEW c \in Callers, Of(c).at \in Turn, sock \in 1 .. Len(pc),
         pc[sock].request # None \/ pc[sock].reply # None
  PROVE  /\ Of(c).at \in Waiting /\ sock = Target(c)
         /\ pc[sock].request # None => Own(pc[sock].request, c) /\ pc[sock].request.fd = Of(c).fd
         /\ pc[sock].reply # None => Own(pc[sock].reply, c)
<1>1. \A d \in Callers : Of(d).at \in Waiting => d = c
  BY DEF StreamInv, Waiting, Turn
<1> QED BY <1>1 DEF StreamInv

LEMMA LiveIs ==
  ASSUME HostType, live
  PROVE  sock \in 1 .. Len(pc) /\ sock = Len(pc) /\ sock > 0
<1>1. sock \in {0, Len(pc)} /\ Len(pc) \in Nat /\ sock > 0
  BY DEF HostType, live
<1> QED BY ONLY <1>1

LEMMA EnterFiles ==
  ASSUME HostAssumption, HostBase, FilesInv, NEW c \in Callers, NEW op \in AllCalls, NEW h \in Handles,
         Begins(c, op, h), Enter(c, op, h, Of(c).at = "ioman")
  PROVE  FilesInv'
<1>1. Entered(c, op, h)
  BY EnterIs DEF HostBase
<1>2. /\ UNCHANGED <<pko_fileio_sock, pc, open_fds>> /\ OthersStay(c) /\ fsys'.renamed_fd = fsys.renamed_fd
      /\ calls'[c].on = 0
      /\ calls'[c].at = "wait" \/ (calls'[c].at = "after" /\ calls'[c].how = "skipped")
  BY <1>1 DEF Entered
<1>3. sock' = sock
  BY <1>2 DEF sock
<1>4. Of(c).op = "none"
  BY DEF Begins, HostBase, CallInv, CallOk
<1>5. ~Sent(c)' /\ ~Told(c)' /\ ~Gone(c)' /\ calls'[c].at \notin Waiting
  BY <1>2 DEF Sent, Told, Gone, Waiting, Of
<1>6. SentOnNewest(c)'
  BY <1>5 DEF SentOnNewest
<1>7. CASE live
  <2>1. UnmovedFiles(c)
    BY <1>2, <1>3 DEF UnmovedFiles
  <2>2. FilesLive /\ sock > 0
    BY <1>7 DEF FilesInv, live
  <2>3. ~Gone(c) /\ Of(c).op \notin OpenCalls
    BY <1>4, CallSets DEF Gone
  <2>4. \A f \in pc[sock].files, k \in Handles : f.by = <<c, k>> => OwnedBy(f, c, k)'
    BY <1>2, <1>3, <2>2, <2>3 DEF FilesLive, OwnedBy
  <2>5. \A k \in Handles : Kept(c, k)'
    BY <1>2, <1>3, <2>2, <2>3 DEF FilesLive, Kept
  <2>6. CallFiles(c)'
    BY <1>2, <1>3, <1>5, <2>2 DEF CallFiles, Of
  <2> QED BY <1>6, <1>7, <2>1, <2>4, <2>5, <2>6, MovedFiles
<1>8. CASE ~live
  <2>1. ~live'
    BY <1>2, <1>3, <1>8 DEF live
  <2> QED BY <1>2, <1>6, <2>1, DeadFiles
<1> QED BY <1>7, <1>8

LEMMA TakesFiles ==
  ASSUME HostAssumption, HostBase, FilesInv, NEW c \in Callers, Takes(c)
  PROVE  FilesInv'
<1>1. GoesOn(c) /\ calls'[c].at = "send" /\ calls'[c].on = Of(c).on /\ SameMemory
  BY TakesIs DEF HostBase
<1>2. Of(c).at = "wait" /\ UNCHANGED <<pko_fileio_sock, pc, open_fds>>
  BY DEF Takes
<1>3. sock' = sock /\ OthersStay(c) /\ fsys'.renamed_fd = fsys.renamed_fd
  BY <1>1, <1>2 DEF sock, GoesOn, SameMemory
<1>4. ~Told(c) /\ ~Gone(c)
  BY <1>2 DEF Told, Gone, Waiting
<1>5. ~Sent(c)' /\ ~Told(c)' /\ ~Gone(c)' /\ calls'[c].at \notin Waiting
  BY <1>1 DEF Sent, Told, Gone, Waiting, Of
<1>6. SentOnNewest(c)'
  BY <1>5 DEF SentOnNewest
<1>7. CASE live
  <2>1. UnmovedFiles(c)
    BY <1>2, <1>3 DEF UnmovedFiles
  <2>2. FilesLive
    BY <1>7 DEF FilesInv
  <2>3. \A f \in pc[sock].files, k \in Handles : f.by = <<c, k>> => OwnedBy(f, c, k)'
    BY <1>2, <1>3, <1>4, <2>2 DEF FilesLive, OwnedBy
  <2>4. \A k \in Handles : Kept(c, k)'
    BY <1>2, <1>3, <1>4, <2>2 DEF FilesLive, Kept
  <2>5. CallFiles(c)'
    BY <1>1, <1>2, <1>3, <1>5 DEF CallFiles, Of
  <2> QED BY <1>6, <1>7, <2>1, <2>3, <2>4, <2>5, MovedFiles
<1>8. CASE ~live
  <2>1. ~live'
    BY <1>2, <1>3, <1>8 DEF live
  <2> QED BY <1>2, <1>3, <1>6, <2>1, DeadFiles
<1> QED BY <1>7, <1>8

LEMMA SendFiles ==
  ASSUME HostAssumption, HostBase, FilesInv, ~mixed', NEW c \in Callers, pko_lwip_send(c)
  PROVE  FilesInv'
<1>1. /\ SendRefused(c) \/ SentOff(c)
      /\ open_fds' = open_fds /\ (Of(c).op \in OnHandle => Handle(c).on = sock)
  BY SendIs DEF HostBase
<1>2. Of(c).at = "send"
  BY DEF pko_lwip_send
<1>3. GoesOn(c) /\ OthersStay(c) /\ fsys'.renamed_fd = fsys.renamed_fd
  BY <1>1 DEF SendRefused, SentOff, GoesOn, SameMemory
<1>4. /\ sock \in {0, Len(pc)} /\ Len(pc) \in Nat
      /\ \A h \in Handles : open_fds[c][h].on <= Len(pc)
      /\ Of(c).op \in OnHandle => Handle(c).on > 0
  BY DEF HostBase, HostType, HandleInv
<1>5. SentOnNewest(c)'
  <2> SUFFICES ASSUME calls'[c].op = "ioctl"
               PROVE  \A h \in Handles : open_fds'[c][h].on <= Handle(c)'.on
    BY DEF SentOnNewest, Of
  <2>1. calls'[c].op = Of(c).op /\ calls'[c].h = Of(c).h
    BY <1>3 DEF GoesOn
  <2>2. Handle(c)' = Handle(c)
    BY <1>1, <2>1 DEF Handle, Of
  <2>3. Of(c).op \in OnHandle
    BY <2>1, CallSets
  <2>4. Handle(c).on = Len(pc)
    BY <1>1, <1>4, <2>3
  <2> QED BY <1>1, <1>4, <2>2, <2>4
<1>6. CASE SendRefused(c)
  <2>1. ~live'
    BY <1>6 DEF SendRefused, live
  <2> QED BY <1>1, <1>3, <1>5, <2>1, DeadFiles
<1>7. CASE SentOff(c) /\ ~live
  <2>1. ~live'
    BY <1>7 DEF SentOff, live
  <2> QED BY <1>1, <1>3, <1>5, <2>1, DeadFiles
<1>8. CASE SentOff(c) /\ live
  <2>1. sock \in 1 .. Len(pc) /\ sock > 0
    BY <1>8, LiveIs DEF HostBase
  <2>2. \A d \in Callers : d # c => Of(d).at \notin Turn
    BY <1>2, TurnIs DEF Turn, HostBase
  <2>3. pc[sock].reply = None
    <3>1. QuietStream
      BY <1>2, <2>2, QuietIs DEF HostBase, Waiting, Turn
    <3> QED BY <2>1, <3>1 DEF QuietStream
  <2>4. /\ sock' = sock /\ pc'[sock].files = pc[sock].files /\ pc'[sock].reply = None
        /\ calls'[c].at = "sent"
    BY <1>8, <2>3 DEF SentOff, live
  <2>5. UnmovedFiles(c)
    BY <1>1, <1>3, <2>2, <2>4 DEF UnmovedFiles, Waiting, Turn
  <2>6. ~Told(c) /\ ~Gone(c) /\ ~Told(c)' /\ ~Gone(c)'
    BY <1>2, <2>4 DEF Told, Gone, Waiting, Of
  <2>7. FilesLive
    BY <1>8 DEF FilesInv
  <2>8. \A f \in pc[sock].files, k \in Handles : f.by = <<c, k>> => OwnedBy(f, c, k)'
    BY <1>1, <2>4, <2>6, <2>7 DEF FilesLive, OwnedBy
  <2>9. \A k \in Handles : Kept(c, k)'
    BY <1>1, <2>4, <2>6, <2>7 DEF FilesLive, Kept
  <2>10. CallFiles(c)'
    <3>1. calls'[c].op = Of(c).op /\ Handle(c)' = Handle(c)
      BY <1>1, <1>3 DEF GoesOn, Handle, Of
    <3>2. calls'[c].op \in OnHandle => Handle(c)'.on = sock'
      BY <1>1, <2>4, <3>1
    <3> QED BY <2>4, <2>6, <3>2 DEF CallFiles, Of
  <2> QED BY <1>5, <1>8, <2>5, <2>8, <2>9, <2>10, MovedFiles
<1> QED BY <1>1, <1>6, <1>7, <1>8

LEMMA ReceiveFiles ==
  ASSUME HostAssumption, HostBase, FilesInv, NEW c \in Callers, pko_recv_bytes(c)
  PROVE  FilesInv'
<1>1. GoesOn(c) /\ calls'[c].at = "receive" /\ calls'[c].on = sock
  BY ReceiveIs DEF HostBase
<1>2. Of(c).at = "sent" /\ UNCHANGED <<pko_fileio_sock, pc, open_fds, fsys>>
  BY DEF pko_recv_bytes
<1>3. /\ sock' = sock /\ OthersStay(c) /\ fsys'.renamed_fd = fsys.renamed_fd /\ calls'[c].op = Of(c).op
      /\ calls'[c].h = Of(c).h /\ Handle(c)' = Handle(c)
  BY <1>1, <1>2 DEF sock, GoesOn, Handle, Of
<1>4. (Told(c)' <=> Told(c)) /\ Said(c)' = Said(c) /\ Sent(c)
  BY <1>1, <1>2, <1>3 DEF Told, Said, Sent, Waiting, Of
<1>5. Gone(c)' <=> Gone(c)
  BY <1>3, <1>4 DEF Gone, Of
<1>6. SentOnNewest(c)'
  BY <1>2, <1>3, <1>4 DEF FilesInv, SentOnNewest, Of
<1>7. CASE live
  <2>1. UnmovedFiles(c)
    BY <1>2, <1>3 DEF UnmovedFiles
  <2>2. FilesLive
    BY <1>7 DEF FilesInv
  <2>3. \A f \in pc[sock].files, k \in Handles : f.by = <<c, k>> => OwnedBy(f, c, k)'
    BY <1>1, <1>2, <1>3, <1>4, <2>2 DEF FilesLive, OwnedBy, Of
  <2>4. \A k \in Handles : Kept(c, k)'
    BY <1>2, <1>3, <1>5, <2>2 DEF FilesLive, Kept, Of
  <2>5. CallFiles(c)'
    <3>1. CallFiles(c)
      BY <2>2 DEF FilesLive
    <3>2. calls'[c].at \in Waiting /\ Of(c).at \in Waiting /\ calls'[c].at # "after"
      BY <1>1, <1>2 DEF Waiting
    <3> QED BY ONLY <1>1, <1>2, <1>3, <1>5, <3>1, <3>2 DEF CallFiles, Of
  <2> QED BY <1>6, <1>7, <2>1, <2>3, <2>4, <2>5, MovedFiles
<1>8. CASE ~live
  <2>1. ~live'
    BY <1>2, <1>3, <1>8 DEF live
  <2> QED BY <1>2, <1>3, <1>6, <2>1, DeadFiles
<1> QED BY <1>7, <1>8

LEMMA AcceptFiles ==
  ASSUME HostAssumption, HostBase, FilesInv, NEW c \in Callers, pko_accept_pkt(c)
  PROVE  FilesInv'
<1> DEFINE k == Of(c).on
<1>1. /\ ReplyTaken(c) \/ StreamEnded(c)
      /\ UNCHANGED <<pko_fileio_sock, open_fds, mixed>>
      /\ k \in 1 .. Len(pc)
  BY AcceptIs DEF HostBase
<1>2. Of(c).at = "receive"
  BY DEF pko_accept_pkt
<1>3. GoesOn(c) /\ SameMemory
  BY <1>1 DEF ReplyTaken, StreamEnded
<1>4. /\ sock' = sock /\ OthersStay(c) /\ fsys'.renamed_fd = fsys.renamed_fd /\ calls'[c].op = Of(c).op
      /\ calls'[c].h = Of(c).h /\ Handle(c)' = Handle(c) /\ open_fds' = open_fds
  BY <1>1, <1>3 DEF sock, GoesOn, SameMemory, Handle, Of
<1>5. SentOnNewest(c)'
  <2>1. Sent(c)
    BY <1>2 DEF Sent, Waiting
  <2> QED BY <1>4, <2>1 DEF FilesInv, SentOnNewest, Of
<1>6. \A d \in Callers : d # c => Of(d).at \notin Waiting
  BY <1>2, TurnIs DEF Turn, Waiting, HostBase
<1>7. CASE ~live
  <2>1. ~live'
    <3>1. CASE ReplyTaken(c)
      <4>1. /\ \A j \in 1 .. Len(pc) : j # k => pc'[j] = pc[j]
            /\ (pc'[k].up <=> pc[k].up)
        BY <3>1 DEF ReplyTaken, PutConn
      <4>2. sock > 0 => sock \in 1 .. Len(pc)
        <5>1. sock \in {0, Len(pc)} /\ Len(pc) \in Nat
          BY DEF HostBase, HostType
        <5> QED BY ONLY <5>1
      <4> HIDE DEF k
      <4> QED BY <1>4, <1>7, <4>1, <4>2 DEF live
    <3>2. CASE StreamEnded(c)
      BY <1>4, <1>7, <3>2 DEF StreamEnded, live
    <3> QED BY <1>1, <3>1, <3>2
  <2> QED BY <1>4, <1>5, <2>1, DeadFiles
<1>8. CASE live /\ k = sock
  <2>1. ReplyTaken(c)
    BY <1>1, <1>8 DEF StreamEnded, live
  <2>2. FilesLive
    BY <1>8 DEF FilesInv
  <2>3. /\ pc[sock].reply # None /\ pc'[sock].files = pc[sock].files
    BY <1>8, <2>1 DEF ReplyTaken
  <2>4. UnmovedFiles(c)
    BY <1>4, <1>6, <2>3 DEF UnmovedFiles
  <2>5. Told(c) /\ Said(c) = pc[sock].reply.fd
    BY <1>2, <2>3 DEF Told, Said, Waiting
  <2>6. CASE /\ calls'[c].at = "after" /\ calls'[c].how = "reply" /\ calls'[c].ret = pc[sock].reply.fd
             /\ calls'[c].on = sock
    <3>1. Told(c)' /\ Said(c)' = Said(c)
      BY <2>5, <2>6 DEF Told, Said, Of
    <3>2. Gone(c)' <=> Gone(c)
      BY <1>4, <2>5, <3>1 DEF Gone, Of
    <3>3. \A f \in pc[sock].files, h \in Handles : f.by = <<c, h>> => OwnedBy(f, c, h)'
      BY <1>4, <2>2, <2>6, <3>1 DEF FilesLive, OwnedBy, Of
    <3>4. \A h \in Handles : Kept(c, h)'
      BY <1>4, <2>2, <2>3, <3>2 DEF FilesLive, Kept, Of
    <3>5. CallFiles(c)'
      <4>1. CallFiles(c)
        BY <2>2 DEF FilesLive
      <4>2. Of(c).at \in Waiting /\ calls'[c].at \notin Waiting /\ calls'[c].at # "receive"
        BY <1>2, <2>6 DEF Waiting
      <4> QED BY ONLY <1>4, <2>3, <2>6, <3>2, <4>1, <4>2 DEF CallFiles, Of
    <3> QED BY <1>5, <1>8, <2>4, <3>3, <3>4, <3>5, MovedFiles
  <2>7. CASE Of(c).op = "write" /\ calls'[c].at = "send"
    <3>1. /\ Of(c).op \notin OpenCalls \cup Closes \cup {"ioctl"} /\ ~Gone(c) /\ ~Gone(c)'
      BY <1>4, <2>7 DEF Gone, OpenCalls, Closes, Of
    <3>2. \A f \in pc[sock].files, h \in Handles : f.by = <<c, h>> => OwnedBy(f, c, h)'
      BY <1>4, <2>2, <3>1 DEF FilesLive, OwnedBy
    <3>3. \A h \in Handles : Kept(c, h)'
      BY <1>4, <2>2, <2>3, <3>1 DEF FilesLive, Kept
    <3>4. CallFiles(c)'
      BY <1>4, <2>7, <3>1 DEF CallFiles, Waiting, Of
    <3> QED BY <1>5, <1>8, <2>4, <3>2, <3>3, <3>4, MovedFiles
  <2>8. \/ Of(c).op = "write" /\ calls'[c].at = "send"
        \/ /\ calls'[c].at = "after" /\ calls'[c].how = "reply" /\ calls'[c].ret = pc[k].reply.fd
           /\ calls'[c].on = k
    BY <2>1 DEF ReplyTaken
  <2> QED BY <1>8, <2>6, <2>7, <2>8
<1>9. CASE live /\ k # sock
  <2>1. sock \in 1 .. Len(pc)
    BY <1>9, LiveIs DEF HostBase
  <2>2. pc'[sock] = pc[sock]
    <3>1. CASE ReplyTaken(c)
      BY <1>9, <2>1, <3>1 DEF ReplyTaken, PutConn
    <3>2. CASE StreamEnded(c)
      BY <3>2 DEF StreamEnded
    <3> QED BY <1>1, <3>1, <3>2
  <2>3. FilesLive /\ CallFiles(c)
    BY <1>9 DEF FilesInv, FilesLive
  <2>4. UnmovedFiles(c)
    BY <1>4, <2>2 DEF UnmovedFiles
  <2>5. ~Told(c) /\ ~Gone(c)
    <3>1. Target(c) = k /\ Of(c).at \in Turn
      BY <1>2 DEF Target, Turn
    <3>2. pc[sock].reply = None
      BY <1>9, <2>1, <3>1, InTransit DEF HostBase
    <3> QED BY <1>2, <3>2 DEF Told, Gone
  <2>6. Of(c).op \in OnHandle => Handle(c).on # sock
    BY <1>2, <1>9, <2>3 DEF CallFiles
  <2>7. Gone(c)' => Of(c).op \in OnHandle
    BY <1>4, CallSets DEF Gone, Of
  <2>8. calls'[c].on # sock /\ calls'[c].at \notin Waiting
    BY <1>1, <1>9 DEF ReplyTaken, StreamEnded, Waiting
  <2>9. \A f \in pc[sock].files, h \in Handles : f.by = <<c, h>> => OwnedBy(f, c, h)'
    BY <1>4, <2>3, <2>5 DEF FilesLive, OwnedBy
  <2>10. \A h \in Handles : Kept(c, h)'
    BY <1>4, <2>2, <2>3, <2>5 DEF FilesLive, Kept
  <2>11. CallFiles(c)'
    BY ONLY <1>4, <2>2, <2>6, <2>7, <2>8 DEF CallFiles, Of
  <2> QED BY <1>5, <1>9, <2>4, <2>9, <2>10, <2>11, MovedFiles
<1> QED BY <1>7, <1>8, <1>9

LEMMA LeavesFiles ==
  ASSUME HostAssumption, HostBase, FilesInv, NEW k \in 1 .. Len(pc), PcLeaves(k)
  PROVE  FilesInv'
<1>1. LeftPc(k) /\ calls' = calls /\ open_fds' = open_fds /\ sock' = sock
  BY LeavesIs DEF PcLeaves, HostBase, sock
<1>2. ~live'
  BY <1>1 DEF LeftPc, HostBase, ConnInv, live
<1>3. \A c \in Callers : SentOnNewest(c)'
  BY <1>1 DEF FilesInv, SentOnNewest, Sent, Handle, Of
<1> QED BY <1>2, <1>3 DEF FilesInv

LEMMA ConnectedFiles ==
  ASSUME HostAssumption, HostBase, FilesInv, pko_file_serv
  PROVE  FilesInv'
<1> DEFINE n == Len(pc) + 1
<1>1. Connected /\ calls' = calls /\ open_fds' = open_fds
  BY ConnectedIs DEF pko_file_serv, HostBase
<1>2. sock' = n /\ pc'[n].files = {} /\ pc'[n].reply = None /\ pc'[n].request = None /\ Len(pc) \in Nat
  BY <1>1 DEF Connected, HostBase, HostType
<1>3. \A c \in Callers : SentOnNewest(c)'
  BY <1>1 DEF FilesInv, SentOnNewest, Sent, Handle, Of
<1>4. \A c \in Callers, h \in Handles : open_fds[c][h].on # n
  <2> SUFFICES ASSUME NEW c \in Callers, NEW h \in Handles
               PROVE  open_fds[c][h].on # n
    OBVIOUS
  <2>1. open_fds[c][h].on <= Len(pc)
    BY DEF HostBase, HandleInv
  <2>2. open_fds[c][h].on \in Nat
    BY DEF HostBase, HostType, FdStates
  <2> QED BY ONLY <1>2, <2>1, <2>2
<1>5. \A c \in Callers : Of(c).on # n
  <2> SUFFICES ASSUME NEW c \in Callers
               PROVE  Of(c).on # n
    OBVIOUS
  <2>1. Of(c).on <= Len(pc) /\ Of(c).on \in Nat
    BY OfIs DEF HostBase, CallInv, CallOk, CallStates
  <2> QED BY ONLY <1>2, <2>1
<1> HIDE DEF n
<1>6. \A c \in Callers, h \in Handles : Kept(c, h)'
  BY <1>1, <1>2, <1>4 DEF Kept
<1>7. ASSUME NEW c \in Callers
      PROVE  CallFiles(c)'
  <2>1. Of(c)' = Of(c) /\ Handle(c)' = Handle(c)
    BY <1>1 DEF Of, Handle
  <2>2. Gone(c)' => Of(c).op \in OnHandle
    BY <2>1, CallSets DEF Gone
  <2>3. Of(c).op \in OnHandle => Handle(c).on # n
    <3>1. Of(c).op \in OnHandle => Of(c).h \in Handles
      BY CallSets DEF HostBase, CallInv, CallOk
    <3> QED BY <1>4, <3>1 DEF Handle
  <2>4. Of(c).on # n
    BY <1>5
  <2> QED BY ONLY <1>2, <2>1, <2>2, <2>3, <2>4 DEF CallFiles
<1>8. FilesLive'
  BY <1>2, <1>6, <1>7 DEF FilesLive, Untaken
<1> QED BY <1>3, <1>8 DEF FilesInv

LEMMA StillFiles ==
  ASSUME FilesInv, UNCHANGED hostVars
  PROVE  FilesInv'
<1>1. calls' = calls /\ open_fds' = open_fds /\ fsys' = fsys /\ pc' = pc /\ sock' = sock
  BY DEF hostVars, sock
<1>2. \A c \in Callers : Of(c)' = Of(c) /\ Handle(c)' = Handle(c)
  BY <1>1 DEF Of, Handle
<1>3. \A c \in Callers : (Told(c)' <=> Told(c)) /\ Said(c)' = Said(c)
  BY <1>1, <1>2 DEF Told, Said
<1>4. \A c \in Callers : Gone(c)' <=> Gone(c)
  BY <1>2, <1>3 DEF Gone
<1>5. \A c \in Callers : SentOnNewest(c)'
  BY <1>1, <1>2 DEF FilesInv, SentOnNewest, Sent
<1>6. live' <=> live
  BY <1>1 DEF live
<1>7. ASSUME live
      PROVE  FilesLive'
  <2>1. FilesLive
    BY <1>7 DEF FilesInv
  <2>2. \A c \in Callers, h \in Handles : Kept(c, h)'
    BY <1>1, <1>2, <1>4, <2>1 DEF FilesLive, Kept
  <2>3. \A c \in Callers : CallFiles(c)'
    BY <1>1, <1>2, <1>4, <2>1 DEF FilesLive, CallFiles
  <2>4. \A f \in pc[sock].files, c \in Callers, h \in Handles : f.by = <<c, h>> => OwnedBy(f, c, h)'
    BY <1>1, <1>2, <1>3, <2>1 DEF FilesLive, OwnedBy
  <2> QED BY <1>1, <2>1, <2>2, <2>3, <2>4 DEF FilesLive
<1> QED BY <1>5, <1>6, <1>7 DEF FilesInv

(* A file is told from others by its fd and its handle.                    *)
LEMMA FileIs ==
  ASSUME NEW f \in HostFiles, NEW c, NEW h, f.by = <<c, h>>
  PROVE  f = FileOf(f.fd, c, h) /\ f.fd \in Nat \ {0}
BY DEF HostFiles, FileOf

LEMMA FilesTyped ==
  ASSUME HostType, live
  PROVE  pc[sock].files \in SUBSET HostFiles
<1>1. sock \in 1 .. Len(pc)
  BY LiveIs
<1> QED BY <1>1, ConnIs

LEMMA ReturnFiles ==
  ASSUME HostAssumption, HostBase, RenamesAlone, RenameInv, FilesInv, NEW c \in Callers, Return(c)
  PROVE  FilesInv'
<1> DEFINE h == Of(c).h
<1>1. Returned(c)
  BY ReturnIs DEF HostBase
<1>2. /\ Of(c).at = "after" /\ OthersStay(c) /\ calls'[c].op = "none" /\ calls'[c].at \in {"ioman", "idle"}
      /\ open_fds'[c][h] = NewHandle(c)
      /\ \A d \in Callers, k \in Handles : d # c \/ k # h => open_fds'[d][k] = open_fds[d][k]
      /\ fsys'.renamed_fd = IF Of(c).op \in OpenCalls \cup Closes THEN -1
                            ELSE IF Renames(c) THEN Of(c).fd ELSE fsys.renamed_fd
      /\ pc' = pc /\ sock' = sock
  BY <1>1 DEF Returned, sock
<1>3. \A d \in Callers : d # c => calls'[d] = calls[d]
  BY <1>2 DEF OthersStay
<1>4. h \in Handles /\ Of(c).op \in AllCalls /\ Handle(c) \in FdStates /\ Of(c).ret \in Int
  <2>1. h \in Handles /\ Of(c).op \in AllCalls
    BY <1>2 DEF HostBase, CallInv, CallOk
  <2>2. Of(c).ret \in Int /\ Handle(c) \in FdStates
    BY <2>1, OfIs DEF HostBase, HostType, CallStates, Handle
  <2> QED BY <2>1, <2>2
<1>5. ASSUME NEW d \in Callers, d # c
      PROVE  /\ Of(d)' = Of(d) /\ (Of(d).op \in OnHandle => Handle(d)' = Handle(d))
             /\ (Told(d)' <=> Told(d)) /\ Said(d)' = Said(d) /\ (Gone(d)' <=> Gone(d)) /\ (Sent(d)' <=> Sent(d))
  <2>1. Of(d)' = Of(d)
    BY <1>3, <1>5 DEF Of
  <2>2. Of(d).op \in OnHandle => Handle(d)' = Handle(d)
    <3>1. Of(d).op \in OnHandle => Of(d).h \in Handles
      BY CallSets DEF HostBase, CallInv, CallOk
    <3> QED BY <1>2, <1>5, <2>1, <3>1 DEF Handle
  <2>3. (Told(d)' <=> Told(d)) /\ Said(d)' = Said(d) /\ (Sent(d)' <=> Sent(d))
    BY <1>2, <2>1 DEF Told, Said, Sent
  <2> QED BY <2>1, <2>2, <2>3 DEF Gone
<1>6. ASSUME NEW d \in Callers
      PROVE  SentOnNewest(d)'
  <2>1. CASE d = c
    BY <1>2, <2>1 DEF SentOnNewest, Of
  <2>2. CASE d # c
    <3>1. SentOnNewest(d)
      BY DEF FilesInv
    <3>2. "ioctl" \in OnHandle
      BY CallSets
    <3> QED BY <1>2, <1>5, <2>2, <3>1, <3>2 DEF SentOnNewest
  <2> QED BY <2>1, <2>2
<1>7. live' <=> live
  BY <1>2 DEF live
<1>8. ASSUME live
      PROVE  FilesLive'
  <2>1. FilesLive /\ sock > 0 /\ sock = Len(pc) /\ pc[sock].files \in SUBSET HostFiles
    BY <1>8, LiveIs, FilesTyped DEF FilesInv, HostBase
  <2>2. /\ CallFiles(c) /\ Kept(c, h)
        /\ Of(c).op \in OnHandle => Of(c).fd = Handle(c).fd
        /\ Of(c).op \in OpenCalls => Handle(c) = Closed
    BY <1>4, <2>1 DEF FilesLive, HostBase, HandleInv
  <2>3. Of(c).op \in OnHandle /\ Handle(c).on = sock => Of(c).how = "skipped" \/ Told(c)
    BY <1>2, <2>2 DEF CallFiles, Told
  <2>4. Said(c) = Of(c).ret
    BY <1>2 DEF Said
  <2>5. Renames(c) => Of(c).op = "ioctl" /\ Of(c).op \in OnHandle \ (OpenCalls \cup Closes)
    BY CallSets DEF Renames
  <2>6. Untaken(fsys'.renamed_fd, pc[sock].files)
    <3>1. CASE Of(c).op \in OpenCalls \cup Closes
      <4>1. fsys'.renamed_fd = -1
        BY <1>2, <3>1
      <4>2. \A f \in pc[sock].files : f.fd \in Nat
        BY <2>1 DEF HostFiles
      <4> QED BY <4>1, <4>2 DEF Untaken
    <3>2. CASE Renames(c)
      <4>1. fsys'.renamed_fd = Handle(c).fd
        BY <1>2, <2>2, <2>5, <3>2
      <4>2. CASE Handle(c).on = sock
        <5>1. Gone(c)
          BY <2>3, <2>4, <2>5, <3>2, <4>2 DEF Gone, Renames
        <5> QED BY <2>2, <2>5, <3>2, <4>1, <4>2, <5>1 DEF CallFiles
      <4>3. CASE Handle(c).on # sock
        <5> SUFFICES ASSUME NEW f \in pc[sock].files
                     PROVE  FALSE
          BY <4>1 DEF Untaken
        <5>1. PICK d \in Callers, k \in Handles : f.by = <<d, k>>
          BY <2>1 DEF HostFiles, Ids
        <5>2. "ioctl" \in Ops[c]
          BY <1>2, <2>5, <3>2 DEF HostBase, CallInv, CallOk
        <5>3. d = c /\ OwnedBy(f, c, k)
          BY <2>1, <5>1, <5>2 DEF FilesLive
        <5>4. open_fds[c][k].on = sock
          BY <2>5, <3>2, <5>3 DEF OwnedBy
        <5>5. Sent(c)
          BY <1>2, <3>2 DEF Sent, Renames
        <5>6. open_fds[c][k].on <= Handle(c).on
          BY <2>5, <3>2, <5>5 DEF FilesInv, SentOnNewest
        <5>7. Handle(c).on <= Len(pc) /\ Handle(c).on \in Nat /\ Len(pc) \in Nat
          BY <1>4 DEF HostBase, HostType, HandleInv, Handle, FdStates
        <5> QED BY ONLY <2>1, <4>3, <5>4, <5>6, <5>7
      <4> QED BY <4>2, <4>3
    <3>3. CASE Of(c).op \notin OpenCalls \cup Closes /\ ~Renames(c)
      BY <1>2, <2>1, <3>3 DEF FilesLive
    <3> QED BY <3>1, <3>2, <3>3
  <2>7. ~Told(c)' /\ ~Gone(c)' /\ Of(c)'.op \notin OpenCalls \cup OnHandle /\ Of(c)'.at \notin {"after", "receive"}
    <3>1. Of(c)'.op \notin OpenCalls \cup OnHandle
      BY <1>2, CallSets DEF Of
    <3> QED BY <1>2, <3>1 DEF Told, Gone, Waiting, Of
  <2>8. ASSUME NEW f \in pc[sock].files, f.by = <<c, h>>
        PROVE  ~NewHandle(c).renamed /\ NewHandle(c).on = sock /\ NewHandle(c).fd = f.fd
    <3>1. f = FileOf(f.fd, c, h) /\ f.fd \in Nat \ {0}
      <4>1. f \in HostFiles
        BY <2>1
      <4> QED BY <2>8, <4>1, FileIs
    <3>2. OwnedBy(f, c, h)
      BY <1>4, <2>1, <2>8 DEF FilesLive
    <3>3. CASE ~Handle(c).renamed /\ Handle(c).on = sock /\ Handle(c).fd = f.fd
      <4>1. ~Gone(c)
        BY <2>2, <3>1, <3>3 DEF CallFiles
      <4>2. Of(c).op \notin OpenCalls
        BY <2>1, <2>2, <3>3 DEF Closed
      <4>3. Of(c).op \notin Closes
        <5> SUFFICES ASSUME Of(c).op \in Closes
                     PROVE  FALSE
          OBVIOUS
        <5>1. Of(c).op \in OnHandle /\ ~Told(c)
          BY <4>1, CallSets DEF Gone
        <5>2. Skipping(c, Of(c).h)
          BY <1>2, <2>3, <3>3, <5>1 DEF Skipping
        <5>3. Of(c).fd \in {0, -1}
          BY <3>3, <5>2 DEF RenameInv
        <5> QED BY <2>2, <3>1, <3>3, <5>1, <5>3
      <4>4. CASE Of(c).op = "ioctl" /\ Of(c).how # "skipped"
        <5>1. Told(c)
          BY <2>3, <3>3, <4>4, CallSets
        <5>2. Of(c).ret \notin {0, -6}
          BY <2>4, <4>1, <4>4, <5>1 DEF Gone
        <5> DEFINE r == Of(c).ret \in {0, -6}
        <5>3. NewHandle(c) = [Handle(c) EXCEPT !.renamed = r] /\ ~r /\ r \in BOOLEAN
          BY <4>2, <4>3, <4>4, <5>2 DEF NewHandle
        <5> HIDE DEF r
        <5> QED BY <1>4, <3>3, <5>3 DEF FdStates
      <4>5. CASE ~(Of(c).op = "ioctl" /\ Of(c).how # "skipped")
        BY <3>3, <4>2, <4>3, <4>5 DEF NewHandle
      <4> QED BY <4>4, <4>5
    <3>4. CASE Of(c).op \in OpenCalls /\ Said(c) = f.fd /\ (Of(c).at = "after" => Of(c).on = sock)
      <4>1. Of(c).ret = f.fd /\ Of(c).on = sock /\ Of(c).ret >= 0
        BY <1>2, <2>4, <3>1, <3>4
      <4> QED BY <3>4, <4>1 DEF NewHandle
    <3> QED BY <3>2, <3>3, <3>4 DEF OwnedBy, Handle
  <2>9. ASSUME NEW f \in pc[sock].files, NEW d \in Callers, NEW k \in Handles, f.by = <<d, k>>
        PROVE  OwnedBy(f, d, k)' /\ \A e \in Callers : "ioctl" \in Ops[e] => e = d
    <3>1. OwnedBy(f, d, k) /\ \A e \in Callers : "ioctl" \in Ops[e] => e = d
      BY <2>1, <2>9 DEF FilesLive
    <3>2. CASE d # c
      BY <1>2, <1>5, <3>1, <3>2 DEF OwnedBy
    <3>3. CASE d = c /\ k # h
      BY <1>2, <3>1, <3>3 DEF OwnedBy
    <3>4. CASE d = c /\ k = h
      BY <1>2, <2>8, <2>9, <3>1, <3>4 DEF OwnedBy
    <3> QED BY <3>1, <3>2, <3>3, <3>4
  <2>10. ~NewHandle(c).renamed /\ NewHandle(c).on = sock => FileOf(NewHandle(c).fd, c, h) \in pc[sock].files
    <3> SUFFICES ASSUME ~NewHandle(c).renamed, NewHandle(c).on = sock
                 PROVE  FileOf(NewHandle(c).fd, c, h) \in pc[sock].files
      OBVIOUS
    <3>1. CASE Of(c).op \in OpenCalls /\ Of(c).ret >= 0
      <4>1. NewHandle(c).fd = Of(c).ret /\ Of(c).on = sock
        BY <3>1 DEF NewHandle
      <4> QED BY <1>2, <2>2, <3>1, <4>1 DEF CallFiles
    <3>2. CASE Of(c).op \in OpenCalls /\ ~(Of(c).ret >= 0)
      <4>1. Of(c).op \notin Closes \cup {"ioctl"}
        BY <3>2, CallSets
      <4>2. NewHandle(c) = Closed
        BY <2>2, <3>2, <4>1 DEF NewHandle
      <4> QED BY <2>1, <4>2 DEF Closed
    <3>3. CASE Of(c).op \in Closes
      <4>1. NewHandle(c) = Closed
        BY <3>3, CallSets DEF NewHandle
      <4> QED BY <2>1, <4>1 DEF Closed
    <3>4. CASE Of(c).op = "ioctl" /\ Of(c).how # "skipped"
      <4>1. ~Handle(c).renamed
        BY <1>2, <1>4, <3>4, CallSets DEF RenameInv, RenamedOk, Skipping, Handle
      <4> DEFINE r == Of(c).ret \in {0, -6}
      <4>2. NewHandle(c) = [Handle(c) EXCEPT !.renamed = r] /\ r \in BOOLEAN
        BY <3>4, CallSets DEF NewHandle
      <4> HIDE DEF r
      <4>3. ~r /\ Handle(c).on = sock /\ NewHandle(c).fd = Handle(c).fd
        BY <1>4, <4>2 DEF FdStates
      <4>4. ~Gone(c)
        BY <2>4, <3>4, <4>3, CallSets DEF Gone, r
      <4> QED BY <2>2, <4>1, <4>3, <4>4 DEF Kept, Handle
    <3>5. CASE Of(c).op \notin OpenCalls \cup Closes /\ ~(Of(c).op = "ioctl" /\ Of(c).how # "skipped")
      <4>1. NewHandle(c) = Handle(c)
        BY <3>5 DEF NewHandle
      <4>2. ~Gone(c)
        BY <1>2, <3>5 DEF Gone, Told, Waiting
      <4> QED BY <2>2, <4>1, <4>2 DEF Kept, Handle
    <3> QED BY <3>1, <3>2, <3>3, <3>4, <3>5
  <2>11. ASSUME NEW d \in Callers, NEW k \in Handles
         PROVE  Kept(d, k)'
    <3>1. Kept(d, k)
      BY <2>1 DEF FilesLive
    <3>2. CASE d # c
      BY <1>2, <1>5, <3>1, <3>2 DEF Kept
    <3>3. CASE d = c /\ k # h
      BY <1>2, <3>1, <3>3 DEF Kept
    <3>4. CASE d = c /\ k = h
      BY <1>2, <2>10, <3>4 DEF Kept
    <3> QED BY <3>2, <3>3, <3>4
  <2>12. ASSUME NEW d \in Callers
         PROVE  CallFiles(d)'
    <3>1. CASE d = c
      BY ONLY <2>7, <3>1 DEF CallFiles
    <3>2. CASE d # c
      <4>1. CallFiles(d) /\ Of(d)' = Of(d) /\ (Gone(d)' <=> Gone(d)) /\ pc' = pc /\ sock' = sock
        BY <1>2, <1>5, <2>1, <3>2 DEF FilesLive
      <4>2. Of(d).op \in OnHandle => Handle(d)' = Handle(d)
        BY <1>5, <3>2
      <4>3. Gone(d) => Of(d).op \in OnHandle
        BY CallSets DEF Gone
      <4> QED BY ONLY <4>1, <4>2, <4>3 DEF CallFiles
    <3> QED BY <3>1, <3>2
  <2>13. \A f, g \in pc[sock].files : f.fd = g.fd => f = g
    BY <2>1 DEF FilesLive
  <2> QED BY <1>2, <2>6, <2>9, <2>11, <2>12, <2>13 DEF FilesLive
<1> QED BY <1>6, <1>7, <1>8 DEF FilesInv

LEMMA ServesFiles ==
  ASSUME HostAssumption, HostBase, RenamesAlone, RenameInv, FilesInv, NEW k \in 1 .. Len(pc), Serves(k)
  PROVE  FilesInv'
<1> DEFINE q == pc[sock].request
           files == pc[sock].files
           after == pc'[sock].files
           ret == pc'[sock].reply.fd
<1>1. /\ ServedBy(k) /\ calls' = calls /\ open_fds' = open_fds /\ fsys' = fsys /\ sock' = sock
  BY ServesIs DEF Serves, HostBase, sock
<1>2. k = sock /\ live /\ sock \in 1 .. Len(pc)
  <2>1. k = sock
    BY <1>1 DEF ServedBy, HostBase, ConnInv
  <2> QED BY <1>1, <2>1 DEF ServedBy, live
<1>3. /\ q \in Messages /\ pc'[sock].up /\ pc'[sock].request = None /\ pc'[sock].reply # None
      /\ pc'[sock].reply.by = q.by /\ Answered(q, files, ret, after)
  BY <1>1, <1>2, NoneIs DEF ServedBy
<1>4. q # None
  BY <1>3, NoneIs
<1>5. PICK c \in Callers : Of(c).at \in Waiting /\ Own(q, c) /\ q.fd = Of(c).fd
  BY <1>2, <1>4 DEF HostBase, StreamInv
<1> DEFINE h == Of(c).h
<1>6. \A d \in Callers : d # c => Of(d).at \notin Waiting
  BY <1>5, TurnIs DEF HostBase, Turn, Waiting
<1>7. FilesLive /\ CallFiles(c) /\ files \in SUBSET HostFiles /\ pc[sock].reply = None
  BY <1>2, <1>4, FilesTyped DEF FilesInv, FilesLive, HostBase, StreamInv
<1>8. /\ \A d \in Callers : Of(d)' = Of(d) /\ Handle(d)' = Handle(d) /\ (Sent(d)' <=> Sent(d))
      /\ \A d \in Callers : d # c => (Told(d)' <=> Told(d)) /\ (Told(d) => Said(d)' = Said(d)) /\ (Gone(d)' <=> Gone(d))
  <2>1. \A d \in Callers : Of(d)' = Of(d) /\ Handle(d)' = Handle(d)
    BY <1>1 DEF Of, Handle
  <2>2. \A d \in Callers : d # c => (Told(d)' <=> Told(d)) /\ (Told(d) => Said(d)' = Said(d))
    BY <1>1, <1>6, <2>1 DEF Told, Said
  <2> QED BY <2>1, <2>2 DEF Gone, Sent
<1>9. /\ Of(c).op = q.op /\ q.by = <<c, h>> /\ Of(c).at \notin {"idle", "after"}
      /\ ~Told(c) /\ ~Gone(c) /\ Told(c)' /\ Said(c)' = ret
  <2>1. Of(c).op = q.op /\ q.by = <<c, h>> /\ Of(c).at \notin {"idle", "after"}
    BY <1>5 DEF Own, Waiting
  <2>2. ~Told(c) /\ ~Gone(c)
    BY <1>7, <2>1 DEF Told, Gone
  <2>3. Told(c)'
    BY <1>1, <1>3, <1>5, <1>8 DEF Told
  <2>4. Said(c)' = ret
    BY <1>1, <1>8, <2>1 DEF Said
  <2> QED BY <2>1, <2>2, <2>3, <2>4
<1>10. Of(c).op \in AllCalls /\ h \in Handles
  <2>1. CallOk(c)
    BY DEF HostBase, CallInv
  <2> QED BY <1>5, <2>1 DEF CallOk, Waiting
<1>11. \A j \in Handles : ~open_fds[c][j].renamed
  BY <1>9 DEF RenameInv, RenamedOk, Skipping
<1>12. \A d \in Callers : SentOnNewest(d)'
  BY <1>1, <1>8 DEF FilesInv, SentOnNewest
<1>13. Of(c).op \in OnHandle => Handle(c).on = sock /\ Of(c).fd = Handle(c).fd
  BY <1>4, <1>5, <1>7 DEF CallFiles, HostBase, HandleInv
<1> HIDE DEF q, files, after, ret, h
(* A file that stays, and one that its caller still has.                   *)
<1>14. ASSUME NEW f \in files, NEW d \in Callers, NEW j \in Handles, f.by = <<d, j>>
       PROVE  OwnedBy(f, d, j)' /\ \A e \in Callers : "ioctl" \in Ops[e] => e = d
  <2>1. OwnedBy(f, d, j) /\ \A e \in Callers : "ioctl" \in Ops[e] => e = d
    BY <1>7, <1>14 DEF FilesLive, files
  <2>2. CASE d = c
    BY <1>1, <1>9, <2>1, <2>2 DEF OwnedBy
  <2>3. CASE d # c
    BY <1>1, <1>8, <2>1, <2>3 DEF OwnedBy
  <2> QED BY <2>1, <2>2, <2>3
<1>15. CASE after = files /\ ~Gone(c)' /\ (Of(c).op \in OpenCalls => ret = -1)
  <2>1. \A d \in Callers, j \in Handles : Kept(d, j)'
    <3> SUFFICES ASSUME NEW d \in Callers, NEW j \in Handles
                 PROVE  Kept(d, j)'
      OBVIOUS
    <3>1. Kept(d, j)
      BY <1>7 DEF FilesLive
    <3>2. Gone(d) => d # c /\ Gone(d)'
      BY <1>8, <1>9
    <3> QED BY ONLY <1>1, <1>8, <1>15, <3>1, <3>2 DEF Kept, after, files
  <2>2. ASSUME NEW d \in Callers
        PROVE  CallFiles(d)'
    <3>1. CallFiles(d)
      BY <1>7 DEF FilesLive
    <3>2. CASE d # c
      <4>1. Of(d).at \notin Waiting /\ (Gone(d)' <=> Gone(d)) /\ Of(d)' = Of(d) /\ Handle(d)' = Handle(d)
        BY <1>6, <1>8, <3>2
      <4> QED BY ONLY <1>1, <1>15, <3>1, <4>1 DEF CallFiles, after, files
    <3>3. CASE d = c
      <4>1. Of(d)' = Of(d) /\ Handle(d)' = Handle(d) /\ Of(d).at # "after" /\ ~Gone(d)'
        BY <1>8, <1>9, <1>15, <3>3
      <4>2. ~(Of(d).op \in OpenCalls /\ ret >= 0)
        BY <1>15, <3>3
      <4> QED BY ONLY <1>1, <1>13, <3>1, <3>3, <4>1, <4>2 DEF CallFiles, ret
    <3> QED BY <3>2, <3>3
  <2>3. FilesLive'
    BY <1>1, <1>7, <1>14, <1>15, <2>1, <2>2 DEF FilesLive, after, files
  <2> QED BY <1>12, <2>3 DEF FilesInv
<1>16. CASE /\ Of(c).op \in OpenCalls /\ ret = Lowest(files)
            /\ after = files \cup {[fd |-> Lowest(files), by |-> q.by]}
  <2> DEFINE low == Lowest(files)
             new == [fd |-> low, by |-> q.by]
  <2>1. low \in Nat \ {0} /\ Untaken(low, files)
    <3>1. IsFiniteSet(files)
      BY <1>2 DEF HostBase, ConnInv, files
    <3> QED BY <1>7, <3>1, LowestIs
  <2>2. new.fd = low /\ new.by = <<c, h>> /\ new = FileOf(ret, c, h) /\ new \in after
    BY <1>9, <1>16 DEF FileOf
  <2> HIDE DEF low, new
  <2>3. after = files \cup {new} /\ ret = low
    BY <1>16 DEF new, low
  <2>4. \A e \in Callers : "ioctl" \in Ops[e] => e = c
    BY <1>16, OneRenamer DEF HostBase
  <2>5. fsys.renamed_fd \in {0, -1}
    <3> SUFFICES ASSUME NEW d \in Callers, NEW j \in Handles, open_fds[d][j].renamed
                 PROVE  FALSE
      BY DEF RenameInv
    <3>1. d = c
      BY <2>4 DEF RenameInv, RenamedOk
    <3> QED BY <1>11, <3>1
  <2>6. \A f, g \in after : f.fd = g.fd => f = g
    BY <1>7, <2>1, <2>2, <2>3 DEF FilesLive, Untaken, files
  <2>7. Untaken(fsys.renamed_fd, after)
    BY <1>7, <2>1, <2>2, <2>3, <2>5 DEF FilesLive, Untaken, files
  <2>8. ASSUME NEW f \in after, NEW d \in Callers, NEW j \in Handles, f.by = <<d, j>>
        PROVE  OwnedBy(f, d, j)' /\ \A e \in Callers : "ioctl" \in Ops[e] => e = d
    <3>1. CASE f \in files
      BY <1>14, <2>8, <3>1
    <3>2. CASE f = new
      <4>1. d = c /\ j = h
        BY <2>2, <2>8, <3>2
      <4>2. Of(d)' = Of(d) /\ Of(d).op \in OpenCalls /\ Of(d).h = j /\ Of(d).at # "after" /\ Told(d)' /\ Said(d)' = f.fd
        BY <1>8, <1>9, <1>16, <2>2, <2>3, <3>2, <4>1 DEF h
      <4>3. OwnedBy(f, d, j)'
        BY ONLY <4>2 DEF OwnedBy
      <4> QED BY <2>4, <4>1, <4>3
    <3> QED BY <2>3, <3>1, <3>2
  <2>9. \A d \in Callers, j \in Handles : Kept(d, j)'
    <3> SUFFICES ASSUME NEW d \in Callers, NEW j \in Handles
                 PROVE  Kept(d, j)'
      OBVIOUS
    <3>1. Kept(d, j)
      BY <1>7 DEF FilesLive
    <3>2. Gone(d) => d # c /\ Gone(d)'
      BY <1>8, <1>9
    <3>3. files \subseteq after
      BY <2>3
    <3> QED BY ONLY <1>1, <1>8, <3>1, <3>2, <3>3 DEF Kept, after, files
  <2>10. ASSUME NEW d \in Callers
         PROVE  CallFiles(d)'
    <3>1. CallFiles(d) /\ Of(d)' = Of(d) /\ Handle(d)' = Handle(d) /\ files \subseteq after
      BY <1>7, <1>8, <2>3 DEF FilesLive
    <3>2. CASE d # c
      <4>1. Of(d).at \notin Waiting /\ (Gone(d)' <=> Gone(d))
        BY <1>6, <1>8, <3>2
      <4>2. FileOf(Handle(d).fd, d, Of(d).h) # new
        BY <2>2, <3>2 DEF FileOf
      <4>3. Gone(d) => Of(d).op # "ioctl"
        <5>1. Gone(d) /\ Of(d).op = "ioctl" => "ioctl" \in Ops[d]
          BY CallSets DEF HostBase, CallInv, CallOk
        <5> QED BY <2>4, <3>2, <5>1
      <4>4. after = files \cup {new}
        BY <2>3
      <4> QED BY ONLY <1>1, <3>1, <4>1, <4>2, <4>3, <4>4 DEF CallFiles, after, files
    <3>3. CASE d = c
      <4>1. ~Gone(d)' /\ Of(d).at # "after" /\ Of(d).op \notin OnHandle
        <5>1. Of(c).op \notin OnHandle /\ Of(c).op \notin Closes \cup {"ioctl"}
          BY <1>16, CallSets
        <5> QED BY <1>8, <1>9, <3>3, <5>1 DEF Gone
      <4>2. FileOf(ret, d, Of(d).h) \in after
        BY <2>2, <3>3 DEF h
      <4> QED BY ONLY <1>1, <3>1, <4>1, <4>2 DEF CallFiles, ret, after
    <3> QED BY <3>2, <3>3
  <2>11. FilesLive'
    BY <1>1, <2>6, <2>7, <2>8, <2>9, <2>10 DEF FilesLive, after
  <2> QED BY <1>12, <2>11 DEF FilesInv
<1>17. CASE /\ Of(c).op \in Closes \cup {"ioctl"} /\ after = {f \in files : f.fd # q.fd}
            /\ Of(c).op = "ioctl" => ret \in {0, -6}
  <2> DEFINE mine == FileOf(Handle(c).fd, c, h)
  <2>1. Of(c).op \in OnHandle /\ Of(c).op \notin OpenCalls
    BY <1>17, CallSets
  <2>2. Handle(c).on = sock /\ q.fd = Handle(c).fd /\ mine.fd = q.fd /\ mine.by = <<c, h>>
    BY <1>5, <1>13, <2>1 DEF FileOf
  <2>3. mine \in files
    <3>1. Kept(c, h) /\ ~open_fds[c][h].renamed
      BY <1>7, <1>10, <1>11 DEF FilesLive
    <3> QED BY <1>9, <2>2, <3>1 DEF Kept, Handle, files, h
  <2>4. Gone(c)'
    BY <1>8, <1>9, <1>17 DEF Gone
  <2> HIDE DEF mine
  <2>5. \A f \in files : f.fd = q.fd => f = mine
    BY <1>7, <2>2, <2>3 DEF FilesLive, files
  <2>6. \A n, d, j : FileOf(n, d, j) \in files => FileOf(n, d, j) \in after \/ (d = c /\ j = h)
    <3> SUFFICES ASSUME NEW n, NEW d, NEW j, FileOf(n, d, j) \in files, FileOf(n, d, j) \notin after
                 PROVE  d = c /\ j = h
      OBVIOUS
    <3>1. FileOf(n, d, j) = mine
      BY <1>17, <2>5
    <3>2. FileOf(n, d, j).by = <<d, j>>
      BY DEF FileOf
    <3> QED BY <2>2, <3>1, <3>2
  <2>7. after \subseteq files
    BY <1>17
  <2>8. \A d \in Callers, j \in Handles : Kept(d, j)'
    <3> SUFFICES ASSUME NEW d \in Callers, NEW j \in Handles
                 PROVE  Kept(d, j)'
      OBVIOUS
    <3>1. Kept(d, j)
      BY <1>7 DEF FilesLive
    <3>2. Gone(d) => d # c /\ Gone(d)'
      BY <1>8, <1>9
    <3>3. Of(d)' = Of(d)
      BY <1>8
    <3> QED BY ONLY <1>1, <2>4, <2>6, <3>1, <3>2, <3>3 DEF Kept, after, files, h
  <2>9. ASSUME NEW d \in Callers
        PROVE  CallFiles(d)'
    <3>1. CallFiles(d) /\ Of(d)' = Of(d) /\ Handle(d)' = Handle(d)
      BY <1>7, <1>8 DEF FilesLive
    <3>2. CASE d # c
      <4>1. Of(d).at \notin Waiting /\ (Gone(d)' <=> Gone(d))
        BY <1>6, <1>8, <3>2
      <4> QED BY ONLY <1>1, <2>6, <2>7, <3>1, <3>2, <4>1 DEF CallFiles, Untaken, after, files
    <3>3. CASE d = c
      <4>1. Of(d).at # "after" /\ Of(d).op \notin OpenCalls /\ Handle(d).on = sock /\ Handle(d).fd = q.fd
        BY <1>9, <2>1, <2>2, <3>3
      <4>2. \A f \in after : f.fd # q.fd
        BY <1>17
      <4>3. FileOf(q.fd, d, Of(d).h).fd = q.fd
        BY DEF FileOf
      <4> QED BY ONLY <1>1, <3>1, <4>1, <4>2, <4>3 DEF CallFiles, Untaken, after
    <3> QED BY <3>2, <3>3
  <2>10. /\ \A f, g \in after : f.fd = g.fd => f = g
         /\ Untaken(fsys.renamed_fd, after)
    BY <1>7, <2>7 DEF FilesLive, Untaken, files
  <2>11. \A f \in after, d \in Callers, j \in Handles : f.by = <<d, j>> =>
            OwnedBy(f, d, j)' /\ \A e \in Callers : "ioctl" \in Ops[e] => e = d
    BY <1>14, <2>7
  <2>12. FilesLive'
    BY <1>1, <2>8, <2>9, <2>10, <2>11 DEF FilesLive, after
  <2> QED BY <1>12, <2>12 DEF FilesInv
<1>18. CASE Of(c).op \in OpenCalls
  <2>1. Of(c).op \notin Closes \cup {"ioctl"}
    BY <1>18, CallSets
  <2>2. ~Gone(c)'
    BY <1>8, <2>1 DEF Gone
  <2>3. \/ ret = -1 /\ after = files
        \/ ret = Lowest(files) /\ after = files \cup {[fd |-> Lowest(files), by |-> q.by]}
    BY <1>3, <1>9, <1>18, <2>1 DEF Answered
  <2> QED BY <1>15, <1>16, <1>18, <2>2, <2>3
<1>19. CASE Of(c).op \in Closes
  <2>1. after = {f \in files : f.fd # q.fd} /\ Of(c).op # "ioctl"
    BY <1>3, <1>9, <1>19, CallSets DEF Answered
  <2> QED BY <1>17, <1>19, <2>1
<1>20. CASE Of(c).op = "ioctl"
  <2>1. \/ ret = -1 /\ after = files
        \/ ret \in {0, -6} /\ after = {f \in files : f.fd # q.fd}
    BY <1>3, <1>9, <1>20, CallSets DEF Answered
  <2>2. Of(c).op \notin OpenCalls \cup Closes
    BY <1>20, CallSets
  <2>3. ret = -1 => ~Gone(c)'
    BY <1>8, <1>9, <2>2 DEF Gone
  <2> QED BY <1>15, <1>17, <1>20, <2>1, <2>2, <2>3
<1>21. CASE Of(c).op \notin OpenCalls \cup Closes \cup {"ioctl"}
  <2>1. after = files
    BY <1>3, <1>9, <1>21 DEF Answered
  <2>2. ~Gone(c)'
    BY <1>8, <1>21 DEF Gone
  <2> QED BY <1>15, <1>21, <2>1, <2>2
<1> QED BY <1>18, <1>19, <1>20, <1>21
-----------------------------------------------------------------------------
(* All of it: what holds for any callers, and what only a caller that      *)
(* renames alone, with no handle of an earlier connection used, can rely   *)
(* on.                                                                     *)
HostInv == HostBase /\ (RenamesAlone => RenameInv /\ (~mixed => FilesInv))

LEMMA HostInits ==
  ASSUME HostAssumption, HostInit
  PROVE  HostInv
<1>1. /\ sock = 0 /\ pc = <<>> /\ Len(pc) = 0 /\ calls = [c \in Callers |-> Idle]
      /\ open_fds = [c \in Callers |-> [h \in Handles |-> Closed]]
      /\ fsys = [sema |-> TRUE, lastopen_fd |-> 0, renamed_fd |-> 0, remove_flag |-> FALSE, remove_result |-> 0,
                 recv_packet |-> 0]
      /\ mixed = FALSE
  BY DEF HostInit, sock
<1>2. \A c \in Callers : /\ Of(c) = Idle /\ Of(c).at = "idle" /\ Of(c).op = "none" /\ ~Of(c).bug /\ Of(c).how = ""
                         /\ Of(c).on = 0 /\ Of(c).left = 0 /\ Of(c).op \notin AllCalls
  BY <1>1, NoneIs DEF Of, Idle
<1>3. Idle \in CallStates /\ Closed \in FdStates /\ fsys \in Memory /\ pc \in Seq(Conns)
  <2>1. Idle \in CallStates /\ Closed \in FdStates
    BY DEF Idle, CallStates, Stages, Hows, Closed, FdStates
  <2>2. fsys \in Memory
    BY <1>1 DEF Memory
  <2>3. pc \in Seq(Conns)
    BY <1>1
  <2> QED BY <2>1, <2>2, <2>3
<1>4. HostType
  BY <1>1, <1>3 DEF HostType
<1>5. ConnInv
  BY <1>1 DEF ConnInv
<1>6. CallInv
  <2> SUFFICES ASSUME NEW c \in Callers
               PROVE  CallOk(c)
    BY DEF CallInv
  <2> DEFINE v == Of(c)
  <2>1. v.at = "idle" /\ v.op = "none" /\ ~v.bug /\ v.how = "" /\ v.on = 0 /\ v.left = 0
    BY <1>2
  <2>2. 0 <= Len(pc)
    BY <1>1
  <2> HIDE DEF v
  <2>3. v.on <= Len(pc) /\ ~(v.left > 1)
    <3>1. v.on = 0 /\ v.left = 0
      BY <2>1
    <3> QED BY ONLY <2>2, <3>1
  <2> QED BY ONLY <2>1, <2>3 DEF CallOk, v
<1>7. HandleInv
  <2>1. \A c \in Callers : Of(c).op \notin OpenCalls \cup OnHandle
    BY <1>2, CallSets
  <2>2. \A c \in Callers, h \in Handles : open_fds[c][h] = Closed /\ open_fds[c][h].on = 0
    BY <1>1 DEF Closed
  <2> QED BY <1>1, <2>1, <2>2 DEF HandleInv
<1>8. StreamInv
  <2>1. \A c \in Callers : Of(c).at \notin Turn /\ Of(c).at \notin Waiting
    BY <1>2 DEF Turn, Waiting
  <2>2. \A k \in 1 .. Len(pc) : FALSE
    BY <1>1
  <2> QED BY <2>1, <2>2 DEF StreamInv
<1>9. MkdirInv
  <2>1. \A c \in Callers : ~Removing(c) /\ Of(c).op # "mkdir"
    BY <1>2 DEF Removing
  <2> QED BY <1>1, <2>1 DEF MkdirInv
<1>10. RenameInv
  <2>1. \A c \in Callers, h \in Handles : ~open_fds[c][h].renamed
    BY <1>1 DEF Closed
  <2> QED BY <1>1, <1>2, <2>1 DEF RenameInv, Skipping
<1>11. FilesInv
  <2>1. \A c \in Callers : Of(c).op # "ioctl"
    BY <1>2
  <2> QED BY <1>1, <2>1 DEF FilesInv, SentOnNewest, live
<1> QED BY <1>4, <1>5, <1>6, <1>7, <1>8, <1>9, <1>10, <1>11 DEF HostInv, HostBase

LEMMA HostSteps ==
  ASSUME HostAssumption, HostInv, [HostNext]_hostVars
  PROVE  HostInv'
<1> USE DEF HostInv
<1>2. ASSUME NEW c \in Callers, NEW op \in AllCalls, NEW h \in Handles,
             Begins(c, op, h), Enter(c, op, h, Of(c).at = "ioman")
      PROVE  HostInv'
  <2>1. HostBase' /\ (RenamesAlone => RenameInv')
    BY <1>2, EnterKeeps, EnterRename
  <2>2. mixed => mixed'
    <3>1. Entered(c, op, h)
      BY <1>2, EnterIs DEF HostBase
    <3> QED BY <3>1 DEF Entered
  <2>3. RenamesAlone /\ ~mixed' => FilesInv'
    BY <1>2, <2>2, EnterFiles
  <2> QED BY <2>1, <2>3 DEF RenamesAlone
<1>3. ASSUME NEW c \in Callers, Call(c)
      PROVE  HostInv'
  <2>1. PICK op \in Ops[c], h \in Handles : MayCall(c, op, h) /\ Enter(c, op, h, FALSE)
    BY <1>3 DEF Call
  <2>2. op \in AllCalls /\ Of(c).at = "idle" /\ Begins(c, op, h)
    BY <1>3, <2>1 DEF HostAssumption, Begins, Call
  <2>3. (Of(c).at = "ioman") = FALSE
    BY <2>2
  <2>4. Enter(c, op, h, Of(c).at = "ioman")
    BY <2>1, <2>3
  <2> QED BY <1>2, <2>2, <2>4
<1>4. ASSUME NEW c \in Callers, ioman_mkdir(c)
      PROVE  HostInv'
  <2>1. Of(c).at = "ioman" /\ Enter(c, "mkdir", 1, TRUE)
    BY <1>4 DEF ioman_mkdir
  <2>2. "mkdir" \in AllCalls /\ 1 \in Handles /\ Begins(c, "mkdir", 1)
    BY <2>1, CallSets DEF Begins, HostBase, CallInv, CallOk
  <2>3. (Of(c).at = "ioman") = TRUE
    BY <2>1
  <2>4. Enter(c, "mkdir", 1, Of(c).at = "ioman")
    BY <2>1, <2>3
  <2> QED BY <1>2, <2>2, <2>4
<1>5. ASSUME NEW c \in Callers, Takes(c)
      PROVE  HostInv'
  <2>1. /\ GoesOn(c) /\ calls'[c].at = "send" /\ calls'[c].how = Of(c).how /\ calls'[c].on = Of(c).on
        /\ SameMemory
    BY <1>5, TakesIs DEF HostBase
  <2>2. Of(c).at = "wait" /\ open_fds' = open_fds /\ mixed' = mixed /\ pc' = pc
    BY <1>5 DEF Takes
  <2>3. Going(c)
    <3>1. Of(c).how = "" /\ Of(c).on <= Len(pc)
      BY <2>2 DEF HostBase, CallInv, CallOk
    <3> QED BY <2>1, <2>2, <3>1 DEF Going, Turn
  <2>4. HostBase'
    BY <1>5, TakesKeeps
  <2>5. RenamesAlone => RenameInv'
    BY <2>1, <2>2, <2>3, GoingRename DEF SameMemory
  <2>6. RenamesAlone /\ ~mixed' => FilesInv'
    BY <1>5, <2>2, TakesFiles
  <2> QED BY <2>4, <2>5, <2>6 DEF RenamesAlone
<1>6. ASSUME NEW c \in Callers, pko_lwip_send(c)
      PROVE  HostInv'
  <2>1. (SendRefused(c) \/ SentOff(c)) /\ open_fds' = open_fds /\ (mixed => mixed')
    BY <1>6, SendIs DEF HostBase
  <2>2. Of(c).at = "send" /\ Of(c).how = "" /\ Of(c).on <= Len(pc)
    BY <1>6 DEF pko_lwip_send, HostBase, CallInv, CallOk
  <2>3. GoesOn(c) /\ fsys'.renamed_fd = fsys.renamed_fd /\ Len(pc') = Len(pc)
    BY <2>1 DEF SendRefused, SentOff, SameMemory, PutConn
  <2>4. Going(c)
    <3>1. CASE SendRefused(c)
      <4>1. calls'[c].at = "after" /\ calls'[c].how = "refused" /\ calls'[c].ret = -1 /\ calls'[c].on = Of(c).on
        BY <3>1 DEF SendRefused
      <4>2. calls'[c].ret < 0
        BY ONLY <4>1
      <4>3. calls'[c].at \in {"after"} \cup Turn /\ calls'[c].how \in {"refused", "reply", "stale"}
        BY <4>1
      <4>4. Of(c).at \in {"wait"} \cup Turn
        BY <2>2 DEF Turn
      <4> QED BY ONLY <2>2, <2>3, <4>1, <4>2, <4>3, <4>4 DEF Going
    <3>2. CASE SentOff(c)
      BY <2>2, <2>3, <3>2 DEF SentOff, Going, Turn
    <3> QED BY <2>1, <3>1, <3>2
  <2>5. HostBase'
    BY <1>6, SendKeeps
  <2>6. RenamesAlone => RenameInv'
    BY <2>1, <2>3, <2>4, GoingRename
  <2>7. RenamesAlone /\ ~mixed' => FilesInv'
    BY <1>6, <2>1, SendFiles
  <2> QED BY <2>5, <2>6, <2>7 DEF RenamesAlone
<1>7. ASSUME NEW c \in Callers, pko_recv_bytes(c)
      PROVE  HostInv'
  <2>1. GoesOn(c) /\ calls'[c].at = "receive" /\ calls'[c].how = Of(c).how /\ calls'[c].on = sock
    BY <1>7, ReceiveIs DEF HostBase
  <2>2. Of(c).at = "sent" /\ open_fds' = open_fds /\ mixed' = mixed /\ pc' = pc /\ fsys' = fsys
    BY <1>7 DEF pko_recv_bytes
  <2>3. Going(c)
    <3>1. Of(c).how = ""
      BY <2>2 DEF HostBase, CallInv, CallOk
    <3>2. sock \in {0, Len(pc)} /\ Len(pc) \in Nat
      BY DEF HostBase, HostType
    <3>3. sock <= Len(pc)
      BY ONLY <3>2
    <3> QED BY <2>1, <2>2, <3>1, <3>3 DEF Going, Turn
  <2>4. HostBase'
    BY <1>7, ReceiveKeeps
  <2>5. RenamesAlone => RenameInv'
    BY <2>2, <2>3, GoingRename
  <2>6. RenamesAlone /\ ~mixed' => FilesInv'
    BY <1>7, <2>2, ReceiveFiles
  <2> QED BY <2>4, <2>5, <2>6 DEF RenamesAlone
<1>8. ASSUME NEW c \in Callers, pko_accept_pkt(c)
      PROVE  HostInv'
  <2>1. HostBase'
    BY <1>8, AcceptKeeps
  <2>2. /\ ReplyTaken(c) \/ StreamEnded(c)
        /\ open_fds' = open_fds /\ mixed' = mixed /\ Of(c).on \in 1 .. Len(pc)
    BY <1>8, AcceptIs DEF HostBase
  <2>3. Of(c).at = "receive"
    BY <1>8 DEF pko_accept_pkt
  <2>4. fsys'.renamed_fd = fsys.renamed_fd
    BY <2>2 DEF ReplyTaken, StreamEnded, SameMemory
  <2>5. Going(c)
    <3>1. /\ GoesOn(c) /\ Len(pc') = Len(pc) /\ calls'[c].on = Of(c).on
          /\ \/ calls'[c].at = "send" /\ calls'[c].how = ""
             \/ calls'[c].at = "after" /\ calls'[c].how \in {"reply", "stale"}
      BY <2>2 DEF ReplyTaken, StreamEnded, PutConn
    <3>2. Of(c).on > 0 /\ Of(c).on <= Len(pc)
      BY <2>2
    <3>3. Of(c).at \in {"wait"} \cup Turn
      BY <2>3 DEF Turn
    <3> QED BY ONLY <3>1, <3>2, <3>3 DEF Going, Turn
  <2>6. RenamesAlone => RenameInv'
    BY <2>2, <2>4, <2>5, GoingRename
  <2>7. RenamesAlone /\ ~mixed' => FilesInv'
    BY <1>8, <2>2, AcceptFiles
  <2> QED BY <2>1, <2>6, <2>7 DEF RenamesAlone
<1>9. ASSUME NEW c \in Callers, Return(c)
      PROVE  HostInv'
  <2>1. mixed' = mixed
    BY <1>9 DEF Return
  <2> QED BY <1>9, <2>1, ReturnKeeps, ReturnRename, ReturnFiles DEF RenamesAlone
<1>10. ASSUME NEW k \in 1 .. Len(pc), Serves(k)
       PROVE  HostInv'
  <2>1. calls' = calls /\ open_fds' = open_fds /\ fsys' = fsys /\ mixed' = mixed
    BY <1>10 DEF Serves
  <2> QED BY <1>10, <2>1, ServesKeeps, StillRename, ServesFiles DEF RenamesAlone
<1>11. ASSUME NEW k \in 1 .. Len(pc), PcLeaves(k)
       PROVE  HostInv'
  <2>1. calls' = calls /\ open_fds' = open_fds /\ fsys' = fsys /\ mixed' = mixed
    BY <1>11 DEF PcLeaves
  <2> QED BY <1>11, <2>1, LeavesKeeps, StillRename, LeavesFiles DEF RenamesAlone
<1>12. ASSUME pko_file_serv
       PROVE  HostInv'
  <2>1. calls' = calls /\ open_fds' = open_fds /\ fsys' = fsys /\ mixed' = mixed
    BY <1>12 DEF pko_file_serv
  <2> QED BY <1>12, <2>1, ConnectedKeeps, StillRename, ConnectedFiles DEF RenamesAlone
<1>13. ASSUME UNCHANGED hostVars
       PROVE  HostInv'
  <2>1. calls' = calls /\ open_fds' = open_fds /\ fsys' = fsys /\ mixed' = mixed /\ pc' = pc /\ sock' = sock
    BY <1>13 DEF hostVars, sock
  <2>2. HostType' /\ ConnInv'
    BY <2>1 DEF HostBase, HostType, ConnInv
  <2>3. CallInv' /\ HandleInv' /\ HostMkdir'
    <3>1. Len(pc) <= Len(pc')
      BY <2>1 DEF HostBase, HostType
    <3>2. UNCHANGED <<calls, open_fds, fsys, mixed>>
      BY <2>1
    <3> QED BY <3>1, <3>2, CallsStay
  <2>4. StreamInv'
    BY <2>1 DEF HostBase, StreamInv, Own, Target, Of
  <2>5. HostBase'
    BY <2>2, <2>3, <2>4 DEF HostBase, HostMkdir
  <2> QED BY <1>13, <2>1, <2>5, StillRename, StillFiles DEF RenamesAlone
<1> QED BY <1>3, <1>4, <1>5, <1>6, <1>7, <1>8, <1>9, <1>10, <1>11, <1>12, <1>13 DEF HostNext

LEMMA HostInvSafe ==
  ASSUME HostInv
  PROVE  HostSafe
<1> USE DEF HostInv
<1>1. OwnReply
  BY DEF OwnReply, HostBase, CallInv, CallOk
<1>2. RemovesAlone => MkdirMeant
  BY DEF MkdirMeant, HostBase, MkdirInv
<1>3. ASSUME RenamesAlone
      PROVE  FilesOwned
  <2> SUFFICES ASSUME ~mixed, live
               PROVE  /\ \A c \in Callers, h \in Handles :
                          (/\ open_fds[c][h].on = sock /\ open_fds[c][h] # Closed
                           /\ ~(Busy(c) /\ Of(c).h = h)) =>
                             (open_fds[c][h].renamed <=> FileOf(open_fds[c][h].fd, c, h) \notin pc[sock].files)
                      /\ \A f \in pc[sock].files : \/ open_fds[f.by[1]][f.by[2]].fd = f.fd
                                                   \/ Busy(f.by[1]) /\ Of(f.by[1]).h = f.by[2]
    BY DEF FilesOwned, live, sock, FileOf
  <2>1. FilesLive /\ RenameInv /\ pc[sock].files \in SUBSET HostFiles
    BY <1>3, FilesTyped DEF FilesInv, HostBase
  <2>2. ASSUME NEW c \in Callers, NEW h \in Handles, open_fds[c][h].on = sock, ~(Busy(c) /\ Of(c).h = h)
        PROVE  open_fds[c][h].renamed <=> FileOf(open_fds[c][h].fd, c, h) \notin pc[sock].files
    <3>1. CASE open_fds[c][h].renamed
      <4>1. fsys.renamed_fd = open_fds[c][h].fd
        BY <2>1, <3>1 DEF RenameInv, RenamedOk
      <4>2. FileOf(open_fds[c][h].fd, c, h).fd = open_fds[c][h].fd
        BY DEF FileOf
      <4> QED BY <2>1, <3>1, <4>1, <4>2 DEF FilesLive, Untaken
    <3>2. CASE ~open_fds[c][h].renamed
      <4>1. Kept(c, h)
        BY <2>1 DEF FilesLive
      <4>2. ~(Of(c).h = h /\ Gone(c))
        <5>1. Of(c).at = "idle" => ~Told(c)
          BY DEF Told, Waiting
        <5> QED BY <2>2, <5>1 DEF Busy, Gone
      <4> QED BY <2>2, <3>2, <4>1, <4>2 DEF Kept
    <3>3. open_fds[c][h].renamed \in BOOLEAN
      BY DEF HostBase, HostType, FdStates
    <3> QED BY <3>1, <3>2, <3>3
  <2>3. ASSUME NEW f \in pc[sock].files
        PROVE  open_fds[f.by[1]][f.by[2]].fd = f.fd \/ (Busy(f.by[1]) /\ Of(f.by[1]).h = f.by[2])
    <3>1. PICK c \in Callers, h \in Handles : f.by = <<c, h>>
      BY <2>1 DEF HostFiles, Ids
    <3>2. OwnedBy(f, c, h)
      BY <2>1, <3>1 DEF FilesLive
    <3>3. Told(c) => Busy(c)
      BY DEF Told, Busy, Waiting
    <3> QED BY <3>1, <3>2, <3>3 DEF OwnedBy
  <2> QED BY <2>2, <2>3
<1> QED BY <1>1, <1>2, <1>3 DEF HostSafe

(* Whatever the stream does, for any callers, any handles and any number   *)
(* of connections: a reply is taken by the call that it answers; if one    *)
(* caller alone renames, opens and closes, the files that it has open here *)
(* and those that the PC has open are the same until a handle of an        *)
(* earlier connection is used; and if one caller alone removes, its mkdirs *)
(* reach the PC and ioman's do not (net_fio.c, net_fsys.c).                *)
THEOREM Ps2HostIsSafe ==
  ASSUME HostAssumption
  PROVE  HostSpec => []HostSafe
<1>1. HostInit => HostInv
  BY HostInits
<1>2. HostInv /\ [HostNext]_hostVars => HostInv'
  BY HostSteps
<1>3. HostInv => HostSafe
  BY HostInvSafe
<1> QED BY <1>1, <1>2, <1>3, PTL DEF HostSpec
=============================================================================
