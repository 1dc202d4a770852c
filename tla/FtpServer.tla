------------------------------ MODULE FtpServer ------------------------------
(***************************************************************************)
(* The FTP server, iop/oldlibs/ps2ftpd: one thread that serves a few       *)
(* clients by turns, each with its login, its data connection and the file *)
(* or directory that it has open.  A client is a record and a handler a    *)
(* function of it: the set of what the client can be afterwards, as the    *)
(* network and the devices answer.                                         *)
(***************************************************************************)
EXTENDS Integers, FiniteSets

CONSTANTS Slots,             \* m_kClientArray
          MaxLost            \* bound: how many sockets the clients of a slot may leave behind

VARIABLES client             \* each slot's client

(* Besides the members of the code a client counts the data sockets and    *)
(* the device files that are open for it, and notes how its conversation   *)
(* stands: "asked" for a transfer, "open" after the reply 150; polite is   *)
(* false once the user sent a command other than PORT in the middle of a   *)
(* transfer, or opened the data connection before asking for anything.     *)
(* lost counts the sockets that PASV opened and then forgot.               *)
FtpClient_Create ==
    [on |-> TRUE, m_eAuthState |-> "INVALID", m_iAuthAttempt |-> 0,
     m_iDataSocket |-> "none", m_eDataMode |-> "IDLE", m_eDataAction |-> "NONE",
     m_eConnState |-> "IDLE", m_iRemotePort |-> FALSE, m_eType |-> "INVALID", mode |-> "none",
     sockets |-> 0, lost |-> 0, opened |-> 0, talk |-> "idle", polite |-> TRUE]
Unused == [FtpClient_Create EXCEPT !.on = FALSE]

WriteActions == {"STOR", "APPE"}
ListActions == {"LIST", "NLST"}
Needs(action) == CASE action \in ListActions -> "dir"
                   [] action \in WriteActions -> "write"
                   [] OTHER -> "read"
-----------------------------------------------------------------------------
(* The files.  A device is told to close whatever the context calls an I/O *)
(* device, be it open or not.                                              *)
FileSystem_Close(c) ==
    [c EXCEPT !.m_eType = "INVALID", !.mode = "none",
              !.opened = IF c.m_eType = "IODEVICE" /\ @ > 0 THEN @ - 1 ELSE @]

(* Variant: only a path on a device closes the file. *)
ClassifyOver(c) == {[c EXCEPT !.m_eType = type, !.mode = "none"] : type \in {"INVALID", "DEVLIST", "IODEVICE"}}

(* A path that names no device, a list of devices or units, or a path on a *)
(* device; an open file is closed first.                                   *)
FileSystem_ClassifyPath(c) ==
    {[FileSystem_Close(c) EXCEPT !.m_eType = type] : type \in {"INVALID", "DEVLIST", "IODEVICE"}}

(* An open that succeeds leaves the file in the context, whether at the    *)
(* restart marker or, when that could not be reached, from the beginning.  *)
Opens(c, mode) ==
    [c EXCEPT !.m_eType = "IODEVICE", !.mode = mode, !.opened = @ + 1]

FileSystem_OpenFile(c, mode) ==
    {[d EXCEPT !.m_eType = IF @ = "DEVLIST" THEN @ ELSE "INVALID"] : d \in FileSystem_ClassifyPath(c)}
    \cup {Opens(d, mode) : d \in {e \in FileSystem_ClassifyPath(c) : e.m_eType = "IODEVICE"}}

FileSystem_OpenDir(c) ==
    LET classed == FileSystem_ClassifyPath(c) IN
    {[d EXCEPT !.m_eType = IF @ = "DEVLIST" THEN @ ELSE "INVALID"] : d \in classed}
    \cup {Opens(d, "dir") : d \in {e \in classed : e.m_eType = "IODEVICE"}}

IsOpen(c) == c.m_eType = "IODEVICE" /\ c.mode # "none"
DirReady(c) == IsOpen(c) \/ c.m_eType = "DEVLIST"

(* The commands on a path leave the context on its device, with no file.   *)
OnPath(c) == FileSystem_ClassifyPath(c)
FileSystem_DeleteFile(c) == OnPath(c)
FileSystem_CreateDir(c) == OnPath(c)
FileSystem_DeleteDir(c) == OnPath(c)
FileSystem_Rename(c) == OnPath(c)

(* Those that mount leave it invalid, but for a path that is not a device. *)
Settled(d) == IF d.m_eType = "IODEVICE" THEN [d EXCEPT !.m_eType = "INVALID"] ELSE d
FileSystem_MountDevice(c) == {Settled(d) : d \in FileSystem_ClassifyPath(c)}
FileSystem_UnmountDevice(c) == {Settled(d) : d \in FileSystem_ClassifyPath(c)}
FileSystem_SyncDevice(c) == {Settled(d) : d \in FileSystem_ClassifyPath(c)}
FileSystem_GetFileSize(c) == {[FileSystem_Close(c) EXCEPT !.m_eType = "INVALID"]}

(* Below hdd a change of directory unmounts and mounts a partition.        *)
FileSystem_ChangeDir(c) ==
    {c} \cup FileSystem_UnmountDevice(c)
        \cup UNION {FileSystem_MountDevice(d) : d \in FileSystem_UnmountDevice(c)}
-----------------------------------------------------------------------------
(* The data connection.                                                    *)
Disconnected(c) ==
    IF c.m_iDataSocket = "none" THEN c
    ELSE [c EXCEPT !.m_iDataSocket = "none", !.sockets = @ - 1]

(* Variant: the mode of the transfer is kept. *)
CleanupKeepsMode(c) ==
    [Disconnected(FileSystem_Close(c)) EXCEPT !.m_iRemotePort = FALSE, !.m_eConnState = "IDLE"]

(* Variant: only a connected socket is closed. *)
CleanupRunning(c) ==
    LET closed == FileSystem_Close(c) IN
    [(IF c.m_eConnState = "RUNNING" THEN Disconnected(closed) ELSE closed) EXCEPT
        !.m_iDataSocket = "none",
        !.m_iRemotePort = FALSE, !.m_eConnState = "IDLE", !.m_eDataMode = "IDLE"]

FtpClient_OnDataCleanup(c) ==
    [Disconnected(FileSystem_Close(c)) EXCEPT
        !.m_iRemotePort = FALSE, !.m_eConnState = "IDLE", !.m_eDataMode = "IDLE"]

FtpClient_OnDataComplete(c) == [FtpClient_OnDataCleanup(c) EXCEPT !.talk = "idle"]
FtpClient_OnDataFailed(c) == FtpClient_OnDataComplete([c EXCEPT !.m_eDataAction = "NONE"])

FtpClient_OnDataConnected(c) ==
    CASE c.m_eDataAction \in ListActions \cup {"RETR"} ->
             [c EXCEPT !.m_eDataMode = "WRITE", !.m_eConnState = "RUNNING", !.talk = "open"]
      [] c.m_eDataAction \in WriteActions ->
             [c EXCEPT !.m_eDataMode = "READ", !.m_eConnState = "RUNNING", !.talk = "open"]
      [] OTHER -> [c EXCEPT !.m_eDataMode = "IDLE", !.m_eConnState = "RUNNING"]

(* Variant: the socket that is there is not closed. *)
ConnectOver(c) ==
    LET new == [c EXCEPT !.m_iDataSocket = "data", !.sockets = @ + 1] IN
    {FtpClient_OnDataFailed(c), FtpClient_OnDataFailed(new), FtpClient_OnDataConnected(new)}

(* To the port that PORT named: the sockets block, so the connection is    *)
(* there or has failed when connect returns.                               *)
FtpClient_OnDataConnect(c) ==
    LET new == [Disconnected(c) EXCEPT !.m_iDataSocket = "data", !.sockets = @ + 1] IN
    {FtpClient_OnDataFailed(Disconnected(c)), FtpClient_OnDataFailed(new), FtpClient_OnDataConnected(new)}

FtpClient_HandleDataConnect(c) ==
    IF c.m_eConnState = "RUNNING" THEN {FtpClient_OnDataConnected(c)}
    ELSE IF c.m_iRemotePort THEN FtpClient_OnDataConnect(c)
    ELSE IF c.m_eConnState # "LISTEN" THEN {FtpClient_OnDataFailed(c)}
    ELSE {c}
-----------------------------------------------------------------------------
(* The commands of a client that is logged in.                             *)
(* When the address of the new socket cannot be read PASV fails without    *)
(* closing the socket, which no record names from then on.                 *)
FtpClient_OnCmdPasv(c) ==
    LET clean == FtpClient_OnDataCleanup(c) IN
    {clean, [clean EXCEPT !.m_iDataSocket = "listen", !.sockets = @ + 1, !.m_eConnState = "LISTEN"]}
    \cup {[e EXCEPT !.sockets = @ + 1, !.lost = @ + 1] : e \in {f \in {clean} : f.lost < MaxLost}}

FtpClient_OnCmdPort(c) == {c, [c EXCEPT !.m_iRemotePort = TRUE]}

Asked(c) == [c EXCEPT !.talk = "asked"]
Refused(c) == [c EXCEPT !.talk = "idle"]

(* A list sets the action before it opens, the others after it: when the   *)
(* open fails the action of the transfer before is still there.            *)
FtpClient_OnCmdList(c) ==
    UNION {LET asked == {[d EXCEPT !.m_eDataAction = action] : d \in FileSystem_OpenDir(Asked(c))} IN
           {Refused(d) : d \in {e \in asked : ~DirReady(e)}}
               \cup UNION {FtpClient_HandleDataConnect(d) : d \in {e \in asked : DirReady(e)}}
           : action \in ListActions}

Transfers(c, action) ==
    LET tried == FileSystem_OpenFile(Asked(c), Needs(action)) IN
    {Refused(d) : d \in {e \in tried : ~IsOpen(e)}}
    \cup UNION {FtpClient_HandleDataConnect([d EXCEPT !.m_eDataAction = action])
                : d \in {e \in tried : IsOpen(e)}}

FtpClient_OnCmdRetr(c) == Transfers(c, "RETR")
FtpClient_OnCmdStor(c) == Transfers(c, "STOR")
FtpClient_OnCmdAppe(c) == Transfers(c, "APPE")

(* Whether the name exists is found out by opening it, as a file and then  *)
(* as a directory; a name that does is classified anew, which closes it.   *)
FtpClient_OnCmdRnfr(c) ==
    LET file == FileSystem_OpenFile(c, "read")
        dir == UNION {FileSystem_OpenDir(d) : d \in {e \in file : ~IsOpen(e)}}
        found == {d \in file : IsOpen(d)} \cup {d \in dir : DirReady(d)}
    IN {d \in dir : ~DirReady(d)}
       \cup UNION {{e \in FileSystem_ClassifyPath(d) : e.m_eType = d.m_eType} : d \in found}

FtpClient_OnCmdSite(c) ==
    {c} \cup FileSystem_MountDevice(c) \cup FileSystem_UnmountDevice(c) \cup FileSystem_SyncDevice(c)

InTransfer(c) == c.talk # "idle"
Impolite(c) == IF InTransfer(c) THEN [c EXCEPT !.polite = FALSE] ELSE c

FtpClient_OnCommand(c) ==
    LET d == Impolite(c) IN
    FtpClient_OnCmdPort(c) \cup FtpClient_OnCmdPasv(d) \cup FtpClient_OnCmdList(d)
    \cup FtpClient_OnCmdRetr(d) \cup FtpClient_OnCmdStor(d) \cup FtpClient_OnCmdAppe(d)
    \cup FtpClient_OnCmdRnfr(d) \cup FtpClient_OnCmdSite(d)
    \cup FileSystem_ChangeDir(d) \cup FileSystem_DeleteFile(d) \cup FileSystem_CreateDir(d)
    \cup FileSystem_DeleteDir(d) \cup FileSystem_Rename(d) \cup FileSystem_GetFileSize(d)

(* The login: a wrong password may be tried three times.                   *)
FtpServer_OnClientDisconnect(c) ==
    [FileSystem_Close(FtpClient_OnDataCleanup(c)) EXCEPT !.on = FALSE]

FtpClient_OnCmdUser(c) == {[c EXCEPT !.m_eAuthState = s] : s \in {"VALID", "PASSWORD", "FAKEPASS"}}

FtpClient_OnCmdPass(c) ==
    (IF c.m_eAuthState = "PASSWORD" THEN {[c EXCEPT !.m_eAuthState = "VALID"]} ELSE {})
    \cup (IF c.m_eAuthState = "INVALID" THEN {c}
          ELSE LET d == [c EXCEPT !.m_iAuthAttempt = @ + 1, !.m_eAuthState = "INVALID"] IN
               {IF d.m_iAuthAttempt > 3 THEN FtpServer_OnClientDisconnect(d) ELSE d})
-----------------------------------------------------------------------------
(* Events on the data socket.                                              *)
Accepted(c) ==
    LET d == [c EXCEPT !.polite = @ /\ c.talk = "asked", !.m_iDataSocket = "data"] IN
    FtpClient_OnDataConnected(d)

FtpClient_OnDataRead(c) ==
    IF c.m_eDataAction \notin WriteActions THEN {FtpClient_OnDataFailed(c)}
    ELSE {FtpClient_OnDataFailed(c), FtpClient_OnDataComplete(c)}
         \cup (IF IsOpen(c) /\ c.mode = "write" THEN {c} ELSE {})

FtpClient_OnDataWrite(c) ==
    CASE c.m_eDataAction = "RETR" ->
             {FtpClient_OnDataFailed(c)}
             \cup (IF IsOpen(c) /\ c.mode = "read" THEN {c, FtpClient_OnDataComplete(c)} ELSE {})
      [] c.m_eDataAction \in ListActions ->
             {FtpClient_OnDataComplete(c)} \cup (IF DirReady(c) THEN {c} ELSE {})
      [] OTHER -> {FtpClient_OnDataFailed(c)}
-----------------------------------------------------------------------------
FtpInit == client = [s \in Slots |-> Unused]

(* What was left open stays open, whoever has the slot next. *)
LeftOpen(d, c) == [c EXCEPT !.sockets = d.sockets, !.lost = d.lost, !.opened = d.opened]

Becomes(s, d) == client' = [client EXCEPT ![s] = IF d.on THEN d ELSE LeftOpen(d, Unused)]

FtpServer_OnClientConnect(s) ==
    /\ ~client[s].on
    /\ Becomes(s, LeftOpen(client[s], FtpClient_Create))

OnControl(s) ==
    /\ client[s].on
    /\ \E d \in IF client[s].m_eAuthState = "VALID"
                THEN FtpClient_OnCommand(client[s])
                ELSE FtpClient_OnCmdUser(client[s]) \cup FtpClient_OnCmdPass(client[s]) : Becomes(s, d)

(* QUIT, or the control connection is lost. *)
Leaves(s) == client[s].on /\ Becomes(s, FtpServer_OnClientDisconnect(client[s]))

OnData(s) ==
    LET c == client[s] IN
    /\ c.on /\ c.m_iDataSocket # "none"
    /\ \/ c.m_eConnState = "LISTEN" /\ Becomes(s, Accepted(c))
       \/ c.m_eConnState # "LISTEN" /\ c.m_eDataMode = "WRITE" /\ \E d \in FtpClient_OnDataWrite(c) : Becomes(s, d)
       \/ c.m_eConnState # "LISTEN" /\ c.m_eDataMode = "READ" /\ \E d \in FtpClient_OnDataRead(c) : Becomes(s, d)

FtpServer_HandleEvents ==
    \E s \in Slots : FtpServer_OnClientConnect(s) \/ OnControl(s) \/ Leaves(s) \/ OnData(s)

Spec == FtpInit /\ [][FtpServer_HandleEvents]_client
-----------------------------------------------------------------------------
(* Whatever a client sends, and whenever its connections fail, every data  *)
(* socket and every device file that was opened for it is the one that its *)
(* record names, so that nothing is left open when it is gone: nothing but *)
(* the listening socket of a PASV whose last step failed.                  *)
NothingLeaked ==
    \A s \in Slots :
        /\ client[s].sockets = client[s].lost + IF client[s].m_iDataSocket = "none" THEN 0 ELSE 1
        /\ client[s].opened = IF IsOpen(client[s]) THEN 1 ELSE 0

(* While data flows for a client that asks before it connects and waits    *)
(* for each transfer to end, the reply 150 has been sent and the file is   *)
(* open in the way that the command needs.                                 *)
TransferHasFile ==
    \A s \in Slots :
        client[s].polite /\ client[s].m_eDataMode # "IDLE" =>
            /\ client[s].talk = "open" /\ client[s].m_eConnState = "RUNNING"
            /\ \/ client[s].mode = Needs(client[s].m_eDataAction)
               \/ client[s].m_eDataAction \in ListActions /\ client[s].m_eType = "DEVLIST"

(* Whatever commands, data and failures come in whatever order, no data    *)
(* socket or file is open that the client's record does not name, but for  *)
(* the sockets of failed PASVs; and data only flows after the reply 150,   *)
(* with the file open as the command needs (FtpClient.c, FileSystem.c,     *)
(* FtpCommands.c).                                                         *)
FtpServerSafe == NothingLeaked /\ TransferHasFile
===============================================================================
