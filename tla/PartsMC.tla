------------------------------- MODULE PartsMC -------------------------------
(***************************************************************************)
(* The parts of the system that share no state with one another, checked   *)
(* together: a behaviour picks one part, the focus, and runs that one.     *)
(***************************************************************************)
EXTENDS Integers, Sequences, TLC

VARIABLES
    focus,                                      \* the part that runs
    v1, v2, v3, v4, v5, v6, v7, v8, v9, v10, v11, v12
                                                \* its variables, in its order; the rest is Off

-----------------------------------------------------------------------------
(* The blocks of a virtual memory card, with two blocks of two clusters.   *)

(* Changes to both clusters of block 1, one of the file system and one of  *)
(* written data, and changes of block 2.                                   *)
VmcCalls ==
    {call \in [cluster : {1, 2} \X {0, 1}, data : BOOLEAN, change : BOOLEAN] :
        \/ call.cluster = <<1, 0>> /\ call.change /\ ~call.data
        \/ call.cluster = <<1, 1>> /\ call.change /\ call.data
        \/ call.cluster = <<2, 0>> /\ call.change /\ call.data}
Blocks == INSTANCE VmcBlocks
    WITH image <- v1, mccache <- v2, job <- v3, cardform <- v4, home <- v5, want <- v6,
         exposed <- v7, acked <- v8, current <- v9, cuts <- v10,
         Blocks <- {1, 2}, backup_block1 <- 3, backup_block2 <- 4, PerBlock <- 2, Calls <- VmcCalls,
         MAX_CACHEENTRY <- 2, MaxVersion <- 1, MaxCuts <- 2
ASSUME VmcCard == Blocks!VmcAssumption

(* After any number of cuts of a flush or of a recovery, a block that was  *)
(* programmed behind its backup is the old block or the new one, nothing   *)
(* that a completed flush had covered is gone, and the cache answers with  *)
(* what was written (mcman_flushcacheentry, mcman_checkBackupBlocks).      *)
VmcBlocksSafe == focus = "blocks" => Blocks!VmcBlocksSafe
-----------------------------------------------------------------------------
(* The files of a virtual memory card of four clusters.                    *)
Files == INSTANCE VmcFiles
    WITH fat <- v1, hint <- v2, dirs <- v3, fds <- v4, descended <- v5,
         N <- 4, MAX_FDHANDLES <- 2, FileNames <- {"a", "b"}, DirNames <- {}, MaxSize <- 2
InFolders == INSTANCE VmcFiles
    WITH fat <- v1, hint <- v2, dirs <- v3, fds <- v4, descended <- v5,
         N <- 4, MAX_FDHANDLES <- 2, FileNames <- {"a"}, DirNames <- {"d"}, MaxSize <- 2

(* Whatever several handles do on a card that fills up: no cluster is      *)
(* shared, lost, or free inside a chain, what a handle remembers of its    *)
(* chain is true, the length of a file is backed by clusters, and the card *)
(* is only reported as full when it is.                                    *)
VmcFilesSafe ==
    focus \in {"files", "folders"} =>
        /\ InFolders!ChainsSound /\ InFolders!HandleTracksChain
        /\ InFolders!LengthBacked /\ InFolders!FullMeansFull
-----------------------------------------------------------------------------
(* Memory card emulators: two threads on two of them with one file, two    *)
(* threads that open two files of one of them with one handle, and one     *)
(* thread with two files and two handles and a reserved descriptor.        *)
TwoCardEmulators == INSTANCE MmceFs
    WITH mmce_fs_fds <- v1, last_unit <- v2, mmce_port <- v3, file <- v4, owner <- v5,
         handler <- v6, event_flag <- v7, alarm <- v8, bus <- v9, talks <- v10,
         call <- v11, overlap <- v12,
         Threads <- {"main", "ftp"}, Units <- {0, 1}, MMCE_FS_MAX_FD <- 1, FileSlots <- {1},
         CardFds <- {1}, Reserved <- {}
TwoOpens == INSTANCE MmceFs
    WITH mmce_fs_fds <- v1, last_unit <- v2, mmce_port <- v3, file <- v4, owner <- v5,
         handler <- v6, event_flag <- v7, alarm <- v8, bus <- v9, talks <- v10,
         call <- v11, overlap <- v12,
         Threads <- {"main", "ftp"}, Units <- {0}, MMCE_FS_MAX_FD <- 1, FileSlots <- {1, 2},
         CardFds <- {1}, Reserved <- {}
TwoCardFiles == INSTANCE MmceFs
    WITH mmce_fs_fds <- v1, last_unit <- v2, mmce_port <- v3, file <- v4, owner <- v5,
         handler <- v6, event_flag <- v7, alarm <- v8, bus <- v9, talks <- v10,
         call <- v11, overlap <- v12,
         Threads <- {"main"}, Units <- {0}, MMCE_FS_MAX_FD <- 2, FileSlots <- {1, 2},
         CardFds <- {1, 250}, Reserved <- {250}
ASSUME MmceThreads ==
    TwoCardEmulators!MmceAssumption /\ TwoOpens!MmceAssumption /\ TwoCardFiles!MmceAssumption

(* Whatever the order of the interrupt, the alarm and the two threads, and *)
(* wherever a call times out: the bus goes back with sio2man's handler and *)
(* without a bit or an alarm of an old transfer, and but for calls that    *)
(* meet before the lock a transfer that a call takes as complete was       *)
(* answered by the card of its unit, and the handle of an open file holds  *)
(* that file's descriptor.                                                 *)
MmceFsSafe ==
    /\ focus = "mmce" => TwoCardEmulators!MmceFsSafe
    /\ focus = "mmceopens" => TwoOpens!MmceFsSafe
    /\ focus = "mmcefiles" => TwoCardFiles!MmceFsSafe
-----------------------------------------------------------------------------
(* One client of the FTP server: clients share nothing that the model has. *)
Ftp == INSTANCE FtpServer
    WITH client <- v1,
         Slots <- {1}, MaxLost <- 1

(* Whatever commands, data and failures come in whatever order, no data    *)
(* socket or file is open that the client's record does not name, but for  *)
(* the sockets of failed PASVs; and data only flows after the reply 150,   *)
(* with the file open as the command needs.                                *)
FtpServerSafe == focus = "ftp" => Ftp!FtpServerSafe
-----------------------------------------------------------------------------
(* Two installations on a card with little room, of a Japanese console and *)
(* of a PSX, with four of the targets.                                     *)
TwoConsoles ==
    {[region |-> "J", rom |-> "100", psx |-> FALSE, dtl |-> FALSE, xsystem |-> FALSE],
     [region |-> "J", rom |-> "180", psx |-> TRUE, dtl |-> FALSE, xsystem |-> TRUE]}
InstallKb(x) ==
    CASE x \in {"part", "icon.sys", "list.icn"} -> 1 [] x \in {"OSDSYS", "OSD110"} -> 2 [] OTHER -> 3
Installer == INSTANCE ExploitInstaller
    WITH console <- v1, mc <- v2, install <- v3,
         Consoles <- TwoConsoles, Capacities <- {16}, Entries <- {1, 3, 9}, SizeOf <- InstallKb,
         EXPLOIT_BOOT_ELF_RESERVE_KB <- 4, MaxInstalls <- 2

(* However an installation ends, and whatever one before it left behind:   *)
(* "done" means that all is there, the estimate of the room is only short  *)
(* of what larger directories take, and nothing but the plan's folders was *)
(* touched, and not before all that can be prepared was.                   *)
ExploitInstallerSafe ==
    focus = "install" =>
        Installer!DoneIsInstalled /\ Installer!EstimateEnough /\ Installer!OthersUntouched
-----------------------------------------------------------------------------
(* A disk of four units with two games, of which names differ in one step. *)
Plain(text) == [text |-> text, num |-> 0]
TwoGames ==
    LET Of(name, type, game) == [name |-> Plain(name), type |-> type, size |-> 1, sub |-> FALSE, nsub |-> 0,
                                 bad |-> FALSE, game |-> Plain(game)] IN
    <<Of("__mbr", "MBR", "none"), Of("h", "HDL", "g"), Of("i", "HDL", "h")>>
Hdd == INSTANCE HddManager
    WITH disk <- v1, ui <- v2, bulk <- v3,
         Typed <- {Plain("a"), Plain("__")}, Protected <- {"__", "__mbr"}, FirstChain <- TwoGames,
         GameNames <- {Plain("g"), Plain("h")}, MAX_PARTITIONS <- 3, TotalMb <- 4, MaxChanges <- 2,
         Sources <- {<<Plain("a"), Plain("h")>>}

(* The list of the hard disk manager, kept up by hand through whatever     *)
(* succeeds or fails, agrees with the disk, with the exceptions that the   *)
(* module names; its count of free room promises nothing that is not       *)
(* there, no operation trips over a mount of the program's own, and an     *)
(* injection into many partitions accounts for each of them.               *)
HddManagerSafe ==
    focus = "hdd" => /\ Hdd!ListIsDisk /\ Hdd!UsedCovers /\ Hdd!NeverBusy
                     /\ Hdd!ProtectedStay /\ Hdd!GamesTrue /\ Hdd!BulkCounts
-----------------------------------------------------------------------------
(* A header as the program writes it, and one of another program in which  *)
(* SYSTEM.CNF has less room and another file is elsewhere.                 *)
HeaderTables ==
    LET At(offset, size) == [offset |-> offset, size |-> size]
        Table(cnf, icon, list, kelf) ==
            [f \in {"system.cnf", "icon.sys", "list.ico", "boot.kelf"} |->
                CASE f = "system.cnf" -> cnf [] f = "icon.sys" -> icon [] f = "list.ico" -> list [] OTHER -> kelf] IN
    {Table(At(2, 1), At(4, 2), At(6, 2), At(8, 1)), Table(At(2, 1), At(3, 1), At(6, 2), At(5, 1))}
HeaderFolders ==
    LET Folder(cnf, icon, list, kelf, info, boot) ==
            [f \in {"system.cnf", "icon.sys", "list.ico", "boot.kelf", "info.sys", "BOOT.ELF"} |->
                CASE f = "system.cnf" -> cnf [] f = "icon.sys" -> icon [] f = "list.ico" -> list
                  [] f = "boot.kelf" -> kelf [] f = "info.sys" -> info [] OTHER -> boot] IN
    {Folder(2, 1, 1, 2, 0, 1), Folder(1, 0, 0, 1, 1, 0), Folder(2, 1, 1, 0, 0, 0), Folder(2, 1, 3, 0, 0, 0)}
Header == INSTANCE HddHeader
    WITH console_is_PSX <- v1, hdr <- v2, source <- v3, pfs <- v4, tmpfiles <- v5,
         task <- v6,
         Tables <- HeaderTables, Folders <- HeaderFolders, MaxOps <- 2

(* Whatever fails or is unplugged during an injection or an edit: a header *)
(* is not touched before all that is needed has been read, points at whole *)
(* files afterwards, an edit changes no other file even when it is cut,    *)
(* and the temporary files of another run are left alone.                  *)
HddHeaderSafe ==
    focus = "header" => Header!HeaderWhole /\ Header!EditKeepsOthers /\ Header!NoTempLeft /\ Header!RequiredRead
-----------------------------------------------------------------------------
(* A Bluetooth adapter with two controllers, that ask for a link twice in  *)
(* all while it is plugged, and one call of ds34bt_reset.                  *)
Bluetooth == INSTANCE Ds34Bt
    WITH bt_dev <- v1, ds34pad <- v2, hid_sema <- v3, rpc <- v4, cb <- v5, adapter <- v6,
         taken <- v7, pages <- v8,
         MAX_PADS <- 2, Pads <- {1, 2}, Handles <- {1, 2}, Kind <- <<"DS4", "fake">>, MaxEvents <- 1, MaxPages <- 2

(* In whatever order the adapter, the controllers, the hub thread and an   *)
(* RPC meet: a slot has the link of its own controller, a running slot     *)
(* will be told of the end of its link, no link is forgotten unless a      *)
(* second controller came during its set-up, the adapter that the driver   *)
(* describes is the one plugged in, and the semaphore is not lost.         *)
Ds34BtSafe ==
    focus = "bt" => /\ Bluetooth!SlotsTrue /\ Bluetooth!RunningEnds /\ Bluetooth!LinksOwned
                    /\ Bluetooth!AdapterKnown /\ Bluetooth!SemaReturned
-----------------------------------------------------------------------------
(* Two discs, of which a block of one directory is cached at a time, and   *)
(* two open files on a disc.                                               *)

Sector(files, folders) ==
    LET Named(names, dir) == [i \in 1..Len(names) |-> [name |-> names[i], dir |-> dir]]
    IN [entries |-> Named(folders, TRUE) \o Named(files, FALSE), full |-> FALSE]
FullSector(files, folders) == [Sector(files, folders) EXCEPT !.full = TRUE]
DiscContents ==
    [A |-> (<<>> :> <<Sector(<<>>, <<"b">>), Sector(<<"g">>, <<"a">>)>>)
           @@ (<<"a">> :> <<Sector(<<"g">>, <<>>), FullSector(<<"h">>, <<>>)>>)
           @@ (<<"b">> :> <<Sector(<<"f">>, <<>>)>>),
     B |-> (<<>> :> <<FullSector(<<"g">>, <<"b">>), Sector(<<>>, <<"a">>)>>)
           @@ (<<"a">> :> <<Sector(<<"f">>, <<>>)>>) @@ (<<"b">> :> <<Sector(<<"f">>, <<>>)>>),
     C |-> (<<>> :> <<Sector(<<"f", "g">>, <<>>)>>)]
DiscRequests ==
    {[path |-> q[1], name |-> q[2]] :
        q \in {<<<<>>, "g">>, <<<<"b">>, "f">>, <<<<"a">>, "f">>, <<<<"a">>, "h">>, <<<<"a", "..">>, "f">>}}
FileRequests == {[path |-> <<>>, name |-> name] : name \in {"f", "g"}}
HalfSectors == [f |-> 3, g |-> 1]
Cdvd == INSTANCE Libcdvd
    WITH tray <- v1, cached <- v2, req <- v3, fd_table <- v4, kernel <- v5, buffer <- v6,
         changes <- v7,
         Calls <- {"find", "dir"}, MAX_DIR_CACHE_SECTORS <- 1, Discs <- {"A", "B"}, Contents <- DiscContents,
         Requests <- DiscRequests, ReqEntries <- 3, Fds <- {1}, KernelFiles <- {}, SizeOf <- HalfSectors,
         MaxRead <- 2, MaxChanges <- 3
CdvdFiles == INSTANCE Libcdvd
    WITH tray <- v1, cached <- v2, req <- v3, fd_table <- v4, kernel <- v5, buffer <- v6,
         changes <- v7,
         Calls <- {"open"}, MAX_DIR_CACHE_SECTORS <- 1, Discs <- {"C"}, Contents <- DiscContents,
         Requests <- FileRequests, ReqEntries <- 3, Fds <- {1, 2}, KernelFiles <- {1, 2}, SizeOf <- HalfSectors,
         MaxRead <- 2, MaxChanges <- 1

-----------------------------------------------------------------------------
(* Four headers of one chain in a cache of the least size, three buffers.  *)
Cache == INSTANCE ApaCache
    WITH apa <- v1,
         Buffers <- 1..3, Sectors <- 0..3, MaxFailures <- 1

(* Between any two calls, and wherever a read of one failed: the list has  *)
(* the buffers that nobody holds, no header is in two buffers, no change   *)
(* is left unwritten, a call keeps no buffer except where a read failed,   *)
(* and without a failure three buffers are enough for every call.          *)
ApaCacheSafe ==
    focus = "cache" => Cache!ListSound /\ Cache!NothingDirty /\ Cache!NoLeak /\ Cache!Enough
-----------------------------------------------------------------------------
(* The PC's files seen by one caller that also removes and makes folders,  *)
(* by one whose PC comes back once, and by two callers at a time.          *)
Host == INSTANCE Ps2Host
    WITH pko_fileio_sock <- v1, pc <- v2, calls <- v3, open_fds <- v4, fsys <- v5,
         mixed <- v6,
         Callers <- {1, 2}, Handles <- 1..2, Segments <- 2, MaxConnections <- 1,
         Ops <- <<{"open", "close", "ioctl", "remove", "mkdir"}, {}>>
HostAgain == INSTANCE Ps2Host
    WITH pko_fileio_sock <- v1, pc <- v2, calls <- v3, open_fds <- v4, fsys <- v5,
         mixed <- v6,
         Callers <- {1, 2}, Handles <- 1..2, Segments <- 2, MaxConnections <- 2,
         Ops <- <<{"open", "close", "ioctl"}, {}>>
HostTwo == INSTANCE Ps2Host
    WITH pko_fileio_sock <- v1, pc <- v2, calls <- v3, open_fds <- v4, fsys <- v5,
         mixed <- v6,
         Callers <- {1, 2}, Handles <- 1..2, Segments <- 2, MaxConnections <- 1,
         Ops <- <<{"dopen", "write"}, {"mkdir", "rmdir"}>>
ASSUME HostCallers ==
    /\ Host!HostAssumption /\ HostAgain!HostAssumption /\ HostTwo!HostAssumption
    /\ Host!RenamesAlone /\ HostAgain!RenamesAlone /\ HostTwo!RenamesAlone
    /\ Host!RemovesAlone /\ HostAgain!RemovesAlone /\ HostTwo!RemovesAlone

(* Whatever the stream does: a reply answers the call that takes it; one   *)
(* caller has no file open on the PC that it has closed here, and none     *)
(* closed there that is open here, until it uses a handle of an earlier    *)
(* connection; and a folder is made when the caller asked for it, not when *)
(* ioman did.                                                              *)
Ps2HostSafe ==
    /\ focus \in {"host", "hostagain"} => Host!HostSafe
    /\ focus = "hosttwo" => HostTwo!HostSafe
-----------------------------------------------------------------------------
TwoFiles == [A |-> <<"a", "CR", "LF">>, B |-> <<>>]
TypingText == INSTANCE TextEditor
    WITH windows <- v1, editor <- v2, onDisk <- v3,
         Windows <- {1, 2}, Paths <- {"A", "B"}, FirstFiles <- TwoFiles,
         Keys <- {"right", "insert", "retmode", "char", "return", "backspace", "delete"},
         MaxCommands <- 3, MaxPush <- 1, Rows_Width <- 3, PageRows <- 2
Rows == INSTANCE TextEditor
    WITH windows <- v1, editor <- v2, onDisk <- v3,
         Windows <- {1, 2}, Paths <- {"A", "B"}, FirstFiles <- TwoFiles,
         Keys <- {"right", "up", "down", "home", "end", "pagedown", "pageup", "char", "board", "mark", "copy"},
         MaxCommands <- 2, MaxPush <- 1, Rows_Width <- 3, PageRows <- 2
Marking == INSTANCE TextEditor
    WITH windows <- v1, editor <- v2, onDisk <- v3,
         Windows <- {1, 2}, Paths <- {"A", "B"}, FirstFiles <- TwoFiles,
         Keys <- {"left", "right", "mark", "copy", "cut", "paste", "backspace"},
         MaxCommands <- 5, MaxPush <- 1, Rows_Width <- 3, PageRows <- 2
TwoTexts == INSTANCE TextEditor
    WITH windows <- v1, editor <- v2, onDisk <- v3,
         Windows <- {1, 2}, Paths <- {"A", "B"}, FirstFiles <- TwoFiles,
         Keys <- {"menu", "mark", "end", "char", "insert"},
         MaxCommands <- 4, MaxPush <- 1, Rows_Width <- 3, PageRows <- 2

(* Whatever is typed, marked, cut and pasted: the length that the editor   *)
(* counts is that of the text, the cursor and the mark are in it, no edit  *)
(* parts CR and LF, the clipboard has what was cut, and a window that says *)
(* it is saved is; each with the exceptions that its definition names.     *)
TextEditorSafe ==
    /\ focus = "typing" => TypingText!SizeIsText /\ TypingText!CursorInText /\ TypingText!ReturnsWhole
    /\ focus = "rows" => Rows!CursorInText /\ Rows!MarkInText
    /\ focus = "marking" => /\ Marking!SizeIsText /\ Marking!ReturnsWhole
                            /\ Marking!ClipboardWhole /\ Marking!MarkInText
    /\ focus = "texts" => /\ TwoTexts!SavedIsOnDisk /\ TwoTexts!MarkInText
                          /\ TwoTexts!ClipboardWhole /\ TwoTexts!SizeIsText
-----------------------------------------------------------------------------
TwoPads == INSTANCE Pads
    WITH pads <- v1, reader <- v2, poll <- v3, changes_left <- v4,
         Polled <- FALSE, Ports <- {1, 2}, Buttons <- {"x"}, MaxChanges <- 2,
         InitDelay <- 3, EarlyDelay <- 2, EarlyRepeats <- 1
PolledPad == INSTANCE Pads
    WITH pads <- v1, reader <- v2, poll <- v3, changes_left <- v4,
         Polled <- TRUE, Ports <- {1}, Buttons <- {"x"}, MaxChanges <- 2,
         InitDelay <- 3, EarlyDelay <- 2, EarlyRepeats <- 1

(* A button that is held is told, and told again no sooner than the        *)
(* delays allow, whichever thread asks the ports; a key that stands for a  *)
(* button is told once; and no read waits for a thread that is not there.  *)
PadsSafe ==
    /\ focus = "pads" => TwoPads!ToldOnce /\ TwoPads!KeysTold
    /\ focus = "padspolled" => PolledPad!ToldOnce /\ PolledPad!Served /\ PolledPad!KeysTold
-----------------------------------------------------------------------------
TwoSlots == INSTANCE VmcSlots
    WITH io <- v1, card <- v2, fdhandles <- v3,
         Slots <- {0, 1}, Images <- {"A", "B"}, Handles <- {1}, Descriptors <- 0..2
OneSlot == INSTANCE VmcSlots
    WITH io <- v1, card <- v2, fdhandles <- v3,
         Slots <- {0}, Images <- {"A", "B"}, Handles <- {1, 2}, Descriptors <- 0..2

ASSUME VmcDescriptors == TwoSlots!SlotsAssumption /\ OneSlot!SlotsAssumption

(* However images are mounted, exchanged and taken out, and whatever fails *)
(* on the way: a mounted slot has a card and an open image of its own, the *)
(* driver closes its own descriptors only, a handle acts on its own image, *)
(* and a file that was closed without an error is in the image.            *)
VmcSlotsSafe ==
    /\ focus = "slots" => TwoSlots!VmcSlotsSafe
    /\ focus = "oneslot" => OneSlot!VmcSlotsSafe
-----------------------------------------------------------------------------
(* The controllers on USB: every call with one port and one controller,    *)
(* and reads with two of each.                                             *)
OneUsb == INSTANCE Ds34Usb
    WITH usbpad <- v1, usb <- v2, usbrpc <- v3,
         UsbPorts <- {0}, Controllers <- {1}, MaxPlugs <- 2, MaxFlight <- 1,
    UsbCalls <- {"get_status", "get_data", "LEDRUM", "get_bdaddr", "set_bdaddr"}
TwoUsb == INSTANCE Ds34Usb
    WITH usbpad <- v1, usb <- v2, usbrpc <- v3,
         UsbPorts <- {0, 1}, Controllers <- {1, 2}, MaxPlugs <- 2, MaxFlight <- 1,
    UsbCalls <- {"get_data"}
(* iop/ds34usb: a controller that is taken has one port, and a port tells  *)
(* that it runs only with one, unless it left while it was set up; a port  *)
(* never shows buttons that are not of a controller it had, unless two     *)
(* transfers shared the buffer or a wait was cut short; and a call that    *)
(* waits is always woken.                                                  *)
Ds34UsbSafe ==
    /\ focus = "usbone" => OneUsb!OnePortEach /\ OneUsb!OwnButtons /\ OneUsb!WaitsEnd
    /\ focus = "usbtwo" => TwoUsb!OnePortEach /\ TwoUsb!OwnButtons /\ TwoUsb!WaitsEnd
-----------------------------------------------------------------------------
(* The settings, with a language file whose word for MISC is that of       *)
(* English or its own.                                                     *)
LaunchKeys == INSTANCE Settings
    WITH media <- v1, cnfs <- v2, wle <- v3,
         MaxMoves <- 5
(* The launch keys run their functions in the language of the screen, and  *)
(* what is saved comes back at the next boot (config.c, lang.c).           *)
SettingsSafe ==
    focus = "settings" => /\ LaunchKeys!KeysLive /\ LaunchKeys!OneLanguage
                          /\ LaunchKeys!SavedComesBack /\ LaunchKeys!CursorLoads
-----------------------------------------------------------------------------
(* The history of the cards of a console that has played: one card and its *)
(* evictions, two cards, and one title that is started until its count     *)
(* stands still.                                                           *)
Played(title, count, day) == [title |-> title, count |-> count, bits |-> {0}, shift |-> 0, day |-> day]
PlayedFiles ==
    {<<Played("A", 2, 0), Played("B", 1, 1), Played("C", 1, 0)>>,
     <<Played("A", 1, 0), Played("B", 1, 1), Played("none", 0, 0)>>}
OneCard == INSTANCE History
    WITH cards <- v1, update <- v2, past <- v3,
         NumPorts <- 1, Titles <- {"A", "B", "C", "D"}, MAX_ENTRIES <- 3, FirstFiles <- PlayedFiles,
         Days <- {1}, MaxLaunches <- 4, MaxFailures <- 1
TwoCards == INSTANCE History
    WITH cards <- v1, update <- v2, past <- v3,
         NumPorts <- 2, Titles <- {"A", "B"}, MAX_ENTRIES <- 1, FirstFiles <- {},
         Days <- {1}, MaxLaunches <- 3, MaxFailures <- 1
OneTitle == INSTANCE History
    WITH cards <- v1, update <- v2, past <- v3,
         NumPorts <- 1, Titles <- {"A"}, MAX_ENTRIES <- 1, FirstFiles <- {},
         Days <- {}, MaxLaunches <- 66, MaxFailures <- 0
ASSUME ConsoleFiles ==
    OneCard!HistoryAssumption /\ TwoCards!HistoryAssumption /\ OneTitle!HistoryAssumption

(* What a card recorded of a title stays in its list or goes to the list   *)
(* of old ones, once and with the right count, and room is made by what    *)
(* was started least (main_history.c).                                     *)
HistorySafe ==
    /\ focus = "played" => OneCard!HistoryKept
    /\ focus = "twocards" => TwoCards!HistoryKept
    /\ focus = "onetitle" => OneTitle!HistoryKept
-----------------------------------------------------------------------------
(* Five folders, of a save, of *Tuna, and of two SAS categories, with      *)
(* dates next to the ends of months and of the range, and one that is no   *)
(* date; a card west of Japan, and a partition in its summer time.         *)
Folder(tuna, save, category, payload) ==
    [tuna |-> tuna, save |-> save, category |-> category, payload |-> payload]
Shelf == <<Folder(FALSE, FALSE, 0, <<11, 12>>), Folder(FALSE, TRUE, 9, <<12>>), Folder(TRUE, FALSE, 9, <<16>>),
           Folder(FALSE, FALSE, 7, <<27, 30, 11, 12>>), Folder(FALSE, FALSE, 7, <<28, 11>>)>>
ShelfDates == <<<<1900, 3, 1, 0, 10, 0>>, <<2000, 2, 28, 23, 50, 0>>, <<0, 0, 0, 0, 0, 0>>,
                <<2099, 12, 31, 23, 59, 57>>, <<1900, 3, 1, 0, 10, 0>>>>
Dates == INSTANCE FolderDates
    WITH dir <- v1, place <- v2, ed <- v3, past <- v4,
         Names <- 1 .. 5, Kind <- Shelf, FirstDates <- {ShelfDates}, MaxMoves <- 2,
         Places <- {[card |-> TRUE, offset |-> -60], [card |-> FALSE, offset |-> 60]}
(* Every date that is edited or made is one of the calendar and what the   *)
(* key or the order asked for, in local time; *Tuna's stays with its own   *)
(* folders and saves are left alone (filer_actions.c, main_title.c).       *)
DatesSafe ==
    focus = "dates" => /\ Dates!LocalTimeTrue /\ Dates!OneFieldTurned /\ Dates!NeighbourPassed
                       /\ Dates!TunaFirst /\ Dates!OrderMade
-----------------------------------------------------------------------------
(* A virtual memory card keeps what was acknowledged, in its blocks, its   *)
(* chains and the handles of its slots (vmcman).                           *)
VmcSafe == VmcBlocksSafe /\ VmcFilesSafe /\ VmcSlotsSafe
(* The manager's list of partitions and games, and the headers it writes,  *)
(* agree with the disk (hdd.c, hdd_header_injector.c).                     *)
HddSafe == HddManagerSafe /\ HddHeaderSafe
(* A controller has a slot of its own, its buttons reach the reader, and   *)
(* no wait lasts for ever (ds34bt, ds34usb, pad.c, pad_ds34.c).            *)
ControllersSafe == Ds34BtSafe /\ Ds34UsbSafe /\ PadsSafe
-----------------------------------------------------------------------------
(* The variables that a part has no use for.                             *)
Off == 0
Rest10 == v11 = Off /\ v12 = Off
Still10 == UNCHANGED <<v11, v12>>
Rest8 == v9 = Off /\ v10 = Off /\ Rest10
Still8 == UNCHANGED <<v9, v10, v11, v12>>
Rest7 == v8 = Off /\ Rest8
Still7 == UNCHANGED <<v8, v9, v10, v11, v12>>
Rest6 == v7 = Off /\ Rest7
Still6 == UNCHANGED <<v7, v8, v9, v10, v11, v12>>
Rest5 == v6 = Off /\ Rest6
Still5 == UNCHANGED <<v6, v7, v8, v9, v10, v11, v12>>
Rest4 == v5 = Off /\ Rest5
Still4 == UNCHANGED <<v5, v6, v7, v8, v9, v10, v11, v12>>
Rest3 == v4 = Off /\ Rest4
Still3 == UNCHANGED <<v4, v5, v6, v7, v8, v9, v10, v11, v12>>
Rest1 == v2 = Off /\ v3 = Off /\ Rest3
Still1 == UNCHANGED <<v2, v3, v4, v5, v6, v7, v8, v9, v10, v11, v12>>

Init ==
    \/ focus = "blocks" /\ Blocks!Init /\ Rest10
    \/ focus = "files" /\ Files!VmcFilesInit /\ Rest5
    \/ focus = "folders" /\ InFolders!VmcFilesInit /\ Rest5
    \/ focus = "mmce" /\ TwoCardEmulators!MmceFsInit
    \/ focus = "mmceopens" /\ TwoOpens!MmceFsInit
    \/ focus = "mmcefiles" /\ TwoCardFiles!MmceFsInit
    \/ focus = "ftp" /\ Ftp!FtpInit /\ Rest1
    \/ focus = "install" /\ Installer!ExploitInit /\ Rest3
    \/ focus = "hdd" /\ Hdd!HddInit /\ Rest3
    \/ focus = "header" /\ Header!HeaderInit /\ Rest6
    \/ focus = "bt" /\ Bluetooth!Ds34BtInit /\ Rest8
    \/ focus = "cdvd" /\ Cdvd!CdvdInit /\ Rest7
    \/ focus = "cdfiles" /\ CdvdFiles!CdvdInit /\ Rest7
    \/ focus = "cache" /\ Cache!CacheInit /\ Rest1
    \/ focus = "host" /\ Host!HostInit /\ Rest6
    \/ focus = "hostagain" /\ HostAgain!HostInit /\ Rest6
    \/ focus = "hosttwo" /\ HostTwo!HostInit /\ Rest6
    \/ focus = "typing" /\ TypingText!EditorInit /\ Rest3
    \/ focus = "rows" /\ Rows!EditorInit /\ Rest3
    \/ focus = "marking" /\ Marking!EditorInit /\ Rest3
    \/ focus = "texts" /\ TwoTexts!EditorInit /\ Rest3
    \/ focus = "pads" /\ TwoPads!PadInit /\ Rest4
    \/ focus = "padspolled" /\ PolledPad!PadInit /\ Rest4
    \/ focus = "slots" /\ TwoSlots!SlotsInit /\ Rest3
    \/ focus = "oneslot" /\ OneSlot!SlotsInit /\ Rest3
    \/ focus = "usbone" /\ OneUsb!UsbInit /\ Rest3
    \/ focus = "usbtwo" /\ TwoUsb!UsbInit /\ Rest3
    \/ focus = "settings" /\ LaunchKeys!SettingsInit /\ Rest3
    \/ focus = "played" /\ OneCard!HistoryInit /\ Rest3
    \/ focus = "twocards" /\ TwoCards!HistoryInit /\ Rest3
    \/ focus = "onetitle" /\ OneTitle!HistoryInit /\ Rest3
    \/ focus = "dates" /\ Dates!DatesInit /\ Rest4

Next ==
    /\ UNCHANGED focus
    /\ \/ focus = "blocks" /\ Blocks!Next /\ Still10
       \/ focus = "files" /\ Files!VmcFilesNext /\ Still5
       \/ focus = "folders" /\ InFolders!VmcFilesNext /\ Still5
       \/ focus = "mmce" /\ TwoCardEmulators!MmceFsNext
       \/ focus = "mmceopens" /\ TwoOpens!MmceFsNext
       \/ focus = "mmcefiles" /\ TwoCardFiles!MmceFsNext
       \/ focus = "ftp" /\ Ftp!FtpServer_HandleEvents /\ Still1
       \/ focus = "install" /\ Installer!ExploitNext /\ Still3
       \/ focus = "hdd" /\ Hdd!HddNext /\ Still3
       \/ focus = "header" /\ Header!HeaderNext /\ Still6
       \/ focus = "bt" /\ Bluetooth!Ds34BtNext /\ Still8
       \/ focus = "cdvd" /\ Cdvd!CdvdNext /\ Still7
       \/ focus = "cdfiles" /\ CdvdFiles!CdvdNext /\ Still7
       \/ focus = "cache" /\ Cache!CacheNext /\ Still1
       \/ focus = "host" /\ Host!HostNext /\ Still6
       \/ focus = "hostagain" /\ HostAgain!HostNext /\ Still6
       \/ focus = "hosttwo" /\ HostTwo!HostNext /\ Still6
       \/ focus = "typing" /\ TypingText!EditorNext /\ Still3
       \/ focus = "rows" /\ Rows!EditorNext /\ Still3
       \/ focus = "marking" /\ Marking!EditorNext /\ Still3
       \/ focus = "texts" /\ TwoTexts!EditorNext /\ Still3
       \/ focus = "pads" /\ TwoPads!PadNext /\ Still4
       \/ focus = "padspolled" /\ PolledPad!PadNext /\ Still4
       \/ focus = "slots" /\ TwoSlots!SlotsNext /\ Still3
       \/ focus = "oneslot" /\ OneSlot!SlotsNext /\ Still3
       \/ focus = "usbone" /\ OneUsb!UsbNext /\ Still3
       \/ focus = "usbtwo" /\ TwoUsb!UsbNext /\ Still3
       \/ focus = "settings" /\ LaunchKeys!SettingsNext /\ Still3
       \/ focus = "played" /\ OneCard!HistoryNext /\ Still3
       \/ focus = "twocards" /\ TwoCards!HistoryNext /\ Still3
       \/ focus = "onetitle" /\ OneTitle!HistoryNext /\ Still3
       \/ focus = "dates" /\ Dates!DatesNext /\ Still4

Spec == Init /\ [][Next]_<<focus, v1, v2, v3, v4, v5, v6, v7, v8, v9, v10, v11, v12>>
=============================================================================
