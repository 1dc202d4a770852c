------------------------------- MODULE Libcdvd -------------------------------
(***************************************************************************)
(* The reader of discs (iop/oldlibs/libcdvd): a cache of one directory, of *)
(* which it holds a block of at most MAX_DIR_CACHE_SECTORS, and the open   *)
(* files, which share one buffer.                                          *)
(*                                                                         *)
(* A disc maps the place of each directory (its path) to its sectors; a    *)
(* sector has the entries after the two that name the directory itself and *)
(* its parent, and `full` says that no padding follows the last of them.   *)
(* A call that searches a directory takes a step for each block.  Positions*)
(* in files are in halves of a sector.                                     *)
(***************************************************************************)
EXTENDS Integers, SequencesExt

CONSTANTS MAX_DIR_CACHE_SECTORS,
    Calls,                  \* of "find", "dir" and "open", those that are made
    Discs, Contents,        \* names of discs, and what each holds
    Requests,               \* the paths (sequences of names) and names asked for
    ReqEntries,             \* the room for a listing
    Fds, KernelFiles,       \* the slots of fd_table, and the handles of the kernel
    SizeOf, MaxRead,        \* of a file in half sectors, and of one read
    MaxChanges              \* of the disc

VARIABLES tray, cached, req, fd_table, kernel, buffer, changes
cdvdVars == <<tray, cached, req, fd_table, kernel, buffer, changes>>

NoDisc == "none"
NoFile == [path |-> <<>>, name |-> "none"]
Blank == [entries |-> <<>>, full |-> FALSE]
isValidDisc == tray # NoDisc

(* The sectors of a directory as the disc has them; elsewhere is nothing.  *)
Sectors(place, offset, size) ==
    [k \in 1..size |->
        IF isValidDisc /\ place \in DOMAIN Contents[tray] /\ offset + k <= Len(Contents[tray][place])
        THEN Contents[tray][place][offset + k] ELSE Blank]
Room(place) == IF isValidDisc /\ place \in DOMAIN Contents[tray] THEN Len(Contents[tray][place]) ELSE 1
-----------------------------------------------------------------------------
(* The cache.  `of` is the disc that it was read from.                     *)

CdFlushCache ==
    [valid |-> FALSE, pathname |-> <<>>, sector_start |-> <<>>, sector_num |-> 0,
     cache_offset |-> 0, cache_size |-> 0, cache |-> <<>>, of |-> NoDisc]

(* Answers: "ok", "missing" for a path that is not there, "unread".        *)
Answer(c, what) == [c |-> c, what |-> what, ok |-> what = "ok"]
Invalid(c) == [c EXCEPT !.valid = FALSE]

(* All retries may fail, which leaves zeros, and the disc may be taken     *)
(* away for a moment, which leaves the buffer alone.                       *)
ReadSect(c, offset) ==
    LET size == Min({c.sector_num - offset, MAX_DIR_CACHE_SECTORS})
        at == [c EXCEPT !.cache_offset = offset, !.cache_size = size]
        read == [at EXCEPT !.cache = Sectors(c.sector_start, offset, size),
                           !.of = IF @ = tray THEN @ ELSE "mixed"]
    IN {Answer(Invalid(at), "unread")}
       \cup IF isValidDisc
            THEN {Answer(read, "ok"), Answer(Invalid([at EXCEPT !.cache = [k \in 1..size |-> Blank]]), "unread")}
            ELSE {}

Entries(c) == FlattenSeq([k \in 1..Len(c.cache) |-> c.cache[k].entries])

ComparePath(c, path) ==
    CASE path = c.pathname -> "MATCH"
      [] path # c.pathname /\ IsPrefix(c.pathname, path) -> "SUBDIR"
      [] OTHER -> "NOT_MATCH"

(* A directory that was found in the cached one becomes the cached one.    *)
Entered(c, name) ==
    IF name = ".."
    THEN [c EXCEPT !.pathname = Front(@), !.sector_start = Front(@), !.sector_num = Room(Front(c.sector_start))]
    ELSE [c EXCEPT !.pathname = Append(@, name), !.sector_start = Append(@, name),
                   !.sector_num = Room(Append(c.sector_start, name))]

FoundInBlock(c, name) ==
    \/ \E i \in 1..Len(Entries(c)) : Entries(c)[i] = [name |-> name, dir |-> TRUE]
    \/ name = ".." /\ c.cache_offset = 0 /\ c.pathname # <<>>

(* The next block is only loaded when padding follows the last entry.      *)
RECURSIVE FindPath(_, _)
FindPath(c, names) ==
    IF ~isValidDisc THEN {Answer(c, "unread")}
    ELSE IF names = <<>> THEN {Answer([c EXCEPT !.valid = TRUE], "ok")}
    ELSE IF FoundInBlock(c, Head(names))
    THEN UNION {IF r.ok THEN FindPath(r.c, Tail(names)) ELSE {r} : r \in ReadSect(Entered(c, Head(names)), 0)}
    ELSE IF c.cache # <<>> /\ ~Last(c.cache).full /\ c.cache_offset + c.cache_size < c.sector_num
    THEN UNION {IF r.ok THEN FindPath(r.c, names) ELSE {r} : r \in ReadSect(c, c.cache_offset + c.cache_size)}
    ELSE {Answer(Invalid(c), "missing")}

(* From the root: the volume descriptor and the first block.               *)
FromRoot(c, path) ==
    IF ~isValidDisc THEN {Answer(c, "unread")}
    ELSE LET root == [c EXCEPT !.pathname = <<>>, !.sector_start = <<>>, !.sector_num = Room(<<>>), !.of = tray]
         IN UNION {IF r.ok THEN FindPath(r.c, path) ELSE {r} : r \in ReadSect(root, 0)}

(* The path after the cached one, from the start of the cached directory.  *)
FromCached(c, path) ==
    LET rest == SubSeq(path, Len(c.pathname) + 1, Len(path)) IN
    IF c.cache_offset = 0 THEN FindPath(c, rest)
    ELSE UNION {IF r.ok THEN FindPath(r.c, rest) ELSE {r} : r \in ReadSect(c, 0)}

(* Variant: a subdirectory is looked for in the block that is cached.      *)
CacheDirAsIs(c, path, getMode) ==
    IF c.valid /\ ComparePath(c, path) = "MATCH"
    THEN IF getMode = "NEXT" THEN ReadSect(c, c.cache_offset + c.cache_size)
         ELSE IF c.cache_offset = 0 THEN {Answer(c, "ok")} ELSE ReadSect(c, 0)
    ELSE IF c.valid /\ ComparePath(c, path) = "SUBDIR"
    THEN FindPath(c, SubSeq(path, Len(c.pathname) + 1, Len(path)))
    ELSE FromRoot(c, path)
CDVD_Cache_Dir(c, path, getMode) ==
    IF c.valid /\ ComparePath(c, path) = "MATCH"
    THEN IF getMode = "NEXT" THEN ReadSect(c, c.cache_offset + c.cache_size)
         ELSE IF c.cache_offset = 0 THEN {Answer(c, "ok")} ELSE ReadSect(c, 0)
    ELSE IF c.valid /\ ComparePath(c, path) = "SUBDIR" THEN FromCached(c, path)
    ELSE FromRoot(c, path)
-----------------------------------------------------------------------------
(* A call of the RPC server or of the file system, step by step.  `clean`  *)
(* says that no read of the call has failed.                               *)

Idle == [what |-> "none", at |-> "idle", path |-> <<>>, name |-> "none", list |-> <<>>, clean |-> TRUE, ret |-> "none"]
Returned(ret) == req' = [req EXCEPT !.at = "done", !.ret = ret]
Cached(path, mode) == CDVD_Cache_Dir(cached, path, mode)
Goes(r, at) == cached' = r.c /\ req' = [req EXCEPT !.at = at, !.clean = @ /\ r.what # "unread"]
Fails(r, ret) == cached' = r.c /\ req' = [req EXCEPT !.at = "done", !.ret = ret, !.clean = @ /\ r.what # "unread"]
Others == UNCHANGED <<tray, fd_table, kernel, buffer, changes>>

IsFile(e) == ~e.dir /\ e.name = req.name

(* What is cached of the directory is looked through first, for files      *)
(* only; then the rest, or all again from the start.                       *)
CDVD_findfile ==
    /\ req.what \in {"find", "open"} /\ req.at = "start"
    /\ IF cached.valid /\ ComparePath(cached, req.path) = "MATCH"
       THEN IF \E i \in 1..Len(Entries(cached)) : IsFile(Entries(cached)[i])
            THEN Returned("found") /\ UNCHANGED cached
            ELSE IF cached.cache_size = cached.sector_num
            THEN Returned("missing") /\ UNCHANGED cached
            ELSE \E r \in Cached(req.path, IF cached.cache_offset = 0 THEN "NEXT" ELSE "START") :
                    IF r.ok THEN Goes(r, "scan") ELSE Fails(r, "missing")
       ELSE \E r \in Cached(req.path, "START") :
                IF r.ok THEN Goes(r, "scan") ELSE Fails(r, "missing")
    /\ Others

(* The answer to the request for the next block is not looked at.          *)
ScanBlock ==
    /\ req.what \in {"find", "open"} /\ req.at = "scan"
    /\ IF cached.cache_size = 0 THEN Returned("missing") /\ UNCHANGED cached
       ELSE IF \E i \in 1..Len(Entries(cached)) : Entries(cached)[i].name = req.name
       THEN Returned("found") /\ UNCHANGED cached
       ELSE \E r \in Cached(req.path, "NEXT") : Goes(r, "scan")
    /\ Others

(* A listing: the directories in one pass, then the files in another.      *)
CDVD_GetDir_RPC ==
    /\ req.what = "dir" /\ req.at \in {"start", "again", "files"}
    /\ \E r \in Cached(IF req.at = "start" THEN req.path ELSE cached.pathname, "START") :
        IF ~r.ok THEN Fails(r, "failed")
        ELSE Goes(r, CASE req.at = "start" -> "again" [] req.at = "again" -> "dirs" [] OTHER -> "list files")
    /\ Others

Listed(dirs) ==
    LET up == IF dirs /\ cached.pathname # <<>> /\ cached.cache_offset = 0 THEN <<"..">> ELSE <<>>
        fits == SelectSeq(Entries(cached), LAMBDA e : e.dir = dirs)
        all == req.list \o up \o [i \in 1..Len(fits) |-> fits[i].name]
    IN SubSeq(all, 1, Min({Len(all), ReqEntries}))

(* Variant: the files follow from the block where the directories ended.   *)
ListOneRewind ==
    /\ req.what = "dir" /\ req.at \in {"dirs", "list files"}
    /\ LET list == Listed(req.at = "dirs") IN
       IF Len(list) >= ReqEntries
       THEN req' = [req EXCEPT !.list = list, !.at = "done", !.ret = "listed"] /\ UNCHANGED cached
       ELSE IF cached.cache_offset + cached.cache_size < cached.sector_num
       THEN \E r \in Cached(cached.pathname, "NEXT") :
                /\ cached' = r.c
                /\ req' = [req EXCEPT !.list = list, !.clean = @ /\ r.what # "unread",
                                      !.at = IF r.ok THEN @ ELSE "done", !.ret = IF r.ok THEN @ ELSE "failed"]
       ELSE /\ req' = [req EXCEPT !.list = list, !.at = IF @ = "dirs" THEN "list files" ELSE "done",
                                  !.ret = IF req.at = "dirs" THEN @ ELSE "listed"]
            /\ UNCHANGED cached
    /\ Others
ListBlock ==
    /\ req.what = "dir" /\ req.at \in {"dirs", "list files"}
    /\ LET list == Listed(req.at = "dirs") IN
       IF Len(list) >= ReqEntries
       THEN req' = [req EXCEPT !.list = list, !.at = "done", !.ret = "listed"] /\ UNCHANGED cached
       ELSE IF cached.cache_offset + cached.cache_size < cached.sector_num
       THEN \E r \in Cached(cached.pathname, "NEXT") :
                /\ cached' = r.c
                /\ req' = [req EXCEPT !.list = list, !.clean = @ /\ r.what # "unread",
                                      !.at = IF r.ok THEN @ ELSE "done", !.ret = IF r.ok THEN @ ELSE "failed"]
       ELSE /\ req' = [req EXCEPT !.list = list, !.at = IF @ = "dirs" THEN "files" ELSE "done",
                                  !.ret = IF req.at = "dirs" THEN @ ELSE "listed"]
            /\ UNCHANGED cached
    /\ Others

CDVD_rpc_server ==
    /\ req.at = "idle"
    /\ \E what \in Calls, q \in Requests :
        /\ what = "open" => \E k \in KernelFiles : k \notin kernel
        /\ req' = [Idle EXCEPT !.what = what, !.at = "start", !.path = q.path,
                               !.name = IF what = "dir" THEN "none" ELSE q.name]
    /\ UNCHANGED cached /\ Others

CDVDRpc_FlushCache == req.at = "idle" /\ cached' = CdFlushCache /\ UNCHANGED req /\ Others

FreeSlot == Min({i \in Fds : ~fd_table[i].used})

(* The caller has its answer; for CDVD_open, a slot for the file as well.  *)
NoSlot == [fd |-> 0, used |-> FALSE, file |-> NoFile, pos |-> 0]
Answers ==
    /\ req.at = "done" /\ req' = Idle
    /\ IF req.what = "open" /\ req.ret = "found" /\ \E j \in Fds : ~fd_table[j].used
       THEN LET j == FreeSlot
                f == Min(KernelFiles \ kernel)
            IN /\ fd_table' = [fd_table EXCEPT ![j] = [fd |-> f, used |-> TRUE, pos |-> 0,
                                   file |-> [path |-> req.path, name |-> req.name]]]
               /\ kernel' = kernel \cup {f}
       ELSE UNCHANGED <<fd_table, kernel>>
    /\ UNCHANGED <<tray, cached, buffer, changes>>
-----------------------------------------------------------------------------
(* The open files.  A handle is looked up by the slots' `fd`, which the    *)
(* slots keep after they are closed.                                       *)

Slot(f) == Min({j \in Fds : fd_table[j].fd = f})
OpenFiles == {fd_table[j].fd : j \in {i \in Fds : fd_table[i].used}}

CDVD_lseek ==
    /\ req.at = "idle"
    /\ \E f \in OpenFiles : \E pos \in 0..SizeOf[fd_table[Slot(f)].file.name] :
        fd_table' = [fd_table EXCEPT ![Slot(f)].pos = pos]
    /\ UNCHANGED <<tray, cached, req, kernel, buffer, changes>>

(* Data of the disc: which sector of which file on which disc.             *)
Data(file, k) == <<tray, file, k>>

(* Variant: the buffer is known by the sector within its file. *)
InBufferOfAny(file, k) == buffer.last[2] = k
InBuffer(file, k) == buffer.last = <<file, k>>

(* The sectors of a read, of which the first may be the last of the read   *)
(* before it, which is still in the buffer.  The result of ReadSect is not *)
(* looked at.  `spoiled` says that a read failed, or the disc was changed, *)
(* since the buffer was last filled from its start.                        *)
CDVD_read ==
    /\ req.at = "idle"
    /\ \E f \in OpenFiles, want \in 1..MaxRead, ok \in BOOLEAN :
        LET j == Slot(f)
            file == fd_table[j].file
            pos == fd_table[j].pos
            size == Min({want, SizeOf[file.name] - pos})
            start == pos \div 2
            num == ((pos % 2) + size + 1) \div 2
            reuse == InBuffer(file, start)
            fresh(k) == IF ok /\ isValidDisc THEN Data(file, start + k - 1) ELSE <<"zeros">>
            sectors == [k \in 1..num |-> IF reuse /\ k = 1 THEN buffer.data ELSE fresh(k)]
            reads == num - (IF reuse THEN 1 ELSE 0)
            failed == reads > 0 /\ ~(ok /\ isValidDisc)
        IN /\ size > 0
           /\ fd_table' = [fd_table EXCEPT ![j].pos = @ + size]
           /\ buffer' = [last |-> <<file, start + num - 1>>, data |-> sectors[num],
                         spoiled |-> failed \/ (reuse /\ buffer.spoiled),
                         right |-> \A k \in 1..num : sectors[k] = Data(file, start + k - 1)]
    /\ UNCHANGED <<tray, cached, req, kernel, changes>>

CDVD_close ==
    /\ req.at = "idle"
    /\ \E f \in OpenFiles :
        /\ fd_table' = [fd_table EXCEPT ![Slot(f)] = [NoSlot EXCEPT !.fd = f]]
        /\ kernel' = kernel \ {f}
    /\ UNCHANGED <<tray, cached, req, buffer, changes>>

(* External: the disc is taken out or put in, and a file of another device *)
(* takes a handle of the kernel or gives it back.                          *)
ChangeDisc ==
    /\ changes < MaxChanges /\ changes' = changes + 1
    /\ tray' \in (Discs \cup {NoDisc}) \ {tray}
    /\ buffer' = [buffer EXCEPT !.spoiled = TRUE]
    /\ UNCHANGED <<cached, req, fd_table, kernel>>

OtherFile ==
    /\ req.at = "idle"
    /\ \E k \in KernelFiles \ OpenFiles :
        kernel' = IF k \in kernel THEN kernel \ {k} ELSE kernel \cup {k}
    /\ UNCHANGED <<tray, cached, req, fd_table, buffer, changes>>

CdvdInit ==
    /\ tray = NoDisc /\ changes = 0
    /\ cached = CdFlushCache /\ req = Idle
    /\ fd_table = [j \in Fds |-> NoSlot] /\ kernel = {}
    /\ buffer = [last |-> <<NoFile, 0>>, data |-> <<"zeros">>, spoiled |-> FALSE, right |-> TRUE]

CdvdNext ==
    \/ CDVD_rpc_server \/ CDVD_findfile \/ ScanBlock \/ CDVD_GetDir_RPC \/ ListBlock \/ Answers
    \/ CDVDRpc_FlushCache \/ CDVD_lseek \/ CDVD_read \/ CDVD_close
    \/ ChangeDisc \/ OtherFile
-----------------------------------------------------------------------------
(* What the disc says. *)
RECURSIVE Resolve(_, _)
Resolve(place, names) ==
    IF names = <<>> THEN place
    ELSE Resolve(IF Head(names) = ".." THEN Front(place) ELSE Append(place, Head(names)), Tail(names))
Known(path) == isValidDisc /\ path \in DOMAIN Contents[tray]
NamesIn(path, dirs) ==
    LET all == FlattenSeq([k \in 1..Len(Contents[tray][path]) |-> Contents[tray][path][k].entries])
        fits == SelectSeq(all, LAMBDA e : e.dir = dirs)
    IN [i \in 1..Len(fits) |-> fits[i].name]

(* A block that ends exactly with an entry hides the directories after it. *)
Hidden(path) == \E i \in 0..Len(path) - 1 : LET p == SubSeq(path, 1, i) IN
    Known(p) /\ \E k \in 1..Len(Contents[tray][p]) : Contents[tray][p][k].full

(* A valid cache is the block that it says of the directory that it names. *)
CacheTrue ==
    cached.valid /\ cached.of = tray /\ isValidDisc =>
        /\ Known(cached.pathname) /\ cached.sector_start = cached.pathname
        /\ cached.cache = Sectors(cached.pathname, cached.cache_offset, cached.cache_size)

Trusted == req.at = "done" /\ req.clean /\ cached.of = tray /\ isValidDisc

(* Unless a read fails or the disc was changed without a flush: a file is  *)
(* found exactly when it is there, whatever was cached before.             *)
FindRight ==
    LET place == Resolve(<<>>, req.path) IN
    Trusted /\ req.what \in {"find", "open"} /\ Known(place) /\ ~Hidden(req.path) =>
        (req.ret = "found" <=> req.name \in Range(NamesIn(place, FALSE)))

(* And a listing has the parent, the directories and the files in order.   *)
ListRight ==
    LET place == Resolve(<<>>, req.path)
        up == IF place = <<>> THEN <<>> ELSE <<"..">>
        all == up \o NamesIn(place, TRUE) \o NamesIn(place, FALSE)
    IN Trusted /\ req.what = "dir" /\ req.ret = "listed" =>
        req.list = SubSeq(all, 1, Min({Len(all), ReqEntries}))

(* The first slot with a handle is the one that is open under it, whatever *)
(* the closed slots still name.                                            *)
HandlesRight ==
    \A j \in Fds : fd_table[j].used => Slot(fd_table[j].fd) = j

(* A read returns what the file has, whichever file or position filled the *)
(* buffer before, until a read fails or the disc is changed.               *)
ReadRight == buffer.spoiled \/ buffer.right
=============================================================================
