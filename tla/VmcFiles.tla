------------------------------- MODULE VmcFiles -------------------------------
(***************************************************************************)
(* The file system of a virtual memory card (iop/vmcman): the chains of    *)
(* clusters in the FAT, the directories, and the open handles with the     *)
(* place each remembers in its chain.  Every call runs under mcman_io_sema *)
(* and is one step.  What the calls leave in the cluster cache is taken as *)
(* written: VmcBlocks has the cache and its loss.                          *)
(*                                                                         *)
(* Sizes and positions count clusters.  A directory is named by its first  *)
(* cluster and is a sequence of entries, EntriesPerCluster in a cluster;   *)
(* the first two are "." and "..", which the sequence leaves out.          *)
(***************************************************************************)
EXTENDS Integers, SequencesExt

CONSTANTS N,              \* max_allocatable_clusters
          MAX_FDHANDLES,  \* handles of the driver
          FileNames, DirNames,
          MaxSize         \* bound: clusters in a file

VARIABLES fat,    \* the FAT: the next cluster, End, or Free
          hint,   \* mcdi->unknown2, where the search for a free cluster starts
          dirs,   \* the entries of each directory
          fds,    \* mcman_fdhandles
          descended \* observed: a chain that goes down somewhere was deleted

vmcFileVars == <<fat, hint, dirs, fds, descended>>

Free == -2
End == -1
None == -1
EntriesPerCluster == 2
Clusters == 0 .. N - 1
Root == 0
Handles == 1 .. MAX_FDHANDLES

Entry(name, subdir, first) ==
    [name |-> name, exists |-> TRUE, subdir |-> subdir, first |-> first, length |-> 0]
Deleted == [exists |-> FALSE]   \* what a deleted entry still holds is left out
ClosedHandle == [open |-> FALSE]
IsOpen(fd) == fds[fd].open

(* The k-th cluster after c, or End when the chain is shorter.             *)
Follow(f, c, k) ==
    LET step[i \in 0 .. k] ==
          IF i = 0 THEN c
          ELSE LET at == step[i - 1]
               IN IF at \in Clusters /\ f[at] \in Clusters THEN f[at] ELSE End
    IN step[k]
Chain(f, c) == {Follow(f, c, k) : k \in 0 .. N} \ {End}
-----------------------------------------------------------------------------
(* A card in the course of a call: the FAT, the hint, the directories.     *)
Now == [fat |-> fat, hint |-> hint, dirs |-> dirs]
Becomes(card) == fat' = card.fat /\ hint' = card.hint /\ dirs' = card.dirs

(* mcman_findfree2 with reserve: the search never looks below the hint.    *)
FreeAt(card) == {c \in Clusters : card.fat[c] = Free /\ c >= card.hint}
Reserved(card) == Min(FreeAt(card))
mcman_findfree2(card) == [card EXCEPT !.fat[Reserved(card)] = End, !.hint = Reserved(card)]

(* mcman_close2 writes the first cluster and the length into the entry.    *)
mcman_close2(card, h) ==
    [card EXCEPT !.dirs[h.dir][h.idx].first = h.first, !.dirs[h.dir][h.idx].length = h.size]

(* mcman_fatRseek: the cluster of the position, from the place remembered  *)
(* or, when the position lies before it, from the first cluster.  Every    *)
(* link that is followed is remembered.                                    *)
From(h) == IF h.pos < h.off THEN [at |-> h.first, left |-> h.pos]
                            ELSE [at |-> h.clink, left |-> h.pos - h.off]
Way(f, c, k) == [j \in 0 .. k |-> Follow(f, c, j)]
Goal(way) == Max(DOMAIN way)
Reached(way) == Max({0} \cup {j \in DOMAIN way : way[j] # End})
Remembered(h, way, j) ==
    IF j = 0 THEN h ELSE [h EXCEPT !.clink = way[j], !.off = h.pos - (Goal(way) - j)]
Sought(h, way) == [found |-> way[Goal(way)] # End, h |-> Remembered(h, way, Reached(way))]
mcman_fatRseek(f, h) == Sought(h, Way(f, From(h).at, From(h).left))

(* mcman_fatWseek gives the chain the clusters it lacks up to the          *)
(* position.  When the card is full, those it got so far stay.             *)
\* Variant: the entry is not told of the first cluster.
FirstClusterUnrecorded(card, h) == [card |-> mcman_findfree2(card), h |-> [h EXCEPT !.first = Reserved(card)]]
FirstCluster(card, h) ==
    LET got == [h EXCEPT !.first = Reserved(card)]
    IN [card |-> mcman_close2(mcman_findfree2(card), got), h |-> got]

Linked(card, c) ==
    IF card.fat[c] # End THEN [ok |-> TRUE, card |-> card, at |-> card.fat[c]]
    ELSE [ok |-> TRUE, at |-> Reserved(card),
          card |-> [mcman_findfree2(card) EXCEPT !.fat[c] = Reserved(card)]]

Extend(card, c, k) ==
    LET step[i \in 0 .. k] ==
          IF i = 0 THEN [ok |-> TRUE, card |-> card, at |-> c]
          ELSE LET was == step[i - 1] IN
            IF ~was.ok \/ (was.card.fat[was.at] = End /\ FreeAt(was.card) = {})
              THEN [was EXCEPT !.ok = FALSE]
              ELSE Linked(was.card, was.at)
    IN step[k]

FromFirst(h) == h.off = 0 \/ h.pos < h.off
Extended(h, way) ==
    [ok |-> way.ok, card |-> way.card,
     h |-> IF way.ok THEN [h EXCEPT !.clink = way.at, !.off = h.pos] ELSE h]
ExtendTo(card, h) ==
    IF FromFirst(h) THEN Extended(h, Extend(card, h.first, h.pos))
    ELSE Extended(h, Extend(card, h.clink, h.pos - h.off))
ExtendFrom(begin) == ExtendTo(begin.card, begin.h)
mcman_fatWseek(card, h) ==
    IF ~FromFirst(h) \/ h.first # None THEN ExtendTo(card, h)
    ELSE IF FreeAt(card) = {} THEN [ok |-> FALSE, card |-> card, h |-> h]
    ELSE ExtendFrom(FirstCluster(card, h))

(* One turn of the loop of mcman_write2.                                   *)
Advance(h) == [h EXCEPT !.pos = @ + 1, !.size = IF h.pos + 1 < @ THEN @ ELSE h.pos + 1]
InGrown(grow) == [grow EXCEPT !.h = Advance(mcman_fatRseek(grow.card.fat, grow.h).h)]
\* Variant: the length grows also when the card is full.
GrowthCountsAnyway(grow) == [InGrown(grow) EXCEPT !.ok = TRUE]
AfterGrowth(grow) == IF grow.ok THEN InGrown(grow) ELSE grow
AfterSeek(st, seek) ==
    IF seek.found THEN [st EXCEPT !.h = Advance(seek.h)]
    ELSE AfterGrowth(mcman_fatWseek(st.card, seek.h))
WriteCluster(st) == IF st.ok THEN AfterSeek(st, mcman_fatRseek(st.card.fat, st.h)) ELSE st

(* The first write clears the Closed bit of the entry and writes it; the   *)
(* length reaches the entry at the end only, and not when the card is full.*)
Begun(card, h) == [ok |-> TRUE, card |-> mcman_close2(card, h), h |-> h]
Started(card, h) ==
    IF h.dirty THEN [ok |-> TRUE, card |-> card, h |-> h] ELSE Begun(card, [h EXCEPT !.dirty = TRUE])
Ended(done) == IF done.ok THEN [done EXCEPT !.card = mcman_close2(done.card, done.h)] ELSE done
mcman_write2(card, h, n) ==
    LET turn[i \in 0 .. n] == IF i = 0 THEN Started(card, h) ELSE WriteCluster(turn[i - 1])
    IN Ended(turn[n])
-----------------------------------------------------------------------------
(* Directories.  mcman_cachedirentry finds an entry by its name.           *)
Live(dir) == {i \in 1 .. Len(dirs[dir]) : dirs[dir][i].exists}
Named(dir, name) == {i \in Live(dir) : dirs[dir][i].name = name}
The(set) == CHOOSE i \in set : TRUE
OpenOn(dir, i) == {fd \in Handles : IsOpen(fd) /\ fds[fd].dir = dir /\ fds[fd].idx = i}
FreeHandle == {fd \in Handles : ~IsOpen(fd)}

(* McSetDirEntryState: the entry ceases to exist and its clusters become   *)
(* free.  The hint moves down to the first of them; when a later cluster   *)
(* lies below the hint, it takes the value of the link that follows        *)
(* (0x7fffffff at the end of the chain, where no search begins).           *)
\* Variant: the hint stays.
HintKept(card, c) == card.hint
HintAfter(card, c) ==
    LET hop[k \in 0 .. N] ==
          IF k = 0 THEN IF c < card.hint THEN c ELSE card.hint
          ELSE LET at == Follow(card.fat, c, k)  low == hop[k - 1] IN
            IF at = End \/ at >= low THEN low
            ELSE IF card.fat[at] = End THEN N ELSE card.fat[at]
    IN hop[N]

McSetDirEntryState(card, dir, i) ==
    LET e == card.dirs[dir][i]
        gone == [card EXCEPT !.dirs[dir][i] = Deleted]
    IN IF e.first = None THEN gone
       ELSE [gone EXCEPT !.hint = HintAfter(card, e.first),
               !.fat = [c \in Clusters |-> IF c \in Chain(card.fat, e.first) THEN Free ELSE @[c]]]

GoesDown(f, c) == \E x \in Chain(f, c) : f[x] \in Clusters /\ f[x] < x

(* open2 puts a new entry in the first slot that is free.  A directory     *)
(* whose clusters are all used takes one more, which it keeps even when    *)
(* the call fails afterwards.                                              *)
maxent(card, dir) ==
    Min({Len(card.dirs[dir]) + 1} \cup {i \in 1 .. Len(card.dirs[dir]) : ~card.dirs[dir][i].exists})
IndexOf(i) == i + 1     \* the index on the card, after "." and ".."
MustGrow(card, dir) ==
    maxent(card, dir) = Len(card.dirs[dir]) + 1 /\ IndexOf(maxent(card, dir)) % EntriesPerCluster = 0
Grown(card, dir) ==
    IF ~MustGrow(card, dir) THEN [ok |-> TRUE, card |-> card, at |-> dir]
    ELSE Extend(card, dir, IndexOf(maxent(card, dir)) \div EntriesPerCluster)

PutEntry(card, dir, e) ==
    LET i == maxent(card, dir)
    IN [card EXCEPT !.dirs[dir] =
          IF i > Len(@) THEN Append(@, e) ELSE [@ EXCEPT ![i] = e]]

NewHandle(dir, i, wr, first, size) ==
    [open |-> TRUE, dir |-> dir, idx |-> i, wr |-> wr, subdir |-> FALSE, first |-> first,
     clink |-> first, off |-> 0, size |-> size, pos |-> 0, dirty |-> FALSE]

OpenAs(h) == fds' = [fds EXCEPT ![Min(FreeHandle)] = h]
-----------------------------------------------------------------------------
(* mcman_open2.  A call that fails with less than -9 closes every handle   *)
(* of the card (mcman_invhandles).                                         *)
OpenExisting(dir, name, wr) ==
    /\ FreeHandle # {} /\ Named(dir, name) # {}
    /\ LET i == The(Named(dir, name))  e == dirs[dir][i] IN
         \/ /\ e.subdir
            /\ OpenAs([NewHandle(dir, i, FALSE, e.first, e.length) EXCEPT !.subdir = TRUE])
         \/ /\ ~e.subdir /\ wr => \A fd \in OpenOn(dir, i) : ~fds[fd].wr
            /\ OpenAs(NewHandle(dir, i, wr, e.first, e.length))
    /\ UNCHANGED <<fat, hint, dirs, descended>>

FileIn(grown, dir, name) ==
    IF grown.ok
    THEN /\ Becomes(PutEntry(grown.card, dir, Entry(name, FALSE, None)))
         /\ OpenAs(NewHandle(dir, maxent(grown.card, dir), TRUE, None, 0))
    ELSE Becomes(grown.card) /\ UNCHANGED fds
NewFile(card, dir, name) == FileIn(Grown(card, dir), dir, name)

CreateFile(dir, name) ==
    /\ FreeHandle # {} /\ Named(dir, name) = {}
    /\ NewFile(Now, dir, name)
    /\ UNCHANGED descended

\* Variant: an open file is not refused.
NobodyChecks(dir, i) == TRUE
Unopened(dir, i) == OpenOn(dir, i) = {}

RecreateFile(dir, name) ==
    /\ FreeHandle # {} /\ Named(dir, name) # {}
    /\ LET i == The(Named(dir, name)) IN
         /\ ~dirs[dir][i].subdir
         /\ \A fd \in OpenOn(dir, i) : ~fds[fd].wr
         /\ IF Unopened(dir, i)
              THEN /\ NewFile(McSetDirEntryState(Now, dir, i), dir, name)
                   /\ descended' = (descended \/ GoesDown(fat, dirs[dir][i].first))
              ELSE /\ fds' = [fd \in Handles |-> ClosedHandle]
                   /\ UNCHANGED <<fat, hint, dirs, descended>>

(* The new directory has one cluster, with its "." and "..".               *)
WithDir(card, c) ==
    [card EXCEPT !.dirs = [d \in DOMAIN @ \cup {c} |-> IF d = c THEN <<>> ELSE @[d]]]
DirIn(grown, dir, name) ==
    IF ~grown.ok \/ FreeAt(grown.card) = {} THEN Becomes(grown.card)
    ELSE LET c == Reserved(grown.card) IN
         Becomes(WithDir(PutEntry(mcman_findfree2(grown.card), dir, Entry(name, TRUE, c)), c))
CreateDir(dir, name) ==
    /\ FreeHandle # {} /\ Named(dir, name) = {}
    /\ DirIn(Grown(Now, dir), dir, name)
    /\ UNCHANGED <<fds, descended>>

(* mcman_delete2: not a file that is open, nor a directory with entries.   *)
Delete(dir, name) ==
    /\ Named(dir, name) # {}
    /\ LET i == The(Named(dir, name))  e == dirs[dir][i] IN
         /\ e.subdir => Live(e.first) = {}
         /\ Unopened(dir, i)
         /\ LET card == McSetDirEntryState(Now, dir, i) IN
              Becomes([card EXCEPT !.dirs = IF e.subdir THEN [d \in DOMAIN @ \ {e.first} |-> @[d]] ELSE @])
         /\ descended' = (descended \/ GoesDown(fat, e.first))
    /\ UNCHANGED fds

(* mcman_setinfo2 with a new name, which must not be in use.               *)
Rename(dir, name, new) ==
    /\ Named(dir, name) # {} /\ Named(dir, new) = {}
    /\ dirs' = [dirs EXCEPT ![dir][The(Named(dir, name))].name = new]
    /\ UNCHANGED <<fat, hint, fds, descended>>

(* McWrite closes the handle of a write that fails; McRead stays within    *)
(* the length that the handle knows.                                       *)
McWrite(fd, n) ==
    /\ IsOpen(fd) /\ fds[fd].wr
    /\ fds[fd].pos + n <= MaxSize   \* bound
    /\ \E done \in {mcman_write2(Now, fds[fd], n)} :
         /\ Becomes(done.card)
         /\ fds' = [fds EXCEPT ![fd] = IF done.ok THEN done.h ELSE ClosedHandle]
    /\ UNCHANGED descended

McRead(fd) ==
    /\ IsOpen(fd) /\ ~fds[fd].subdir /\ fds[fd].pos < fds[fd].size
    /\ LET seek == mcman_fatRseek(fat, fds[fd]) IN
         fds' = [fds EXCEPT ![fd] =
                   IF seek.found THEN [seek.h EXCEPT !.pos = @ + 1] ELSE ClosedHandle]
    /\ UNCHANGED <<fat, hint, dirs, descended>>

(* McSeek takes any position; behind the end of a file without clusters    *)
(* the next write would look up entry -1 of the FAT (bound: it is not      *)
(* asked to).                                                              *)
McSeek(fd, pos) ==
    /\ IsOpen(fd) /\ ~fds[fd].subdir
    /\ pos <= fds[fd].size + (IF fds[fd].first = None THEN 0 ELSE 1)
    /\ fds' = [fds EXCEPT ![fd].pos = pos]
    /\ UNCHANGED <<fat, hint, dirs, descended>>

Written(fd) == IF fds[fd].dirty THEN mcman_close2(Now, fds[fd]) ELSE Now
McFlush(fd) ==
    /\ IsOpen(fd)
    /\ Becomes(Written(fd)) /\ fds' = [fds EXCEPT ![fd].dirty = FALSE]
    /\ UNCHANGED descended
McClose(fd) ==
    /\ IsOpen(fd)
    /\ Becomes(Written(fd)) /\ fds' = [fds EXCEPT ![fd] = ClosedHandle]
    /\ UNCHANGED descended

(* The image is taken out of its slot and mounted again: the search begins *)
(* anew, and the handles stay unless a call came in between (VmcSlots).    *)
Remount ==
    /\ fds' \in {fds, [fd \in Handles |-> ClosedHandle]} /\ hint' = 0 /\ descended' = FALSE
    /\ UNCHANGED <<fat, dirs>>

(* A formatted card: the root directory has cluster 0.                     *)
VmcFilesInit ==
    /\ fat = [c \in Clusters |-> IF c = Root THEN End ELSE Free] /\ hint = 0
    /\ dirs = [d \in {Root} |-> <<>>]
    /\ fds = [fd \in Handles |-> ClosedHandle] /\ descended = FALSE

FileStep ==
    \E dir \in DOMAIN dirs, name \in FileNames :
        \/ \E wr \in BOOLEAN : OpenExisting(dir, name, wr)
        \/ CreateFile(dir, name) \/ RecreateFile(dir, name) \/ Delete(dir, name)
        \/ \E new \in FileNames : Rename(dir, name, new)
DirStep ==
    \E name \in DirNames : CreateDir(Root, name) \/ Delete(Root, name) \/ OpenExisting(Root, name, FALSE)
HandleStep ==
    \E fd \in Handles :
        \/ \E n \in {1, 2} : McWrite(fd, n)
        \/ \E pos \in 0 .. MaxSize - 1 : McSeek(fd, pos)
        \/ McRead(fd) \/ McFlush(fd) \/ McClose(fd)

VmcFilesNext == FileStep \/ DirStep \/ HandleStep \/ Remount
-----------------------------------------------------------------------------
(* The chains: one for each directory and for each file with clusters.     *)
FilesOf(d) == {i \in Live(d) : ~dirs[d][i].subdir /\ dirs[d][i].first # None}
Files == UNION {{d} \X FilesOf(d) : d \in DOMAIN dirs}
FirstOf(p) == dirs[p[1]][p[2]].first
Heads == DOMAIN dirs \cup {FirstOf(p) : p \in Files}

(* Two files, or a file and a directory, never share a cluster, no chain   *)
(* runs into free space, and no cluster is taken that nothing owns, also   *)
(* when the card is full in the middle of a write or of a new directory.   *)
ChainsSound ==
    /\ \A p, q \in Files : p # q => FirstOf(p) # FirstOf(q)
    /\ \A p \in Files : FirstOf(p) \notin DOMAIN dirs
    /\ \A a, b \in Heads : a # b => Chain(fat, a) \cap Chain(fat, b) = {}
    /\ \A a \in Heads : Follow(fat, a, N) = End
    /\ {c \in Clusters : fat[c] # Free} = UNION {Chain(fat, a) : a \in Heads}

(* What an open handle remembers is true of the card, whatever the other   *)
(* handles, deletions and new files did since: its entry exists, its first *)
(* cluster is that of the entry, and its place lies on the chain.          *)
HandleTracksChain ==
    \A fd \in Handles : (IsOpen(fd) /\ ~fds[fd].subdir) =>
        LET h == fds[fd] IN
          /\ h.idx \in Live(h.dir)
          /\ h.wr => h.first = dirs[h.dir][h.idx].first
          /\ h.first # None => Follow(fat, h.first, h.off) = (IF h.clink = None THEN h.first ELSE h.clink)

(* Every cluster that the length of a file counts is in its chain: a read  *)
(* within the length finds its data.                                       *)
LengthBacked ==
    \A d \in DOMAIN dirs : \A i \in Live(d) : ~dirs[d][i].subdir =>
        LET e == dirs[d][i] IN
          e.length > 0 => e.first # None /\ Follow(fat, e.first, e.length - 1) # End

(* The card is only reported as full when it is: the search begins at or   *)
(* below the first free cluster.  (A chain that goes down somewhere, as    *)
(* deletions in between make it, can leave the hint above free clusters.)  *)
FullMeansFull == ~descended => \A c \in Clusters : fat[c] = Free => c >= hint
=============================================================================
