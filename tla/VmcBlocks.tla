------------------------------ MODULE VmcBlocks ------------------------------
(***************************************************************************)
(* The blocks of a virtual memory card and the cluster cache in front of   *)
(* them (iop/vmcman).  A dirty cluster reaches the image file when its     *)
(* whole block is erased and programmed again.  Before that, if a cached   *)
(* cluster of the block belongs to the file system (rd_flag is 0), the new *)
(* contents go to backup_block1, between two marks in backup_block2, so    *)
(* that the next mount can repeat a programming that was cut short.  A cut *)
(* is the loss of power, a reboot of the IOP or the removal of the drive   *)
(* that holds the image.                                                   *)
(*                                                                         *)
(* A page stands for the pages of one cluster, and a version number for    *)
(* its data.  The image file keeps the writes in the order they are made,  *)
(* and a write that fails fails for good (it is then a cut).               *)
(***************************************************************************)
EXTENDS Integers, Sequences

CONSTANTS Blocks,          \* the blocks that hold the file system
          backup_block1,   \* the block that takes the copy
          backup_block2,   \* the block that takes the marks
          PerBlock,        \* clusters_per_block
          MAX_CACHEENTRY,  \* clusters in the cache
          Calls,           \* how the file operations use clusters: see AllCalls
          MaxVersion,      \* bound: how often a cluster is changed
          MaxCuts          \* bound: how many cuts there are

VARIABLES image,    \* the pages of each block in the image file
          mccache,  \* pmcman_mccache, the most recently used cluster first
          job,      \* the flush or the recovery under way
          cardform, \* whether the card is mounted
          home, want, \* observed: the last contents programmed, and those being programmed
          exposed,    \* observed: blocks cut while programmed without a backup
          acked,      \* observed: the versions that a completed flush covered
          current,    \* observed: the versions written since the mount, or found by it
          cuts        \* observed: the number of cuts

vars == <<image, mccache, job, cardform, home, want, exposed, acked, current, cuts>>
observed == <<home, want, exposed, acked, current, cuts>>

Erased == -1
Pages == 0 .. PerBlock - 1
Clusters == Blocks \X Pages
AllCalls == [cluster : Clusters, data : BOOLEAN, change : BOOLEAN]

(* Two pages of backup_block2 take the marks, which are block numbers.     *)
VmcAssumption ==
    /\ Blocks \subseteq Nat /\ backup_block1 \in Nat \ Blocks /\ backup_block2 \in Nat \ Blocks
    /\ backup_block1 # backup_block2
    /\ PerBlock \in Nat /\ PerBlock > 1 /\ MAX_CACHEENTRY \in Nat \ {0}
    /\ Calls \subseteq AllCalls

Mark(page) == image[backup_block2][page]
Dirty == {i \in DOMAIN mccache : mccache[i].wr}
Cached(c) == \E i \in DOMAIN mccache : mccache[i].cluster = c
PositionOf(c) == CHOOSE i \in DOMAIN mccache : mccache[i].cluster = c
Latest(c) == IF Cached(c) THEN mccache[PositionOf(c)].val ELSE image[c[1]][c[2]]
-----------------------------------------------------------------------------
(* A flush and a recovery are loops that go through the pages of a block   *)
(* one after the other.  Erasing a block of an image overwrites its pages. *)
Blank == [p \in Pages |-> Erased]
NoCall == [cluster |-> <<0, 0>>, data |-> FALSE, change |-> FALSE]
Idle == [kind |-> "none", block |-> Erased, guarded |-> FALSE, call |-> NoCall, data |-> Blank,
         cached |-> {}, todo |-> <<>>, page |-> 0]

(* The loop under way, the block that it writes, the pages of that block,  *)
(* and their contents.                                                     *)
Loop == IF job.todo = <<>> THEN "done" ELSE Head(job.todo)
Where == IF Loop \in {"clear", "copy"} THEN backup_block1
         ELSE IF Loop \in {"mark", "seal", "unmark"} THEN backup_block2
         ELSE job.block
Written == IF Loop = "mark" THEN {0}
           ELSE IF Loop = "seal" THEN {1}
           ELSE IF Loop = "uncached" THEN Pages \ job.cached
           ELSE IF Loop = "cached" THEN job.cached
           ELSE Pages
Contents(p) == IF Loop \in {"clear", "erase", "unmark"} THEN Erased
               ELSE IF Loop \in {"mark", "seal"} THEN job.block
               ELSE job.data[p]

(* McWritePage and mcman_iomanx_backing_erase put one page into the image. *)
McWritePage ==
    /\ Loop # "done"
    /\ image' = IF job.page \in Written THEN [image EXCEPT ![Where][job.page] = Contents(job.page)]
                                        ELSE image
    /\ job' = IF job.page = PerBlock - 1 THEN [job EXCEPT !.todo = Tail(@), !.page = 0]
                                         ELSE [job EXCEPT !.page = @ + 1]
    /\ UNCHANGED <<mccache, cardform, observed>>
-----------------------------------------------------------------------------
(* mcman_flushcacheentry: the contents of the block are those of the cache *)
(* where it has them and of the image elsewhere.                           *)
NewContents(b) == [p \in Pages |-> Latest(<<b, p>>)]

(* One cluster of the file system in the block is enough for a backup.     *)
Guarded(b) == \E i \in DOMAIN mccache : mccache[i].cluster[1] = b /\ ~mccache[i].rd

(* The pages that are not cached are programmed before those that are.     *)
Program == <<"erase", "uncached", "cached">>

(* Variant: the second mark is written before the copy.                    *)
BackupSealedEarly ==
    <<"clear", "mark", "seal", "copy", "erase", "uncached", "cached", "unmark">>
Backup ==
    <<"clear", "mark", "copy", "seal", "erase", "uncached", "cached", "unmark">>
FlushLoops(b) == IF Guarded(b) THEN Backup ELSE Program

StartFlush(b, kind, call) ==
    /\ job' = [kind |-> kind, block |-> b, guarded |-> Guarded(b), call |-> call,
               data |-> NewContents(b), cached |-> {p \in Pages : Cached(<<b, p>>)},
               todo |-> FlushLoops(b), page |-> 0]
    /\ want' = [want EXCEPT ![b] = NewContents(b)]

(* The end of mcman_flushcacheentry: the clusters of the block are clean.  *)
(* Variant: all clusters are.                                              *)
CleanAll(b) == [i \in DOMAIN mccache |-> [mccache[i] EXCEPT !.wr = FALSE]]
CleanBlock(b) ==
    [i \in DOMAIN mccache |->
        IF mccache[i].cluster[1] = b THEN [mccache[i] EXCEPT !.wr = FALSE] ELSE mccache[i]]
-----------------------------------------------------------------------------
(* McReadCluster moves the cluster to the front of the cache, reading it   *)
(* in place of the one used longest ago; the caller may then mark it as    *)
(* read or written data (rd_flag) and change it (wr_flag).                 *)

(* The entry comes from place k, and those in front of it move up.         *)
mcman_addcacheentry(entry, k) ==
    [i \in DOMAIN mccache \cup {k} |->
        IF i = 1 THEN entry ELSE IF i <= k THEN mccache[i - 1] ELSE mccache[i]]
LastPlace == IF Len(mccache) = MAX_CACHEENTRY THEN Len(mccache) ELSE Len(mccache) + 1

Used(entry, call) ==
    [entry EXCEPT !.rd = entry.rd \/ call.data, !.wr = entry.wr \/ call.change,
                  !.val = IF call.change THEN entry.val + 1 ELSE entry.val]
Fresh(c) == [cluster |-> c, val |-> image[c[1]][c[2]], wr |-> FALSE, rd |-> FALSE]

McReadCluster(call) ==
    LET c == call.cluster IN
      /\ mccache' = IF Cached(c)
                      THEN mcman_addcacheentry(Used(mccache[PositionOf(c)], call), PositionOf(c))
                      ELSE mcman_addcacheentry(Used(Fresh(c), call), LastPlace)
      /\ current' = IF call.change THEN [current EXCEPT ![c] = @ + 1] ELSE current

(* Variant: a dirty cluster is dropped when it is of the file system.      *)
MustEvictFiles(c) ==
    ~Cached(c) /\ Len(mccache) = MAX_CACHEENTRY /\ mccache[Len(mccache)].wr /\ mccache[Len(mccache)].rd
MustEvict(c) == ~Cached(c) /\ Len(mccache) = MAX_CACHEENTRY /\ mccache[Len(mccache)].wr

Access(call) ==
    /\ cardform /\ job = Idle
    /\ call.change => current[call.cluster] < MaxVersion   \* bound
    /\ IF MustEvict(call.cluster)
         THEN /\ StartFlush(mccache[Len(mccache)].cluster[1], "evict", call)
              /\ UNCHANGED <<mccache, current>>
         ELSE McReadCluster(call) /\ UNCHANGED <<job, want>>
    /\ UNCHANGED <<image, cardform, home, exposed, acked, cuts>>

(* McFlushCache flushes the dirty clusters, the one used longest ago       *)
(* first, as the end of McClose, McFlush, McDelete and McSetFileInfo does. *)
McFlushCache ==
    \/ \E i \in Dirty :
          /\ \A j \in Dirty : j <= i
          /\ StartFlush(mccache[i].cluster[1], "flush", NoCall)
          /\ UNCHANGED acked
    \/ /\ Dirty = {}
       /\ job' = Idle
       /\ acked' = [c \in Clusters |-> Latest(c)]
       /\ UNCHANGED want

Flush ==
    /\ cardform /\ job = Idle /\ Dirty # {}
    /\ McFlushCache
    /\ UNCHANGED <<image, mccache, cardform, home, exposed, current, cuts>>

EndFlush ==
    /\ job.kind \in {"flush", "evict"} /\ Loop = "done"
    /\ mccache' = CleanBlock(job.block)
    /\ home' = [home EXCEPT ![job.block] = want[job.block]]
    /\ job' = [job EXCEPT !.kind = IF @ = "flush" THEN "flushed" ELSE "evicted"]
    /\ UNCHANGED <<image, cardform, want, exposed, acked, current, cuts>>

(* The call that was waiting for the flush goes on.                        *)
Continue ==
    \/ /\ job.kind = "flushed" /\ McFlushCache
       /\ UNCHANGED <<image, mccache, cardform, home, exposed, current, cuts>>
    \/ /\ job.kind = "evicted" /\ McReadCluster(job.call) /\ job' = Idle
       /\ UNCHANGED <<image, cardform, home, want, exposed, acked, cuts>>
-----------------------------------------------------------------------------
(* mcman_checkBackupBlocks, at every mount.  The marks tell whether a      *)
(* programming was cut.  One that is only begun had not reached the block  *)
(* yet; a read mark names the block to program again.                      *)
(* Variant: the marks are removed before the block is programmed.          *)
RecoveryUnmarksFirst(v1, v2) ==
    IF v1 = Erased /\ v2 = Erased THEN <<>>
    ELSE IF v2 = Erased THEN <<"unmark">>
    ELSE <<"unmark", "erase", "repeat">>
Recovery(v1, v2) ==
    IF v1 # Erased /\ v2 = Erased THEN <<"unmark">>
    ELSE IF v1 = Erased /\ v2 = Erased THEN <<>>
    ELSE <<"erase", "repeat", "unmark">>

(* A block number that is the erased word is outside the image: the first  *)
(* erase fails and with it mcman_setdevinfos and the mount.                *)
Mount ==
    /\ ~cardform /\ job = Idle
    /\ Mark(1) # Erased => Mark(0) \in DOMAIN image
    /\ job' = [Idle EXCEPT !.kind = "mount", !.block = Mark(0), !.data = image[backup_block1],
                           !.todo = Recovery(Mark(0), Mark(1))]
    /\ mccache' = <<>>
    /\ UNCHANGED <<image, cardform, observed>>

EndMount ==
    /\ job.kind = "mount" /\ Loop = "done"
    /\ cardform' = TRUE /\ job' = Idle
    /\ home' = [b \in Blocks |-> IF image[b] = want[b] THEN want[b] ELSE home[b]]
    /\ want' = home'
    /\ current' = [c \in Clusters |-> image[c[1]][c[2]]]
    /\ UNCHANGED <<image, mccache, exposed, acked, cuts>>

(* A cut at any moment, and mcman_iomanx_backing_umount, which closes the  *)
(* image without a flush, both forget the cache.                           *)
Cut ==
    /\ cardform \/ job # Idle
    /\ cardform' = FALSE /\ job' = Idle /\ mccache' = <<>>
    /\ exposed' = IF job.kind \in {"flush", "evict"} /\ ~job.guarded
                    THEN exposed \cup {job.block} ELSE exposed
    /\ UNCHANGED <<image, home, want, acked, current>>
    /\ cuts < MaxCuts /\ cuts' = cuts + 1   \* bound

Init ==
    /\ image = [b \in Blocks \cup {backup_block1, backup_block2} |->
                  [p \in Pages |-> IF b = backup_block2 THEN Erased ELSE 0]]
    /\ mccache = <<>> /\ job = Idle /\ cardform = TRUE
    /\ home = [b \in Blocks |-> image[b]] /\ want = home /\ exposed = {}
    /\ acked = [c \in Clusters |-> 0] /\ current = acked /\ cuts = 0

Next ==
    \/ \E call \in Calls : Access(call)
    \/ Flush \/ McWritePage \/ EndFlush \/ Continue
    \/ Mount \/ EndMount \/ Cut

Spec == Init /\ [][Next]_vars
-----------------------------------------------------------------------------
Quiet == cardform /\ job = Idle

(* A block that was programmed behind its backup is, after any number of   *)
(* cuts of the flush and of the recoveries, the old block or the new one,  *)
(* never a mixture.                                                        *)
BlockWhole == Quiet => \A b \in Blocks \ exposed : image[b] \in {home[b], want[b]}

(* What a completed flush had covered is still on the card or newer.       *)
AckedKept ==
    Quiet => \A c \in Clusters : c[1] \notin exposed => Latest(c) >= acked[c]

(* The cache never answers with something else than what was written or,   *)
(* where nothing was, than what the mount found; a clean cluster is what   *)
(* the image holds, and no cluster is cached twice.                        *)
CacheTrue ==
    Quiet =>
      /\ \A c \in Clusters : Latest(c) = current[c]
      /\ \A i \in DOMAIN mccache :
            ~mccache[i].wr => image[mccache[i].cluster[1]][mccache[i].cluster[2]] = mccache[i].val
      /\ \A i, j \in DOMAIN mccache : mccache[i].cluster = mccache[j].cluster => i = j

(* Through any number of cuts, a block programmed behind its backup is     *)
(* whole, what a completed flush covered is kept, and the cache is true    *)
(* (iop/vmcman).                                                           *)
VmcBlocksSafe == BlockWhole /\ AckedKept /\ CacheTrue

(* main.c:2326 "Erase the block where data must be written": when a mount   *)
(* finds the second mark, the first one names a block of the card.         *)
RecoveryNamesBlock ==
    (~cardform /\ job = Idle /\ Mark(1) # Erased) => Mark(0) \in Blocks
=============================================================================
