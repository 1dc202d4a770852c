------------------------------- MODULE ApaCache -------------------------------
(***************************************************************************)
(* The buffers of the APA driver (iop/ps2hdd_osd/cache.c) and how every    *)
(* call of the driver takes and returns them.  A buffer in use is counted; *)
(* one that is free stays in a list, with its header, until it is taken    *)
(* for another one.  A read that fails may make a call give up anywhere.   *)
(*                                                                         *)
(* The chain of headers is fixed: what the calls do to the table is        *)
(* ApaTable's concern.  Whether a header is the one searched for, an empty *)
(* block or a neighbour that merges is left open.  A call is one step, for *)
(* fioSema lets one caller in at a time.  Each operator takes a state of   *)
(* the buffers and returns a set of results <<s, b>>: the state after it and *)
(* the buffer it returns, or NULL.                                         *)
(***************************************************************************)
EXTENDS Naturals, Sequences, FiniteSets

CONSTANTS Buffers,      \* cacheBuf, without its head
    Sectors,            \* 0..n: the chain of headers, of which 0 is the MBR
    MaxFailures         \* of reads

VARIABLE apa
NULL == 0
NoSector == 99
Last == Cardinality(Sectors) - 1

Unused ==
    [cacheBuf |-> [b \in Buffers |-> [sector |-> NoSector, nused |-> 0]],
     cacheFree |-> [b \in 1..Cardinality(Buffers) |-> b],
     dirty |-> {}, readErrors |-> 0, lostWrite |-> FALSE, ranOut |-> FALSE, nullRead |-> FALSE]

Result(s, b) == <<s, b>>
Then(results, F(_, _)) == UNION {F(r[1], r[2]) : r \in results}
(* After a result: with the buffer, or without.                            *)
Got(results, F(_, _), otherwise(_)) == UNION {IF r[2] = NULL THEN otherwise(r[1]) ELSE F(r[1], r[2]) : r \in results}
Gives(s) == {Result(s, NULL)}
-----------------------------------------------------------------------------
apaCacheUnLink(s, b) == [s EXCEPT !.cacheFree = SelectSeq(@, LAMBDA x : x # b)]

Take(s, b, sector) == [apaCacheUnLink(s, b) EXCEPT !.cacheBuf[b] = [sector |-> sector, nused |-> 1],
                                                   !.lostWrite = @ \/ b \in s.dirty]
NoBuffer(s) == [s EXCEPT !.ranOut = TRUE]

ReadFails(s, b) ==
    IF s.readErrors < MaxFailures
    THEN {Result([s EXCEPT !.readErrors = @ + 1, !.cacheBuf[b].nused = 0, !.cacheBuf[b].sector = NoSector,
                           !.cacheFree = <<b>> \o @], NULL)}
    ELSE {}

Cached(s, sector) == {b \in Buffers : s.cacheBuf[b].sector = sector /\ sector # NoSector}
(* Variant: a buffer that is used again stays in the list.                 *)
HeaderStaysListed(s, sector, read) ==
    IF Cached(s, sector) # {}
    THEN LET b == CHOOSE x \in Cached(s, sector) : TRUE
         IN {Result([s EXCEPT !.cacheBuf[b].nused = @ + 1], b)}
    ELSE IF s.cacheFree = <<>> THEN {Result(NoBuffer(s), NULL)}
    ELSE LET b == Head(s.cacheFree)
             t == Take(s, b, sector)
         IN {Result(t, b)} \cup (IF read THEN ReadFails(t, b) ELSE {})
apaCacheGetHeader(s, sector, read) ==
    IF Cached(s, sector) # {}
    THEN LET b == CHOOSE x \in Cached(s, sector) : TRUE
         IN {Result([IF s.cacheBuf[b].nused = 0 THEN apaCacheUnLink(s, b) ELSE s EXCEPT !.cacheBuf[b].nused = @ + 1], b)}
    ELSE IF s.cacheFree = <<>> THEN {Result(NoBuffer(s), NULL)}
    ELSE LET b == Head(s.cacheFree)
             t == Take(s, b, sector)
         IN {Result(t, b)} \cup (IF read THEN ReadFails(t, b) ELSE {})
Get(s, sector) == apaCacheGetHeader(s, sector, TRUE)

apaCacheAlloc(s) ==
    IF s.cacheFree = <<>> THEN {Result(NoBuffer(s), NULL)}
    ELSE {Result(Take(s, Head(s.cacheFree), NoSector), Head(s.cacheFree))}

apaCacheFree(s, b) ==
    IF b = NULL \/ s.cacheBuf[b].nused = 0 THEN s
    ELSE IF s.cacheBuf[b].nused = 1 THEN [s EXCEPT !.cacheBuf[b].nused = 0, !.cacheFree = Append(@, b)]
    ELSE [s EXCEPT !.cacheBuf[b].nused = @ - 1]
Free2(s, a, b) == apaCacheFree(apaCacheFree(s, a), b)

Change(s, b) == [s EXCEPT !.dirty = @ \cup {b}]
apaCacheFlushAllDirty(s) == [s EXCEPT !.dirty = {}]

(* A header is looked at through a pointer that is NULL.                   *)
Crash(s) == {Result([s EXCEPT !.nullRead = TRUE], NULL)}
-----------------------------------------------------------------------------
(* Walks.  Each ends with the header that is searched for, or with none.   *)

apaGetNextHeader(s, b) ==
    LET at == s.cacheBuf[b].sector
        t == apaCacheFree(s, b)
    IN IF at = Last THEN Gives(t) ELSE Get(t, at + 1)

RECURSIVE Search(_, _)
Search(s, b) == {Result(s, b)} \cup Got(apaGetNextHeader(s, b), Search, Gives)
apaFindPartition(s) == Got(Get(s, 0), Search, Gives)

RECURSIVE ToTheEnd(_, _)
ToTheEnd(s, b) == Got(apaGetNextHeader(s, b), ToTheEnd, Gives)
Walk(s) == Got(Get(s, 0), ToTheEnd, Gives)

Tells(s, b) == Gives(apaCacheFree(s, b))
hddGetStat(s) == Got(apaFindPartition(s), Tells, Gives)
apaGetFreeSectors(s) == Walk(s)

(* A sub-partition has its name from its main partition.                   *)
hddDread(s) ==
    UNION {Got(Get(s, at), LAMBDA t, b :
               Tells(t, b) \cup Then(Get(t, main), LAMBDA u, c : Gives(Free2(u, c, b))), Gives)
           : at, main \in Sectors}

apaRename(s) ==
    Got(apaFindPartition(s), Tells, LAMBDA t :
        Got(apaFindPartition(t), LAMBDA u, b : Gives(apaCacheFree(apaCacheFlushAllDirty(Change(u, b)), b)), Gives))

(* Variant: the swapped headers are not written.                           *)
SwapUnwritten(s) ==
    Got(apaFindPartition(s), LAMBDA t, temp :
        Then(apaFindPartition(t), LAMBDA u, new :
            Gives(Free2(IF new = NULL THEN u ELSE Change(Change(u, temp), new), new, temp))),
        Gives)
devctlSwapTemp(s) ==
    Got(apaFindPartition(s), LAMBDA t, temp :
        Then(apaFindPartition(t), LAMBDA u, new :
            Gives(Free2(IF new = NULL THEN u ELSE apaCacheFlushAllDirty(Change(Change(u, temp), new)), new, temp))),
        Gives)

devctlSetOsdMBR(s) ==
    Got(Get(s, 0), LAMBDA t, b : Gives(apaCacheFree(apaCacheFlushAllDirty(Change(t, b)), b)), Gives)
-----------------------------------------------------------------------------
(* The error sectors.  A read that fails keeps its buffer.                 *)

apaSetPartErrorSector(s) == Got(apaCacheAlloc(s), Tells, Crash)

apaGetPartErrorSector(s) ==
    Got(apaCacheAlloc(s), LAMBDA t, b :
        Tells(t, b) \cup IF t.readErrors < MaxFailures THEN Gives([t EXCEPT !.readErrors = @ + 1]) ELSE {},
        Gives)

apaGetPartErrorName(s) ==
    Then(apaGetPartErrorSector(s), LAMBDA t, x :
        Got(Get(t, 0), LAMBDA u, b :
            Got(Search(u, b), Tells, LAMBDA v : Gives(v) \cup apaSetPartErrorSector(v)), Gives)
        \cup Gives(t))

apaGetFormat(s) == Got(apaCacheAlloc(s), Tells, Crash)
-----------------------------------------------------------------------------
(* New partitions.                                                         *)

New(s, sector) == apaCacheGetHeader(s, sector, FALSE)

(* Halving takes three buffers: the block, its new half and the header     *)
(* behind.  One halving stands for several.                                *)
(* Variant: the next header of the chain is not given back.                *)
HalveKeeps(s, this) ==
    {Result(s, this)}
    \cup Got(Get(s, (s.cacheBuf[this].sector + 1) % (Last + 1)), LAMBDA t, next :
            Got(New(t, NoSector), LAMBDA u, empty :
                {Result(apaCacheFree(apaCacheFlushAllDirty(Change(Change(Change(u, empty), this), next)), empty), this)},
                Crash),
        LAMBDA t : Gives(apaCacheFree(t, this)))
Halve(s, this) ==
    {Result(s, this)}
    \cup Got(Get(s, (s.cacheBuf[this].sector + 1) % (Last + 1)), LAMBDA t, next :
            Got(New(t, NoSector), LAMBDA u, empty :
                {Result(Free2(apaCacheFlushAllDirty(Change(Change(Change(u, empty), this), next)), empty, next), this)},
                Crash),
        LAMBDA t : Gives(apaCacheFree(t, this)))
apaInsertPartition(s, sector) ==
    Got(Get(s, sector), LAMBDA t, b :
        Got(Halve(t, b), LAMBDA u, this :
            Got(New(apaCacheFree(u, this), u.cacheBuf[this].sector),
                LAMBDA v, c : {Result(apaCacheFlushAllDirty(Change(v, c)), c)}, Gives), Gives), Gives)

(* Behind the last header, after blocks that align it.                     *)
RECURSIVE Append1(_, _, _, _)
Append1(s, this, mbr, padding) ==
    LET Linked(t, new) == apaCacheFlushAllDirty(Change(Change(Change(t, this), mbr), new)) IN
    Got(New(s, NoSector), LAMBDA t, new : {Result(Free2(Linked(t, new), this, mbr), new)},
        LAMBDA t : Gives(Free2(t, this, mbr)))
    \cup IF padding = 0 THEN {}
         ELSE Got(New(s, NoSector), LAMBDA t, new :
                  Append1(apaCacheFree(Linked(t, new), this), new, mbr, padding - 1), Crash)
hddAddPartitionHere(s) ==
    UNION {apaInsertPartition(s, k) : k \in Sectors \ {0}}
    \cup Got(Get(s, Last), LAMBDA t, this :
            Tells(t, this)
            \cup Got(Get(t, 0), LAMBDA u, mbr : Append1(u, this, mbr, 1), LAMBDA u : Gives(apaCacheFree(u, this))),
         Crash)

apaOpen(s) ==
    Got(apaFindPartition(s), Tells, LAMBDA t :
        Gives(t)
        \cup Got(hddAddPartitionHere(t), LAMBDA u, new :
                Got(apaCacheAlloc(u), LAMBDA v, zeros : Gives(Free2(v, zeros, new)), Crash),
             LAMBDA u : Gives(u)))

ioctl2AddSub(s) ==
    Then(Walk(s), LAMBDA t, x :
        Got(hddAddPartitionHere(t), LAMBDA u, new :
            UNION {Got(Get(apaCacheFree(u, new), main), LAMBDA v, b :
                           Gives(apaCacheFree(apaCacheFlushAllDirty(Change(v, b)), b)),
                       LAMBDA v : Gives(v)) : main \in Sectors \ {0}},
            LAMBDA u : Gives(u)))
-----------------------------------------------------------------------------
(* Partitions that go.  apaDelete gives its buffer back in every case.     *)

(* The merged block b and the header behind it are written.                *)
Grown(s, b, next) ==
    UNION {{IF r[2] = NULL THEN Result(apaCacheFree(r[1], b), NULL)
            ELSE Result(apaCacheFree(apaCacheFlushAllDirty(Change(Change(r[1], r[2]), b)), r[2]), b)}
           : r \in Get(s, next % (Last + 1))}

(* To the left: neighbours that merge become the block.  A neighbour that  *)
(* does not is given back.                                                 *)
(* Variant: a neighbour that does not merge is not given back.             *)
RECURSIVE LeftKeeps(_, _)
LeftKeeps(s, b) ==
    LET at == s.cacheBuf[b].sector
    IN IF at = 0 THEN {Result(s, b)}
       ELSE UNION {IF r[2] = NULL THEN {Result(apaCacheFree(r[1], b), NULL)}
                   ELSE {Result(r[1], b)} \cup LeftKeeps(apaCacheFree(r[1], b), r[2])
                   : r \in Get(s, at - 1)}
RECURSIVE ToTheLeft(_, _)
ToTheLeft(s, b) ==
    LET at == s.cacheBuf[b].sector
    IN IF at = 0 THEN {Result(s, b)}
       ELSE UNION {IF r[2] = NULL THEN {Result(apaCacheFree(r[1], b), NULL)}
                   ELSE {Result(apaCacheFree(r[1], r[2]), b)} \cup ToTheLeft(apaCacheFree(r[1], b), r[2])
                   : r \in Get(s, at - 1)}
apaDeleteFixPrev(s, b) ==
    UNION {IF r[2] = NULL \/ r[2] = b THEN {r} ELSE Grown(r[1], r[2], s.cacheBuf[b].sector + 1) : r \in ToTheLeft(s, b)}

(* To the right: the block stays, every neighbour is given back.  The      *)
(* results have the header behind the last that merges.                    *)
RECURSIVE ToTheRight(_, _, _)
ToTheRight(s, b, next) ==
    IF next > Last THEN {<<Result(s, b), next>>}
    ELSE UNION {IF r[2] = NULL THEN {<<Result(apaCacheFree(r[1], b), NULL), next>>}
                ELSE {<<Result(apaCacheFree(r[1], r[2]), b), next>>}
                     \cup ToTheRight(apaCacheFree(r[1], r[2]), b, next + 1)
                : r \in Get(s, next)}
apaDeleteFixNext(s, b) ==
    LET at == s.cacheBuf[b].sector
    IN UNION {IF p[1][2] = NULL \/ p[2] = at + 1 THEN {p[1]} ELSE Grown(p[1][1], b, p[2])
              : p \in ToTheRight(s, b, at + 1)}

(* The last partition: back to one that is not empty.  When the header     *)
(* before cannot be read, the MBR's buffer is not given back.              *)
RECURSIVE Strip(_, _, _)
Strip(s, b, mbr) ==
    UNION {IF r[2] = NULL THEN {r}
           ELSE LET u == apaCacheFlushAllDirty(Change(Change(r[1], r[2]), mbr))
                IN {Result(Free2(u, mbr, r[2]), NULL)}
                   \cup IF s.cacheBuf[b].sector > 1 THEN Strip(u, r[2], mbr) ELSE {}
           : r \in Get(apaCacheFree(s, b), s.cacheBuf[b].sector - 1)}

MergeLeft(results) == UNION {IF r[2] = NULL THEN {r} ELSE apaDeleteFixPrev(r[1], r[2]) : r \in results}
MergeRight(results) == UNION {IF r[2] = NULL THEN {r} ELSE apaDeleteFixNext(r[1], r[2]) : r \in results}
apaDelete(s, b) ==
    IF s.cacheBuf[b].sector = Last
    THEN UNION {IF r[2] = NULL THEN Gives(apaCacheFree(r[1], b)) ELSE Strip(r[1], b, r[2]) : r \in Get(s, 0)}
    ELSE {IF r[2] = NULL THEN r ELSE Result(apaCacheFree(apaCacheFlushAllDirty(Change(r[1], r[2])), r[2]), NULL)
          : r \in MergeRight(MergeLeft(MergeRight(MergeLeft({Result(s, b)}))))}

(* First the list of subs, then a sub behind the partition, if there is    *)
(* one, then the partition.                                                *)
apaRemove(s) ==
    Got(apaFindPartition(s), LAMBDA t, main :
        IF t.cacheBuf[main].sector = 0 THEN Gives(apaCacheFree(t, main))
        ELSE LET u == apaCacheFlushAllDirty(Change(t, main)) IN
             apaDelete(u, main)
             \cup UNION {Got(Get(u, sub), LAMBDA v, c :
                                UNION {apaDelete(r[1], main) : r \in apaDelete(v, c)},
                             LAMBDA v : Gives(apaCacheFree(v, main)))
                         : sub \in {k \in Sectors : k > t.cacheBuf[main].sector}}, Gives)

ioctl2DeleteLastSub(s) ==
    UNION {Got(Get(s, main), LAMBDA t, b :
               Got(Get(t, sub), LAMBDA u, c :
                       Then(apaDelete(apaCacheFlushAllDirty(Change(u, b)), c), LAMBDA v, x : Gives(apaCacheFree(v, b))),
                   LAMBDA u : Gives(apaCacheFree(u, b))), Gives)
           : <<main, sub>> \in {p \in (Sectors \ {0}) \X (Sectors \ {0}) : p[1] # p[2]}}
-----------------------------------------------------------------------------
CacheInit == apa = Unused
Call(results) == \E r \in results : apa' = r[1]
CacheNext == ~apa.nullRead /\
    (\/ Call(hddGetStat(apa)) \/ Call(hddDread(apa)) \/ Call(apaGetFreeSectors(apa))
     \/ Call(apaRename(apa)) \/ Call(devctlSwapTemp(apa)) \/ Call(devctlSetOsdMBR(apa))
     \/ Call(apaSetPartErrorSector(apa)) \/ Call(apaGetPartErrorSector(apa)) \/ Call(apaGetPartErrorName(apa))
     \/ Call(apaGetFormat(apa)) \/ Call(apaOpen(apa)) \/ Call(ioctl2AddSub(apa))
     \/ Call(apaRemove(apa)) \/ Call(ioctl2DeleteLastSub(apa)))
-----------------------------------------------------------------------------
Held == {b \in Buffers : apa.cacheBuf[b].nused > 0}

(* Between calls a buffer is in the list exactly when nobody holds it, and *)
(* no two buffers have the same header.                                    *)
ListSound ==
    /\ {apa.cacheFree[i] : i \in 1..Len(apa.cacheFree)} = Buffers \ Held
    /\ Len(apa.cacheFree) = Cardinality(Buffers \ Held)
    /\ \A a, b \in Buffers : a # b /\ apa.cacheBuf[a].sector = apa.cacheBuf[b].sector => apa.cacheBuf[a].sector = NoSector

(* A change is written before its call returns and before its buffer is    *)
(* taken for another header.                                               *)
NothingDirty == ~apa.lostWrite /\ apa.dirty = {}

(* A buffer is only kept by a call whose read failed.                      *)
NoLeak == ~apa.nullRead => Cardinality(Held) <= apa.readErrors

(* Three buffers are enough: no call runs short of them, or uses a NULL,   *)
(* unless one has been kept.                                               *)
Enough == apa.ranOut \/ apa.nullRead => apa.readErrors > 0
=============================================================================
