------------------------------ MODULE ApaTable ------------------------------
(***************************************************************************)
(* The partition table of the APA driver (iop/ps2hdd_osd: apa.c, hdd.c,    *)
(* hdd_fio.c): a doubly linked chain of headers that starts at the MBR,    *)
(* main partitions that list their sub-partitions, and the driver's open   *)
(* slots.  Every apaCacheFlushAllDirty is one step, whole or not at all    *)
(* (ApaJournal implements AtomicTable); an operation is a job of several   *)
(* such steps, cut short by a crash or an unreadable header.  fioSema lets *)
(* one caller in at a time, so there is one job.                           *)
(*                                                                         *)
(* Sectors are counted in units of 128 MB, the smallest partition.         *)
(***************************************************************************)
EXTENDS Naturals, Sequences, FiniteSets, SequencesExt, FiniteSetsExt

CONSTANTS
  Units,        \* hddDevices[].totalLBA
  PartMax,      \* hddDevices[].partitionMaxSize
  MergeMax,     \* the largest block apaDelete builds (maxsize, rounded down)
  APA_MAXSUB,   \* sub-partitions a main partition can list
  Names,        \* names of the user's partitions
  SystemNames,  \* formatPartList: the names hddFormat gives, each "__..."
  NoName,       \* the name of a sub-partition or of an empty block
  Slots,        \* hddFileSlots (apaMaxOpen of them)
  FaultSteps,   \* the steps at which a job may be cut short
  MaxFaults,    \* bound on the jobs cut short
  MaxParts      \* bound on the partitions there are at a time

(* The powers of two: a sector number has 32 bits. *)
Powers == {1, 2, 4, 8, 16, 32, 64, 128, 256, 512, 1024, 2048, 4096, 8192}
Sizes  == {1, 2, 4, 8, 16, 32, 64, 128, 256}    \* sizeList: 128M to 32G

ASSUME TableAssumption ==
  /\ Units \in Nat \ {0} /\ PartMax \in Powers /\ MergeMax \in Nat \ {0}
  /\ APA_MAXSUB \in Nat /\ MaxFaults \in Nat /\ MaxParts \in Nat
  /\ FaultSteps \subseteq {"insert", "append", "link", "delete", "strip",
                           "merge"}
  /\ SystemNames \in Seq(STRING)
  /\ \A i, j \in DOMAIN SystemNames : SystemNames[i] = SystemNames[j] => i = j
  /\ NoName \notin Names \cup ToSet(SystemNames)

VARIABLES
  hdr,        \* the headers of the chain: first unit -> header
  slots,      \* what each open slot remembers, or Closed
  job,        \* where the operation in progress stands
  faults      \* history: how many jobs were cut short since the last format

vars == <<hdr, slots, job, faults>>

MBR    == 0
Closed == [start |-> MBR, id |-> NoName, subs |-> <<>>]
Idle   == [step |-> "idle"]

IsSub(h) == h.main # MBR
Mains == {s \in DOMAIN hdr : hdr[s].type = "pfs" /\ ~IsSub(hdr[s])}
Named(n) == {s \in Mains : hdr[s].id = n}
MayAdd == Cardinality({s \in DOMAIN hdr : hdr[s].type = "pfs"}) < MaxParts
IsOpen(n) == \E x \in Slots : slots[x] # Closed /\ slots[x].id = n

(***************************************************************************)
(* Headers and changes of the chain.  A header that leaves the chain stays *)
(* on the disk, but no link leads to it any more: it leaves hdr.           *)
(***************************************************************************)
apaFillHeader(p, next, prev) ==
  [next |-> next, prev |-> prev, length |-> p.size, type |-> "pfs",
   main |-> p.main, number |-> p.number, id |-> p.id, subs |-> <<>>]

Empty(length, next, prev) ==
  [next |-> next, prev |-> prev, length |-> length, type |-> "free",
   main |-> MBR, number |-> 0, id |-> NoName, subs |-> <<>>]

(* h with header s set to v. *)
With(h, s, v) == [t \in DOMAIN h \cup {s} |-> IF t = s THEN v ELSE h[t]]

(* h without the headers between s and the end of a block of length l. *)
Without(h, s, l) == [t \in DOMAIN h \ (s + 1 .. s + l - 1) |-> h[t]]

LastHeader == CHOOSE s \in DOMAIN hdr : hdr[s].next = MBR
PartEnd == LastHeader + hdr[LastHeader].length

(* h with the header v behind the last one. *)
Behind(h, last, s, v) ==
  [With(h, s, v) EXCEPT ![last].next = s, ![MBR].prev = s]

(***************************************************************************)
(* Finding room.  The walk over the chain remembers the first empty block  *)
(* of each power of two (apaAddEmptyBlock); the walk goes up the disk.     *)
(***************************************************************************)
EmptyBlocks(size) ==
  {s \in DOMAIN hdr : hdr[s].type = "free" /\ hdr[s].length \in Powers
                      /\ hdr[s].length >= size}

BestBlock(size) ==
  LET l == Min({hdr[s].length : s \in EmptyBlocks(size)})
  IN  Min({s \in EmptyBlocks(size) : hdr[s].length = l})

Padding(end, size) == IF end % size = 0 THEN 0 ELSE size - (end % size)

(* hddAddPartitionHere up to its first change; `then' is what the caller   *)
(* does with the new partition.  Without room, the caller returns -ENOSPC. *)
hddAddPartitionHere(p, then, blocks) ==
  IF blocks # {}
  THEN [step |-> "insert", at |-> BestBlock(p.size), p |-> p, then |-> then]
  ELSE [step |-> "append", p |-> p, then |-> then]

RoomBehind(end, size) == end + size + Padding(end, size) <= Units
HasRoom(size, blocks) == blocks # {} \/ RoomBehind(PartEnd, size)

(***************************************************************************)
(* The driver's calls.  Each one begins a job, or is a single flush.       *)
(***************************************************************************)
OpenSlot(h, s) == [start |-> s, id |-> h[s].id, subs |-> h[s].subs]

(* hddFormat.  That no slot is open is not checked there: the HDD manager, *)
(* its only caller, has unmounted all before.  Up to the MBR's write   *)
(* the disk counts as unformatted, and a crash there starts over.  Each    *)
(* system partition is twice as large as the one before, up to PartMax; on *)
(* a disk that has no room for the next one the format ends with an error. *)
FormatJob(i, size, end) ==
  IF i > Len(SystemNames) \/ ~RoomBehind(end, size) THEN Idle
  ELSE [step |-> "append", then |-> [for |-> "format", next |-> i + 1],
        p |-> [size |-> size, id |-> SystemNames[i], main |-> MBR, number |-> 0]]

Blank == [s \in {MBR} |->
            [next |-> MBR, prev |-> MBR, length |-> 1, type |-> "mbr",
             main |-> MBR, number |-> 0, id |-> "__mbr", subs |-> <<>>]]

hddFormat ==
  /\ job = Idle /\ \A x \in Slots : slots[x] = Closed
  /\ hdr' = Blank /\ job' = FormatJob(1, 1, 1) /\ faults' = 0
  /\ UNCHANGED slots

(* apaOpen of a partition that is there. *)
Open(n, x) ==
  /\ job = Idle /\ slots[x] = Closed /\ ~IsOpen(n) /\ Named(n) # {}
  /\ slots' = [slots EXCEPT ![x] = OpenSlot(hdr, Min(Named(n)))]
  /\ UNCHANGED <<hdr, job, faults>>

(* apaOpen with FIO_O_CREAT of a partition that is not. *)
Create(n, size, x) ==
  /\ job = Idle /\ slots[x] = Closed /\ ~IsOpen(n) /\ Named(n) = {}
  /\ MayAdd /\ size <= PartMax /\ HasRoom(size, EmptyBlocks(size))
  /\ job' = hddAddPartitionHere(
              [size |-> size, id |-> n, main |-> MBR, number |-> 0],
              [for |-> "open", slot |-> x], EmptyBlocks(size))
  /\ UNCHANGED <<hdr, slots, faults>>

hddClose(x) ==
  /\ job = Idle /\ slots[x] # Closed
  /\ slots' = [slots EXCEPT ![x] = Closed]
  /\ UNCHANGED <<hdr, job, faults>>

(* The slot is open for writing, as PFS opens what it mounts. *)
ioctl2AddSub(x, size) ==
  /\ job = Idle /\ slots[x] # Closed
  /\ Len(slots[x].subs) < APA_MAXSUB
  /\ MayAdd /\ size <= PartMax /\ HasRoom(size, EmptyBlocks(size))
  /\ job' = hddAddPartitionHere(
              [size |-> size, id |-> NoName, main |-> slots[x].start,
               number |-> Len(slots[x].subs) + 1],
              [for |-> "link", slot |-> x], EmptyBlocks(size))
  /\ UNCHANGED <<hdr, slots, faults>>

ioctl2DeleteLastSub(x) ==
  /\ job = Idle /\ slots[x] # Closed /\ slots[x].subs # <<>>
  /\ LET m == slots[x].start IN
     /\ hdr' = [hdr EXCEPT ![m].subs = Front(@)]
     /\ slots' = [slots EXCEPT ![x].subs = Front(@)]
     /\ job' = [step |-> "delete", todo |-> <<Last(hdr[m].subs)>>]
  /\ UNCHANGED faults

(* apaRemove: the list of sub-partitions goes first, then they go from the *)
(* last to the first, then the partition itself.                           *)
\* Variant: the list of sub-partitions goes with the partition.
RemoveListLast(n) ==
  /\ job = Idle /\ ~IsOpen(n) /\ Named(n) # {}
  /\ LET m == Min(Named(n)) IN
     job' = [step |-> "delete", todo |-> Reverse(hdr[m].subs) \o <<m>>]
  /\ UNCHANGED <<hdr, slots, faults>>
\* Variant: nobody looks whether the partition is open.
RemoveOpen(n) ==
  /\ job = Idle /\ Named(n) # {}
  /\ LET m == Min(Named(n)) IN
     /\ hdr' = [hdr EXCEPT ![m].subs = <<>>]
     /\ job' = [step |-> "delete", todo |-> Reverse(hdr[m].subs) \o <<m>>]
  /\ UNCHANGED <<slots, faults>>

apaRemove(n) ==
  /\ job = Idle /\ ~IsOpen(n) /\ Named(n) # {}
  /\ LET m == Min(Named(n)) IN
     /\ hdr' = [hdr EXCEPT ![m].subs = <<>>]
     /\ job' = [step |-> "delete", todo |-> Reverse(hdr[m].subs) \o <<m>>]
  /\ UNCHANGED <<slots, faults>>

\* Variant: nobody looks whether the new name is taken.
RenameOnto(old, new) ==
  /\ job = Idle /\ ~IsOpen(old) /\ Named(old) # {}
  /\ hdr' = [hdr EXCEPT ![Min(Named(old))].id = new]
  /\ UNCHANGED <<slots, job, faults>>

apaRename(old, new) ==
  /\ job = Idle /\ Named(new) = {} /\ ~IsOpen(old) /\ Named(old) # {}
  /\ hdr' = [hdr EXCEPT ![Min(Named(old))].id = new]
  /\ UNCHANGED <<slots, job, faults>>

(***************************************************************************)
(* Making a partition.  When its header is written, the caller goes on:    *)
(* an open fills its slot, a format adds the next name, and ioctl2AddSub   *)
(* still has to list the sub-partition in its main header.                 *)
(***************************************************************************)
Made(h, s, then) ==
  /\ hdr' = h
  /\ IF then.for = "open"
     THEN slots' = [slots EXCEPT ![then.slot] = OpenSlot(h, s)]
     ELSE UNCHANGED slots
  /\ job' = CASE then.for = "open" -> Idle
              [] then.for = "link" ->
                   [step |-> "link", slot |-> then.slot, sub |-> s]
              [] then.for = "format" ->
                   LET size == h[s].length
                   IN  FormatJob(then.next, Min({2 * size, PartMax}), s + size)

(* apaInsertPartition: halve the block until the partition fills it. *)
Halve ==
  /\ job.step = "insert" /\ hdr[job.at].length # job.p.size
  /\ LET s == job.at
         n == hdr[s].next
         half == hdr[s].length \div 2
     IN  hdr' = [With(hdr, s + half, Empty(half, n, s))
                   EXCEPT ![s].length = half, ![s].next = s + half,
                          ![n].prev = s + half]
  /\ UNCHANGED <<slots, job>>

Fill ==
  /\ job.step = "insert" /\ hdr[job.at].length = job.p.size
  /\ LET h == hdr[job.at]
     IN  Made(With(hdr, job.at, apaFillHeader(job.p, h.next, h.prev)),
              job.at, job.then)

(* hddAddPartitionHere past the last header: an empty block as large as    *)
(* alignment allows, until the partition's own alignment is reached.  The  *)
(* loop has no way out if no block fits: the step is then disabled.        *)
\* Variant: the smallest block, of 128 MB, is not tried.
PadSizesAbove(size) == {t \in Powers \ {1} : t < size /\ PartEnd % t = 0}
PadSizes(size) == {t \in Powers : t < size /\ PartEnd % t = 0}

Pad ==
  /\ job.step = "append" /\ PartEnd % job.p.size # 0
  /\ PadSizes(job.p.size) # {}
  /\ hdr' = Behind(hdr, LastHeader, PartEnd,
                   Empty(Max(PadSizes(job.p.size)), MBR, LastHeader))
  /\ UNCHANGED <<slots, job>>

Place ==
  /\ job.step = "append" /\ PartEnd % job.p.size = 0
  /\ Made(Behind(hdr, LastHeader, PartEnd,
                 apaFillHeader(job.p, MBR, LastHeader)),
          PartEnd, job.then)

Link ==
  /\ job.step = "link"
  /\ hdr' = [hdr EXCEPT ![slots[job.slot].start].subs = Append(@, job.sub)]
  /\ slots' = [slots EXCEPT ![job.slot].subs = Append(@, job.sub)]
  /\ job' = Idle

(***************************************************************************)
(* apaDelete: the last partition is cut off with the empty blocks before   *)
(* it; another one is merged with its empty neighbours, twice to the left  *)
(* and to the right, or becomes an empty block if none of them merges.     *)
(***************************************************************************)
Todo(rest) == IF rest = <<>> THEN Idle ELSE [step |-> "delete", todo |-> rest]

DeleteNext ==
  /\ job.step = "delete"
  /\ LET s == Head(job.todo)
         rest == Tail(job.todo)
     IN  job' = IF hdr[s].next = MBR
                THEN [step |-> "strip", at |-> s, todo |-> rest]
                ELSE [step |-> "merge", at |-> s, round |-> 1, start |-> s,
                      length |-> hdr[s].length, todo |-> rest]
  /\ UNCHANGED <<hdr, slots>>

\* Variant: only the partition is cut off, not the empty blocks before it.
StripOne ==
  /\ job.step = "strip"
  /\ LET p == hdr[job.at].prev IN
     hdr' = [[t \in DOMAIN hdr \ {job.at} |-> hdr[t]]
               EXCEPT ![p].next = MBR, ![MBR].prev = p]
  /\ job' = Todo(job.todo)
  /\ UNCHANGED slots

Strip ==
  /\ job.step = "strip"
  /\ LET p == hdr[job.at].prev IN
     /\ hdr' = [[t \in DOMAIN hdr \ {job.at} |-> hdr[t]]
                  EXCEPT ![p].next = MBR, ![MBR].prev = p]
     /\ job' = IF hdr[p].type = "free" THEN [job EXCEPT !.at = p]
               ELSE Todo(job.todo)
  /\ UNCHANGED slots

(* Whether the empty block b may be part of one of length l at start s. *)
Joins(b, l, s) ==
  hdr[b].type = "free" /\ l <= MergeMax /\ s % l = 0 /\ l \in Powers

(* The walks from s stop at the first header that cannot be part of a      *)
(* block with all that lies between.  To the left, <<first unit, length>>; *)
(* to the right, <<the header where it stopped, length>>.                  *)
ToTheLeft(s) ==
  LET end  == s + hdr[s].length
      stop == Max({t \in DOMAIN hdr : t < s /\ ~Joins(t, end - t, t)})
      b    == hdr[stop].next
  IN  <<b, end - b>>

ToTheRight(s) ==
  LET stops == {t \in DOMAIN hdr : s < t /\ ~Joins(t, t + hdr[t].length - s, s)}
  IN  IF stops = {} THEN <<MBR, PartEnd - s>>
      ELSE <<Min(stops), Min(stops) - s>>

\* Variant: the header behind keeps its link to the block that is gone.
FixPrevOneLink(s) ==
  LET left == ToTheLeft(s)
      b == left[1]
  IN  IF b = s THEN hdr
      ELSE [Without(hdr, b, left[2])
              EXCEPT ![b].length = left[2], ![b].next = b + left[2]]

apaDeleteFixPrev(s) ==
  LET left == ToTheLeft(s)
      b == left[1]
      n == hdr[s].next
  IN  IF b = s THEN hdr
      ELSE [Without(hdr, b, left[2])
              EXCEPT ![b].length = left[2], ![b].next = b + left[2],
                     ![n].prev = b]

apaDeleteFixNext(s) ==
  LET right == ToTheRight(s)
      n == right[1]
  IN  IF right[2] = hdr[s].length THEN hdr
      ELSE [With(Without(hdr, s, right[2]), s, Empty(right[2], n, hdr[s].prev))
              EXCEPT ![n].prev = s]

(* Rounds 1 and 3 merge to the left, 2 and 4 to the right; a round that    *)
(* finds nothing to merge writes nothing.                                  *)
RoundsLeft ==
  {r \in job.round .. 4 :
     IF r % 2 = 1 THEN ToTheLeft(job.at)[1] # job.at
                  ELSE ToTheRight(job.at)[2] # hdr[job.at].length}

Merge ==
  /\ job.step = "merge" /\ RoundsLeft # {}
  /\ LET r == Min(RoundsLeft) IN
     IF r % 2 = 1
     THEN /\ hdr' = apaDeleteFixPrev(job.at)
          /\ job' = [job EXCEPT !.round = r + 1, !.at = ToTheLeft(@)[1]]
     ELSE /\ hdr' = apaDeleteFixNext(job.at)
          /\ job' = [job EXCEPT !.round = r + 1]
  /\ UNCHANGED slots

apaMakeEmpty(s) ==
  [hdr EXCEPT ![s] = Empty(@.length, @.next, @.prev)]

EndMerge ==
  /\ job.step = "merge" /\ RoundsLeft = {}
  /\ hdr' = IF job.at = job.start /\ hdr[job.at].length = job.length
            THEN apaMakeEmpty(job.at) ELSE hdr
  /\ job' = Todo(job.todo)
  /\ UNCHANGED slots

(* The driver's thread goes on with its job. *)
Work ==
  /\ \/ Halve \/ Fill \/ Pad \/ Place \/ Link
     \/ DeleteNext \/ Strip \/ Merge \/ EndMerge
  /\ UNCHANGED faults

(***************************************************************************)
(* What cuts a job short.                                                  *)
(***************************************************************************)
CutShort ==
  /\ job.step \in FaultSteps /\ faults < MaxFaults
  /\ faults' = faults + 1

(* Power is lost, or the IOP is reset: the chain stays as the last whole   *)
(* flush left it.                                                          *)
Crash ==
  /\ job' = Idle
  /\ slots' = [x \in Slots |-> Closed]
  /\ IF job = Idle THEN UNCHANGED faults ELSE CutShort
  /\ UNCHANGED hdr

(* A header cannot be read.  A new partition is given up where it stands.  *)
(* apaRemove passes over a sub-partition whose header it cannot read, and  *)
(* keeps the partition if that was the last one to go; apaDelete answers 0 *)
(* when a neighbour cannot be read, and -EIO for the MBR.                  *)
ReadError ==
  /\ \/ job.step = "insert" /\ hdr[job.at].length # job.p.size /\ job' = Idle
     \/ job.step = "link" /\ job' = Idle
     \/ /\ job.step = "delete" /\ Len(job.todo) > 1
        /\ job' = Todo(IF Len(job.todo) = 2 THEN <<>> ELSE Tail(job.todo))
     \/ job.step \in {"strip", "merge"} /\ job' = Todo(job.todo)
     \/ job.step = "strip" /\ job' = Idle
  /\ CutShort
  /\ UNCHANGED <<hdr, slots>>

Init ==
  /\ hdr = Blank
  /\ slots = [x \in Slots |-> Closed]
  /\ job = FormatJob(1, 1, 1)
  /\ faults = 0

Next ==
  \/ hddFormat
  \/ \E n \in Names \cup ToSet(SystemNames), x \in Slots : Open(n, x)
  \/ \E n \in Names, x \in Slots, size \in Sizes : Create(n, size, x)
  \/ \E x \in Slots : hddClose(x) \/ ioctl2DeleteLastSub(x)
  \/ \E x \in Slots, size \in Sizes : ioctl2AddSub(x, size)
  \/ \E n \in Names : apaRemove(n) \/ \E m \in Names : apaRename(n, m)
  \/ Work \/ Crash \/ ReadError

(* A call runs in its caller's thread until it returns. *)
Spec == Init /\ [][Next]_vars /\ WF_vars(Work)

-----------------------------------------------------------------------------
(* ps2_hdd.h:47: `next' is the sector address of the next partition; only  *)
(* the last header has none.                                               *)
NextIsPartition == \A s \in DOMAIN hdr : hdr[s].next \in DOMAIN hdr

(* At every flush, whatever is cut short, the partitions tile the disk from*)
(* the MBR to the last header: each begins where the one before it ends,   *)
(* links back to it, and the MBR links back to the last (the repair of     *)
(* apaGetNextHeader never has anything to do).                             *)
ChainTiles ==
  /\ \A s \in DOMAIN hdr :
       LET n == hdr[s].next IN
       /\ n # MBR => n = s + hdr[s].length
       /\ n \in DOMAIN hdr /\ hdr[n].prev = s
  /\ \A s \in DOMAIN hdr : s + hdr[s].length <= Units

(* A partition never lists a sub-partition that is gone, is another one's  *)
(* or has another number, even after a crash or a read error half-way      *)
(* through apaRemove, ioctl2AddSub or ioctl2DeleteLastSub.                 *)
ListedSubsLive ==
  \A m \in Mains : \A i \in DOMAIN hdr[m].subs :
    LET s == hdr[m].subs[i] IN
    s \in DOMAIN hdr /\ hdr[s].main = m /\ hdr[s].number = i

(* Between calls, a sub-partition that no partition lists, an empty block  *)
(* at the end of the table and two empty blocks that apaDelete would have  *)
(* merged are all signs of an operation that was cut short.                *)
NothingLost ==
  job = Idle /\ faults = 0 =>
    \A s \in DOMAIN hdr :
      /\ IsSub(hdr[s]) => Contains(hdr[hdr[s].main].subs, s)
      /\ hdr[s].type = "free" =>
           /\ hdr[s].next # MBR
           /\ ToTheRight(s)[2] = hdr[s].length /\ ToTheLeft(s)[1] = s

(* What an open slot remembers of its partition stays true: nobody removes,*)
(* renames or resizes a partition behind the caller that has it open.      *)
SlotsAgree ==
  \A x \in Slots : slots[x] # Closed =>
    /\ slots[x].start \in Mains
    /\ slots[x] = OpenSlot(hdr, slots[x].start)

(* A name leads to one partition, and an open partition has one slot. *)
OneOfAName ==
  /\ \A s, t \in Mains : hdr[s].id = hdr[t].id => s = t
  /\ \A x, y \in Slots :
       slots[x] # Closed /\ slots[x].start = slots[y].start => x = y

(* No call of the driver runs for ever: splitting, padding and merging end.*)
CallsReturn == job # Idle ~> job = Idle
=============================================================================
