------------------------------ MODULE VmcProofs ------------------------------
(***************************************************************************)
(* The virtual memory card driver, for any card, cache and slots.          *)
(*                                                                         *)
(* The blocks of a card survive any number of cuts, and the cluster cache  *)
(* is true.  The invariant has a part for the marks, one for the blocks as *)
(* a cut would leave them, one for what each loop of a flush or a recovery *)
(* has written, and one for the cache.                                     *)
(*                                                                         *)
(* The slots go with their images.  The invariant is about the record of   *)
(* all that a call changes, so that a call that is made of several others  *)
(* is followed through the records in between: most of them close no       *)
(* descriptor (Keeps), and one that mounts or takes out an image leaves    *)
(* the other slots in order (Ready) until it has done so.                  *)
(***************************************************************************)
EXTENDS VmcBlocks, VmcSlots, WellFoundedInduction, TLAPS
-----------------------------------------------------------------------------
(* The blocks.                                                             *)
AllBlocks == Blocks \cup {backup_block1, backup_block2}
Data == [Pages -> Int]
Entries == [cluster : Clusters, val : Int, wr : BOOLEAN, rd : BOOLEAN]
LoopNames == {"clear", "mark", "copy", "seal", "erase", "uncached", "cached", "repeat", "unmark"}
Jobs == [kind : {"none", "flush", "evict", "flushed", "evicted", "mount"}, block : Int, guarded : BOOLEAN,
         call : AllCalls \cup {NoCall}, data : Data, cached : SUBSET Pages, todo : Seq(LoopNames), page : Pages]

TypeInv ==
    /\ image \in [AllBlocks -> Data] /\ home \in [Blocks -> Data] /\ want \in [Blocks -> Data]
    /\ exposed \subseteq Blocks /\ acked \in [Clusters -> Int] /\ current \in [Clusters -> Int]
    /\ cardform \in BOOLEAN /\ job \in Jobs
    /\ mccache \in Seq(Entries) /\ Len(mccache) <= MAX_CACHEENTRY

(* The loops of a job, what is left of them from one on, and the next one. *)
LoopsOf(kind, guarded) ==
    IF kind = "mount" THEN {"erase", "repeat", "unmark", "done"}
    ELSE IF kind \notin {"flush", "evict"} THEN {"done"}
    ELSE IF guarded THEN (LoopNames \ {"repeat"}) \cup {"done"}
    ELSE {"erase", "uncached", "cached", "done"}
Following(kind, guarded, loop) ==
    IF loop = "clear" THEN "mark"
    ELSE IF loop = "mark" THEN "copy"
    ELSE IF loop = "copy" THEN "seal"
    ELSE IF loop = "seal" THEN "erase"
    ELSE IF loop = "erase" THEN (IF kind = "mount" THEN "repeat" ELSE "uncached")
    ELSE IF loop = "uncached" THEN "cached"
    ELSE IF loop = "repeat" \/ (loop = "cached" /\ guarded) THEN "unmark"
    ELSE "done"
Left(kind, guarded, loop) ==
    IF loop = "clear"
      THEN <<"clear", "mark", "copy", "seal", "erase", "uncached", "cached", "unmark">>
    ELSE IF loop = "mark" THEN <<"mark", "copy", "seal", "erase", "uncached", "cached", "unmark">>
    ELSE IF loop = "copy" THEN <<"copy", "seal", "erase", "uncached", "cached", "unmark">>
    ELSE IF loop = "seal" THEN <<"seal", "erase", "uncached", "cached", "unmark">>
    ELSE IF loop = "erase" /\ kind = "mount" THEN <<"erase", "repeat", "unmark">>
    ELSE IF loop = "erase" /\ guarded THEN <<"erase", "uncached", "cached", "unmark">>
    ELSE IF loop = "erase" THEN <<"erase", "uncached", "cached">>
    ELSE IF loop = "uncached" /\ guarded THEN <<"uncached", "cached", "unmark">>
    ELSE IF loop = "uncached" THEN <<"uncached", "cached">>
    ELSE IF loop = "cached" /\ guarded THEN <<"cached", "unmark">>
    ELSE IF loop = "cached" THEN <<"cached">>
    ELSE IF loop = "repeat" THEN <<"repeat", "unmark">>
    ELSE IF loop = "unmark" THEN <<"unmark">>
    ELSE <<>>

InFlush == job.kind \in {"flush", "evict"}

(* What a job is about. *)
JobInv ==
    /\ Loop \in LoopsOf(job.kind, job.guarded) /\ job.todo = Left(job.kind, job.guarded, Loop)
    /\ job.kind = "none" => job = Idle
    /\ job.kind \in {"evict", "evicted"} =>
          /\ job.call \in AllCalls
          /\ Len(mccache) = MAX_CACHEENTRY /\ mccache[Len(mccache)].cluster[1] = job.block
    /\ job.kind = "evicted" => ~mccache[Len(mccache)].wr
    /\ job.kind \in {"flush", "evict", "flushed", "evicted"} => cardform /\ job.block \in Blocks
    /\ job.kind = "mount" => ~cardform
    /\ ~cardform => mccache = <<>>
    /\ InFlush => job.data = want[job.block]

(* The marks.  One that is set names a block, and when both are, the copy  *)
(* is what is being written to it.                                         *)
Unmarked == Mark(0) = Erased /\ Mark(1) = Erased
MarkInv ==
    /\ Mark(0) # Erased => Mark(0) \in Blocks
    /\ Mark(0) # Erased /\ Mark(1) # Erased => image[backup_block1] = want[Mark(0)]
    /\ cardform /\ ~(InFlush /\ job.guarded) => Unmarked
    /\ Loop = "clear" => Unmarked
    /\ Loop = "mark" => Mark(0) = (IF job.page = 0 THEN Erased ELSE job.block) /\ Mark(1) = Erased
    /\ Loop = "copy" => Mark(0) = job.block /\ Mark(1) = Erased
    /\ Loop = "seal" => Mark(0) = job.block /\ Mark(1) = (IF job.page <= 1 THEN Erased ELSE job.block)
    /\ InFlush /\ job.guarded /\ Loop \in {"erase", "uncached", "cached"} =>
          Mark(0) = job.block /\ Mark(1) = job.block
    /\ Loop = "unmark" =>
          (job.page > 0 => Mark(0) = Erased) /\ (job.page > 1 => Mark(1) = Erased)
    /\ InFlush /\ Loop = "unmark" => Mark(0) \in {Erased, job.block}
    /\ job.kind # "none" /\ Loop = "done" => Unmarked
    /\ job.kind = "mount" /\ Loop \in {"erase", "repeat"} =>
          Mark(0) = job.block /\ job.block \in Blocks /\ Mark(1) # Erased

(* What the loops have written. *)
Upto(b, n) == \A q \in Pages : q < n => image[b][q] = job.data[q]
LoopInv ==
    /\ Loop = "copy" => Upto(backup_block1, job.page)
    /\ Loop = "seal" => image[backup_block1] = job.data
    /\ InFlush /\ job.guarded /\ Loop \in {"erase", "uncached", "cached"} => image[backup_block1] = job.data
    /\ job.kind = "mount" /\ Loop \in {"erase", "repeat"} => image[backup_block1] = job.data
    /\ Loop = "uncached" => \A q \in Pages \ job.cached : q < job.page => image[job.block][q] = job.data[q]
    /\ Loop = "cached" =>
          /\ \A q \in Pages \ job.cached : image[job.block][q] = job.data[q]
          /\ Upto(job.block, job.page)
    /\ Loop = "repeat" => Upto(job.block, job.page)
    /\ InFlush /\ Loop \in {"unmark", "done"} => image[job.block] = job.data

(* The blocks as a cut would leave them. *)
Sealed(b) == Mark(0) = b /\ Mark(1) # Erased /\ Loop # "unmark"
DiskInv ==
    /\ \A b \in Blocks \ exposed :
          \/ image[b] \in {home[b], want[b]}
          \/ Sealed(b)
          \/ InFlush /\ ~job.guarded /\ b = job.block
    /\ cardform => \A b \in Blocks \ exposed :
          \/ InFlush /\ b = job.block
          \/ image[b] = home[b] /\ home[b] = want[b]

(* What was covered by a flush is kept. *)
AckInv ==
    \A c \in Clusters : c[1] \notin exposed =>
        /\ home[c[1]][c[2]] >= acked[c] /\ want[c[1]][c[2]] >= acked[c]
        /\ cardform => current[c] >= acked[c]

(* What was written is in the cache or, when it is clean, in the image; in *)
(* the block that is being flushed, in what the flush writes.              *)
Clean(c) == \A i \in DOMAIN mccache : mccache[i].cluster = c => ~mccache[i].wr
CacheInv ==
    cardform =>
      /\ \A i, j \in DOMAIN mccache : mccache[i].cluster = mccache[j].cluster => i = j
      /\ \A i \in DOMAIN mccache : mccache[i].val = current[mccache[i].cluster]
      /\ \A c \in Clusters : ~(InFlush /\ c[1] = job.block) /\ Clean(c) => image[c[1]][c[2]] = current[c]
      /\ InFlush => \A p \in Pages : want[job.block][p] = current[<<job.block, p>>]

VmcInv == TypeInv /\ JobInv /\ MarkInv /\ LoopInv /\ DiskInv /\ AckInv /\ CacheInv
-----------------------------------------------------------------------------
(* The loops of a job.                                                     *)

LEMMA Plan ==
  ASSUME NEW kind \in {"flush", "evict", "mount"}, NEW guarded \in BOOLEAN,
         NEW loop \in LoopsOf(kind, guarded) \ {"done"}
  PROVE  /\ Left(kind, guarded, loop) # <<>> /\ Head(Left(kind, guarded, loop)) = loop
         /\ Tail(Left(kind, guarded, loop)) = Left(kind, guarded, Following(kind, guarded, loop))
         /\ Following(kind, guarded, loop) \in LoopsOf(kind, guarded)
<1> DEFINE next == Following(kind, guarded, loop)
<1>0. next \in LoopsOf(kind, guarded)
  BY DEF Following, LoopsOf, LoopNames
<1>1. CASE loop = "clear"
  <2>1. Left(kind, guarded, loop) = <<"clear", "mark", "copy", "seal", "erase", "uncached", "cached", "unmark">>
    BY <1>1 DEF Left, LoopsOf
  <2>2. Left(kind, guarded, next) = <<"mark", "copy", "seal", "erase", "uncached", "cached", "unmark">>
    BY <1>1 DEF Left, Following, LoopsOf
  <2>3. Tail(<<"clear", "mark", "copy", "seal", "erase", "uncached", "cached", "unmark">>) = <<"mark", "copy", "seal", "erase", "uncached", "cached", "unmark">>
    OBVIOUS
  <2>4. Head(<<"clear", "mark", "copy", "seal", "erase", "uncached", "cached", "unmark">>) = loop /\ <<"clear", "mark", "copy", "seal", "erase", "uncached", "cached", "unmark">> # <<>>
    BY <1>1
  <2> QED BY ONLY <1>0, <2>1, <2>2, <2>3, <2>4
<1>2. CASE loop = "mark"
  <2>1. Left(kind, guarded, loop) = <<"mark", "copy", "seal", "erase", "uncached", "cached", "unmark">>
    BY <1>2 DEF Left, LoopsOf
  <2>2. Left(kind, guarded, next) = <<"copy", "seal", "erase", "uncached", "cached", "unmark">>
    BY <1>2 DEF Left, Following, LoopsOf
  <2>3. Tail(<<"mark", "copy", "seal", "erase", "uncached", "cached", "unmark">>) = <<"copy", "seal", "erase", "uncached", "cached", "unmark">>
    OBVIOUS
  <2>4. Head(<<"mark", "copy", "seal", "erase", "uncached", "cached", "unmark">>) = loop /\ <<"mark", "copy", "seal", "erase", "uncached", "cached", "unmark">> # <<>>
    BY <1>2
  <2> QED BY ONLY <1>0, <2>1, <2>2, <2>3, <2>4
<1>3. CASE loop = "copy"
  <2>1. Left(kind, guarded, loop) = <<"copy", "seal", "erase", "uncached", "cached", "unmark">>
    BY <1>3 DEF Left, LoopsOf
  <2>2. Left(kind, guarded, next) = <<"seal", "erase", "uncached", "cached", "unmark">>
    BY <1>3 DEF Left, Following, LoopsOf
  <2>3. Tail(<<"copy", "seal", "erase", "uncached", "cached", "unmark">>) = <<"seal", "erase", "uncached", "cached", "unmark">>
    OBVIOUS
  <2>4. Head(<<"copy", "seal", "erase", "uncached", "cached", "unmark">>) = loop /\ <<"copy", "seal", "erase", "uncached", "cached", "unmark">> # <<>>
    BY <1>3
  <2> QED BY ONLY <1>0, <2>1, <2>2, <2>3, <2>4
<1>4. CASE loop = "seal"
  <2>1. Left(kind, guarded, loop) = <<"seal", "erase", "uncached", "cached", "unmark">>
    BY <1>4 DEF Left, LoopsOf
  <2>2. Left(kind, guarded, next) = <<"erase", "uncached", "cached", "unmark">>
    BY <1>4 DEF Left, Following, LoopsOf
  <2>3. Tail(<<"seal", "erase", "uncached", "cached", "unmark">>) = <<"erase", "uncached", "cached", "unmark">>
    OBVIOUS
  <2>4. Head(<<"seal", "erase", "uncached", "cached", "unmark">>) = loop /\ <<"seal", "erase", "uncached", "cached", "unmark">> # <<>>
    BY <1>4
  <2> QED BY ONLY <1>0, <2>1, <2>2, <2>3, <2>4
<1>5. CASE loop = "erase" /\ kind = "mount"
  <2>1. Left(kind, guarded, loop) = <<"erase", "repeat", "unmark">>
    BY <1>5 DEF Left, LoopsOf
  <2>2. Left(kind, guarded, next) = <<"repeat", "unmark">>
    BY <1>5 DEF Left, Following, LoopsOf
  <2>3. Tail(<<"erase", "repeat", "unmark">>) = <<"repeat", "unmark">>
    OBVIOUS
  <2>4. Head(<<"erase", "repeat", "unmark">>) = loop /\ <<"erase", "repeat", "unmark">> # <<>>
    BY <1>5
  <2> QED BY ONLY <1>0, <2>1, <2>2, <2>3, <2>4
<1>6. CASE loop = "erase" /\ kind # "mount" /\ guarded
  <2>1. Left(kind, guarded, loop) = <<"erase", "uncached", "cached", "unmark">>
    BY <1>6 DEF Left, LoopsOf
  <2>2. Left(kind, guarded, next) = <<"uncached", "cached", "unmark">>
    BY <1>6 DEF Left, Following, LoopsOf
  <2>3. Tail(<<"erase", "uncached", "cached", "unmark">>) = <<"uncached", "cached", "unmark">>
    OBVIOUS
  <2>4. Head(<<"erase", "uncached", "cached", "unmark">>) = loop /\ <<"erase", "uncached", "cached", "unmark">> # <<>>
    BY <1>6
  <2> QED BY ONLY <1>0, <2>1, <2>2, <2>3, <2>4
<1>7. CASE loop = "erase" /\ kind # "mount" /\ ~guarded
  <2>1. Left(kind, guarded, loop) = <<"erase", "uncached", "cached">>
    BY <1>7 DEF Left, LoopsOf
  <2>2. Left(kind, guarded, next) = <<"uncached", "cached">>
    BY <1>7 DEF Left, Following, LoopsOf
  <2>3. Tail(<<"erase", "uncached", "cached">>) = <<"uncached", "cached">>
    OBVIOUS
  <2>4. Head(<<"erase", "uncached", "cached">>) = loop /\ <<"erase", "uncached", "cached">> # <<>>
    BY <1>7
  <2> QED BY ONLY <1>0, <2>1, <2>2, <2>3, <2>4
<1>8. CASE loop = "uncached" /\ guarded
  <2>1. Left(kind, guarded, loop) = <<"uncached", "cached", "unmark">>
    BY <1>8 DEF Left, LoopsOf
  <2>2. Left(kind, guarded, next) = <<"cached", "unmark">>
    BY <1>8 DEF Left, Following, LoopsOf
  <2>3. Tail(<<"uncached", "cached", "unmark">>) = <<"cached", "unmark">>
    OBVIOUS
  <2>4. Head(<<"uncached", "cached", "unmark">>) = loop /\ <<"uncached", "cached", "unmark">> # <<>>
    BY <1>8
  <2> QED BY ONLY <1>0, <2>1, <2>2, <2>3, <2>4
<1>9. CASE loop = "uncached" /\ ~guarded
  <2>1. Left(kind, guarded, loop) = <<"uncached", "cached">>
    BY <1>9 DEF Left, LoopsOf
  <2>2. Left(kind, guarded, next) = <<"cached">>
    BY <1>9 DEF Left, Following, LoopsOf
  <2>3. Tail(<<"uncached", "cached">>) = <<"cached">>
    OBVIOUS
  <2>4. Head(<<"uncached", "cached">>) = loop /\ <<"uncached", "cached">> # <<>>
    BY <1>9
  <2> QED BY ONLY <1>0, <2>1, <2>2, <2>3, <2>4
<1>10. CASE loop = "cached" /\ guarded
  <2>1. Left(kind, guarded, loop) = <<"cached", "unmark">>
    BY <1>10 DEF Left, LoopsOf
  <2>2. Left(kind, guarded, next) = <<"unmark">>
    BY <1>10 DEF Left, Following, LoopsOf
  <2>3. Tail(<<"cached", "unmark">>) = <<"unmark">>
    OBVIOUS
  <2>4. Head(<<"cached", "unmark">>) = loop /\ <<"cached", "unmark">> # <<>>
    BY <1>10
  <2> QED BY ONLY <1>0, <2>1, <2>2, <2>3, <2>4
<1>11. CASE loop = "cached" /\ ~guarded
  <2>1. Left(kind, guarded, loop) = <<"cached">>
    BY <1>11 DEF Left, LoopsOf
  <2>2. Left(kind, guarded, next) = <<>>
    BY <1>11 DEF Left, Following, LoopsOf
  <2>3. Tail(<<"cached">>) = <<>>
    OBVIOUS
  <2>4. Head(<<"cached">>) = loop /\ <<"cached">> # <<>>
    BY <1>11
  <2> QED BY ONLY <1>0, <2>1, <2>2, <2>3, <2>4
<1>12. CASE loop = "repeat"
  <2>1. Left(kind, guarded, loop) = <<"repeat", "unmark">>
    BY <1>12 DEF Left, LoopsOf
  <2>2. Left(kind, guarded, next) = <<"unmark">>
    BY <1>12 DEF Left, Following, LoopsOf
  <2>3. Tail(<<"repeat", "unmark">>) = <<"unmark">>
    OBVIOUS
  <2>4. Head(<<"repeat", "unmark">>) = loop /\ <<"repeat", "unmark">> # <<>>
    BY <1>12
  <2> QED BY ONLY <1>0, <2>1, <2>2, <2>3, <2>4
<1>13. CASE loop = "unmark"
  <2>1. Left(kind, guarded, loop) = <<"unmark">>
    BY <1>13 DEF Left, LoopsOf
  <2>2. Left(kind, guarded, next) = <<>>
    BY <1>13 DEF Left, Following, LoopsOf
  <2>3. Tail(<<"unmark">>) = <<>>
    OBVIOUS
  <2>4. Head(<<"unmark">>) = loop /\ <<"unmark">> # <<>>
    BY <1>13
  <2> QED BY ONLY <1>0, <2>1, <2>2, <2>3, <2>4
<1> QED BY <1>1, <1>2, <1>3, <1>4, <1>5, <1>6, <1>7, <1>8, <1>9, <1>10, <1>11, <1>12, <1>13 DEF LoopsOf, LoopNames

LEMMA Leads ==
  ASSUME NEW kind \in {"none", "flush", "evict", "flushed", "evicted", "mount"}, NEW guarded \in BOOLEAN,
         NEW loop \in LoopsOf(kind, guarded)
  PROVE  (IF Left(kind, guarded, loop) = <<>> THEN "done" ELSE Head(Left(kind, guarded, loop))) = loop
<1>1. CASE loop = "done"
  BY <1>1 DEF Left
<1>2. CASE loop # "done"
  <2>1. kind \in {"flush", "evict", "mount"}
    BY <1>2 DEF LoopsOf
  <2> QED BY <1>2, <2>1, Plan
<1> QED BY <1>1, <1>2

(* A write is of a page of the loop, and the next loop follows the last.   *)
LEMMA Advance ==
  ASSUME VmcAssumption, TypeInv, JobInv, McWritePage
  PROVE  /\ job.kind \in {"flush", "evict", "mount"} /\ Loop # "done"
         /\ Loop \in LoopsOf(job.kind, job.guarded)
         /\ job'.kind = job.kind /\ job'.block = job.block /\ job'.guarded = job.guarded /\ job'.call = job.call
         /\ job'.data = job.data /\ job'.cached = job.cached
         /\ job' \in Jobs
         /\ \/ job.page # PerBlock - 1 /\ Loop' = Loop /\ job'.page = job.page + 1 /\ job'.todo = job.todo
            \/ /\ job.page = PerBlock - 1 /\ job'.page = 0
               /\ Loop' = Following(job.kind, job.guarded, Loop) /\ Loop' \in LoopsOf(job.kind, job.guarded)
               /\ job'.todo = Left(job.kind, job.guarded, Loop')
<1>1. Loop # "done" /\ Loop \in LoopsOf(job.kind, job.guarded)
  BY DEF McWritePage, JobInv
<1>2. job.kind \in {"flush", "evict", "mount"} /\ job.guarded \in BOOLEAN /\ job.page \in Pages /\ job \in Jobs
  BY <1>1 DEF LoopsOf, TypeInv, Jobs
<1>3. job.todo \in Seq(LoopNames) /\ job.todo # <<>> /\ Loop = Head(job.todo)
  BY <1>1, <1>2 DEF Jobs, Loop
<1>4. PerBlock \in Nat /\ PerBlock > 1
  BY DEF VmcAssumption
<1>5. CASE job.page # PerBlock - 1
  <2>1. job' = [job EXCEPT !.page = @ + 1]
    BY <1>5 DEF McWritePage
  <2>2. job.page + 1 \in Pages
    BY <1>2, <1>4, <1>5 DEF Pages
  <2>3. /\ job'.kind = job.kind /\ job'.block = job.block /\ job'.guarded = job.guarded /\ job'.call = job.call
        /\ job'.data = job.data /\ job'.cached = job.cached /\ job'.todo = job.todo /\ job'.page = job.page + 1
    BY <1>2, <2>1 DEF Jobs
  <2>4. job' \in Jobs
    BY <1>2, <2>1, <2>2 DEF Jobs
  <2>5. Loop' = Loop
    BY <2>3 DEF Loop
  <2> QED BY <1>1, <1>2, <1>5, <2>3, <2>4, <2>5
<1>6. CASE job.page = PerBlock - 1
  <2>1. job' = [job EXCEPT !.todo = Tail(@), !.page = 0]
    BY <1>6 DEF McWritePage
  <2>2. Tail(job.todo) \in Seq(LoopNames) /\ 0 \in Pages
    BY <1>3, <1>4 DEF Pages
  <2>3. /\ job'.kind = job.kind /\ job'.block = job.block /\ job'.guarded = job.guarded /\ job'.call = job.call
        /\ job'.data = job.data /\ job'.cached = job.cached /\ job'.todo = Tail(job.todo) /\ job'.page = 0
    BY <1>2, <2>1 DEF Jobs
  <2>4. job' \in Jobs
    BY <1>2, <2>1, <2>2 DEF Jobs
  <2> DEFINE next == Following(job.kind, job.guarded, Loop)
  <2>5. job'.todo = Left(job.kind, job.guarded, next) /\ next \in LoopsOf(job.kind, job.guarded)
    BY <1>1, <1>2, <2>3, Plan DEF JobInv
  <2>6. Loop' = next
    <3>1. Loop' = IF job'.todo = <<>> THEN "done" ELSE Head(job'.todo)
      BY DEF Loop
    <3> HIDE DEF next
    <3> QED BY <1>2, <2>5, <3>1, Leads
  <2> QED BY <1>1, <1>2, <1>6, <2>3, <2>4, <2>5, <2>6
<1> QED BY <1>5, <1>6

LEMMA AdvanceJob ==
  ASSUME VmcAssumption, TypeInv, JobInv, McWritePage
  PROVE  JobInv'
<1>1. /\ job'.kind = job.kind /\ job'.block = job.block /\ job'.guarded = job.guarded /\ job'.call = job.call
      /\ job'.data = job.data /\ job.kind \in {"flush", "evict", "mount"}
  BY Advance
<1>2. Loop' \in LoopsOf(job.kind, job.guarded) /\ job'.todo = Left(job.kind, job.guarded, Loop')
  BY Advance DEF JobInv
<1>3. UNCHANGED <<mccache, cardform, want>>
  BY DEF McWritePage, observed
<1> QED BY <1>1, <1>2, <1>3 DEF JobInv, InFlush
-----------------------------------------------------------------------------
(* The pages.                                                              *)

Put(f, b, p, v) == [f EXCEPT ![b][p] = v]

LEMMA PutPage ==
  ASSUME NEW f \in [AllBlocks -> Data], NEW b \in AllBlocks, NEW p \in Pages, NEW v \in Int
  PROVE  /\ Put(f, b, p, v) \in [AllBlocks -> Data] /\ Put(f, b, p, v)[b][p] = v
         /\ \A q \in Pages : q # p => Put(f, b, p, v)[b][q] = f[b][q]
         /\ \A c \in AllBlocks : c # b => Put(f, b, p, v)[c] = f[c]
<1> DEFINE g == Put(f, b, p, v)
<1>1. f[b] \in [Pages -> Int]
  BY DEF Data
<1>2. g = [f EXCEPT ![b] = [f[b] EXCEPT ![p] = v]]
  BY DEF Put
<1>3. [f[b] EXCEPT ![p] = v] \in Data
  BY <1>1 DEF Data
<1> HIDE DEF g
<1>4. g \in [AllBlocks -> Data] /\ g[b] = [f[b] EXCEPT ![p] = v]
  BY <1>2, <1>3
<1>5. \A c \in AllBlocks : c # b => g[c] = f[c]
  BY <1>2
<1>6. g[b][p] = v /\ \A q \in Pages : q # p => g[b][q] = f[b][q]
  BY <1>1, <1>4
<1> QED BY <1>4, <1>5, <1>6 DEF g

LEMMA SameData ==
  ASSUME NEW f \in Data, NEW g \in Data, \A q \in Pages : f[q] = g[q]
  PROVE  f = g
BY DEF Data

(* The block and the contents of a loop.                                   *)
LEMMA WhereFits ==
  ASSUME VmcAssumption, TypeInv, JobInv, MarkInv, Loop # "done"
  PROVE  Where \in AllBlocks /\ Contents(job.page) \in Int
<1>1. Loop \in {"erase", "uncached", "cached", "repeat"} => job.block \in Blocks
  <2>1. CASE job.kind = "mount"
    BY <2>1 DEF JobInv, LoopsOf, MarkInv
  <2>2. CASE job.kind \in {"flush", "evict"}
    BY <2>2 DEF JobInv
  <2>3. CASE job.kind \notin {"flush", "evict", "mount"}
    BY <2>3 DEF JobInv, LoopsOf
  <2> QED BY <2>1, <2>2, <2>3
<1>2. Where \in AllBlocks
  <2>1. Loop \in LoopNames
    BY DEF JobInv, LoopsOf, LoopNames
  <2> QED BY <1>1, <2>1 DEF Where, AllBlocks, LoopNames
<1>3. job.page \in Pages /\ job.block \in Int /\ job.data \in [Pages -> Int]
  BY DEF TypeInv, Jobs, Data
<1>4. Contents(job.page) \in Int
  BY <1>3 DEF Contents, Erased
<1> QED BY <1>2, <1>4

LEMMA WriteIs ==
  ASSUME VmcAssumption, TypeInv, JobInv, MarkInv, McWritePage
  PROVE  /\ image' \in [AllBlocks -> Data]
         /\ \A b \in AllBlocks : b # Where => image'[b] = image[b]
         /\ \A q \in Pages : q # job.page => image'[Where][q] = image[Where][q]
         /\ job.page \in Written => image'[Where][job.page] = Contents(job.page)
         /\ job.page \notin Written => image' = image
         /\ Where \in AllBlocks /\ job.page \in Pages
<1>1. Where \in AllBlocks /\ Contents(job.page) \in Int /\ job.page \in Pages
  BY WhereFits DEF McWritePage, TypeInv, Jobs
<1>2. CASE job.page \in Written
  <2>1. image' = [image EXCEPT ![Where][job.page] = Contents(job.page)]
    BY <1>2 DEF McWritePage
  <2>2. image \in [AllBlocks -> Data]
    BY DEF TypeInv
  <2>3. image' = Put(image, Where, job.page, Contents(job.page))
    BY <2>1 DEF Put
  <2> QED BY <1>1, <1>2, <2>2, <2>3, PutPage
<1>3. CASE job.page \notin Written
  BY <1>1, <1>3 DEF McWritePage, TypeInv
<1> QED BY <1>2, <1>3

LEMMA WriteType ==
  ASSUME VmcAssumption, TypeInv, JobInv, MarkInv, McWritePage
  PROVE  TypeInv'
BY WriteIs, Advance DEF TypeInv, McWritePage, observed

(* What a write does not touch.                                            *)
LEMMA Untouched ==
  ASSUME VmcAssumption, TypeInv, JobInv, MarkInv, McWritePage
  PROVE  /\ Loop \notin {"mark", "seal", "unmark"} => Mark(0)' = Mark(0) /\ Mark(1)' = Mark(1)
         /\ Loop \notin {"clear", "copy"} => image'[backup_block1] = image[backup_block1]
         /\ \A b \in Blocks : Loop \notin {"erase", "uncached", "cached", "repeat"} \/ b # job.block =>
               image'[b] = image[b]
         /\ Loop \in {"erase", "uncached", "cached", "repeat"} => Where = job.block /\ job.block \in Blocks
<1>1. Loop \in LoopNames
  BY DEF McWritePage, JobInv, LoopsOf, LoopNames
<1>2. backup_block1 \notin Blocks /\ backup_block2 \notin Blocks /\ backup_block1 # backup_block2
  BY DEF VmcAssumption
<1>3. \A b \in AllBlocks : b # Where => image'[b] = image[b]
  BY WriteIs
<1>4. Loop \in {"erase", "uncached", "cached", "repeat"} => Where = job.block /\ job.block \in Blocks
  BY <1>2, WriteIs, Advance DEF Where, AllBlocks, MarkInv, JobInv, LoopsOf
<1>5. Loop \in {"clear", "copy"} => Where = backup_block1
  BY DEF Where
<1>6. Loop \in {"mark", "seal", "unmark"} => Where = backup_block2
  BY DEF Where
<1> QED BY <1>1, <1>2, <1>3, <1>4, <1>5, <1>6 DEF AllBlocks, Mark, LoopNames

(* The marks that a write leaves.                                          *)
LEMMA WriteMarks ==
  ASSUME VmcAssumption, TypeInv, JobInv, MarkInv, McWritePage
  PROVE  /\ Loop = "mark" =>
               Mark(0)' = (IF job.page = 0 THEN job.block ELSE Mark(0)) /\ Mark(1)' = Mark(1)
         /\ Loop = "seal" =>
               Mark(0)' = Mark(0) /\ Mark(1)' = (IF job.page = 1 THEN job.block ELSE Mark(1))
         /\ Loop = "unmark" =>
               /\ Mark(0)' = (IF job.page = 0 THEN Erased ELSE Mark(0))
               /\ Mark(1)' = (IF job.page = 1 THEN Erased ELSE Mark(1))
<1>1. 0 \in Pages /\ 1 \in Pages
  BY DEF VmcAssumption, Pages
<1>2. Loop \in {"mark", "seal", "unmark"} => Where = backup_block2
  BY DEF Where
<1>3. /\ \A q \in Pages : q # job.page => image'[Where][q] = image[Where][q]
      /\ job.page \in Written => image'[Where][job.page] = Contents(job.page)
      /\ job.page \notin Written => image' = image
      /\ job.page \in Pages
  BY WriteIs
<1>4. CASE Loop = "mark"
  <2>1. Written = {0} /\ Contents(job.page) = job.block
    BY <1>4 DEF Written, Contents
  <2> QED BY <1>1, <1>2, <1>3, <1>4, <2>1 DEF Mark
<1>5. CASE Loop = "seal"
  <2>1. Written = {1} /\ Contents(job.page) = job.block
    BY <1>5 DEF Written, Contents
  <2> QED BY <1>1, <1>2, <1>3, <1>5, <2>1 DEF Mark
<1>6. CASE Loop = "unmark"
  <2>1. Written = Pages /\ Contents(job.page) = Erased
    BY <1>6 DEF Written, Contents
  <2> QED BY <1>1, <1>2, <1>3, <1>6, <2>1 DEF Mark
<1> QED BY <1>4, <1>5, <1>6

(* The marks are kept.                                                     *)
LEMMA WriteMarkInv ==
  ASSUME VmcAssumption, TypeInv, JobInv, MarkInv, LoopInv, McWritePage
  PROVE  MarkInv'
<1>0. /\ UNCHANGED <<want, cardform>> /\ job.page \in Pages /\ PerBlock \in Nat /\ PerBlock > 1
      /\ Blocks \subseteq Nat /\ job.guarded \in BOOLEAN
  BY WriteIs DEF McWritePage, observed, VmcAssumption, TypeInv, Jobs
<1>1. /\ job'.kind = job.kind /\ job'.block = job.block /\ job'.guarded = job.guarded /\ job'.data = job.data
      /\ job.kind \in {"flush", "evict", "mount"} /\ Loop \in LoopsOf(job.kind, job.guarded) /\ Loop # "done"
      /\ \/ job.page # PerBlock - 1 /\ Loop' = Loop /\ job'.page = job.page + 1
         \/ job.page = PerBlock - 1 /\ Loop' = Following(job.kind, job.guarded, Loop) /\ job'.page = 0
  BY Advance
<1>2. job.kind # "mount" => cardform /\ job.block \in Blocks /\ job.data = want[job.block]
  BY <1>1 DEF JobInv, InFlush
<1>3. job.kind = "mount" => ~cardform
  BY DEF JobInv
<1>4. CASE Loop = "clear"
  <2>1. Mark(0)' = Erased /\ Mark(1)' = Erased
    BY <1>4, Untouched DEF MarkInv, Unmarked
  <2>2. Loop' \in {"clear", "mark"} /\ (Loop' = "mark" => job'.page = 0) /\ job.kind # "mount" /\ job.guarded
    BY <1>1, <1>4 DEF LoopsOf, Following
  <2> QED BY <1>1, <2>1, <2>2 DEF MarkInv, Unmarked, InFlush
<1>5. CASE Loop = "mark"
  <2>1. Mark(0)' = job.block /\ Mark(1)' = Erased
    BY <1>5, WriteMarks DEF MarkInv
  <2>2. /\ Loop' \in {"mark", "copy"} /\ (Loop' = "mark" => job'.page # 0) /\ job.kind # "mount" /\ job.guarded
    BY <1>0, <1>1, <1>5 DEF LoopsOf, Following, Pages
  <2> QED BY <1>0, <1>1, <1>2, <2>1, <2>2 DEF MarkInv, Unmarked, InFlush
<1>6. CASE Loop = "copy"
  <2>1. Mark(0)' = job.block /\ Mark(1)' = Erased
    BY <1>6, Untouched DEF MarkInv
  <2>2. Loop' \in {"copy", "seal"} /\ (Loop' = "seal" => job'.page = 0) /\ job.kind # "mount" /\ job.guarded
    BY <1>1, <1>6 DEF LoopsOf, Following
  <2> QED BY <1>0, <1>1, <1>2, <2>1, <2>2 DEF MarkInv, Unmarked, InFlush
<1>7. CASE Loop = "seal"
  <2>1. Mark(0)' = job.block /\ Mark(1)' = (IF job.page >= 1 THEN job.block ELSE Erased)
    BY <1>0, <1>7, WriteMarks DEF MarkInv, Pages
  <2>2. /\ Loop' \in {"seal", "erase"} /\ job.kind # "mount" /\ job.guarded
        /\ Loop' = "seal" => job'.page = job.page + 1
        /\ Loop' = "erase" => job.page >= 1
    BY <1>0, <1>1, <1>7 DEF LoopsOf, Following, Pages
  <2>3. image'[backup_block1] = job.data
    BY <1>7, Untouched DEF LoopInv
  <2> QED BY <1>0, <1>1, <1>2, <2>1, <2>2, <2>3 DEF MarkInv, Unmarked, InFlush, Pages
<1>8. CASE Loop \in {"erase", "uncached", "cached", "repeat"}
  <2>1. Mark(0)' = Mark(0) /\ Mark(1)' = Mark(1) /\ image'[backup_block1] = image[backup_block1]
    BY <1>8, Untouched
  <2>2. /\ Loop' \in {"erase", "uncached", "cached", "repeat", "unmark", "done"}
        /\ Loop' = "unmark" => job'.page = 0 /\ (job.guarded \/ job.kind = "mount")
        /\ Loop' = "done" => ~job.guarded /\ job.kind # "mount"
        /\ job.kind = "mount" => Loop \in {"erase", "repeat"}
        /\ job.kind # "mount" => Loop \in {"erase", "uncached", "cached"}
    BY <1>1, <1>8 DEF LoopsOf, Following
  <2>3. CASE job.kind = "mount"
    <3>1. Mark(0) = job.block /\ job.block \in Blocks /\ Mark(1) # Erased
      BY <2>2, <2>3 DEF MarkInv
    <3> QED BY <1>0, <1>1, <1>3, <2>1, <2>2, <2>3, <3>1 DEF MarkInv, Unmarked, InFlush
  <2>4. CASE job.kind # "mount" /\ job.guarded
    <3>1. Mark(0) = job.block /\ Mark(1) = job.block
      BY <1>1, <2>2, <2>4 DEF MarkInv, InFlush
    <3> QED BY <1>0, <1>1, <1>2, <2>1, <2>2, <2>4, <3>1 DEF MarkInv, Unmarked, InFlush
  <2>5. CASE job.kind # "mount" /\ ~job.guarded
    <3>1. Unmarked
      BY <1>2, <2>5 DEF MarkInv
    <3> QED BY <1>0, <1>1, <1>2, <2>1, <2>2, <2>5, <3>1 DEF MarkInv, Unmarked, InFlush
  <2> QED BY <2>3, <2>4, <2>5
<1>9. CASE Loop = "unmark"
  <2>1. /\ Mark(0)' = Erased
        /\ Mark(1)' = (IF job.page >= 1 THEN Erased ELSE Mark(1))
    BY <1>0, <1>9, WriteMarks DEF MarkInv, Pages
  <2>2. /\ Loop' \in {"unmark", "done"} /\ (job.guarded \/ job.kind = "mount")
        /\ Loop' = "unmark" => job'.page = job.page + 1
        /\ Loop' = "done" => job.page >= 1
    BY <1>0, <1>1, <1>9 DEF LoopsOf, Following, Pages
  <2> QED BY <1>0, <1>1, <1>2, <1>3, <2>1, <2>2 DEF MarkInv, Unmarked, InFlush, Pages
<1>10. Loop \in LoopNames
  BY <1>1 DEF LoopsOf, LoopNames
<1> QED BY <1>4, <1>5, <1>6, <1>7, <1>8, <1>9, <1>10 DEF LoopNames

(* The pages that a loop over a block has written are one more, and after  *)
(* its last page they are all.                                             *)
LEMMA WriteUpto ==
  ASSUME VmcAssumption, TypeInv, JobInv, MarkInv, McWritePage, NEW n \in Nat, n = job.page + 1
  PROVE  /\ Loop \in {"copy", "cached", "repeat"} /\ Upto(Where, job.page)
              /\ (Loop = "cached" => \A q \in Pages \ job.cached : image[Where][q] = job.data[q]) =>
            \A q \in Pages : q < n => image'[Where][q] = job.data[q]
         /\ Loop = "cached" /\ (\A q \in Pages \ job.cached : image[Where][q] = job.data[q]) =>
               \A q \in Pages \ job.cached : image'[Where][q] = job.data[q]
         /\ Loop = "uncached" /\ (\A q \in Pages \ job.cached : q < job.page => image[Where][q] = job.data[q]) =>
               \A q \in Pages \ job.cached : q < n => image'[Where][q] = job.data[q]
<1>1. /\ \A q \in Pages : q # job.page => image'[Where][q] = image[Where][q]
      /\ job.page \in Written => image'[Where][job.page] = Contents(job.page)
      /\ job.page \notin Written => image' = image
      /\ job.page \in Pages /\ PerBlock \in Nat
  BY WriteIs DEF VmcAssumption
<1>2. \A q \in Pages : q < n => q = job.page \/ q < job.page
  BY <1>1 DEF Pages
<1>3. Loop \in {"copy", "cached", "repeat", "uncached"} => Contents(job.page) = job.data[job.page]
  BY DEF Contents
<1>4. Loop \in {"copy", "repeat"} => Written = Pages
  BY DEF Written
<1>5. Loop = "cached" => Written = job.cached
  BY DEF Written
<1>6. Loop = "uncached" => Written = Pages \ job.cached
  BY DEF Written
<1>7. ASSUME Loop \in {"copy", "repeat"}, Upto(Where, job.page), NEW q \in Pages, q < n
      PROVE  image'[Where][q] = job.data[q]
  BY <1>1, <1>2, <1>3, <1>4, <1>7 DEF Upto
<1>8. ASSUME Loop = "cached", \A q \in Pages \ job.cached : image[Where][q] = job.data[q],
             NEW q \in Pages, q \notin job.cached
      PROVE  image'[Where][q] = job.data[q]
  BY <1>1, <1>5, <1>8
<1>9. ASSUME Loop = "cached", Upto(Where, job.page),
             \A q \in Pages \ job.cached : image[Where][q] = job.data[q], NEW q \in Pages, q < n
      PROVE  image'[Where][q] = job.data[q]
  BY <1>1, <1>2, <1>3, <1>5, <1>8, <1>9 DEF Upto
<1>10. ASSUME Loop = "uncached", \A q \in Pages \ job.cached : q < job.page => image[Where][q] = job.data[q],
              NEW q \in Pages \ job.cached, q < n
       PROVE  image'[Where][q] = job.data[q]
  BY <1>1, <1>2, <1>3, <1>6, <1>10
<1> QED BY <1>7, <1>8, <1>9, <1>10

(* What the loops have written is kept.                                    *)
LEMMA WriteLoopInv ==
  ASSUME VmcAssumption, TypeInv, JobInv, MarkInv, LoopInv, McWritePage
  PROVE  LoopInv' /\ (Loop = "repeat" /\ Loop' = "unmark" => image'[job.block] = job.data)
<1>0. /\ job.page \in Pages /\ PerBlock \in Nat /\ PerBlock > 1 /\ job.guarded \in BOOLEAN /\ job.data \in Data
      /\ image' \in [AllBlocks -> Data] /\ backup_block1 \in AllBlocks
  BY WriteIs DEF VmcAssumption, TypeInv, Jobs, AllBlocks
<1>1. /\ job'.kind = job.kind /\ job'.block = job.block /\ job'.guarded = job.guarded /\ job'.data = job.data
      /\ job'.cached = job.cached
      /\ job.kind \in {"flush", "evict", "mount"} /\ Loop \in LoopsOf(job.kind, job.guarded) /\ Loop # "done"
      /\ \/ job.page # PerBlock - 1 /\ Loop' = Loop /\ job'.page = job.page + 1
         \/ job.page = PerBlock - 1 /\ Loop' = Following(job.kind, job.guarded, Loop) /\ job'.page = 0
  BY Advance
<1>2. InFlush' <=> job.kind # "mount"
  BY <1>1 DEF InFlush
<1>3. job.page = PerBlock - 1 => \A q \in Pages : q < job.page + 1
  BY <1>0 DEF Pages
<1>4. \A q \in Pages : ~(q < 0)
  BY <1>0 DEF Pages
<1>5. job.page + 1 \in Nat
  BY <1>0 DEF Pages
<1>6. CASE Loop \in {"clear", "mark"}
  <2>1. /\ Loop' \in {"clear", "mark", "copy"} /\ (Loop' = "copy" => job'.page = 0)
        /\ job.kind # "mount"
    BY <1>1, <1>6 DEF LoopsOf, Following
  <2> QED BY <1>1, <1>2, <1>4, <1>6, <2>1 DEF LoopInv, Upto
<1>7. CASE Loop = "copy"
  <2>1. Where = backup_block1 /\ Upto(Where, job.page)
    BY <1>7 DEF Where, LoopInv
  <2>2. \A q \in Pages : q < job.page + 1 => image'[backup_block1][q] = job.data[q]
    BY <1>5, <1>7, <2>1, WriteUpto
  <2>3. job.page = PerBlock - 1 => image'[backup_block1] = job.data
    BY <1>0, <1>3, <2>2, SameData
  <2>4. Loop' \in {"copy", "seal"} /\ job.kind # "mount"
        /\ (Loop' = "copy" => job'.page = job.page + 1) /\ (Loop' = "seal" => job.page = PerBlock - 1)
    BY <1>1, <1>7 DEF LoopsOf, Following
  <2> QED BY <1>1, <1>2, <1>7, <2>2, <2>3, <2>4 DEF LoopInv, Upto
<1>8. CASE Loop = "seal"
  <2>1. image'[backup_block1] = job.data
    BY <1>8, Untouched DEF LoopInv
  <2>2. Loop' \in {"seal", "erase"} /\ job.kind # "mount"
    BY <1>1, <1>8 DEF LoopsOf, Following
  <2> QED BY <1>1, <1>2, <1>8, <2>1, <2>2 DEF LoopInv
<1>9. CASE Loop \in {"erase", "uncached", "cached", "repeat"}
  <2>1. /\ image'[backup_block1] = image[backup_block1] /\ Where = job.block /\ job.block \in AllBlocks
    BY <1>9, Untouched DEF AllBlocks
  <2>2. /\ job.kind # "mount" /\ job.guarded => image'[backup_block1] = job.data
        /\ job.kind = "mount" => image'[backup_block1] = job.data
    BY <1>1, <1>9, <2>1 DEF LoopInv, LoopsOf, InFlush
  <2>3. CASE Loop = "erase"
    <3>1. /\ Loop' \in {"erase", "uncached", "repeat"} /\ (Loop' # "erase" => job'.page = 0)
      BY <1>1, <2>3 DEF Following
    <3> QED BY <1>1, <1>2, <1>4, <2>2, <2>3, <3>1 DEF LoopInv, Upto
  <2>4. CASE Loop = "uncached"
    <3>1. \A q \in Pages \ job.cached : q < job.page + 1 => image'[job.block][q] = job.data[q]
      BY <1>5, <2>1, <2>4, WriteUpto DEF LoopInv
    <3>2. /\ Loop' \in {"uncached", "cached"} /\ (Loop' = "uncached" => job'.page = job.page + 1)
          /\ Loop' = "cached" => job.page = PerBlock - 1 /\ job'.page = 0
      BY <1>1, <2>4 DEF Following
    <3> QED BY <1>1, <1>2, <1>3, <1>4, <2>2, <2>4, <3>1, <3>2 DEF LoopInv, Upto
  <2>5. CASE Loop = "cached"
    <3>1. /\ \A q \in Pages : q < job.page + 1 => image'[job.block][q] = job.data[q]
          /\ \A q \in Pages \ job.cached : image'[job.block][q] = job.data[q]
      BY <1>5, <2>1, <2>5, WriteUpto DEF LoopInv
    <3>2. job.page = PerBlock - 1 => image'[job.block] = job.data
      BY <1>0, <1>3, <2>1, <3>1, SameData
    <3>3. /\ Loop' \in {"cached", "unmark", "done"} /\ (Loop' = "cached" => job'.page = job.page + 1)
          /\ Loop' # "cached" => job.page = PerBlock - 1
      BY <1>1, <2>5 DEF Following
    <3> QED BY <1>1, <1>2, <2>2, <2>5, <3>1, <3>2, <3>3 DEF LoopInv, Upto
  <2>6. CASE Loop = "repeat"
    <3>1. \A q \in Pages : q < job.page + 1 => image'[job.block][q] = job.data[q]
      BY <1>5, <2>1, <2>6, WriteUpto DEF LoopInv
    <3>2. job.page = PerBlock - 1 => image'[job.block] = job.data
      BY <1>0, <1>3, <2>1, <3>1, SameData
    <3>3. /\ Loop' \in {"repeat", "unmark"} /\ (Loop' = "repeat" => job'.page = job.page + 1)
          /\ Loop' # "repeat" => job.page = PerBlock - 1
          /\ job.kind = "mount"
      BY <1>1, <2>6 DEF Following, LoopsOf, LoopNames
    <3> QED BY <1>1, <1>2, <2>2, <2>6, <3>1, <3>2, <3>3 DEF LoopInv, Upto
  <2> QED BY <1>9, <2>3, <2>4, <2>5, <2>6
<1>10. CASE Loop = "unmark"
  <2>1. Loop' \in {"unmark", "done"}
    BY <1>1, <1>10 DEF Following
  <2>2. job.kind # "mount" => job.block \in Blocks /\ image[job.block] = job.data
    BY <1>1, <1>10 DEF LoopInv, JobInv, InFlush
  <2>3. job.kind # "mount" => image'[job.block] = job.data
    BY <1>10, <2>2, Untouched
  <2> QED BY <1>1, <1>2, <1>10, <2>1, <2>3 DEF LoopInv
<1>11. Loop \in LoopNames
  BY <1>1 DEF LoopsOf, LoopNames
<1> QED BY <1>6, <1>7, <1>8, <1>9, <1>10, <1>11 DEF LoopNames

(* A cut after a write finds each block whole, or sealed in the copy.      *)
LEMMA WriteDiskInv ==
  ASSUME VmcAssumption, TypeInv, JobInv, MarkInv, LoopInv, DiskInv, McWritePage
  PROVE  DiskInv'
<1>0. UNCHANGED <<home, want, exposed, cardform>> /\ Erased \notin Blocks
  BY DEF McWritePage, observed, VmcAssumption, Erased
<1>1. /\ job'.kind = job.kind /\ job'.block = job.block /\ job'.guarded = job.guarded /\ job'.data = job.data
      /\ job.kind \in {"flush", "evict", "mount"} /\ Loop \in LoopsOf(job.kind, job.guarded) /\ Loop # "done"
      /\ Loop' = Loop \/ Loop' = Following(job.kind, job.guarded, Loop)
      /\ job.guarded \in BOOLEAN
  BY Advance DEF TypeInv, Jobs
<1>2. InFlush' = InFlush /\ (InFlush <=> job.kind # "mount")
  BY <1>1 DEF InFlush
<1>3. InFlush => job.data = want[job.block] /\ job.block \in Blocks
  BY <1>1, <1>2 DEF JobInv, InFlush
<1>4. cardform => InFlush
  BY <1>2 DEF JobInv
<1>5. ASSUME NEW b \in Blocks \ exposed
      PROVE  /\ image'[b] \in {home[b], want[b]} \/ Sealed(b)' \/ (InFlush /\ ~job.guarded /\ b = job.block)
             /\ cardform => (InFlush /\ b = job.block) \/ (image'[b] = home[b] /\ home[b] = want[b])
  <2>0. /\ image[b] \in {home[b], want[b]} \/ Sealed(b) \/ (InFlush /\ ~job.guarded /\ b = job.block)
        /\ cardform => (InFlush /\ b = job.block) \/ (image[b] = home[b] /\ home[b] = want[b])
    BY <1>5 DEF DiskInv
  <2>1. CASE Loop \in {"clear", "mark", "copy", "seal"}
    <3>1. image'[b] = image[b]
      BY <2>1, Untouched
    <3>2. Loop' # "unmark" /\ InFlush /\ job.guarded
      BY <1>1, <1>2, <2>1 DEF Following, LoopsOf
    <3>3. ASSUME Sealed(b)
          PROVE  Sealed(b)'
      <4>1. Loop = "seal"
        BY <2>1, <3>3 DEF Sealed, MarkInv, Unmarked
      <4>2. Mark(0)' = Mark(0) /\ Mark(1)' \in {Mark(1), job.block}
        BY <4>1, WriteMarks
      <4> QED BY <1>0, <1>3, <3>2, <3>3, <4>2 DEF Sealed
    <3> QED BY <2>0, <3>1, <3>2, <3>3
  <2>2. CASE Loop \in {"erase", "uncached", "cached", "repeat"} /\ b # job.block
    <3>1. image'[b] = image[b]
      BY <2>2, Untouched
    <3>2. ~Sealed(b)
      <4>1. CASE job.kind = "mount"
        <5>1. Loop \in {"erase", "repeat"}
          BY <1>1, <2>2, <4>1 DEF LoopsOf
        <5> QED BY <2>2, <4>1, <5>1 DEF Sealed, MarkInv
      <4>2. CASE job.kind # "mount" /\ job.guarded
        <5>1. Loop \in {"erase", "uncached", "cached"}
          BY <1>1, <2>2, <4>2 DEF LoopsOf
        <5> QED BY <1>2, <2>2, <4>2, <5>1 DEF Sealed, MarkInv
      <4>3. CASE job.kind # "mount" /\ ~job.guarded
        <5>1. Unmarked
          BY <1>1, <4>3 DEF MarkInv, JobInv
        <5> QED BY <5>1 DEF Sealed, Unmarked
      <4> QED BY <1>1, <4>1, <4>2, <4>3
    <3> QED BY <2>0, <2>2, <3>1, <3>2
  <2>3. CASE Loop \in {"erase", "uncached", "cached", "repeat"} /\ b = job.block
    <3>1. Mark(0)' = Mark(0) /\ Mark(1)' = Mark(1)
      BY <2>3, Untouched
    <3>2. CASE Loop' \in {"unmark", "done"}
      <4>1. CASE InFlush
        <5>1. image'[job.block] = job.data
          BY <1>1, <1>2, <3>2, <4>1, WriteLoopInv DEF LoopInv
        <5> QED BY <1>3, <2>3, <4>1, <5>1
      <4>2. CASE ~InFlush
        <5>1. Loop = "repeat" /\ Loop' = "unmark" /\ job.kind = "mount"
          BY <1>1, <1>2, <2>3, <3>2, <4>2 DEF Following, LoopsOf
        <5>2. image'[job.block] = job.data
          BY <5>1, WriteLoopInv
        <5>3. job.data = want[job.block]
          BY <1>0, <5>1 DEF LoopInv, MarkInv
        <5> QED BY <1>4, <2>3, <4>2, <5>2, <5>3
      <4> QED BY <4>1, <4>2
    <3>3. CASE Loop' \notin {"unmark", "done"}
      <4>1. CASE job.kind = "mount"
        <5>1. Loop \in {"erase", "repeat"}
          BY <1>1, <2>3, <4>1 DEF LoopsOf
        <5>2. Mark(0) = job.block /\ Mark(1) # Erased
          BY <4>1, <5>1 DEF MarkInv
        <5> QED BY <1>2, <1>4, <2>3, <3>1, <3>3, <4>1, <5>2 DEF Sealed
      <4>2. CASE job.kind # "mount" /\ job.guarded
        <5>1. Loop \in {"erase", "uncached", "cached"}
          BY <1>1, <2>3, <4>2 DEF LoopsOf
        <5>2. Mark(0) = job.block /\ Mark(1) = job.block
          BY <1>2, <4>2, <5>1 DEF MarkInv
        <5> QED BY <1>0, <1>2, <1>3, <2>3, <3>1, <3>3, <4>2, <5>2 DEF Sealed
      <4> QED BY <1>2, <2>3, <4>1, <4>2
    <3> QED BY <3>2, <3>3
  <2>4. CASE Loop = "unmark"
    <3>1. image'[b] = image[b]
      BY <2>4, Untouched
    <3>2. ~Sealed(b) /\ (InFlush => job.guarded)
      BY <1>1, <1>2, <2>4 DEF Sealed, LoopsOf
    <3> QED BY <2>0, <3>1, <3>2
  <2>5. Loop \in LoopNames
    BY <1>1 DEF LoopsOf, LoopNames
  <2> QED BY <2>1, <2>2, <2>3, <2>4, <2>5 DEF LoopNames
<1> QED BY <1>0, <1>1, <1>2, <1>5 DEF DiskInv

LEMMA WriteCacheInv ==
  ASSUME VmcAssumption, TypeInv, JobInv, MarkInv, AckInv, CacheInv, McWritePage
  PROVE  AckInv' /\ CacheInv'
<1>0. UNCHANGED <<mccache, home, want, exposed, acked, current, cardform>>
  BY DEF McWritePage, observed
<1>1. /\ job'.kind = job.kind /\ job'.block = job.block
  BY Advance
<1>2. InFlush' = InFlush
  BY <1>1 DEF InFlush
<1>3. cardform => InFlush
  BY Advance DEF JobInv, InFlush
<1>4. AckInv'
  BY <1>0 DEF AckInv
<1>5. ASSUME cardform, NEW c \in Clusters, c[1] # job.block
      PROVE  image'[c[1]] = image[c[1]]
  <2>1. c[1] \in Blocks
    BY DEF Clusters
  <2> QED BY <1>5, <2>1, Untouched
<1>6. CacheInv'
  BY <1>0, <1>1, <1>2, <1>3, <1>5 DEF CacheInv, Clean
<1> QED BY <1>4, <1>6
-----------------------------------------------------------------------------
(* The cache.                                                              *)

(* The cache once its entry of place k, or a new one, is e at the front.   *)
Added(s, e, k) ==
    /\ s \in Seq(Entries) /\ Len(s) = (IF k = Len(mccache) + 1 THEN k ELSE Len(mccache))
    /\ Len(s) <= MAX_CACHEENTRY /\ k \in 1 .. Len(s) /\ s[1] = e
    /\ \A i \in 2 .. Len(s) : s[i] = IF i <= k THEN mccache[i - 1] ELSE mccache[i]

LEMMA AddIs ==
  ASSUME VmcAssumption, TypeInv, NEW e \in Entries, NEW k, k \in DOMAIN mccache \/ k = LastPlace
  PROVE  Added(mcman_addcacheentry(e, k), e, k)
<1> DEFINE new == mcman_addcacheentry(e, k)
<1>1. mccache \in Seq(Entries) /\ Len(mccache) \in Nat /\ Len(mccache) <= MAX_CACHEENTRY
      /\ MAX_CACHEENTRY \in Nat /\ MAX_CACHEENTRY > 0
  BY DEF TypeInv, VmcAssumption
<1>2. k \in 1 .. Len(mccache) + 1 /\ (k = Len(mccache) + 1 => Len(mccache) < MAX_CACHEENTRY)
  BY <1>1 DEF LastPlace
<1> DEFINE n == IF k = Len(mccache) + 1 THEN k ELSE Len(mccache)
<1>3. n \in Nat /\ n <= MAX_CACHEENTRY /\ k \in 1 .. n
  BY <1>1, <1>2
<1>4. DOMAIN mccache \cup {k} = 1 .. n
  BY <1>1, <1>2
<1>5. new = [i \in 1 .. n |-> IF i = 1 THEN e ELSE IF i <= k THEN mccache[i - 1] ELSE mccache[i]]
  BY <1>4 DEF mcman_addcacheentry
<1>6. \A i \in 1 .. n : (IF i = 1 THEN e ELSE IF i <= k THEN mccache[i - 1] ELSE mccache[i]) \in Entries
  <2>1. \A i \in 1 .. Len(mccache) : mccache[i] \in Entries
    BY <1>1
  <2> TAKE i \in 1 .. n
  <2>2. CASE i # 1 /\ i <= k
    <3>1. i - 1 \in 1 .. Len(mccache)
      BY <1>1, <1>2, <1>3, <2>2
    <3> QED BY <2>1, <2>2, <3>1
  <2>3. CASE i # 1 /\ ~(i <= k)
    <3>1. i \in 1 .. Len(mccache)
      BY <1>1, <1>2, <1>3, <2>3
    <3> QED BY <2>1, <2>3, <3>1
  <2> QED BY <2>2, <2>3
<1> HIDE DEF new, n
<1>7. new \in Seq(Entries) /\ Len(new) = n
  BY <1>3, <1>5, <1>6
<1>8. new[1] = e /\ \A i \in 2 .. n : new[i] = IF i <= k THEN mccache[i - 1] ELSE mccache[i]
  <2>1. 1 \in 1 .. n /\ \A i \in 2 .. n : i \in 1 .. n /\ i # 1
    BY <1>3
  <2> QED BY <1>5, <2>1
<1> QED BY <1>3, <1>7, <1>8 DEF Added, new, n

LEMMA UsedIs ==
  ASSUME NEW e \in Entries, NEW call \in AllCalls
  PROVE  /\ Used(e, call) \in Entries /\ Used(e, call).cluster = e.cluster
         /\ Used(e, call).val = (IF call.change THEN e.val + 1 ELSE e.val)
         /\ Used(e, call).wr <=> e.wr \/ call.change
<1> DEFINE r == e.rd \/ call.data
           w == e.wr \/ call.change
           v == IF call.change THEN e.val + 1 ELSE e.val
<1>1. r \in BOOLEAN /\ w \in BOOLEAN
  BY Zenon
<1>2. v \in Int
  BY DEF Entries
<1>3. Used(e, call) = [e EXCEPT !.rd = r, !.wr = w, !.val = v]
  BY Zenon DEF Used
<1> HIDE DEF r, w, v
<1>4. /\ Used(e, call) \in Entries /\ Used(e, call).cluster = e.cluster
      /\ Used(e, call).val = v /\ Used(e, call).wr = w
  BY <1>1, <1>2, <1>3 DEF Entries
<1>5. Used(e, call).wr <=> e.wr \/ call.change
  BY <1>4, Zenon DEF w
<1> QED BY <1>4, <1>5 DEF v

LEMMA FreshIs ==
  ASSUME TypeInv, NEW c \in Clusters
  PROVE  /\ Fresh(c) \in Entries /\ Fresh(c).cluster = c /\ Fresh(c).val = image[c[1]][c[2]] /\ Fresh(c).wr = FALSE
<1>1. c[1] \in AllBlocks /\ c[2] \in Pages
  BY DEF Clusters, AllBlocks
<1>2. image[c[1]] \in [Pages -> Int]
  BY <1>1 DEF TypeInv, Data
<1> QED BY <1>1, <1>2 DEF Fresh, Entries

LEMMA PositionIs ==
  ASSUME TypeInv, NEW c, Cached(c)
  PROVE  PositionOf(c) \in DOMAIN mccache /\ mccache[PositionOf(c)].cluster = c
BY DEF Cached, PositionOf

(* What McReadCluster answers with is what was written.                    *)
LEMMA LatestIs ==
  ASSUME TypeInv, CacheInv, cardform, ~InFlush, NEW c \in Clusters
  PROVE  Latest(c) = current[c]
<1>1. CASE Cached(c)
  BY <1>1, PositionIs DEF Latest, CacheInv
<1>2. CASE ~Cached(c)
  <2>1. Clean(c)
    BY <1>2 DEF Cached, Clean
  <2> QED BY <1>2, <2>1 DEF Latest, CacheInv
<1> QED BY <1>1, <1>2

(* A cluster that is read, and perhaps changed, comes to the front; what   *)
(* is dropped for it is clean.                                             *)
LEMMA ReadCache ==
  ASSUME VmcAssumption, TypeInv, CacheInv, cardform, ~InFlush, NEW call \in AllCalls, McReadCluster(call),
         Cached(call.cluster) \/ Len(mccache) # MAX_CACHEENTRY \/ ~mccache[Len(mccache)].wr,
         UNCHANGED <<image, cardform>>, ~InFlush'
  PROVE  /\ mccache' \in Seq(Entries) /\ Len(mccache') <= MAX_CACHEENTRY
         /\ current' \in [Clusters -> Int] /\ \A c \in Clusters : current'[c] >= current[c]
         /\ CacheInv'
<1> DEFINE c == call.cluster
           k == IF Cached(c) THEN PositionOf(c) ELSE LastPlace
           old == IF Cached(c) THEN mccache[k] ELSE Fresh(c)
           e == Used(old, call)
<1>0. c \in Clusters /\ mccache \in Seq(Entries) /\ current \in [Clusters -> Int] /\ call.change \in BOOLEAN
  BY DEF AllCalls, TypeInv
<1>1. old \in Entries /\ old.cluster = c /\ old.val = current[c] /\ (k \in DOMAIN mccache \/ k = LastPlace)
  <2>1. CASE Cached(c)
    BY <1>0, <2>1, PositionIs DEF CacheInv
  <2>2. CASE ~Cached(c)
    <3>1. Clean(c)
      BY <2>2 DEF Cached, Clean
    <3>2. image[c[1]][c[2]] = current[c]
      BY <1>0, <3>1 DEF CacheInv
    <3> QED BY <1>0, <2>2, <3>2, FreshIs
  <2> QED BY <2>1, <2>2
<1>2. current' = IF call.change THEN [current EXCEPT ![c] = @ + 1] ELSE current
  BY DEF McReadCluster
<1>3. /\ current' \in [Clusters -> Int] /\ \A d \in Clusters : d # c => current'[d] = current[d]
      /\ current'[c] = (IF call.change THEN current[c] + 1 ELSE current[c])
      /\ \A d \in Clusters : current'[d] >= current[d]
  <2>1. current[c] \in Int
    BY <1>0
  <2> QED BY <1>0, <1>2, <2>1
<1>4. e \in Entries /\ e.cluster = c /\ e.val = current'[c] /\ (e.wr <=> old.wr \/ call.change)
  BY <1>1, <1>3, UsedIs
<1>5. mccache' = mcman_addcacheentry(e, k)
  BY DEF McReadCluster
<1>6. \A j \in DOMAIN mccache : j # k => mccache[j].cluster # c
  <2>1. CASE Cached(c)
    BY <1>0, <2>1, PositionIs DEF CacheInv
  <2>2. CASE ~Cached(c)
    BY <2>2 DEF Cached
  <2> QED BY <2>1, <2>2
<1>7. \A j \in DOMAIN mccache : j = k /\ ~Cached(c) => ~mccache[j].wr /\ j = Len(mccache)
  BY <1>0 DEF LastPlace
<1>8. ~Cached(c) => \A d \in Clusters : d = c => Clean(d)
  BY DEF Cached, Clean
<1>9. Cached(c) => k \in DOMAIN mccache /\ mccache[k].cluster = c /\ old = mccache[k]
  BY <1>0, PositionIs
<1>10. ~Cached(c) => ~old.wr
  BY <1>0, FreshIs
<1> HIDE DEF k, old, e
<1> DEFINE n == Len(mccache')
<1>11. /\ mccache' \in Seq(Entries) /\ n = (IF k = Len(mccache) + 1 THEN k ELSE Len(mccache))
       /\ n <= MAX_CACHEENTRY /\ k \in 1 .. n /\ mccache'[1] = e
       /\ \A i \in 2 .. n : mccache'[i] = IF i <= k THEN mccache[i - 1] ELSE mccache[i]
  <2>1. Added(mcman_addcacheentry(e, k), e, k)
    BY ONLY VmcAssumption, TypeInv, <1>1, <1>4, AddIs
  <2> QED BY ONLY <1>5, <2>1 DEF Added, n
<1> DEFINE len == Len(mccache)
<1>12. /\ DOMAIN mccache = 1 .. len /\ DOMAIN mccache' = 1 .. n
       /\ len \in Nat /\ n \in Nat /\ k \in 1 .. n /\ n = (IF k = len + 1 THEN k ELSE len)
       /\ \A i \in 2 .. n : mccache'[i] = IF i <= k THEN mccache[i - 1] ELSE mccache[i]
  <2>1. Len(mccache) \in Nat /\ DOMAIN mccache = 1 .. Len(mccache)
    BY ONLY <1>0
  <2>2. Len(mccache') \in Nat /\ DOMAIN mccache' = 1 .. Len(mccache')
    BY ONLY <1>11
  <2> QED BY ONLY <1>11, <2>1, <2>2
<1> HIDE DEF n, len
<1> DEFINE Was(i) == IF i <= k THEN i - 1 ELSE i
           Is(j) == IF j < k THEN j + 1 ELSE j
<1>12a. /\ \A i \in 2 .. n : Was(i) \in 1 .. len /\ Was(i) # k /\ Is(Was(i)) = i
        /\ \A j \in 1 .. len : j # k => Is(j) \in 2 .. n /\ Was(Is(j)) = j
  <2>1. len \in Nat /\ n \in Nat /\ k \in 1 .. n /\ n = (IF k = len + 1 THEN k ELSE len)
    BY <1>12
  <2>2. k \in Int /\ 1 <= k /\ k <= n /\ n <= k + len
    BY <2>1
  <2>3. \A i \in 2 .. n : Was(i) \in 1 .. len /\ Was(i) # k /\ Is(Was(i)) = i
    <3> SUFFICES ASSUME NEW i \in Int, 2 <= i, i <= n
                 PROVE  Was(i) \in Int /\ 1 <= Was(i) /\ Was(i) <= len /\ Was(i) # k /\ Is(Was(i)) = i
      BY <2>1
    <3>1. CASE i <= k
      BY <2>1, <2>2, <3>1
    <3>2. CASE ~(i <= k)
      BY <2>1, <2>2, <3>2
    <3> QED BY <3>1, <3>2
  <2>4. \A j \in 1 .. len : j # k => Is(j) \in 2 .. n /\ Was(Is(j)) = j
    <3> SUFFICES ASSUME NEW j \in Int, 1 <= j, j <= len, j # k
                 PROVE  Is(j) \in Int /\ 2 <= Is(j) /\ Is(j) <= n /\ Was(Is(j)) = j
      BY <2>1
    <3>1. CASE j < k
      BY <2>1, <2>2, <3>1
    <3>2. CASE ~(j < k)
      BY <2>1, <2>2, <3>2
    <3> QED BY <3>1, <3>2
  <2> QED BY <2>3, <2>4
<1>12b. \A i \in 2 .. n : mccache'[i] = mccache[Was(i)]
  BY <1>12
<1> HIDE DEF Was, Is
<1>13. \A i \in 2 .. n : Was(i) \in DOMAIN mccache /\ Was(i) # k /\ mccache'[i] = mccache[Was(i)] /\ Is(Was(i)) = i
  BY <1>12, <1>12a, <1>12b
<1>14. \A j \in DOMAIN mccache : j # k => Is(j) \in 2 .. n /\ mccache'[Is(j)] = mccache[j]
  BY <1>12, <1>12a, <1>12b
<1>15. \A i \in DOMAIN mccache' : i = 1 \/ i \in 2 .. n
  BY <1>12
<1>16. \A i, j \in DOMAIN mccache' : mccache'[i].cluster = mccache'[j].cluster => i = j
  <2>1. \A i, j \in DOMAIN mccache : mccache[i].cluster = mccache[j].cluster => i = j
    BY DEF CacheInv
  <2>2. \A i \in 2 .. n : mccache'[i].cluster # c
    BY <1>6, <1>13
  <2>3. \A i, j \in 2 .. n : mccache'[i].cluster = mccache'[j].cluster => i = j
    <3> TAKE i, j \in 2 .. n
    <3> HAVE mccache'[i].cluster = mccache'[j].cluster
    <3>1. Was(i) = Was(j)
      BY <1>13, <2>1
    <3> QED BY <1>13, <3>1
  <2> QED BY <1>4, <1>11, <1>15, <2>2, <2>3
<1>17. \A i \in DOMAIN mccache' : mccache'[i].val = current'[mccache'[i].cluster]
  <2>1. \A j \in DOMAIN mccache : mccache[j].val = current[mccache[j].cluster] /\ mccache[j].cluster \in Clusters
    <3>1. \A j \in DOMAIN mccache : mccache[j] \in Entries
      BY <1>0
    <3> QED BY <3>1 DEF CacheInv, Entries
  <2>2. \A i \in 2 .. n : mccache'[i].val = current'[mccache'[i].cluster]
    BY <1>3, <1>6, <1>13, <2>1
  <2> QED BY <1>4, <1>11, <1>15, <2>2
<1>18. ASSUME NEW d \in Clusters, Clean(d)'
       PROVE  image[d[1]][d[2]] = current'[d]
  <2>0. \A i \in DOMAIN mccache' : mccache'[i].cluster = d => ~mccache'[i].wr
    BY <1>18 DEF Clean
  <2>1. CASE d = c
    <3>1. ~e.wr
      BY <1>4, <1>11, <1>12, <2>0, <2>1
    <3>2. ~old.wr /\ ~call.change
      BY <1>4, <3>1
    <3>3. Clean(d)
      <4>1. CASE Cached(c)
        BY <1>6, <1>9, <2>1, <3>2, <4>1 DEF Clean
      <4> QED BY <1>8, <2>1, <4>1
    <3> QED BY <1>3, <2>1, <3>2, <3>3 DEF CacheInv
  <2>2. CASE d # c
    <3>1. ASSUME NEW j \in DOMAIN mccache, mccache[j].cluster = d
          PROVE  ~mccache[j].wr
      <4>1. CASE j = k
        BY <1>7, <1>9, <2>2, <3>1, <4>1
      <4>2. CASE j # k
        <5>1. Is(j) \in DOMAIN mccache' /\ mccache'[Is(j)] = mccache[j]
          BY <1>12, <1>14, <4>2
        <5> QED BY <2>0, <3>1, <5>1
      <4> QED BY <4>1, <4>2
    <3>2. Clean(d)
      BY <3>1 DEF Clean
    <3> QED BY <1>3, <2>2, <3>2 DEF CacheInv
  <2> QED BY <2>1, <2>2
<1>19. CacheInv'
  BY <1>16, <1>17, <1>18 DEF CacheInv
<1> QED BY <1>3, <1>11, <1>19 DEF n
-----------------------------------------------------------------------------
(* The other steps.                                                        *)

LEMMA IdleIs ==
  ASSUME VmcAssumption
  PROVE  /\ Idle \in Jobs /\ Idle.kind = "none" /\ Idle.todo = <<>> /\ Idle.page = 0 /\ Idle.guarded = FALSE
         /\ Idle.todo = Left(Idle.kind, Idle.guarded, "done") /\ "done" \in LoopsOf(Idle.kind, Idle.guarded)
<1>1. 0 \in Pages /\ Blank \in Data /\ <<>> \in Seq(LoopNames)
  BY DEF VmcAssumption, Pages, Blank, Data, Erased
<1>2. Idle.kind = "none" /\ Idle.todo = <<>> /\ Idle.page = 0 /\ Idle.guarded = FALSE
  BY DEF Idle
<1>3. Idle \in Jobs
  BY <1>1 DEF Idle, Jobs, Erased
<1> QED BY <1>2, <1>3 DEF Left, LoopsOf

(* When no job is under way, the marks are all that matters.               *)
LEMMA AtRest ==
  ASSUME VmcAssumption, TypeInv, MarkInv, image' = image, job' = Idle,
         Unmarked \/ (want' = want /\ ~cardform'), ~cardform' => mccache' = <<>>
  PROVE  /\ job' \in Jobs /\ JobInv' /\ MarkInv' /\ LoopInv'
         /\ InFlush' = FALSE /\ Loop' = "done" /\ (\A b \in Blocks : Sealed(b)' <=> Mark(0) = b /\ Mark(1) # Erased)
<1>1. /\ job' \in Jobs /\ job'.kind = "none" /\ job'.todo = <<>> /\ job'.page = 0 /\ job'.guarded = FALSE
      /\ job'.todo = Left(job'.kind, job'.guarded, "done") /\ "done" \in LoopsOf(job'.kind, job'.guarded)
  BY IdleIs
<1>2. Loop' = "done" /\ InFlush' = FALSE
  BY <1>1 DEF Loop, InFlush
<1>3. Mark(0)' = Mark(0) /\ Mark(1)' = Mark(1)
  BY DEF Mark
<1>4. JobInv'
  BY <1>1, <1>2 DEF JobInv, InFlush
<1>5. LoopInv'
  BY <1>1, <1>2 DEF LoopInv, InFlush
<1>6. MarkInv'
  <2>1. Mark(0)' # Erased /\ Mark(1)' # Erased => image'[backup_block1] = want'[Mark(0)']
    BY <1>3 DEF MarkInv, Unmarked
  <2>2. cardform' => Unmarked'
    BY <1>3 DEF Unmarked
  <2>3. Mark(0)' # Erased => Mark(0)' \in Blocks
    BY <1>3 DEF MarkInv
  <2> QED BY <1>1, <1>2, <2>1, <2>2, <2>3 DEF MarkInv
<1> QED BY <1>1, <1>2, <1>3, <1>4, <1>5, <1>6 DEF Sealed

LEMMA CutStep ==
  ASSUME VmcAssumption, VmcInv, Cut
  PROVE  VmcInv'
<1>1. image' = image /\ home' = home /\ want' = want /\ acked' = acked /\ current' = current
  BY DEF Cut
<1>2. job' = Idle /\ cardform' = FALSE /\ mccache' = <<>>
  BY DEF Cut
<1>3. exposed' = IF InFlush /\ ~job.guarded THEN exposed \cup {job.block} ELSE exposed
  BY DEF Cut, InFlush
<1>4. /\ job' \in Jobs /\ JobInv' /\ MarkInv' /\ LoopInv'
      /\ InFlush' = FALSE /\ Loop' = "done" /\ (\A b \in Blocks : Sealed(b)' <=> Mark(0) = b /\ Mark(1) # Erased)
  BY <1>1, <1>2, AtRest DEF VmcInv
<1>5. exposed' \subseteq Blocks /\ exposed \subseteq exposed'
  BY <1>3 DEF VmcInv, TypeInv, JobInv, InFlush
<1>6. TypeInv'
  <2>1. Len(mccache') <= MAX_CACHEENTRY /\ mccache' \in Seq(Entries)
    BY <1>2 DEF VmcAssumption
  <2> QED BY <1>1, <1>2, <1>4, <1>5, <2>1 DEF VmcInv, TypeInv
<1>7. DiskInv'
  <2>1. ASSUME NEW b \in Blocks \ exposed'
        PROVE  image[b] \in {home[b], want[b]} \/ Sealed(b)'
    <3>1. image[b] \in {home[b], want[b]} \/ Sealed(b) \/ (InFlush /\ ~job.guarded /\ b = job.block)
      BY <1>5, <2>1 DEF VmcInv, DiskInv
    <3>2. ~(InFlush /\ ~job.guarded /\ b = job.block)
      BY <1>3, <2>1
    <3> QED BY <1>4, <3>1, <3>2 DEF Sealed
  <2> QED BY <1>1, <1>2, <2>1 DEF DiskInv
<1>8. AckInv' /\ CacheInv'
  BY <1>1, <1>2, <1>5 DEF VmcInv, AckInv, CacheInv
<1> QED BY <1>4, <1>6, <1>7, <1>8 DEF VmcInv

LEMMA EndMountStep ==
  ASSUME VmcAssumption, VmcInv, EndMount
  PROVE  VmcInv'
<1>1. /\ job.kind = "mount" /\ Loop = "done" /\ image' = image /\ mccache' = mccache /\ exposed' = exposed
      /\ acked' = acked /\ cardform' = TRUE /\ job' = Idle
      /\ home' = [b \in Blocks |-> IF image[b] = want[b] THEN want[b] ELSE home[b]] /\ want' = home'
      /\ current' = [c \in Clusters |-> image[c[1]][c[2]]]
  BY DEF EndMount
<1>2. Unmarked /\ mccache = <<>> /\ ~cardform /\ ~InFlush
  BY <1>1 DEF VmcInv, JobInv, MarkInv, InFlush
<1>3. /\ job' \in Jobs /\ JobInv' /\ MarkInv' /\ LoopInv'
      /\ InFlush' = FALSE /\ Loop' = "done" /\ (\A b \in Blocks : Sealed(b)' <=> Mark(0) = b /\ Mark(1) # Erased)
  BY <1>1, <1>2, AtRest DEF VmcInv
<1>4. home' \in [Blocks -> Data] /\ current' \in [Clusters -> Int]
  <2>1. \A b \in Blocks : want[b] \in Data /\ home[b] \in Data
    BY DEF VmcInv, TypeInv
  <2>2. \A c \in Clusters : image[c[1]][c[2]] \in Int
    BY DEF VmcInv, TypeInv, Clusters, AllBlocks, Data
  <2> QED BY <1>1, <2>1, <2>2
<1>5. TypeInv'
  BY <1>1, <1>3, <1>4 DEF VmcInv, TypeInv
<1>6. \A b \in Blocks \ exposed : image[b] \in {home[b], want[b]} /\ home'[b] = image[b]
  <2>1. \A b \in Blocks : ~Sealed(b)
    BY <1>2 DEF Sealed, Unmarked
  <2>2. \A b \in Blocks \ exposed : image[b] \in {home[b], want[b]}
    BY <1>2, <2>1 DEF VmcInv, DiskInv
  <2> QED BY <1>1, <2>2
<1>7. DiskInv'
  BY <1>1, <1>6 DEF DiskInv
<1>8. AckInv'
  <2>1. ASSUME NEW c \in Clusters, c[1] \notin exposed
        PROVE  home'[c[1]][c[2]] >= acked[c] /\ current'[c] = home'[c[1]][c[2]]
    <3>1. c[1] \in Blocks \ exposed
      BY <2>1 DEF Clusters
    <3>2. home[c[1]][c[2]] >= acked[c] /\ want[c[1]][c[2]] >= acked[c]
      BY <2>1 DEF VmcInv, AckInv
    <3>3. home'[c[1]] = image[c[1]] /\ image[c[1]] \in {home[c[1]], want[c[1]]}
      BY <1>6, <3>1
    <3> QED BY <1>1, <3>2, <3>3
  <2> QED BY <1>1, <2>1 DEF AckInv
<1>9. CacheInv'
  BY <1>1, <1>2, <1>3 DEF CacheInv
<1> QED BY <1>3, <1>5, <1>7, <1>8, <1>9 DEF VmcInv

(* The mount of a card whose marks are not those of a cut of a recovery.   *)
LEMMA MountStep ==
  ASSUME VmcAssumption, VmcInv, Mount
  PROVE  VmcInv'
<1> DEFINE v1 == Mark(0)
           v2 == Mark(1)
<1>1. /\ image' = image /\ cardform = FALSE /\ cardform' = FALSE /\ mccache' = <<>> /\ job = Idle
      /\ home' = home /\ want' = want /\ exposed' = exposed /\ acked' = acked /\ current' = current
      /\ v2 # Erased => v1 \in DOMAIN image
  BY DEF Mount, observed, VmcInv, TypeInv
<1>2. v1 \in Int /\ v2 \in Int /\ (v1 # Erased => v1 \in Blocks) /\ (v2 # Erased => v1 # Erased)
  <2>1. 0 \in Pages /\ 1 \in Pages /\ backup_block2 \in AllBlocks
    BY DEF VmcAssumption, Pages, AllBlocks
  <2>2. v1 \in Int /\ v2 \in Int
    BY <2>1 DEF VmcInv, TypeInv, Mark, Data
  <2>3. Erased \notin DOMAIN image
    BY DEF VmcInv, TypeInv, AllBlocks, VmcAssumption, Erased
  <2> QED BY <1>1, <2>2, <2>3 DEF VmcInv, MarkInv
<1>3. Recovery(v1, v2) = IF v1 = Erased THEN <<>> ELSE IF v2 = Erased THEN <<"unmark">> ELSE <<"erase", "repeat", "unmark">>
  BY <1>2 DEF Recovery
<1>4. /\ job'.kind = "mount" /\ job'.block = v1 /\ job'.data = image[backup_block1] /\ job'.todo = Recovery(v1, v2)
      /\ job'.guarded = FALSE /\ job'.call = NoCall /\ job'.cached = {} /\ job'.page = 0
      /\ job' = [kind |-> "mount", block |-> v1, guarded |-> FALSE, call |-> NoCall, data |-> image[backup_block1],
                 cached |-> {}, todo |-> Recovery(v1, v2), page |-> 0]
  BY DEF Mount, Idle
<1> DEFINE loop == IF v1 = Erased THEN "done" ELSE IF v2 = Erased THEN "unmark" ELSE "erase"
<1>5. /\ Recovery(v1, v2) = Left("mount", FALSE, loop) /\ loop \in LoopsOf("mount", FALSE)
      /\ Recovery(v1, v2) \in Seq(LoopNames)
  <2>1. <<>> \in Seq(LoopNames) /\ <<"unmark">> \in Seq(LoopNames) /\ <<"erase", "repeat", "unmark">> \in Seq(LoopNames)
    BY DEF LoopNames
  <2> QED BY <1>3, <2>1 DEF Left, LoopsOf
<1>6. Loop' = loop
  <2>1. Loop' = IF job'.todo = <<>> THEN "done" ELSE Head(job'.todo)
    BY DEF Loop
  <2> QED BY <1>4, <1>5, <2>1, Leads
<1>7. InFlush' = FALSE /\ InFlush = FALSE /\ Loop = "done" /\ job.kind = "none"
  BY <1>1, <1>4, IdleIs DEF InFlush, Loop
<1>8. Mark(0)' = v1 /\ Mark(1)' = v2
  BY <1>1 DEF Mark
<1> HIDE DEF v1, v2
<1>9. TypeInv'
  <2>1. image[backup_block1] \in Data /\ 0 \in Pages
    BY DEF VmcInv, TypeInv, AllBlocks, VmcAssumption, Pages
  <2>2. job' \in Jobs
    BY <1>2, <1>4, <1>5, <2>1 DEF Jobs
  <2>3. Len(mccache') <= MAX_CACHEENTRY /\ mccache' \in Seq(Entries)
    BY <1>1 DEF VmcAssumption
  <2> QED BY <1>1, <2>2, <2>3 DEF VmcInv, TypeInv
<1>10. JobInv'
  BY <1>1, <1>4, <1>5, <1>6, <1>7 DEF JobInv
<1>11. MarkInv'
  <2>1. v1 # Erased /\ v2 # Erased => image[backup_block1] = want[v1]
    BY DEF VmcInv, MarkInv, v1, v2
  <2> QED BY <1>1, <1>2, <1>4, <1>6, <1>7, <1>8, <2>1 DEF MarkInv, Unmarked
<1>12. LoopInv'
  BY <1>1, <1>4, <1>6, <1>7 DEF LoopInv
<1>13. DiskInv'
  <2>1. ASSUME NEW b \in Blocks, Sealed(b)
        PROVE  Sealed(b)'
    <3>1. v1 = b /\ v2 # Erased
      BY <2>1 DEF Sealed, v1, v2
    <3>2. Loop' = "erase"
      BY <1>2, <1>6, <3>1
    <3> QED BY <1>8, <3>1, <3>2 DEF Sealed
  <2> QED BY <1>1, <1>7, <2>1 DEF VmcInv, DiskInv
<1>14. AckInv' /\ CacheInv'
  BY <1>1 DEF VmcInv, AckInv, CacheInv
<1> QED BY <1>9, <1>10, <1>11, <1>12, <1>13, <1>14 DEF VmcInv

(* The clusters of a block that is flushed become clean.                   *)
LEMMA CleanBlockIs ==
  ASSUME mccache \in Seq(Entries), NEW b
  PROVE  /\ CleanBlock(b) \in Seq(Entries) /\ Len(CleanBlock(b)) = Len(mccache)
         /\ DOMAIN CleanBlock(b) = DOMAIN mccache
         /\ \A i \in DOMAIN mccache :
               /\ CleanBlock(b)[i].cluster = mccache[i].cluster /\ CleanBlock(b)[i].val = mccache[i].val
               /\ mccache[i].cluster[1] = b => ~CleanBlock(b)[i].wr
               /\ mccache[i].cluster[1] # b => CleanBlock(b)[i] = mccache[i]
<1> DEFINE n == Len(mccache)
           new(i) == IF mccache[i].cluster[1] = b THEN [mccache[i] EXCEPT !.wr = FALSE] ELSE mccache[i]
<1>1. n \in Nat /\ DOMAIN mccache = 1 .. n /\ \A i \in 1 .. n : mccache[i] \in Entries
  OBVIOUS
<1>2. \A i \in 1 .. n :
         /\ new(i) \in Entries /\ new(i).cluster = mccache[i].cluster /\ new(i).val = mccache[i].val
         /\ mccache[i].cluster[1] = b => new(i).wr = FALSE
         /\ mccache[i].cluster[1] # b => new(i) = mccache[i]
  <2> TAKE i \in 1 .. n
  <2>1. [mccache[i] EXCEPT !.wr = FALSE] \in Entries
    BY <1>1 DEF Entries
  <2>2. /\ [mccache[i] EXCEPT !.wr = FALSE].cluster = mccache[i].cluster
        /\ [mccache[i] EXCEPT !.wr = FALSE].val = mccache[i].val
        /\ [mccache[i] EXCEPT !.wr = FALSE].wr = FALSE
    BY <1>1 DEF Entries
  <2> QED BY <1>1, <2>1, <2>2
<1>3. CleanBlock(b) = [i \in 1 .. n |-> new(i)]
  BY <1>1 DEF CleanBlock
<1> HIDE DEF n, new
<1>4. CleanBlock(b) \in Seq(Entries) /\ Len(CleanBlock(b)) = n /\ DOMAIN CleanBlock(b) = 1 .. n
  BY <1>1, <1>2, <1>3
<1> QED BY <1>1, <1>2, <1>3, <1>4 DEF n

LEMMA EndFlushStep ==
  ASSUME VmcAssumption, VmcInv, EndFlush
  PROVE  VmcInv'
<1> DEFINE b == job.block
<1>1. /\ InFlush /\ Loop = "done" /\ mccache' = CleanBlock(b) /\ home' = [home EXCEPT ![b] = want[b]]
      /\ job' = [job EXCEPT !.kind = IF @ = "flush" THEN "flushed" ELSE "evicted"]
      /\ image' = image /\ cardform' = cardform /\ want' = want /\ exposed' = exposed /\ acked' = acked
      /\ current' = current
  BY DEF EndFlush, InFlush
<1>2. /\ cardform = TRUE /\ b \in Blocks /\ job.data = want[b] /\ image[b] = want[b] /\ Unmarked /\ job \in Jobs
      /\ job.todo = <<>>
  BY <1>1 DEF VmcInv, TypeInv, JobInv, LoopInv, MarkInv, InFlush, Left
<1>3. /\ job'.kind = (IF job.kind = "flush" THEN "flushed" ELSE "evicted") /\ job' \in Jobs
      /\ job'.block = b /\ job'.guarded = job.guarded /\ job'.call = job.call /\ job'.todo = <<>>
  BY <1>1, <1>2 DEF Jobs
<1>4. InFlush' = FALSE /\ Loop' = "done" /\ Loop' \in LoopsOf(job'.kind, job'.guarded)
      /\ job'.todo = Left(job'.kind, job'.guarded, Loop')
  BY <1>3 DEF InFlush, Loop, LoopsOf, Left
<1>5. /\ mccache' \in Seq(Entries) /\ Len(mccache') = Len(mccache) /\ DOMAIN mccache' = DOMAIN mccache
      /\ \A i \in DOMAIN mccache :
               /\ mccache'[i].cluster = mccache[i].cluster /\ mccache'[i].val = mccache[i].val
               /\ mccache[i].cluster[1] = b => ~mccache'[i].wr
               /\ mccache[i].cluster[1] # b => mccache'[i] = mccache[i]
  BY <1>1, CleanBlockIs DEF VmcInv, TypeInv
<1>6. /\ home' \in [Blocks -> Data] /\ home'[b] = want[b] /\ \A x \in Blocks : x # b => home'[x] = home[x]
  BY <1>1, <1>2 DEF VmcInv, TypeInv
<1>7. TypeInv'
  BY <1>1, <1>3, <1>5, <1>6 DEF VmcInv, TypeInv
<1>8. JobInv'
  <2>1. job'.kind = "evicted" =>
          /\ job.call \in AllCalls
          /\ Len(mccache) = MAX_CACHEENTRY /\ mccache[Len(mccache)].cluster[1] = b
    BY <1>1, <1>3 DEF VmcInv, JobInv, InFlush
  <2>2. Len(mccache) = MAX_CACHEENTRY => Len(mccache) \in DOMAIN mccache
    BY DEF VmcInv, TypeInv, VmcAssumption
  <2>3. job'.kind = "evicted" =>
          /\ job'.call \in AllCalls
          /\ Len(mccache') = MAX_CACHEENTRY /\ mccache'[Len(mccache')].cluster[1] = job'.block
          /\ ~mccache'[Len(mccache')].wr
    BY <1>3, <1>5, <2>1, <2>2
  <2> QED BY <1>1, <1>2, <1>3, <1>4, <2>3 DEF JobInv
<1>9. MarkInv'
  <2>1. Unmarked' /\ Mark(0)' = Mark(0) /\ Mark(1)' = Mark(1)
    BY <1>1, <1>2 DEF Unmarked, Mark
  <2> QED BY <1>3, <1>4, <2>1 DEF MarkInv, Unmarked
<1>10. LoopInv'
  BY <1>3, <1>4 DEF LoopInv
<1>11. DiskInv'
  BY <1>1, <1>2, <1>4, <1>6 DEF VmcInv, DiskInv
<1>12. AckInv'
  BY <1>1, <1>6 DEF VmcInv, AckInv, Clusters
<1>13. CacheInv'
  <2>1. \A i, j \in DOMAIN mccache' : mccache'[i].cluster = mccache'[j].cluster => i = j
    BY <1>2, <1>5 DEF VmcInv, CacheInv
  <2>2. \A i \in DOMAIN mccache' : mccache'[i].val = current'[mccache'[i].cluster]
    BY <1>1, <1>2, <1>5 DEF VmcInv, CacheInv
  <2>3. ASSUME NEW c \in Clusters, Clean(c)'
        PROVE  image[c[1]][c[2]] = current[c]
    <3>1. CASE c[1] = b
      <4>1. c[2] \in Pages /\ c = <<b, c[2]>>
        BY <3>1 DEF Clusters
      <4> QED BY <1>1, <1>2, <4>1 DEF VmcInv, CacheInv
    <3>2. CASE c[1] # b
      <4>1. Clean(c)
        BY <1>5, <2>3, <3>2 DEF Clean
      <4> QED BY <1>2, <3>2, <4>1 DEF VmcInv, CacheInv
    <3> QED BY <3>1, <3>2
  <2> QED BY <1>1, <1>4, <2>1, <2>2, <2>3 DEF CacheInv
<1> QED BY <1>7, <1>8, <1>9, <1>10, <1>11, <1>12, <1>13 DEF VmcInv

(* A flush that starts, of any block, from a call or from another flush.   *)
LEMMA StartStep ==
  ASSUME VmcAssumption, VmcInv, cardform, ~InFlush, NEW b \in Blocks, NEW kind \in {"flush", "evict"},
         NEW call \in AllCalls \cup {NoCall}, StartFlush(b, kind, call),
         kind = "evict" => call \in AllCalls /\ Len(mccache) = MAX_CACHEENTRY
                           /\ mccache[Len(mccache)].cluster[1] = b,
         UNCHANGED <<image, mccache, cardform, home, exposed, acked, current>>
  PROVE  VmcInv'
<1> DEFINE guarded == Guarded(b)
           data == NewContents(b)
           cached == {p \in Pages : Cached(<<b, p>>)}
           loop == IF guarded THEN "clear" ELSE "erase"
<1>1. /\ image' = image /\ mccache' = mccache /\ cardform' = cardform /\ home' = home /\ exposed' = exposed
      /\ acked' = acked /\ current' = current /\ cardform = TRUE
  BY DEF VmcInv, TypeInv
<1>2. /\ job'.kind = kind /\ job'.block = b /\ job'.guarded = guarded /\ job'.call = call /\ job'.data = data
      /\ job'.cached = cached /\ job'.todo = FlushLoops(b) /\ job'.page = 0
      /\ job' = [kind |-> kind, block |-> b, guarded |-> guarded, call |-> call, data |-> data,
                 cached |-> cached, todo |-> FlushLoops(b), page |-> 0]
      /\ want' = [want EXCEPT ![b] = data]
  BY DEF StartFlush
<1>3. guarded \in BOOLEAN /\ cached \subseteq Pages
  BY DEF Guarded
<1>4. data \in Data /\ \A p \in Pages : data[p] = current[<<b, p>>]
  <2>1. \A p \in Pages : <<b, p>> \in Clusters
    BY DEF Clusters
  <2>2. \A p \in Pages : Latest(<<b, p>>) = current[<<b, p>>] /\ current[<<b, p>>] \in Int
    BY <2>1, LatestIs DEF VmcInv, TypeInv
  <2>3. data = [p \in Pages |-> Latest(<<b, p>>)]
    BY DEF NewContents
  <2> HIDE DEF data
  <2> QED BY <2>2, <2>3 DEF Data
<1>5. FlushLoops(b) = Left(kind, guarded, loop) /\ loop \in LoopsOf(kind, guarded) /\ FlushLoops(b) \in Seq(LoopNames)
  <2>1. Backup \in Seq(LoopNames) /\ Program \in Seq(LoopNames)
    BY DEF Backup, Program, LoopNames
  <2>2. FlushLoops(b) = IF guarded THEN Backup ELSE Program
    BY DEF FlushLoops
  <2> HIDE DEF guarded
  <2>3. CASE guarded
    BY <2>1, <2>2, <2>3 DEF Backup, Left, LoopsOf, LoopNames
  <2>4. CASE ~guarded
    BY <1>3, <2>1, <2>2, <2>4 DEF Program, Left, LoopsOf
  <2> QED BY <2>3, <2>4
<1> HIDE DEF guarded, data, cached
<1>6. Loop' = loop
  <2>1. Loop' = IF job'.todo = <<>> THEN "done" ELSE Head(job'.todo)
    BY DEF Loop
  <2>2. (IF Left(kind, guarded, loop) = <<>> THEN "done" ELSE Head(Left(kind, guarded, loop))) = loop
    BY <1>3, <1>5, Leads
  <2> QED BY <1>2, <1>5, <2>1, <2>2
<1>7. InFlush' = TRUE /\ InFlush = FALSE /\ Unmarked
  BY <1>1, <1>2 DEF InFlush, VmcInv, MarkInv
<1>8. want' \in [Blocks -> Data] /\ want'[b] = data /\ \A x \in Blocks : x # b => want'[x] = want[x]
  BY <1>2, <1>4 DEF VmcInv, TypeInv
<1>9. TypeInv'
  <2>1. 0 \in Pages /\ b \in Int
    BY DEF VmcAssumption, Pages
  <2>2. job' \in Jobs
    BY <1>2, <1>3, <1>4, <1>5, <2>1 DEF Jobs
  <2> QED BY <1>1, <1>8, <2>2 DEF VmcInv, TypeInv
<1>10. JobInv'
  <2>1. Loop' \in LoopsOf(job'.kind, job'.guarded) /\ job'.todo = Left(job'.kind, job'.guarded, Loop')
    BY <1>2, <1>5, <1>6
  <2>2. job'.data = want'[job'.block]
    BY <1>2, <1>8
  <2>3. job'.kind = "evict" =>
          /\ job'.call \in AllCalls
          /\ Len(mccache') = MAX_CACHEENTRY /\ mccache'[Len(mccache')].cluster[1] = job'.block
    BY <1>1, <1>2
  <2> QED BY <1>1, <1>2, <2>1, <2>2, <2>3 DEF JobInv
<1>11. MarkInv'
  <2>1. Mark(0)' = Erased /\ Mark(1)' = Erased
    BY <1>1, <1>7 DEF Unmarked, Mark
  <2>2. Loop' \in {"clear", "erase"} /\ (Loop' = "erase" => ~job'.guarded) /\ job'.kind # "mount"
    BY <1>2, <1>3, <1>6
  <2> QED BY <2>1, <2>2 DEF MarkInv, Unmarked
<1>12. LoopInv'
  BY <1>2, <1>3, <1>6 DEF LoopInv
<1>13. DiskInv'
  <2>1. \A x \in Blocks \ exposed : image[x] = home[x] /\ home[x] = want[x]
    BY <1>1, <1>7 DEF VmcInv, DiskInv
  <2> QED BY <1>1, <1>2, <1>7, <1>8, <2>1 DEF DiskInv
<1>14. AckInv'
  <2>1. ASSUME NEW c \in Clusters, c[1] \notin exposed
        PROVE  want'[c[1]][c[2]] >= acked[c]
    <3>1. c[1] \in Blocks /\ c[2] \in Pages /\ c = <<c[1], c[2]>>
      BY DEF Clusters
    <3>2. want[c[1]][c[2]] >= acked[c] /\ current[c] >= acked[c]
      BY <1>1, <2>1 DEF VmcInv, AckInv
    <3>3. CASE c[1] = b
      BY <1>4, <1>8, <3>1, <3>2, <3>3
    <3>4. CASE c[1] # b
      BY <1>8, <3>1, <3>2, <3>4
    <3> QED BY <3>3, <3>4
  <2> QED BY <1>1, <2>1 DEF VmcInv, AckInv
<1>15. CacheInv'
  <2>1. \A p \in Pages : want'[job'.block][p] = current'[<<job'.block, p>>]
    BY <1>1, <1>2, <1>4, <1>8
  <2>2. \A c \in Clusters : Clean(c)' => image'[c[1]][c[2]] = current'[c]
    BY <1>1, <1>7 DEF VmcInv, CacheInv, Clean
  <2> QED BY <1>1, <2>1, <2>2 DEF VmcInv, CacheInv
<1> QED BY <1>9, <1>10, <1>11, <1>12, <1>13, <1>14, <1>15 DEF VmcInv

(* McFlushCache starts the flush of a block or, when nothing is dirty,     *)
(* what it covers is on the card.                                          *)
LEMMA FlushCacheStep ==
  ASSUME VmcAssumption, VmcInv, cardform, ~InFlush, McFlushCache,
         UNCHANGED <<image, mccache, cardform, home, exposed, current>>
  PROVE  VmcInv'
<1>1. CASE \E i \in Dirty : StartFlush(mccache[i].cluster[1], "flush", NoCall) /\ UNCHANGED acked
  <2>1. PICK i \in Dirty : StartFlush(mccache[i].cluster[1], "flush", NoCall) /\ UNCHANGED acked
    BY <1>1
  <2>2. mccache[i].cluster[1] \in Blocks
    <3>1. i \in DOMAIN mccache /\ mccache \in Seq(Entries)
      BY DEF Dirty, VmcInv, TypeInv
    <3>2. mccache[i] \in Entries
      BY <3>1
    <3> QED BY <3>2 DEF Entries, Clusters
  <2> QED BY <2>1, <2>2, StartStep
<1>2. CASE Dirty = {} /\ job' = Idle /\ acked' = [c \in Clusters |-> Latest(c)] /\ want' = want
  <2>1. cardform' = cardform /\ cardform = TRUE /\ image' = image /\ mccache' = mccache /\ home' = home
        /\ exposed' = exposed /\ current' = current /\ Unmarked
    BY DEF VmcInv, TypeInv, MarkInv
  <2>2. job' \in Jobs /\ JobInv' /\ MarkInv' /\ LoopInv' /\ InFlush' = FALSE /\ Loop' = "done"
    BY <1>2, <2>1, AtRest DEF VmcInv
  <2>3. \A c \in Clusters : acked'[c] = current[c] /\ current[c] \in Int
    BY <1>2, LatestIs DEF VmcInv, TypeInv
  <2>4. TypeInv'
    <3>1. acked' \in [Clusters -> Int]
      BY <1>2, <2>3
    <3> QED BY <1>2, <2>1, <2>2, <3>1 DEF VmcInv, TypeInv
  <2>5. \A x \in Blocks \ exposed : image[x] = home[x] /\ home[x] = want[x]
    BY <2>1 DEF VmcInv, DiskInv
  <2>6. DiskInv'
    BY <1>2, <2>1, <2>2, <2>5 DEF DiskInv
  <2>7. \A c \in Clusters : image[c[1]][c[2]] = current[c]
    <3>1. \A c \in Clusters : Clean(c)
      BY <1>2 DEF Dirty, Clean
    <3> QED BY <2>1, <3>1 DEF VmcInv, CacheInv
  <2>8. AckInv'
    <3>1. ASSUME NEW c \in Clusters, c[1] \notin exposed
          PROVE  home[c[1]][c[2]] = current[c] /\ want[c[1]][c[2]] = current[c]
      BY <2>5, <2>7, <3>1 DEF Clusters
    <3> QED BY <1>2, <2>1, <2>3, <3>1 DEF AckInv
  <2>9. CacheInv'
    BY <2>1, <2>2, <2>7 DEF VmcInv, CacheInv
  <2> QED BY <2>2, <2>4, <2>6, <2>8, <2>9 DEF VmcInv
<1> QED BY <1>1, <1>2 DEF McFlushCache

(* McReadCluster, when what it drops is clean.                             *)
LEMMA ReadStep ==
  ASSUME VmcAssumption, VmcInv, cardform, ~InFlush, NEW call \in AllCalls, McReadCluster(call),
         Cached(call.cluster) \/ Len(mccache) # MAX_CACHEENTRY \/ ~mccache[Len(mccache)].wr,
         job' = Idle, UNCHANGED <<image, cardform, home, want, exposed, acked>>
  PROVE  VmcInv'
<1>1. cardform' = cardform /\ cardform = TRUE /\ image' = image /\ home' = home /\ want' = want
      /\ exposed' = exposed /\ acked' = acked /\ Unmarked
  BY DEF VmcInv, TypeInv, MarkInv
<1>2. job' \in Jobs /\ JobInv' /\ MarkInv' /\ LoopInv' /\ InFlush' = FALSE /\ Loop' = "done"
  BY <1>1, AtRest DEF VmcInv
<1>3. /\ mccache' \in Seq(Entries) /\ Len(mccache') <= MAX_CACHEENTRY
      /\ current' \in [Clusters -> Int] /\ (\A c \in Clusters : current'[c] >= current[c])
      /\ CacheInv'
  BY <1>1, <1>2, ReadCache DEF VmcInv
<1>4. TypeInv'
  BY <1>1, <1>2, <1>3 DEF VmcInv, TypeInv
<1>5. DiskInv'
  <2>1. \A x \in Blocks \ exposed : image[x] = home[x] /\ home[x] = want[x]
    BY <1>1 DEF VmcInv, DiskInv
  <2> QED BY <1>1, <1>2, <2>1 DEF DiskInv
<1>6. AckInv'
  <2>1. \A c \in Clusters : current'[c] \in Int /\ current[c] \in Int /\ acked[c] \in Int
    BY <1>3 DEF VmcInv, TypeInv
  <2> QED BY <1>1, <1>3, <2>1 DEF VmcInv, AckInv
<1> QED BY <1>2, <1>3, <1>4, <1>5, <1>6 DEF VmcInv

LEMMA AccessStep ==
  ASSUME VmcAssumption, VmcInv, NEW call \in Calls, Access(call)
  PROVE  VmcInv'
<1>1. call \in AllCalls /\ cardform /\ job = Idle /\ ~InFlush
  BY IdleIs DEF VmcAssumption, Access, InFlush
<1>2. CASE MustEvict(call.cluster)
  <2> DEFINE b == mccache[Len(mccache)].cluster[1]
  <2>1. b \in Blocks /\ Len(mccache) = MAX_CACHEENTRY
    <3>1. Len(mccache) = MAX_CACHEENTRY /\ mccache \in Seq(Entries) /\ MAX_CACHEENTRY \in Nat \ {0}
      BY <1>2 DEF MustEvict, VmcInv, TypeInv, VmcAssumption
    <3>2. mccache[Len(mccache)] \in Entries
      BY <3>1
    <3> QED BY <3>1, <3>2 DEF Entries, Clusters
  <2>2. StartFlush(b, "evict", call) /\ UNCHANGED <<image, mccache, cardform, home, exposed, acked, current>>
    BY <1>2 DEF Access
  <2>3. mccache[Len(mccache)].cluster[1] = b
    OBVIOUS
  <2> HIDE DEF b
  <2> QED BY <1>1, <2>1, <2>2, <2>3, StartStep
<1>3. CASE ~MustEvict(call.cluster)
  <2>1. /\ McReadCluster(call) /\ job' = Idle /\ UNCHANGED <<image, cardform, home, want, exposed, acked>>
        /\ Cached(call.cluster) \/ Len(mccache) # MAX_CACHEENTRY \/ ~mccache[Len(mccache)].wr
    BY <1>1, <1>3 DEF Access, MustEvict
  <2> QED BY <1>1, <2>1, ReadStep
<1> QED BY <1>2, <1>3

LEMMA ContinueStep ==
  ASSUME VmcAssumption, VmcInv, Continue
  PROVE  VmcInv'
<1>1. job.kind \in {"flushed", "evicted"} /\ cardform /\ ~InFlush
  BY DEF Continue, InFlush, VmcInv, JobInv
<1>2. CASE /\ job.kind = "flushed" /\ McFlushCache
           /\ UNCHANGED <<image, mccache, cardform, home, exposed, current, cuts>>
  BY <1>1, <1>2, FlushCacheStep
<1>3. CASE /\ job.kind = "evicted" /\ McReadCluster(job.call) /\ job' = Idle
           /\ UNCHANGED <<image, cardform, home, want, exposed, acked, cuts>>
  <2>1. job.call \in AllCalls /\ ~mccache[Len(mccache)].wr
    BY <1>3 DEF VmcInv, JobInv
  <2> QED BY <1>1, <1>3, <2>1, ReadStep
<1> QED BY <1>2, <1>3 DEF Continue

LEMMA WriteStep ==
  ASSUME VmcAssumption, VmcInv, McWritePage
  PROVE  VmcInv'
BY AdvanceJob, WriteType, WriteMarkInv, WriteLoopInv, WriteDiskInv, WriteCacheInv DEF VmcInv

LEMMA InitInv ==
  ASSUME VmcAssumption, Init
  PROVE  VmcInv
<1>1. /\ image = [b \in AllBlocks |-> [p \in Pages |-> IF b = backup_block2 THEN Erased ELSE 0]]
      /\ mccache = <<>> /\ job = Idle /\ cardform = TRUE
      /\ home = [b \in Blocks |-> image[b]] /\ want = home /\ exposed = {}
      /\ acked = [c \in Clusters |-> 0] /\ current = acked
  BY DEF Init, AllBlocks
<1>2. /\ 0 \in Pages /\ 1 \in Pages /\ backup_block2 \in AllBlocks /\ backup_block2 \notin Blocks
      /\ \A b \in Blocks : b \in AllBlocks
  BY DEF VmcAssumption, Pages, AllBlocks
<1>3. /\ job \in Jobs /\ job.kind = "none" /\ job.todo = <<>> /\ job.page = 0 /\ job.guarded = FALSE
      /\ job.todo = Left(job.kind, job.guarded, "done") /\ "done" \in LoopsOf(job.kind, job.guarded)
  BY <1>1, IdleIs
<1>4. Loop = "done" /\ InFlush = FALSE
  BY <1>3 DEF Loop, InFlush
<1>5. Unmarked
  BY <1>1, <1>2 DEF Unmarked, Mark
<1>6. \A b \in Blocks : home[b] = image[b] /\ \A p \in Pages : image[b][p] = 0
  BY <1>1, <1>2
<1>7. TypeInv
  <2>1. ASSUME NEW b \in AllBlocks
        PROVE  image[b] \in Data
    <3>1. image[b] = [p \in Pages |-> IF b = backup_block2 THEN Erased ELSE 0]
      BY <1>1
    <3> QED BY <3>1 DEF Data, Erased
  <2>2. image \in [AllBlocks -> Data]
    BY <1>1, <2>1
  <2>3. home \in [Blocks -> Data]
    BY <1>1, <1>2, <2>1
  <2>4. acked \in [Clusters -> Int]
    BY <1>1
  <2>5. mccache \in Seq(Entries) /\ Len(mccache) <= MAX_CACHEENTRY
    BY <1>1 DEF VmcAssumption
  <2> QED BY <1>1, <1>3, <2>2, <2>3, <2>4, <2>5 DEF TypeInv
<1>8. JobInv
  BY <1>1, <1>3, <1>4 DEF JobInv
<1>9. MarkInv
  BY <1>3, <1>4, <1>5 DEF MarkInv, Unmarked
<1>10. LoopInv
  BY <1>3, <1>4 DEF LoopInv
<1>11. DiskInv
  BY <1>1, <1>6 DEF DiskInv
<1>12. \A c \in Clusters : acked[c] = 0 /\ image[c[1]][c[2]] = 0 /\ home[c[1]][c[2]] = 0
  BY <1>1, <1>6 DEF Clusters
<1>13. AckInv /\ CacheInv
  <2>1. \A c \in Clusters : current[c] = 0
    BY <1>1
  <2>2. AckInv
    <3>1. want = home
      BY <1>1
    <3> QED BY <1>12, <2>1, <3>1 DEF AckInv
  <2>3. DOMAIN mccache = {}
    BY <1>1
  <2>4. CacheInv
    BY <1>4, <1>12, <2>1, <2>3 DEF CacheInv
  <2> QED BY <2>2, <2>4
<1> QED BY <1>7, <1>8, <1>9, <1>10, <1>11, <1>13 DEF VmcInv

LEMMA NextInv ==
  ASSUME VmcAssumption, VmcInv, [Next]_vars
  PROVE  VmcInv'
<1>1. ASSUME NEW call \in Calls, Access(call)
      PROVE  VmcInv'
  BY <1>1, AccessStep
<1>2. CASE Flush
  <2>1. cardform /\ ~InFlush
    BY <1>2, IdleIs DEF Flush, InFlush
  <2>2. McFlushCache /\ UNCHANGED <<image, mccache, cardform, home, exposed, current>>
    BY <1>2 DEF Flush
  <2> QED BY <2>1, <2>2, FlushCacheStep
<1>3. CASE McWritePage
  BY <1>3, WriteStep
<1>4. CASE EndFlush
  BY <1>4, EndFlushStep
<1>5. CASE Continue
  BY <1>5, ContinueStep
<1>6. CASE Mount
  BY <1>6, MountStep
<1>7. CASE EndMount
  BY <1>7, EndMountStep
<1>8. CASE Cut
  BY <1>8, CutStep
<1>9. CASE UNCHANGED vars
  <2>1. image' = image /\ mccache' = mccache /\ job' = job /\ cardform' = cardform /\ home' = home
        /\ want' = want /\ exposed' = exposed /\ acked' = acked /\ current' = current
    BY <1>9 DEF vars
  <2>2. Loop' = Loop /\ InFlush' = InFlush /\ Mark(0)' = Mark(0) /\ Mark(1)' = Mark(1) /\ Unmarked' = Unmarked
        /\ (\A b : Sealed(b)' <=> Sealed(b)) /\ (\A c : Clean(c)' <=> Clean(c))
    BY <2>1 DEF Loop, InFlush, Mark, Unmarked, Sealed, Clean
  <2>3. TypeInv' /\ JobInv' /\ MarkInv'
    BY <2>1, <2>2 DEF VmcInv, TypeInv, JobInv, MarkInv
  <2>4. LoopInv' /\ DiskInv'
    BY <2>1, <2>2 DEF VmcInv, LoopInv, DiskInv, Upto
  <2>5. AckInv' /\ CacheInv'
    BY <2>1, <2>2 DEF VmcInv, AckInv, CacheInv
  <2> QED BY <2>3, <2>4, <2>5 DEF VmcInv
<1> QED BY <1>1, <1>2, <1>3, <1>4, <1>5, <1>6, <1>7, <1>8, <1>9 DEF Next
-----------------------------------------------------------------------------
LEMMA InvIsSafe ==
  ASSUME VmcAssumption, VmcInv
  PROVE  VmcBlocksSafe
<1>1. Quiet => cardform /\ ~InFlush
  BY IdleIs DEF Quiet, InFlush
<1>2. BlockWhole
  BY <1>1 DEF BlockWhole, VmcInv, DiskInv
<1>3. Quiet => \A c \in Clusters : Latest(c) = current[c]
  BY <1>1, LatestIs DEF VmcInv
<1>4. AckedKept
  BY <1>1, <1>3 DEF AckedKept, VmcInv, AckInv
<1>5. CacheTrue
  <2>1. ASSUME Quiet, NEW i \in DOMAIN mccache, ~mccache[i].wr
        PROVE  image[mccache[i].cluster[1]][mccache[i].cluster[2]] = mccache[i].val
    <3>1. mccache[i] \in Entries
      BY DEF VmcInv, TypeInv
    <3>2. mccache[i].cluster \in Clusters
      BY <3>1 DEF Entries
    <3>3. Clean(mccache[i].cluster)
      BY <1>1, <2>1 DEF Clean, VmcInv, CacheInv
    <3> QED BY <1>1, <2>1, <3>2, <3>3 DEF VmcInv, CacheInv
  <2>2. Quiet => \A i, j \in DOMAIN mccache : mccache[i].cluster = mccache[j].cluster => i = j
    BY <1>1 DEF VmcInv, CacheInv
  <2> QED BY <1>3, <2>1, <2>2 DEF CacheTrue
<1> QED BY <1>2, <1>4, <1>5 DEF VmcBlocksSafe

(* Whatever the blocks of a card, the size of the cache and the calls, and *)
(* through any number of cuts of flushes and of recoveries, a block that   *)
(* was programmed behind its backup is the old one or the new one, what a  *)
(* completed flush had covered is kept, and the cache answers with what    *)
(* was written (mcman_flushcacheentry, mcman_checkBackupBlocks,            *)
(* McReadCluster of iop/vmcman).                                           *)
THEOREM VmcBlocksAreSafe ==
  ASSUME VmcAssumption
  PROVE  Spec => []VmcBlocksSafe
<1>1. Init => VmcInv
  BY InitInv
<1>2. VmcInv /\ [Next]_vars => VmcInv'
  BY NextInv
<1>3. VmcInv => VmcBlocksSafe
  BY InvIsSafe
<1> QED BY <1>1, <1>2, <1>3, PTL DEF Spec
-----------------------------------------------------------------------------
(* The slots.                                                              *)
Uses == Images \cup {"nothing", "file", "console"}
Cards == [mounted : BOOLEAN, fd : Descriptors \cup {NoFd}, cardform : {1, 0, -1}, unwritten : SUBSET Handles,
          asked : BOOLEAN, virgin : BOOLEAN, robbed : BOOLEAN, again : BOOLEAN, left : BOOLEAN]
OpenHandles == [status : {TRUE}, slot : Slots, of : Images, begun : BOOLEAN, kept : BOOLEAN]
SlotStates == [io : [Descriptors -> Uses], card : [Slots -> Cards],
               fdhandles : [Handles -> OpenHandles \cup {Closed}]]

(* What a slot has, the mounted ones each their own.                       *)
Mounts(st) ==
    \A s \in Slots :
        /\ st.card[s].mounted <=> st.card[s].cardform = 1
        /\ st.card[s].mounted => ~st.card[s].virgin /\ st.card[s].fd \in Descriptors /\ st.io[st.card[s].fd] \in Images
        /\ ~st.card[s].mounted => st.card[s].fd = NoFd \/ (st.card[s].virgin /\ st.card[s].fd = 0)
        /\ ~st.card[s].left
Apart(st) ==
    \A s, t \in Slots : s # t /\ st.card[s].mounted /\ st.card[t].mounted => st.card[s].fd # st.card[t].fd
Owned(st) ==
    /\ (\A s \in Slots : ~st.card[s].again) =>
          \A fd \in Descriptors : st.io[fd] \in Images => \E s \in Slots : st.card[s].mounted /\ st.card[s].fd = fd
    /\ (\A s \in Slots : ~st.card[s].robbed) => st.io[0] = "console"

(* A handle acts on its image; a slot that was asked without a card has no *)
(* handle.                                                                 *)
Follows(st) ==
    \A h \in Handles : st.fdhandles[h].status /\ ~st.fdhandles[h].kept =>
        LET s == st.fdhandles[h].slot IN st.card[s].mounted => st.io[st.card[s].fd] = st.fdhandles[h].of
AskedInv(st) ==
    \A s \in Slots : st.card[s].asked =>
        ~st.card[s].mounted /\ \A h \in Handles : st.fdhandles[h].status => st.fdhandles[h].slot # s

SlotsGood(st) == st \in SlotStates /\ Mounts(st) /\ Apart(st) /\ Owned(st) /\ Follows(st) /\ AskedInv(st)

(* Most calls change what the driver has seen, the cache and the handles,  *)
(* and close no descriptor.                                                *)
SameSlot(c, d) ==
    /\ d.mounted = c.mounted /\ d.fd = c.fd /\ d.virgin = c.virgin /\ d.robbed = c.robbed
    /\ d.again = c.again /\ d.left = c.left /\ (d.cardform = 1 <=> c.cardform = 1)
SameHandle(g, h) ==
    h.status => g.status /\ h.slot = g.slot /\ h.of = g.of /\ h.kept = g.kept
Keeps(a, b) ==
    /\ b \in SlotStates /\ b.io = a.io
    /\ \A s \in Slots : SameSlot(a.card[s], b.card[s])
    /\ \A s \in Slots : b.card[s].asked =>
          \/ a.card[s].asked
          \/ a.card[s].cardform # 1 /\ \A h \in Handles : b.fdhandles[h].status => b.fdhandles[h].slot # s
    /\ \A h \in Handles : SameHandle(a.fdhandles[h], b.fdhandles[h])

LEMMA SameSlotTwo ==
  ASSUME NEW c, NEW d, NEW e, SameSlot(c, d), SameSlot(d, e)
  PROVE  SameSlot(c, e)
BY DEF SameSlot

LEMMA HandleIs ==
  ASSUME NEW st \in SlotStates, NEW h \in Handles
  PROVE  st.fdhandles[h] = Closed \/ (st.fdhandles[h] \in OpenHandles /\ st.fdhandles[h].slot \in Slots)
<1>1. st.fdhandles[h] \in OpenHandles \cup {Closed}
  BY DEF SlotStates
<1> QED BY <1>1 DEF OpenHandles

LEMMA KeepsSelf ==
  ASSUME NEW a \in SlotStates
  PROVE  Keeps(a, a)
BY DEF Keeps, SameSlot, SameHandle

LEMMA KeepsTwo ==
  ASSUME NEW a, NEW b, NEW c, Keeps(a, b), Keeps(b, c)
  PROVE  Keeps(a, c)
<1>1. c \in SlotStates /\ c.io = a.io
  BY DEF Keeps
<1>2. \A s \in Slots : SameSlot(a.card[s], c.card[s])
  BY DEF Keeps, SameSlot
<1>3. \A h \in Handles : SameHandle(a.fdhandles[h], c.fdhandles[h])
  BY DEF Keeps, SameHandle
<1>4. ASSUME NEW s \in Slots, c.card[s].asked
      PROVE  \/ a.card[s].asked
             \/ a.card[s].cardform # 1 /\ \A h \in Handles : c.fdhandles[h].status => c.fdhandles[h].slot # s
  <2>1. a.card[s].cardform = 1 <=> b.card[s].cardform = 1
    BY DEF Keeps, SameSlot
  <2>2. \A h \in Handles : c.fdhandles[h].status => b.fdhandles[h].status /\ c.fdhandles[h].slot = b.fdhandles[h].slot
    BY DEF Keeps, SameHandle
  <2> QED BY <1>4, <2>1, <2>2 DEF Keeps
<1> QED BY <1>1, <1>2, <1>3, <1>4 DEF Keeps

LEMMA KeepsGood ==
  ASSUME NEW a, NEW b, SlotsGood(a), Keeps(a, b)
  PROVE  SlotsGood(b)
<1>1. \A s \in Slots : SameSlot(a.card[s], b.card[s])
  BY DEF Keeps
<1>2. b \in SlotStates /\ b.io = a.io
  BY DEF Keeps
<1>3. Mounts(b)
  BY <1>1, <1>2 DEF SlotsGood, Mounts, SameSlot
<1>4. Apart(b)
  BY <1>1, <1>2 DEF SlotsGood, Apart, SameSlot
<1>5. Owned(b)
  BY <1>1, <1>2 DEF SlotsGood, Owned, SameSlot
<1>6. \A h \in Handles : SameHandle(a.fdhandles[h], b.fdhandles[h]) /\ (b.fdhandles[h].status => b.fdhandles[h].slot \in Slots)
  <2>1. \A h \in Handles : b.fdhandles[h].status => b.fdhandles[h].slot \in Slots
    BY <1>2, HandleIs DEF Closed
  <2> QED BY <2>1 DEF Keeps
<1>7. Follows(b)
  <2>1. ASSUME NEW h \in Handles, b.fdhandles[h].status, ~b.fdhandles[h].kept,
               b.card[b.fdhandles[h].slot].mounted
        PROVE  b.io[b.card[b.fdhandles[h].slot].fd] = b.fdhandles[h].of
    <3> DEFINE s == b.fdhandles[h].slot
    <3>1. Follows(a)
      BY DEF SlotsGood
    <3>2. /\ s \in Slots /\ a.fdhandles[h].status /\ ~a.fdhandles[h].kept
          /\ a.fdhandles[h].slot = s /\ a.fdhandles[h].of = b.fdhandles[h].of
      BY <1>6, <2>1 DEF SameHandle
    <3>3. a.card[s].mounted /\ b.card[s].fd = a.card[s].fd
      BY <1>1, <2>1, <3>2 DEF SameSlot
    <3>4. a.io[a.card[s].fd] = a.fdhandles[h].of
      BY <3>1, <3>2, <3>3 DEF Follows
    <3> HIDE DEF s
    <3>5. b.io[b.card[s].fd] = b.fdhandles[h].of
      BY ONLY <1>2, <3>2, <3>3, <3>4
    <3> QED BY <3>5 DEF s
  <2> QED BY <2>1 DEF Follows
<1>8. AskedInv(b)
  <2>1. ASSUME NEW s \in Slots, b.card[s].asked
        PROVE  ~b.card[s].mounted /\ \A h \in Handles : b.fdhandles[h].status => b.fdhandles[h].slot # s
    <3>1. (b.card[s].mounted <=> a.card[s].mounted) /\ (a.card[s].mounted <=> a.card[s].cardform = 1)
      BY <1>1 DEF SlotsGood, Mounts, SameSlot
    <3>2. CASE a.card[s].asked
      <4>1. ~a.card[s].mounted /\ \A h \in Handles : a.fdhandles[h].status => a.fdhandles[h].slot # s
        BY <3>2 DEF SlotsGood, AskedInv
      <4> QED BY <1>6, <3>1, <4>1 DEF SameHandle
    <3>3. CASE ~a.card[s].asked
      BY <2>1, <3>1, <3>3 DEF Keeps
    <3> QED BY <3>2, <3>3
  <2> QED BY <2>1 DEF AskedInv
<1> QED BY <1>2, <1>3, <1>4, <1>5, <1>7, <1>8 DEF SlotsGood
-----------------------------------------------------------------------------
LEMMA ClearIs ==
  ASSUME NEW st \in SlotStates, NEW s \in Slots
  PROVE  /\ mcman_clearcache(st, s) \in SlotStates /\ mcman_clearcache(st, s).io = st.io
         /\ mcman_clearcache(st, s).fdhandles = st.fdhandles
         /\ mcman_clearcache(st, s).card = [st.card EXCEPT ![s].unwritten = {}]
<1> DEFINE cards == [st.card EXCEPT ![s].unwritten = {}]
           r == mcman_clearcache(st, s)
<1>1. st.card \in [Slots -> Cards]
  BY DEF SlotStates
<1>2. cards \in [Slots -> Cards]
  <2>1. st.card[s] \in Cards
    BY <1>1
  <2>2. [st.card[s] EXCEPT !.unwritten = {}] \in Cards
    BY ONLY <2>1 DEF Cards
  <2> QED BY ONLY <1>1, <2>2, s \in Slots
<1>3. r = [st EXCEPT !.card = cards]
  BY DEF mcman_clearcache
<1> HIDE DEF cards, r
<1>4. r \in SlotStates /\ r.io = st.io /\ r.fdhandles = st.fdhandles /\ r.card = cards
  BY ONLY st \in SlotStates, <1>2, <1>3 DEF SlotStates
<1> QED BY <1>4 DEF cards, r

LEMMA ClearKeeps ==
  ASSUME NEW st \in SlotStates, NEW s \in Slots
  PROVE  Keeps(st, mcman_clearcache(st, s)) /\ mcman_clearcache(st, s).card[s].unwritten = {}
<1> DEFINE r == mcman_clearcache(st, s)
<1>1. /\ r \in SlotStates /\ r.io = st.io /\ r.fdhandles = st.fdhandles
      /\ r.card = [st.card EXCEPT ![s].unwritten = {}]
  BY ClearIs
<1> HIDE DEF r
<1>2. st.card \in [Slots -> Cards]
  BY DEF SlotStates
<1>3. /\ \A t \in Slots : SameSlot(st.card[t], r.card[t]) /\ r.card[t].asked = st.card[t].asked
      /\ r.card[s].unwritten = {}
  BY <1>1, <1>2 DEF Cards, SameSlot
<1>4. \A h \in Handles : SameHandle(st.fdhandles[h], r.fdhandles[h])
  BY <1>1 DEF SameHandle
<1> QED BY <1>1, <1>3, <1>4 DEF Keeps, r

LEMMA InvalidIs ==
  ASSUME NEW st \in SlotStates, NEW s \in Slots
  PROVE  /\ Keeps(st, mcman_invhandles(st, s)) /\ mcman_invhandles(st, s).card = st.card
         /\ \A h \in Handles : /\ mcman_invhandles(st, s).fdhandles[h].status =>
                                    mcman_invhandles(st, s).fdhandles[h].slot # s
                               /\ mcman_invhandles(st, s).fdhandles[h] \in {st.fdhandles[h], Closed}
<1> DEFINE new == [h \in Handles |-> IF st.fdhandles[h].status /\ st.fdhandles[h].slot = s THEN Closed ELSE st.fdhandles[h]]
           r == mcman_invhandles(st, s)
<1>1. st.fdhandles \in [Handles -> OpenHandles \cup {Closed}]
  BY DEF SlotStates
<1>2. r = [st EXCEPT !.fdhandles = new]
  BY DEF mcman_invhandles
<1>3. \A h \in Handles : /\ new[h] \in {st.fdhandles[h], Closed}
                         /\ new[h].status => new[h].slot # s
  BY DEF Closed
<1>4. new \in [Handles -> OpenHandles \cup {Closed}]
  BY <1>1
<1> HIDE DEF new, r
<1>5. r \in SlotStates /\ r.io = st.io /\ r.card = st.card /\ r.fdhandles = new
  BY <1>2, <1>4 DEF SlotStates
<1>6. \A h \in Handles : SameHandle(st.fdhandles[h], r.fdhandles[h])
  BY <1>3, <1>5 DEF SameHandle, Closed
<1>7. \A t \in Slots : SameSlot(st.card[t], r.card[t])
  BY <1>5 DEF SameSlot
<1> QED BY <1>3, <1>5, <1>6, <1>7 DEF Keeps, r

LEMMA ForgetIs ==
  ASSUME NEW st \in SlotStates, NEW s \in Slots
  PROVE  /\ Keeps(st, Forget(st, s)) /\ Forget(st, s).card[s].unwritten = {}
         /\ \A h \in Handles : Forget(st, s).fdhandles[h].status => Forget(st, s).fdhandles[h].slot # s
<1> DEFINE mid == mcman_invhandles(st, s)
           end == mcman_clearcache(mid, s)
<1>1. Keeps(st, mid) /\ mid \in SlotStates
  BY InvalidIs DEF Keeps
<1>2. \A h \in Handles : mid.fdhandles[h].status => mid.fdhandles[h].slot # s
  BY InvalidIs
<1> HIDE DEF mid
<1>3. Keeps(mid, end) /\ end.card[s].unwritten = {} /\ end.fdhandles = mid.fdhandles
  BY <1>1, ClearKeeps, ClearIs
<1>4. Forget(st, s) = end
  BY DEF Forget, mid
<1> HIDE DEF end
<1> QED BY <1>1, <1>2, <1>3, <1>4, KeepsTwo

(* A call finds the card, or forgets all that it knew.                     *)
LEMMA DetectIs ==
  ASSUME NEW st \in SlotStates, NEW s \in Slots
  PROVE  /\ McDetectCard(st, s).ok => McDetectCard(st, s).st = st /\ st.card[s].cardform = 1
         /\ ~McDetectCard(st, s).ok => Keeps(st, McDetectCard(st, s).st)
<1>1. CASE st.card[s].cardform = 1
  BY <1>1 DEF McDetectCard
<1>2. CASE st.card[s].cardform # 1
  <2> DEFINE mid == [st EXCEPT !.card[s].cardform = 0, !.card[s].asked = TRUE]
             end == Forget(mid, s)
  <2>1. st.card \in [Slots -> Cards]
    BY DEF SlotStates
  <2>2. mid \in SlotStates /\ mid.io = st.io /\ mid.fdhandles = st.fdhandles
    <3> DEFINE first == [st.card EXCEPT ![s].cardform = 0]
               cards == [first EXCEPT ![s].asked = TRUE]
    <3>1. cards \in [Slots -> Cards]
      <4>1. first \in [Slots -> Cards]
        BY <2>1 DEF Cards
      <4> HIDE DEF first
      <4> QED BY <4>1 DEF Cards
    <3>2. mid = [st EXCEPT !.card = cards]
      BY DEF SlotStates
    <3> HIDE DEF cards, mid
    <3> QED BY <3>1, <3>2 DEF SlotStates
  <2>3. \A t \in Slots : SameSlot(st.card[t], mid.card[t]) /\ (t # s => mid.card[t] = st.card[t])
    BY <1>2, <2>1 DEF SlotStates, Cards, SameSlot
  <2>4. McDetectCard(st, s).st = end /\ McDetectCard(st, s).ok = FALSE
    BY <1>2 DEF McDetectCard
  <2> HIDE DEF mid
  <2>5. Keeps(mid, end) /\ \A h \in Handles : end.fdhandles[h].status => end.fdhandles[h].slot # s
    BY <2>2, ForgetIs
  <2> HIDE DEF end
  <2>6. \A t \in Slots : SameSlot(st.card[t], end.card[t])
    BY <2>3, <2>5, SameSlotTwo DEF Keeps
  <2>7. \A t \in Slots : end.card[t].asked =>
          \/ st.card[t].asked
          \/ st.card[t].cardform # 1 /\ \A h \in Handles : end.fdhandles[h].status => end.fdhandles[h].slot # t
    <3> TAKE t \in Slots
    <3>1. CASE t = s
      BY <1>2, <2>5, <3>1
    <3>2. CASE t # s
      BY <2>3, <2>5, <3>2 DEF Keeps
    <3> QED BY <3>1, <3>2
  <2>8. Keeps(st, end)
    BY <2>2, <2>5, <2>6, <2>7 DEF Keeps
  <2> QED BY <2>4, <2>8
<1> QED BY <1>1, <1>2
-----------------------------------------------------------------------------
(* An image is taken out of a slot, or put into it, when the other slots   *)
(* are in order and the slot itself is as the call has left it.            *)
Ready(st, s) ==
    /\ st \in SlotStates /\ ~st.card[s].left
    /\ \A t \in Slots \ {s} :
          /\ st.card[t].mounted <=> st.card[t].cardform = 1
          /\ st.card[t].mounted => /\ ~st.card[t].virgin /\ st.card[t].fd \in Descriptors
                                   /\ st.io[st.card[t].fd] \in Images /\ st.card[t].fd # st.card[s].fd
          /\ ~st.card[t].mounted => st.card[t].fd = NoFd \/ (st.card[t].virgin /\ st.card[t].fd = 0)
          /\ ~st.card[t].left
    /\ \A t, u \in Slots \ {s} : t # u /\ st.card[t].mounted /\ st.card[u].mounted => st.card[t].fd # st.card[u].fd
    /\ (\A t \in Slots : ~st.card[t].again) =>
          \A fd \in Descriptors : st.io[fd] \in Images =>
             fd = st.card[s].fd \/ \E t \in Slots \ {s} : st.card[t].mounted /\ st.card[t].fd = fd
    /\ (\A t \in Slots : ~st.card[t].robbed) => st.io[0] = "console" /\ st.card[s].fd # 0
    /\ \A h \in Handles : st.fdhandles[h].status /\ ~st.fdhandles[h].kept /\ st.fdhandles[h].slot # s =>
          LET t == st.fdhandles[h].slot IN st.card[t].mounted => st.io[st.card[t].fd] = st.fdhandles[h].of
    /\ \A t \in Slots \ {s} : st.card[t].asked =>
          ~st.card[t].mounted /\ \A h \in Handles : st.fdhandles[h].status => st.fdhandles[h].slot # t
    /\ st.card[s].asked => \A h \in Handles : st.fdhandles[h].status => st.fdhandles[h].slot # s

LEMMA ClearSlotIs ==
  ASSUME SlotsAssumption, NEW st \in SlotStates, NEW s \in Slots, NEW r \in clear_slot(st, s)
  PROVE  /\ r \in SlotStates /\ r.fdhandles = st.fdhandles
         /\ \A t \in Slots : t # s => r.card[t] = st.card[t]
         /\ ~r.card[s].mounted /\ r.card[s].fd = NoFd /\ r.card[s].cardform = 0
         /\ (r.card[s].left <=> st.card[s].left) /\ (r.card[s].asked <=> st.card[s].asked)
         /\ (r.card[s].again <=> st.card[s].again) /\ (r.card[s].robbed <=> st.card[s].robbed)
         /\ \A fd \in Descriptors : fd = st.card[s].fd => r.io[fd] = Nothing
         /\ \A fd \in Descriptors : fd # st.card[s].fd => r.io[fd] = st.io[fd]
<1> DEFINE f == st.card[s].fd
           closed == IF f >= 0 THEN [st EXCEPT !.io[f] = Nothing] ELSE st
           first == [closed.card EXCEPT ![s].mounted = FALSE]
           cards == [first EXCEPT ![s].fd = NoFd]
           new == [closed EXCEPT !.card[s].mounted = FALSE, !.card[s].fd = NoFd]
           clear == mcman_clearcache(new, s)
<1>1. st.card \in [Slots -> Cards] /\ st.io \in [Descriptors -> Uses] /\ f \in Descriptors \cup {NoFd}
  BY DEF SlotStates, Cards
<1>2. f # NoFd <=> f >= 0
  BY <1>1 DEF SlotsAssumption, NoFd
<1>3. /\ closed \in SlotStates /\ closed.card = st.card /\ closed.fdhandles = st.fdhandles
      /\ \A fd \in Descriptors : fd = f => closed.io[fd] = Nothing
      /\ \A fd \in Descriptors : fd # f => closed.io[fd] = st.io[fd]
  <2>1. CASE f = NoFd
    BY <1>1, <1>2, <2>1 DEF NoFd, SlotsAssumption
  <2>2. CASE f # NoFd
    <3>1. Nothing \in Uses
      BY DEF Nothing, Uses
    <3>2. closed = [st EXCEPT !.io[f] = Nothing] /\ f \in Descriptors
      BY <1>1, <1>2, <2>2
    <3> HIDE DEF f, closed
    <3> QED BY <1>1, <3>1, <3>2 DEF SlotStates
  <2> QED BY <2>1, <2>2
<1> HIDE DEF closed, f
<1>4. new = [closed EXCEPT !.card = cards]
  OBVIOUS
<1>5. first \in [Slots -> Cards]
  <2>1. st.card[s] \in Cards /\ first = [st.card EXCEPT ![s].mounted = FALSE]
    BY <1>1, <1>3
  <2>2. [st.card[s] EXCEPT !.mounted = FALSE] \in Cards
    BY ONLY <2>1 DEF Cards
  <2> HIDE DEF first
  <2> QED BY ONLY <1>1, <2>1, <2>2, s \in Slots
<1>6. /\ \A t \in Slots : t # s => first[t] = st.card[t]
      /\ first[s].mounted = FALSE
      /\ first[s].left = st.card[s].left /\ first[s].asked = st.card[s].asked
      /\ first[s].again = st.card[s].again /\ first[s].robbed = st.card[s].robbed
  BY <1>1, <1>3 DEF Cards
<1> HIDE DEF first
<1>7. cards \in [Slots -> Cards]
  BY <1>5 DEF Cards
<1>8. /\ \A t \in Slots : t # s => cards[t] = st.card[t]
      /\ cards[s].mounted = FALSE /\ cards[s].fd = NoFd
      /\ cards[s].left = st.card[s].left /\ cards[s].asked = st.card[s].asked
      /\ cards[s].again = st.card[s].again /\ cards[s].robbed = st.card[s].robbed
  BY <1>5, <1>6 DEF Cards
<1> HIDE DEF cards, new
<1>9. new \in SlotStates /\ new.card = cards /\ new.fdhandles = st.fdhandles /\ new.io = closed.io
  BY <1>3, <1>4, <1>7 DEF SlotStates
<1>10. r = [clear EXCEPT !.card[s].cardform = 0]
  <2>1. r \in mcman_probePS2Card(new, s)
    BY DEF clear_slot, closed, new, f
  <2>2. FormOf(new, s) = {0}
    BY <1>8, <1>9 DEF FormOf
  <2> QED BY <2>1, <2>2 DEF mcman_probePS2Card
<1>11. /\ clear \in SlotStates /\ clear.io = new.io /\ clear.fdhandles = new.fdhandles
       /\ clear.card = [cards EXCEPT ![s].unwritten = {}]
  BY <1>9, ClearIs
<1> HIDE DEF clear
<1>12. /\ clear.card \in [Slots -> Cards]
       /\ \A t \in Slots : t # s => clear.card[t] = st.card[t]
       /\ clear.card[s].mounted = FALSE /\ clear.card[s].fd = NoFd
       /\ clear.card[s].left = st.card[s].left /\ clear.card[s].asked = st.card[s].asked
       /\ clear.card[s].again = st.card[s].again /\ clear.card[s].robbed = st.card[s].robbed
  <2>1. clear.card \in [Slots -> Cards]
    BY <1>11 DEF SlotStates
  <2>2. cards[s] \in Cards
    BY <1>7
  <2>3. clear.card[s] = [cards[s] EXCEPT !.unwritten = {}] /\ \A t \in Slots : t # s => clear.card[t] = cards[t]
    BY ONLY <1>7, <1>11, s \in Slots
  <2>4. /\ clear.card[s].mounted = cards[s].mounted /\ clear.card[s].fd = cards[s].fd
        /\ clear.card[s].left = cards[s].left /\ clear.card[s].asked = cards[s].asked
        /\ clear.card[s].again = cards[s].again /\ clear.card[s].robbed = cards[s].robbed
    BY ONLY <2>2, <2>3 DEF Cards
  <2> QED BY <1>8, <2>1, <2>3, <2>4
<1> DEFINE last == [clear.card EXCEPT ![s].cardform = 0]
<1>13. r \in SlotStates /\ r.io = clear.io /\ r.fdhandles = clear.fdhandles /\ r.card = [clear.card EXCEPT ![s].cardform = 0]
  <2>1. last \in [Slots -> Cards]
    BY <1>12 DEF Cards
  <2>2. r = [clear EXCEPT !.card = last]
    BY <1>10
  <2> HIDE DEF last
  <2>3. r \in SlotStates /\ r.io = clear.io /\ r.fdhandles = clear.fdhandles /\ r.card = last
    BY <1>11, <2>1, <2>2 DEF SlotStates
  <2> QED BY <2>3 DEF last
<1>14. /\ \A t \in Slots : t # s => r.card[t] = st.card[t]
       /\ r.card[s].mounted = FALSE /\ r.card[s].fd = NoFd /\ r.card[s].cardform = 0
       /\ r.card[s].left = st.card[s].left /\ r.card[s].asked = st.card[s].asked
       /\ r.card[s].again = st.card[s].again /\ r.card[s].robbed = st.card[s].robbed
  BY <1>12, <1>13 DEF Cards
<1>15. /\ \A fd \in Descriptors : fd = f => r.io[fd] = Nothing
       /\ \A fd \in Descriptors : fd # f => r.io[fd] = st.io[fd]
  BY <1>3, <1>9, <1>11, <1>13
<1>16. r \in SlotStates /\ r.fdhandles = st.fdhandles
  BY <1>9, <1>11, <1>13
<1>17. ~r.card[s].mounted
  BY <1>14
<1> QED BY <1>14, <1>15, <1>16, <1>17 DEF f

LEMMA TakenOut ==
  ASSUME SlotsAssumption, NEW st, NEW s \in Slots, Ready(st, s), NEW r \in clear_slot(st, s)
  PROVE  SlotsGood(r)
<1>0. st \in SlotStates
  BY DEF Ready
<1>1. /\ r \in SlotStates /\ r.fdhandles = st.fdhandles
      /\ \A t \in Slots : t # s => r.card[t] = st.card[t]
      /\ ~r.card[s].mounted /\ r.card[s].fd = NoFd /\ r.card[s].cardform = 0
      /\ (r.card[s].left <=> st.card[s].left) /\ (r.card[s].asked <=> st.card[s].asked)
      /\ (r.card[s].again <=> st.card[s].again) /\ (r.card[s].robbed <=> st.card[s].robbed)
      /\ \A fd \in Descriptors : fd = st.card[s].fd => r.io[fd] = Nothing
      /\ \A fd \in Descriptors : fd # st.card[s].fd => r.io[fd] = st.io[fd]
  BY <1>0, ClearSlotIs
<1>2. Nothing \notin Images /\ 0 \in Descriptors
  BY DEF SlotsAssumption, Nothing
<1>3. Mounts(r)
  <2>1. ASSUME NEW t \in Slots, t # s
        PROVE  /\ st.card[t].mounted <=> st.card[t].cardform = 1
               /\ st.card[t].mounted => ~st.card[t].virgin /\ st.card[t].fd \in Descriptors /\ r.io[st.card[t].fd] \in Images
               /\ ~st.card[t].mounted => st.card[t].fd = NoFd \/ (st.card[t].virgin /\ st.card[t].fd = 0)
               /\ ~st.card[t].left
    BY <1>1, <2>1 DEF Ready
  <2>2. ~st.card[s].left
    BY DEF Ready
  <2> QED BY <1>1, <2>1, <2>2 DEF Mounts
<1>4. Apart(r)
  BY <1>1 DEF Ready, Apart
<1>5. Owned(r)
  <2>1. (\A t \in Slots : ~r.card[t].again) <=> (\A t \in Slots : ~st.card[t].again)
    BY <1>1
  <2>2. (\A t \in Slots : ~r.card[t].robbed) <=> (\A t \in Slots : ~st.card[t].robbed)
    BY <1>1
  <2>3. ASSUME \A t \in Slots : ~st.card[t].again, NEW fd \in Descriptors, r.io[fd] \in Images
        PROVE  \E t \in Slots : r.card[t].mounted /\ r.card[t].fd = fd
    <3>1. fd # st.card[s].fd /\ st.io[fd] \in Images
      BY <1>1, <1>2, <2>3
    <3>2. \E t \in Slots \ {s} : st.card[t].mounted /\ st.card[t].fd = fd
      BY <2>3, <3>1 DEF Ready
    <3> QED BY <1>1, <3>2
  <2>4. (\A t \in Slots : ~st.card[t].robbed) => r.io[0] = "console"
    BY <1>1, <1>2 DEF Ready
  <2> QED BY <2>1, <2>2, <2>3, <2>4 DEF Owned
<1>6. Follows(r)
  <2>1. ASSUME NEW h \in Handles, r.fdhandles[h].status, ~r.fdhandles[h].kept,
               r.card[r.fdhandles[h].slot].mounted
        PROVE  r.io[r.card[r.fdhandles[h].slot].fd] = r.fdhandles[h].of
    <3> DEFINE t == st.fdhandles[h].slot
    <3>1. t \in Slots
      BY <1>0, <1>1, <2>1, HandleIs DEF Closed
    <3>2. t # s
      BY <1>1, <2>1
    <3>3. st.card[t].mounted /\ r.card[t] = st.card[t]
      BY <1>1, <2>1, <3>1, <3>2
    <3>4. st.io[st.card[t].fd] = st.fdhandles[h].of
      BY <1>1, <2>1, <3>2, <3>3 DEF Ready
    <3>5. st.card[t].fd \in Descriptors /\ st.card[t].fd # st.card[s].fd
      <4>1. \A u \in Slots \ {s} : st.card[u].mounted => st.card[u].fd \in Descriptors /\ st.card[u].fd # st.card[s].fd
        BY DEF Ready
      <4> HIDE DEF t
      <4> QED BY ONLY <3>1, <3>2, <3>3, <4>1
    <3>6. r.fdhandles[h].slot = t /\ r.fdhandles[h].of = st.fdhandles[h].of
      BY <1>1
    <3> HIDE DEF t
    <3>7. r.io[st.card[t].fd] = st.io[st.card[t].fd]
      BY <1>1, <3>5
    <3> QED BY ONLY <3>3, <3>4, <3>6, <3>7
  <2> QED BY <2>1 DEF Follows
<1>7. AskedInv(r)
  <2>1. ASSUME NEW t \in Slots, r.card[t].asked
        PROVE  ~r.card[t].mounted /\ \A h \in Handles : r.fdhandles[h].status => r.fdhandles[h].slot # t
    <3>1. CASE t = s
      <4>1. st.card[s].asked => \A h \in Handles : st.fdhandles[h].status => st.fdhandles[h].slot # s
        BY DEF Ready
      <4> QED BY <1>1, <2>1, <3>1, <4>1
    <3>2. CASE t # s
      <4>1. r.card[t] = st.card[t]
        BY <1>1, <3>2
      <4>2. ~st.card[t].mounted /\ \A h \in Handles : st.fdhandles[h].status => st.fdhandles[h].slot # t
        BY <2>1, <3>2, <4>1 DEF Ready
      <4> QED BY <1>1, <4>1, <4>2
    <3> QED BY <3>1, <3>2
  <2> QED BY <2>1 DEF AskedInv
<1> QED BY <1>1, <1>3, <1>4, <1>5, <1>6, <1>7 DEF SlotsGood

(* The handles that nothing closed yet stay, and are kept.                 *)
LEMMA MarkIs ==
  ASSUME NEW st \in SlotStates, NEW s \in Slots
  PROVE  /\ MarkKept(st, s) \in SlotStates /\ MarkKept(st, s).io = st.io
         /\ MarkKept(st, s).card = [st.card EXCEPT ![s].asked = FALSE]
         /\ \A h \in Handles :
               /\ MarkKept(st, s).fdhandles[h].status <=> st.fdhandles[h].status
               /\ st.fdhandles[h].status =>
                     /\ MarkKept(st, s).fdhandles[h].slot = st.fdhandles[h].slot
                     /\ MarkKept(st, s).fdhandles[h].of = st.fdhandles[h].of
                     /\ MarkKept(st, s).fdhandles[h].kept <=>
                           st.fdhandles[h].kept \/ (st.fdhandles[h].slot = s /\ ~st.card[s].asked)
<1> DEFINE one(h) == IF st.fdhandles[h].status /\ st.fdhandles[h].slot = s /\ ~st.card[s].asked
                       THEN [st.fdhandles[h] EXCEPT !.kept = TRUE] ELSE st.fdhandles[h]
           new == [h \in Handles |-> one(h)]
           cards == [st.card EXCEPT ![s].asked = FALSE]
           r == MarkKept(st, s)
<1>1. r = [[st EXCEPT !.fdhandles = new] EXCEPT !.card = cards]
  <2>1. DOMAIN st.fdhandles = Handles /\ st.fdhandles \in [Handles -> OpenHandles \cup {Closed}]
    BY DEF SlotStates
  <2>2. st = [io |-> st.io, card |-> st.card, fdhandles |-> st.fdhandles]
    BY DEF SlotStates
  <2> QED BY <2>1, <2>2 DEF MarkKept
<1>2. cards \in [Slots -> Cards]
  <2>1. st.card \in [Slots -> Cards]
    BY DEF SlotStates
  <2>2. st.card[s] \in Cards
    BY <2>1
  <2>3. [st.card[s] EXCEPT !.asked = FALSE] \in Cards
    BY ONLY <2>2 DEF Cards
  <2> QED BY ONLY <2>1, <2>3, s \in Slots
<1>3. ASSUME NEW h \in Handles
      PROVE  /\ one(h) \in OpenHandles \cup {Closed}
             /\ one(h).status <=> st.fdhandles[h].status
             /\ st.fdhandles[h].status =>
                   /\ one(h).slot = st.fdhandles[h].slot
                   /\ one(h).of = st.fdhandles[h].of
                   /\ one(h).kept <=> st.fdhandles[h].kept \/ (st.fdhandles[h].slot = s /\ ~st.card[s].asked)
  <2> DEFINE f == st.fdhandles[h]
  <2>1. CASE f = Closed
    BY <2>1 DEF Closed
  <2>2. CASE f \in OpenHandles
    <3> DEFINE k == [f EXCEPT !.kept = TRUE]
    <3>1. k \in OpenHandles /\ k.status = TRUE /\ f.status = TRUE /\ k.slot = f.slot /\ k.of = f.of /\ k.kept = TRUE
      BY <2>2 DEF OpenHandles
    <3>2. f.kept \in BOOLEAN
      BY <2>2 DEF OpenHandles
    <3>3. one(h) = IF f.slot = s /\ ~st.card[s].asked THEN k ELSE f
      BY <3>1
    <3> HIDE DEF one, f, k
    <3>4. CASE f.slot = s /\ ~st.card[s].asked
      BY <3>1, <3>3, <3>4 DEF f
    <3>5. CASE ~(f.slot = s /\ ~st.card[s].asked)
      BY <2>2, <3>1, <3>2, <3>3, <3>5 DEF f
    <3> QED BY <3>4, <3>5
  <2> QED BY <2>1, <2>2, HandleIs
<1>4. new \in [Handles -> OpenHandles \cup {Closed}] /\ \A h \in Handles : new[h] = one(h)
  BY <1>3
<1> HIDE DEF new, cards, r, one
<1>5. r \in SlotStates /\ r.io = st.io /\ r.card = cards /\ r.fdhandles = new
  BY <1>1, <1>2, <1>4 DEF SlotStates
<1> QED BY <1>3, <1>4, <1>5 DEF r, cards

LEMMA AnsweredIs ==
  ASSUME NEW f \in [Slots -> Cards], NEW s \in Slots, NEW g, g = [f EXCEPT ![s].asked = FALSE]
  PROVE  /\ \A t \in Slots : t # s => g[t] = f[t]
         /\ g[s].asked = FALSE /\ g[s].mounted = f[s].mounted /\ g[s].cardform = f[s].cardform
         /\ g[s].fd = f[s].fd /\ g[s].virgin = f[s].virgin /\ g[s].left = f[s].left
         /\ g[s].again = f[s].again /\ g[s].robbed = f[s].robbed
BY DEF Cards

LEMMA PutIn ==
  ASSUME SlotsAssumption, NEW st, NEW s \in Slots, Ready(st, s), st.card[s].mounted, st.card[s].cardform = 1,
         ~st.card[s].virgin, st.card[s].fd \in Descriptors, st.io[st.card[s].fd] \in Images
  PROVE  SlotsGood(MarkKept(st, s))
<1> DEFINE r == MarkKept(st, s)
<1>0. st \in SlotStates /\ st.card \in [Slots -> Cards]
  BY DEF Ready, SlotStates
<1>1. /\ r \in SlotStates /\ r.io = st.io /\ r.card = [st.card EXCEPT ![s].asked = FALSE]
      /\ \A h \in Handles :
            /\ r.fdhandles[h].status <=> st.fdhandles[h].status
            /\ st.fdhandles[h].status =>
                  /\ r.fdhandles[h].slot = st.fdhandles[h].slot
                  /\ r.fdhandles[h].of = st.fdhandles[h].of
                  /\ r.fdhandles[h].kept <=> st.fdhandles[h].kept \/ (st.fdhandles[h].slot = s /\ ~st.card[s].asked)
  BY <1>0, MarkIs
<1> HIDE DEF r
<1>2. /\ \A t \in Slots : t # s => r.card[t] = st.card[t]
      /\ r.card[s].asked = FALSE /\ r.card[s].mounted = st.card[s].mounted /\ r.card[s].cardform = st.card[s].cardform
      /\ r.card[s].fd = st.card[s].fd /\ r.card[s].virgin = st.card[s].virgin /\ r.card[s].left = st.card[s].left
      /\ r.card[s].again = st.card[s].again /\ r.card[s].robbed = st.card[s].robbed
  BY ONLY <1>0, <1>1, s \in Slots, AnsweredIs
<1>3. Mounts(r)
  <2>1. /\ ~st.card[s].left
        /\ \A t \in Slots \ {s} :
              /\ st.card[t].mounted <=> st.card[t].cardform = 1
              /\ st.card[t].mounted => ~st.card[t].virgin /\ st.card[t].fd \in Descriptors /\ st.io[st.card[t].fd] \in Images
              /\ ~st.card[t].mounted => st.card[t].fd = NoFd \/ (st.card[t].virgin /\ st.card[t].fd = 0)
              /\ ~st.card[t].left
    BY DEF Ready
  <2>2. ASSUME NEW t \in Slots
        PROVE  /\ r.card[t].mounted <=> r.card[t].cardform = 1
               /\ r.card[t].mounted => ~r.card[t].virgin /\ r.card[t].fd \in Descriptors /\ r.io[r.card[t].fd] \in Images
               /\ ~r.card[t].mounted => r.card[t].fd = NoFd \/ (r.card[t].virgin /\ r.card[t].fd = 0)
               /\ ~r.card[t].left
    <3>1. CASE t = s
      BY <1>1, <1>2, <2>1, <3>1
    <3>2. CASE t # s
      <4>1. r.card[t] = st.card[t] /\ r.io = st.io
        BY <1>1, <1>2, <3>2
      <4> QED BY <2>1, <3>2, <4>1
    <3> QED BY <3>1, <3>2
  <2> QED BY <2>2 DEF Mounts
<1>4. Apart(r)
  <2>1. /\ \A t \in Slots \ {s} : st.card[t].mounted => st.card[t].fd # st.card[s].fd
        /\ \A t, u \in Slots \ {s} : t # u /\ st.card[t].mounted /\ st.card[u].mounted => st.card[t].fd # st.card[u].fd
    BY DEF Ready
  <2>2. \A t \in Slots : (r.card[t].mounted <=> st.card[t].mounted) /\ r.card[t].fd = st.card[t].fd
    BY <1>2
  <2> QED BY ONLY <2>1, <2>2 DEF Apart
<1>5. Owned(r)
  <2>1. (\A t \in Slots : ~r.card[t].again) <=> (\A t \in Slots : ~st.card[t].again)
    BY <1>2
  <2>2. (\A t \in Slots : ~r.card[t].robbed) <=> (\A t \in Slots : ~st.card[t].robbed)
    BY <1>2
  <2>3. ASSUME \A t \in Slots : ~st.card[t].again, NEW fd \in Descriptors, st.io[fd] \in Images
        PROVE  \E t \in Slots : r.card[t].mounted /\ r.card[t].fd = fd
    <3>1. CASE fd = st.card[s].fd
      BY <1>2, <3>1
    <3>2. CASE fd # st.card[s].fd
      <4>1. \E t \in Slots \ {s} : st.card[t].mounted /\ st.card[t].fd = fd
        BY <2>3, <3>2 DEF Ready
      <4> QED BY <1>2, <4>1
    <3> QED BY <3>1, <3>2
  <2>4. (\A t \in Slots : ~st.card[t].robbed) => st.io[0] = "console"
    BY DEF Ready
  <2> QED BY <1>1, <2>1, <2>2, <2>3, <2>4 DEF Owned
<1>6. Follows(r)
  <2>1. ASSUME NEW h \in Handles, r.fdhandles[h].status, ~r.fdhandles[h].kept,
               r.card[r.fdhandles[h].slot].mounted
        PROVE  r.io[r.card[r.fdhandles[h].slot].fd] = r.fdhandles[h].of
    <3> DEFINE t == st.fdhandles[h].slot
    <3>1. /\ st.fdhandles[h].status /\ t \in Slots /\ r.fdhandles[h].slot = t /\ r.fdhandles[h].of = st.fdhandles[h].of
          /\ ~st.fdhandles[h].kept /\ ~(t = s /\ ~st.card[s].asked)
      BY <1>0, <1>1, <2>1, HandleIs DEF Closed
    <3>2. t # s
      BY <3>1 DEF Ready
    <3> HIDE DEF t
    <3>3. st.card[t].mounted /\ r.card[t] = st.card[t]
      BY <1>2, <2>1, <3>1, <3>2
    <3>4. st.io[st.card[t].fd] = st.fdhandles[h].of
      BY <3>1, <3>2, <3>3 DEF Ready, t
    <3> QED BY <1>1, <3>1, <3>3, <3>4
  <2> QED BY <2>1 DEF Follows
<1>7. AskedInv(r)
  <2>1. ASSUME NEW t \in Slots, r.card[t].asked
        PROVE  ~r.card[t].mounted /\ \A h \in Handles : r.fdhandles[h].status => r.fdhandles[h].slot # t
    <3>1. t # s /\ st.card[t].asked /\ r.card[t] = st.card[t]
      BY <1>2, <2>1
    <3>2. ~st.card[t].mounted /\ \A h \in Handles : st.fdhandles[h].status => st.fdhandles[h].slot # t
      BY <3>1 DEF Ready
    <3> QED BY <1>1, <3>1, <3>2
  <2> QED BY <2>1 DEF AskedInv
<1> QED BY <1>1, <1>3, <1>4, <1>5, <1>6, <1>7 DEF SlotsGood, r

NoneRobbed(st) == \A s \in Slots : ~st.card[s].robbed

LEMMA ReadySame ==
  ASSUME SlotsAssumption, NEW a, SlotsGood(a), NoneRobbed(a), NEW s \in Slots, NEW b \in SlotStates,
         b.io = a.io, b.fdhandles = a.fdhandles, \A t \in Slots : t # s => b.card[t] = a.card[t],
         b.card[s].fd = a.card[s].fd, b.card[s].again <=> a.card[s].again, ~b.card[s].left,
         b.card[s].asked => a.card[s].asked, a.card[s].fd = 0 => b.card[s].robbed
  PROVE  Ready(b, s)
<1>1. a.io[0] = "console" /\ "console" \notin Images /\ NoFd \notin Descriptors
  BY DEF SlotsGood, Owned, NoneRobbed, SlotsAssumption, NoFd
<1>2. ASSUME NEW t \in Slots, t # s, a.card[t].mounted
      PROVE  /\ ~a.card[t].virgin /\ a.card[t].fd \in Descriptors /\ a.io[a.card[t].fd] \in Images
             /\ a.card[t].fd # a.card[s].fd
  <2>1. ~a.card[t].virgin /\ a.card[t].fd \in Descriptors /\ a.io[a.card[t].fd] \in Images
    BY <1>2 DEF SlotsGood, Mounts
  <2>2. CASE a.card[s].mounted
    BY <1>2, <2>1, <2>2 DEF SlotsGood, Apart
  <2>3. CASE ~a.card[s].mounted
    BY <1>1, <2>1, <2>3 DEF SlotsGood, Mounts
  <2> QED BY <2>1, <2>2, <2>3
<1>3. \A t \in Slots \ {s} :
        /\ b.card[t].mounted <=> b.card[t].cardform = 1
        /\ b.card[t].mounted => /\ ~b.card[t].virgin /\ b.card[t].fd \in Descriptors
                                /\ b.io[b.card[t].fd] \in Images /\ b.card[t].fd # b.card[s].fd
        /\ ~b.card[t].mounted => b.card[t].fd = NoFd \/ (b.card[t].virgin /\ b.card[t].fd = 0)
        /\ ~b.card[t].left
  BY <1>2 DEF SlotsGood, Mounts
<1>4. \A t, u \in Slots \ {s} : t # u /\ b.card[t].mounted /\ b.card[u].mounted => b.card[t].fd # b.card[u].fd
  BY DEF SlotsGood, Apart
<1>5. ASSUME \A t \in Slots : ~b.card[t].again, NEW fd \in Descriptors, b.io[fd] \in Images
      PROVE  fd = b.card[s].fd \/ \E t \in Slots \ {s} : b.card[t].mounted /\ b.card[t].fd = fd
  <2>1. \A t \in Slots : ~a.card[t].again
    BY <1>5
  <2>2. \E t \in Slots : a.card[t].mounted /\ a.card[t].fd = fd
    BY <1>5, <2>1 DEF SlotsGood, Owned
  <2> QED BY <2>2
<1>6. (\A t \in Slots : ~b.card[t].robbed) => b.io[0] = "console" /\ b.card[s].fd # 0
  BY <1>1
<1>7. ASSUME NEW h \in Handles, b.fdhandles[h].status, ~b.fdhandles[h].kept, b.fdhandles[h].slot # s
      PROVE  LET t == b.fdhandles[h].slot IN b.card[t].mounted => b.io[b.card[t].fd] = b.fdhandles[h].of
  <2>1. b.fdhandles[h].slot \in Slots
    BY <1>7, HandleIs DEF Closed
  <2>2. Follows(a)
    BY DEF SlotsGood
  <2> DEFINE t == b.fdhandles[h].slot
  <2>3. b.card[t] = a.card[t] /\ a.fdhandles[h] = b.fdhandles[h]
    BY <1>7, <2>1
  <2>4. a.card[t].mounted => a.io[a.card[t].fd] = b.fdhandles[h].of
    BY <1>7, <2>2, <2>3 DEF Follows
  <2> QED BY <2>3, <2>4
<1>8. \A t \in Slots \ {s} : b.card[t].asked =>
          ~b.card[t].mounted /\ \A h \in Handles : b.fdhandles[h].status => b.fdhandles[h].slot # t
  BY DEF SlotsGood, AskedInv
<1>9. b.card[s].asked => \A h \in Handles : b.fdhandles[h].status => b.fdhandles[h].slot # s
  BY DEF SlotsGood, AskedInv
<1> QED BY <1>3, <1>4, <1>5, <1>6, <1>7, <1>8, <1>9 DEF Ready

LEMMA ReadyOpened ==
  ASSUME SlotsAssumption, NEW a, SlotsGood(a), NoneRobbed(a), NEW s \in Slots, NEW b \in SlotStates,
         NEW f \in Descriptors, a.io[f] = Nothing, \A fd \in Descriptors : fd # f => b.io[fd] = a.io[fd],
         b.fdhandles = a.fdhandles, \A t \in Slots : t # s => b.card[t] = a.card[t],
         b.card[s].fd = f, b.card[s].again <=> a.card[s].again \/ a.card[s].mounted, ~b.card[s].left,
         b.card[s].asked => a.card[s].asked
  PROVE  Ready(b, s)
<1>1. a.io[0] = "console" /\ Nothing \notin Images /\ f # 0 /\ 0 \in Descriptors
  BY DEF SlotsGood, Owned, NoneRobbed, SlotsAssumption, Nothing
<1>2. ASSUME NEW t \in Slots, t # s, a.card[t].mounted
      PROVE  /\ ~a.card[t].virgin /\ a.card[t].fd \in Descriptors /\ b.io[a.card[t].fd] = a.io[a.card[t].fd]
             /\ a.io[a.card[t].fd] \in Images /\ a.card[t].fd # f
  BY <1>1, <1>2 DEF SlotsGood, Mounts
<1>3. \A t \in Slots \ {s} :
        /\ b.card[t].mounted <=> b.card[t].cardform = 1
        /\ b.card[t].mounted => /\ ~b.card[t].virgin /\ b.card[t].fd \in Descriptors
                                /\ b.io[b.card[t].fd] \in Images /\ b.card[t].fd # b.card[s].fd
        /\ ~b.card[t].mounted => b.card[t].fd = NoFd \/ (b.card[t].virgin /\ b.card[t].fd = 0)
        /\ ~b.card[t].left
  BY <1>2 DEF SlotsGood, Mounts
<1>4. \A t, u \in Slots \ {s} : t # u /\ b.card[t].mounted /\ b.card[u].mounted => b.card[t].fd # b.card[u].fd
  BY DEF SlotsGood, Apart
<1>5. ASSUME \A t \in Slots : ~b.card[t].again, NEW fd \in Descriptors, b.io[fd] \in Images, fd # f
      PROVE  \E t \in Slots \ {s} : b.card[t].mounted /\ b.card[t].fd = fd
  <2>1. (\A t \in Slots : ~a.card[t].again) /\ ~a.card[s].mounted
    BY <1>5
  <2>2. \E t \in Slots : a.card[t].mounted /\ a.card[t].fd = fd
    BY <1>5, <2>1 DEF SlotsGood, Owned
  <2> QED BY <2>1, <2>2
<1>6. b.io[0] = "console" /\ b.card[s].fd # 0
  BY <1>1
<1>7. ASSUME NEW h \in Handles, b.fdhandles[h].status, ~b.fdhandles[h].kept, b.fdhandles[h].slot # s
      PROVE  LET t == b.fdhandles[h].slot IN b.card[t].mounted => b.io[b.card[t].fd] = b.fdhandles[h].of
  <2>1. b.fdhandles[h].slot \in Slots
    BY <1>7, HandleIs DEF Closed
  <2>2. Follows(a)
    BY DEF SlotsGood
  <2> DEFINE t == b.fdhandles[h].slot
  <2>3. b.card[t] = a.card[t] /\ a.fdhandles[h] = b.fdhandles[h]
    BY <1>7, <2>1
  <2>4. a.card[t].mounted => a.io[a.card[t].fd] = b.fdhandles[h].of
    BY <1>7, <2>2, <2>3 DEF Follows
  <2>5. a.card[t].mounted => b.io[a.card[t].fd] = a.io[a.card[t].fd]
    BY <1>2, <1>7, <2>1
  <2> QED BY <2>3, <2>4, <2>5
<1>8. \A t \in Slots \ {s} : b.card[t].asked =>
          ~b.card[t].mounted /\ \A h \in Handles : b.fdhandles[h].status => b.fdhandles[h].slot # t
  BY DEF SlotsGood, AskedInv
<1>9. b.card[s].asked => \A h \in Handles : b.fdhandles[h].status => b.fdhandles[h].slot # s
  BY DEF SlotsGood, AskedInv
<1> QED BY <1>3, <1>4, <1>5, <1>6, <1>7, <1>8, <1>9 DEF Ready

LEMMA LowestIs ==
  ASSUME NEW S \in SUBSET Nat, S # {}
  PROVE  Lowest(S) \in S
<1>1. PICK i \in S : \A j \in S : <<j, i>> \notin OpToRel(<, Nat)
  BY NatLessThanWellFounded, WFMin, Zenon
<1>2. ASSUME NEW j \in S
      PROVE  i <= j
  <2>1. i \in Nat /\ j \in Nat
    BY <1>1, <1>2
  <2>2. ~(j < i)
    BY <1>1, <1>2, <2>1 DEF OpToRel
  <2> QED BY <2>1, <2>2
<1> QED BY <1>1, <1>2 DEF Lowest

LEMMA OpenedIs ==
  ASSUME SlotsAssumption, NEW st \in SlotStates, FreeFds(st.io) # {}, NEW what \in Uses
  PROVE  LET f == Lowest(FreeFds(st.io)) IN
           /\ f \in Descriptors /\ st.io[f] = Nothing
           /\ Opened(st, what) \in SlotStates /\ Opened(st, what).card = st.card
           /\ Opened(st, what).fdhandles = st.fdhandles
           /\ Opened(st, what).io[f] = what /\ \A fd \in Descriptors : fd # f => Opened(st, what).io[fd] = st.io[fd]
<1> DEFINE f == Lowest(FreeFds(st.io))
<1>1. f \in FreeFds(st.io)
  BY LowestIs DEF FreeFds, SlotsAssumption
<1>2. f \in Descriptors /\ st.io[f] = Nothing
  BY <1>1 DEF FreeFds
<1>3. Opened(st, what) = [st EXCEPT !.io[f] = what]
  BY DEF Opened
<1> HIDE DEF f
<1>4. st.io \in [Descriptors -> Uses]
  BY DEF SlotStates
<1>5. /\ Opened(st, what) \in SlotStates /\ Opened(st, what).card = st.card
      /\ Opened(st, what).fdhandles = st.fdhandles
      /\ Opened(st, what).io = [st.io EXCEPT ![f] = what]
  BY <1>2, <1>3 DEF SlotStates
<1>6. Opened(st, what).io[f] = what /\ \A fd \in Descriptors : fd # f => Opened(st, what).io[fd] = st.io[fd]
  BY <1>2, <1>4, <1>5
<1> QED BY <1>2, <1>5, <1>6 DEF f
-----------------------------------------------------------------------------
(* The handles and the cache.                                              *)
LEMMA CloseKeeps ==
  ASSUME NEW st \in SlotStates, NEW h \in Handles
  PROVE  Keeps(st, [st EXCEPT !.fdhandles[h] = Closed])
<1> DEFINE new == [st.fdhandles EXCEPT ![h] = Closed]
           r == [st EXCEPT !.fdhandles[h] = Closed]
<1>1. st.fdhandles \in [Handles -> OpenHandles \cup {Closed}]
  BY DEF SlotStates
<1>2. new \in [Handles -> OpenHandles \cup {Closed}]
  BY <1>1
<1>3. \A k \in Handles : SameHandle(st.fdhandles[k], new[k])
  BY <1>1 DEF SameHandle, Closed
<1>4. r = [st EXCEPT !.fdhandles = new]
  OBVIOUS
<1> HIDE DEF new, r
<1>5. r \in SlotStates /\ r.io = st.io /\ r.card = st.card /\ r.fdhandles = new
  BY <1>2, <1>4 DEF SlotStates
<1> QED BY <1>3, <1>5 DEF Keeps, SameSlot, r

LEMMA UnwrittenKeeps ==
  ASSUME NEW st \in SlotStates, NEW s \in Slots, NEW u \in SUBSET Handles
  PROVE  /\ Keeps(st, [st EXCEPT !.card[s].unwritten = u])
         /\ [st EXCEPT !.card[s].unwritten = u].card[s].unwritten = u
         /\ [st EXCEPT !.card[s].unwritten = u].fdhandles = st.fdhandles
<1> DEFINE cards == [st.card EXCEPT ![s].unwritten = u]
           r == [st EXCEPT !.card[s].unwritten = u]
<1>1. st.card \in [Slots -> Cards]
  BY DEF SlotStates
<1>2. /\ cards \in [Slots -> Cards] /\ cards[s].unwritten = u
      /\ \A t \in Slots : SameSlot(st.card[t], cards[t]) /\ cards[t].asked = st.card[t].asked
  BY <1>1 DEF Cards, SameSlot
<1>3. r = [st EXCEPT !.card = cards]
  OBVIOUS
<1> HIDE DEF cards, r
<1>4. r \in SlotStates /\ r.io = st.io /\ r.card = cards /\ r.fdhandles = st.fdhandles
  BY <1>2, <1>3 DEF SlotStates
<1> QED BY <1>2, <1>4 DEF Keeps, SameHandle, r

LEMMA UnwrittenIs ==
  ASSUME NEW st \in SlotStates, NEW s \in Slots
  PROVE  st.card[s].unwritten \in SUBSET Handles
BY DEF SlotStates, Cards

LEMMA WriteKeeps ==
  ASSUME NEW st \in SlotStates, NEW h \in Handles, st.fdhandles[h].status, NEW s \in Slots
  PROVE  Keeps(st, [st EXCEPT !.fdhandles[h].begun = TRUE, !.card[s].unwritten = @ \cup {h}])
<1> DEFINE new == [st.fdhandles EXCEPT ![h].begun = TRUE]
           mid == [st EXCEPT !.fdhandles = new]
           u == st.card[s].unwritten \cup {h}
           r == [st EXCEPT !.fdhandles[h].begun = TRUE, !.card[s].unwritten = @ \cup {h}]
<1>1. st.fdhandles \in [Handles -> OpenHandles \cup {Closed}] /\ st.fdhandles[h] \in OpenHandles
  BY HandleIs DEF SlotStates, Closed
<1>2. /\ [st.fdhandles[h] EXCEPT !.begun = TRUE] \in OpenHandles
      /\ SameHandle(st.fdhandles[h], [st.fdhandles[h] EXCEPT !.begun = TRUE])
  BY <1>1 DEF OpenHandles, SameHandle
<1>3. /\ new \in [Handles -> OpenHandles \cup {Closed}]
      /\ \A k \in Handles : SameHandle(st.fdhandles[k], new[k])
  BY <1>1, <1>2 DEF SameHandle
<1>4. r = [mid EXCEPT !.card[s].unwritten = u]
  BY DEF SlotStates
<1> HIDE DEF new
<1>5. mid \in SlotStates /\ mid.io = st.io /\ mid.card = st.card /\ mid.fdhandles = new
  BY <1>3 DEF SlotStates
<1>6. Keeps(st, mid)
  BY <1>3, <1>5 DEF Keeps, SameSlot
<1>7. u \in SUBSET Handles
  BY UnwrittenIs
<1> HIDE DEF mid, r, u
<1>8. Keeps(mid, r)
  BY <1>4, <1>5, <1>7, UnwrittenKeeps
<1> QED BY <1>6, <1>8, KeepsTwo DEF r

LEMMA FlushedIs ==
  ASSUME NEW st \in SlotStates, NEW s \in Slots, NEW r
  PROVE  Keeps(st, Flushed(st, s, r)) /\ (r = "ok" => Flushed(st, s, r).card[s].unwritten = {})
BY ClearKeeps, ForgetIs, KeepsSelf DEF Flushed

(* Whatever fails in a close, only one that ends well says so, and its     *)
(* last flush has written everything.                                      *)
LEMMA CloseIs ==
  ASSUME NEW st \in SlotStates, NEW h \in Handles, fdhandles[h].slot \in Slots, NEW r \in Endings
  PROVE  /\ Keeps(st, McClose(h, st, r).st)
         /\ McClose(h, st, r).ok => h \notin McClose(h, st, r).st.card[fdhandles[h].slot].unwritten
<1> DEFINE s == fdhandles[h].slot
           data == Flushed(st, s, r[1])
           entry == IF ~fdhandles[h].begun THEN data
                    ELSE IF r[2] = "bad" THEN Forget(data, s)
                    ELSE [data EXCEPT !.card[s].unwritten = @ \cup {h}]
           last == Flushed(entry, s, r[Len(r)])
           c == McClose(h, st, r)
<1>1. c = IF Len(r) = 1 THEN [st |-> data, ok |-> FALSE]
          ELSE IF Len(r) = 2 /\ fdhandles[h].begun THEN [st |-> entry, ok |-> FALSE]
          ELSE [st |-> last, ok |-> r[Len(r)] = "ok"]
  BY DEF McClose
<1>2. Keeps(st, data) /\ data \in SlotStates
  BY FlushedIs DEF Keeps
<1> HIDE DEF data, c
<1>3. Keeps(data, entry) /\ entry \in SlotStates
  <2>1. CASE ~fdhandles[h].begun
    BY <1>2, <2>1, KeepsSelf
  <2>2. CASE fdhandles[h].begun /\ r[2] = "bad"
    <3>1. entry = Forget(data, s) /\ s \in Slots
      BY <2>2
    <3> HIDE DEF entry, s
    <3>2. Keeps(data, entry)
      BY ONLY <1>2, <3>1, ForgetIs
    <3> QED BY <3>2 DEF Keeps
  <2>3. CASE fdhandles[h].begun /\ r[2] # "bad"
    <3> DEFINE u == data.card[s].unwritten \cup {h}
    <3>1. u \in SUBSET Handles /\ entry = [data EXCEPT !.card[s].unwritten = u]
      BY <1>2, <2>3, UnwrittenIs
    <3> HIDE DEF entry, u, s
    <3>2. s \in Slots
      BY DEF s
    <3>3. Keeps(data, entry)
      BY <1>2, <3>1, <3>2, UnwrittenKeeps
    <3> QED BY <3>3 DEF Keeps
  <2> QED BY <2>1, <2>2, <2>3
<1> HIDE DEF entry
<1>4. Keeps(entry, last) /\ (r[Len(r)] = "ok" => last.card[s].unwritten = {})
  BY <1>3, FlushedIs
<1> HIDE DEF last
<1>5. Keeps(st, entry) /\ Keeps(st, last)
  BY <1>2, <1>3, <1>4, KeepsTwo
<1>6. CASE Len(r) = 1
  BY <1>1, <1>2, <1>6 DEF c
<1>7. CASE Len(r) # 1 /\ Len(r) = 2 /\ fdhandles[h].begun
  BY <1>1, <1>5, <1>7 DEF c
<1>8. CASE Len(r) # 1 /\ ~(Len(r) = 2 /\ fdhandles[h].begun)
  <2>1. c = [st |-> last, ok |-> r[Len(r)] = "ok"]
    BY <1>1, <1>8
  <2>2. c.st = last /\ (c.ok <=> r[Len(r)] = "ok")
    BY ONLY <2>1, Zenon
  <2>3. Keeps(st, c.st) /\ (c.ok => h \notin c.st.card[s].unwritten)
    BY <1>4, <1>5, <2>2
  <2> QED BY <2>3 DEF c
<1> QED BY <1>6, <1>7, <1>8
-----------------------------------------------------------------------------
SlotsInv == SlotsGood(Here)

LEMMA HereIs == Here.io = io /\ Here.card = card /\ Here.fdhandles = fdhandles
BY DEF Here

LEMMA Landed ==
  ASSUME NEW st, SlotsGood(st), Becomes(st)
  PROVE  SlotsInv'
<1>1. Here' = st
  BY DEF SlotsGood, SlotStates, Becomes, Here
<1>2. SlotsGood(Here')
  BY <1>1
<1> QED BY <1>2 DEF SlotsInv, SlotsGood, Mounts, Apart, Owned, Follows, AskedInv

LEMMA Kept ==
  ASSUME SlotsInv, NEW st, Keeps(Here, st), Becomes(st)
  PROVE  SlotsInv'
BY KeepsGood, Landed DEF SlotsInv

LEMMA PathSteps ==
  ASSUME SlotsInv, NEW s \in Slots, Flushing(s) \/ mc_getstat(s)
  PROVE  SlotsInv'
<1> DEFINE d == McDetectCard(Here, s)
<1>1. Here \in SlotStates
  BY DEF SlotsInv, SlotsGood
<1>2. (d.ok => d.st = Here) /\ (~d.ok => Keeps(Here, d.st))
  BY <1>1, DetectIs
<1>3. \/ ~d.ok /\ Becomes(d.st)
      \/ d.ok /\ Becomes(Forget(d.st, s))
      \/ d.ok /\ Becomes(mcman_clearcache(Here, s))
  BY DEF Flushing, ByPath, mc_getstat
<1> HIDE DEF d
<1>4. CASE ~d.ok /\ Becomes(d.st)
  BY <1>2, <1>4, Kept
<1>5. CASE d.ok /\ Becomes(Forget(d.st, s))
  BY <1>1, <1>2, <1>5, ForgetIs, Kept
<1>6. CASE d.ok /\ Becomes(mcman_clearcache(Here, s))
  BY <1>1, <1>6, ClearKeeps, Kept
<1> QED BY <1>3, <1>4, <1>5, <1>6

LEMMA OpenStep ==
  ASSUME SlotsAssumption, SlotsInv, NEW s \in Slots, mc_open(s)
  PROVE  SlotsInv'
<1> DEFINE d == McDetectCard(Here, s)
           free == {h \in Handles : ~fdhandles[h].status}
           k == Lowest(free)
           fresh == [status |-> TRUE, slot |-> s, of |-> io[card[s].fd], begun |-> FALSE, kept |-> FALSE]
           new == [Here.fdhandles EXCEPT ![k] = fresh]
           b == [Here EXCEPT !.fdhandles = new]
<1>1. Here \in SlotStates /\ Mounts(Here) /\ Apart(Here) /\ Owned(Here) /\ Follows(Here) /\ AskedInv(Here)
  BY DEF SlotsInv, SlotsGood
<1>2. CASE ByPath(s)
  BY <1>2, PathSteps DEF mc_getstat
<1>3. CASE d.ok /\ free # {} /\ Becomes([d.st EXCEPT !.fdhandles[k] = fresh])
  <2>1. d.st = Here /\ Here.card[s].cardform = 1
    BY <1>1, <1>3, DetectIs
  <2>2. k \in free
    BY <1>3, LowestIs DEF SlotsAssumption
  <2>3. k \in Handles /\ ~Here.fdhandles[k].status
    BY <2>2, HereIs
  <2>4. Here.card[s].mounted /\ io[card[s].fd] = Here.io[Here.card[s].fd] /\ Here.io[Here.card[s].fd] \in Images
    BY <1>1, <2>1, HereIs DEF Mounts
  <2>5. fresh \in OpenHandles
    BY <2>4 DEF OpenHandles
  <2>6. fresh.slot = s /\ fresh.of = Here.io[Here.card[s].fd] /\ fresh.status = TRUE
    BY <2>4
  <2>7. Becomes(b)
    BY <1>3, <2>1
  <2> HIDE DEF d, k, fresh
  <2>8. Here.fdhandles \in [Handles -> OpenHandles \cup {Closed}]
    BY <1>1 DEF SlotStates
  <2>9. new \in [Handles -> OpenHandles \cup {Closed}] /\ new[k] = fresh /\ \A h \in Handles : h # k => new[h] = Here.fdhandles[h]
    BY <2>3, <2>5, <2>8
  <2>10. b = [Here EXCEPT !.fdhandles = new]
    OBVIOUS
  <2> HIDE DEF new, b
  <2>11. b \in SlotStates /\ b.io = Here.io /\ b.card = Here.card /\ b.fdhandles = new
    BY <1>1, <2>9, <2>10 DEF SlotStates
  <2>12. Mounts(b) /\ Apart(b) /\ Owned(b)
    BY <1>1, <2>11 DEF Mounts, Apart, Owned
  <2>13. Follows(b)
    <3>1. ASSUME NEW h \in Handles, new[h].status, ~new[h].kept, Here.card[new[h].slot].mounted
          PROVE  Here.io[Here.card[new[h].slot].fd] = new[h].of
      <4>1. CASE h = k
        BY <2>6, <2>9, <4>1
      <4>2. CASE h # k
        BY <1>1, <2>9, <3>1, <4>2 DEF Follows
      <4> QED BY <4>1, <4>2
    <3> QED BY <2>11, <3>1 DEF Follows
  <2>14. AskedInv(b)
    <3>1. ASSUME NEW t \in Slots, Here.card[t].asked
          PROVE  ~Here.card[t].mounted /\ \A h \in Handles : new[h].status => new[h].slot # t
      <4>1. ~Here.card[t].mounted /\ \A h \in Handles : Here.fdhandles[h].status => Here.fdhandles[h].slot # t
        BY <1>1, <3>1 DEF AskedInv
      <4>2. t # s
        BY <2>4, <4>1
      <4> QED BY <2>6, <2>9, <4>1, <4>2
    <3> QED BY <2>11, <3>1 DEF AskedInv
  <2>15. SlotsGood(b)
    BY <2>11, <2>12, <2>13, <2>14 DEF SlotsGood
  <2> QED BY <2>7, <2>15, Landed
<1> QED BY <1>2, <1>3 DEF mc_open

LEMMA HandleSteps ==
  ASSUME SlotsInv, NEW h \in Handles, mc_read(h) \/ mc_dread(h) \/ mc_lseek(h) \/ mc_write(h)
  PROVE  SlotsInv'
<1> DEFINE s == fdhandles[h].slot
           d == McDetectCard(Here, s)
           done == [Here EXCEPT !.fdhandles[h].begun = TRUE, !.card[s].unwritten = @ \cup {h}]
<1>1. Here \in SlotStates
  BY DEF SlotsInv, SlotsGood
<1>2. fdhandles[h].status
  BY DEF mc_read, mc_dread, mc_lseek, mc_write, ByHandle
<1>3. s \in Slots
  BY <1>1, <1>2, HandleIs, HereIs DEF Closed
<1>4. \/ ~d.ok /\ Becomes(d.st)
      \/ d.ok /\ Becomes(Here)
      \/ d.ok /\ Becomes(done)
      \/ d.ok /\ Becomes([d.st EXCEPT !.fdhandles[h] = Closed])
      \/ d.ok /\ Becomes(Forget(d.st, s))
  BY DEF mc_read, mc_dread, mc_lseek, mc_write, ByHandle
<1>5. (d.ok => d.st = Here) /\ (~d.ok => Keeps(Here, d.st))
  BY <1>1, <1>3, DetectIs
<1>6. Keeps(Here, done)
  BY <1>1, <1>2, <1>3, WriteKeeps, HereIs
<1>7. Keeps(Here, [Here EXCEPT !.fdhandles[h] = Closed])
  BY <1>1, CloseKeeps
<1>8. Keeps(Here, Forget(Here, s)) /\ Keeps(Here, Here)
  BY <1>1, <1>3, ForgetIs, KeepsSelf
<1>9. \E st : Keeps(Here, st) /\ Becomes(st)
  <2> HIDE DEF d, s, done
  <2> QED BY <1>4, <1>5, <1>6, <1>7, <1>8
<1> QED BY <1>9, Kept

LEMMA CloseStep ==
  ASSUME SlotsInv, NEW h \in Handles, mc_close(h)
  PROVE  SlotsInv'
<1> DEFINE s == fdhandles[h].slot
           shut == [Here EXCEPT !.fdhandles[h] = Closed]
           d == McDetectCard(shut, s)
           c(r) == McClose(h, d.st, r)
           end(r) == IF c(r).ok /\ h \in c(r).st.card[s].unwritten
                       THEN [c(r).st EXCEPT !.card[s].left = TRUE]
                       ELSE [c(r).st EXCEPT !.card[s].unwritten = @ \ {h}]
<1>1. Here \in SlotStates
  BY DEF SlotsInv, SlotsGood
<1>2. fdhandles[h].status
  BY DEF mc_close
<1>3. s \in Slots
  BY <1>1, <1>2, HandleIs, HereIs DEF Closed
<1>4. Keeps(Here, shut) /\ shut \in SlotStates
  BY <1>1, CloseKeeps DEF Keeps
<1>5. IF ~d.ok THEN Becomes(d.st) ELSE \E r \in Endings : Becomes(end(r))
  BY DEF mc_close
<1> HIDE DEF shut
<1>6. (d.ok => d.st = shut) /\ (~d.ok => Keeps(shut, d.st))
  BY <1>3, <1>4, DetectIs
<1>7. CASE ~d.ok
  BY <1>4, <1>5, <1>6, <1>7, KeepsTwo, Kept
<1>8. CASE d.ok
  <2>1. PICK r \in Endings : Becomes(end(r))
    BY <1>5, <1>8
  <2> DEFINE e == c(r).st
             u == e.card[s].unwritten \ {h}
  <2>2. Keeps(shut, e) /\ ~(c(r).ok /\ h \in e.card[s].unwritten)
    BY <1>3, <1>4, <1>6, <1>8, CloseIs
  <2>3. e \in SlotStates
    BY <2>2 DEF Keeps
  <2>4. end(r) = [e EXCEPT !.card[s].unwritten = u]
    BY <2>2
  <2>5. u \in SUBSET Handles
    BY <1>3, <2>3, UnwrittenIs
  <2> HIDE DEF d, c, end, s, e, u
  <2>6. Keeps(e, end(r))
    BY <1>3, <2>3, <2>4, <2>5, UnwrittenKeeps
  <2>7. Keeps(Here, end(r))
    BY <1>4, <2>2, <2>6, KeepsTwo
  <2> QED BY <2>1, <2>7, Kept
<1> QED BY <1>7, <1>8
-----------------------------------------------------------------------------
(* The other programs touch no image.                                      *)
LEMMA OtherFile ==
  ASSUME SlotsAssumption, NEW a, SlotsGood(a), NEW b \in SlotStates, NEW f \in Descriptors,
         a.io[f] \in {Nothing, "file"}, b.io[f] \in {Nothing, "file"},
         \A fd \in Descriptors : fd # f => b.io[fd] = a.io[fd], b.card = a.card, b.fdhandles = a.fdhandles
  PROVE  SlotsGood(b)
<1>1. a.io[f] \notin Images /\ b.io[f] \notin Images /\ a.io[f] # "console" /\ 0 \in Descriptors
  BY DEF SlotsAssumption, Nothing
<1>2. ASSUME NEW s \in Slots, a.card[s].mounted
      PROVE  a.card[s].fd \in Descriptors /\ a.io[a.card[s].fd] \in Images /\ b.io[a.card[s].fd] = a.io[a.card[s].fd]
  BY <1>1, <1>2 DEF SlotsGood, Mounts
<1>3. Mounts(b)
  BY <1>2 DEF SlotsGood, Mounts
<1>4. Apart(b)
  BY DEF SlotsGood, Apart
<1>5. Owned(b)
  BY <1>1 DEF SlotsGood, Owned
<1>6. Follows(b)
  <2>1. \A h \in Handles : b.fdhandles[h].status => b.fdhandles[h].slot \in Slots
    BY HandleIs DEF Closed
  <2>2. Follows(a)
    BY DEF SlotsGood
  <2>3. ASSUME NEW h \in Handles, b.fdhandles[h].status, ~b.fdhandles[h].kept,
               b.card[b.fdhandles[h].slot].mounted
        PROVE  b.io[b.card[b.fdhandles[h].slot].fd] = b.fdhandles[h].of
    <3> DEFINE s == b.fdhandles[h].slot
    <3>1. s \in Slots /\ a.card[s].mounted
      BY <2>1, <2>3
    <3>2. a.io[a.card[s].fd] = b.fdhandles[h].of
      BY <2>2, <2>3, <3>1 DEF Follows
    <3> QED BY <1>2, <3>1, <3>2
  <2> QED BY <2>3 DEF Follows
<1>7. AskedInv(b)
  BY DEF SlotsGood, AskedInv
<1> QED BY <1>3, <1>4, <1>5, <1>6, <1>7 DEF SlotsGood

LEMMA OtherSteps ==
  ASSUME SlotsAssumption, SlotsInv, Others
  PROVE  SlotsInv'
<1>1. Here \in SlotStates /\ SlotsGood(Here) /\ Nothing \in Uses /\ "file" \in Uses
  BY DEF SlotsInv, SlotsGood, Uses, Nothing
<1>2. CASE FreeFds(io) # {} /\ Becomes(Opened(Here, "file"))
  <2> DEFINE f == Lowest(FreeFds(Here.io))
             b == Opened(Here, "file")
  <2>1. /\ f \in Descriptors /\ Here.io[f] = Nothing /\ b \in SlotStates /\ b.card = Here.card
        /\ b.fdhandles = Here.fdhandles /\ b.io[f] = "file"
        /\ \A fd \in Descriptors : fd # f => b.io[fd] = Here.io[fd]
    BY <1>1, <1>2, HereIs, OpenedIs
  <2> HIDE DEF f, b
  <2>2. SlotsGood(b)
    BY <1>1, <2>1, OtherFile
  <2> QED BY <1>2, <2>2, Landed DEF b
<1>3. ASSUME NEW fd \in Descriptors, io[fd] = "file", Becomes([Here EXCEPT !.io[fd] = Nothing])
      PROVE  SlotsInv'
  <2> DEFINE b == [Here EXCEPT !.io[fd] = Nothing]
  <2>1. Here.io \in [Descriptors -> Uses] /\ Here.io[fd] = "file"
    BY <1>1, <1>3, HereIs DEF SlotStates
  <2>2. b = [Here EXCEPT !.io = [Here.io EXCEPT ![fd] = Nothing]]
    OBVIOUS
  <2> HIDE DEF b
  <2>3. /\ b \in SlotStates /\ b.card = Here.card /\ b.fdhandles = Here.fdhandles
        /\ b.io = [Here.io EXCEPT ![fd] = Nothing]
    BY <1>1, <2>1, <2>2 DEF SlotStates
  <2>4. b.io[fd] = Nothing /\ \A e \in Descriptors : e # fd => b.io[e] = Here.io[e]
    BY <2>1, <2>3
  <2>5. SlotsGood(b)
    BY <1>1, <2>1, <2>3, <2>4, OtherFile
  <2> QED BY <1>3, <2>5, Landed DEF b
<1> QED BY <1>2, <1>3 DEF Others
-----------------------------------------------------------------------------
(* What a call writes into its slot.                                       *)
LEMMA CardIs ==
  ASSUME NEW st \in SlotStates, NEW s \in Slots, NEW cards \in [Slots -> Cards]
  PROVE  LET b == [st EXCEPT !.card = cards] IN
         b \in SlotStates /\ b.io = st.io /\ b.fdhandles = st.fdhandles /\ b.card = cards
BY DEF SlotStates

LEMMA FirstIs ==
  ASSUME SlotsAssumption, SlotsInv, NoneRobbed(Here), NEW s \in Slots, Here.card[s].fd = 0
  PROVE  ~card[s].mounted /\ card[s].virgin
<1>1. Here.io[0] = "console" /\ "console" \notin Images /\ 0 # NoFd
  BY DEF SlotsInv, SlotsGood, Owned, NoneRobbed, SlotsAssumption, NoFd
<1>2. ~Here.card[s].mounted /\ Here.card[s].virgin
  BY <1>1 DEF SlotsInv, SlotsGood, Mounts
<1> QED BY <1>2, HereIs

LEMMA UmountStep ==
  ASSUME SlotsAssumption, SlotsInv, NoneRobbed(Here), NEW s \in Slots, mc_umount(s)
  PROVE  SlotsInv'
<1> DEFINE b == [Here EXCEPT !.card[s].asked = FALSE]
           cards == [Here.card EXCEPT ![s].asked = FALSE]
<1>1. Here \in SlotStates /\ SlotsGood(Here) /\ Mounts(Here) /\ Here.card \in [Slots -> Cards]
  BY DEF SlotsInv, SlotsGood, SlotStates
<1>2. cards \in [Slots -> Cards]
  <2>1. Here.card[s] \in Cards
    BY <1>1
  <2>2. [Here.card[s] EXCEPT !.asked = FALSE] \in Cards
    BY ONLY <2>1 DEF Cards
  <2> QED BY ONLY <1>1, <2>2, s \in Slots
<1>3. /\ \A t \in Slots : t # s => cards[t] = Here.card[t]
      /\ cards[s].fd = Here.card[s].fd /\ cards[s].again = Here.card[s].again
      /\ cards[s].left = Here.card[s].left /\ cards[s].asked = FALSE
  BY <1>1 DEF Cards
<1>4. b = [Here EXCEPT !.card = cards]
  OBVIOUS
<1>5. PICK r \in clear_slot(b, s) : Becomes(r)
  BY DEF mc_umount
<1>6. Here.card[s].fd # 0 /\ ~Here.card[s].left
  BY <1>1, FirstIs DEF mc_umount, Mounts
<1> HIDE DEF b, cards
<1>7. b \in SlotStates /\ b.io = Here.io /\ b.fdhandles = Here.fdhandles /\ b.card = cards
  BY <1>1, <1>2, <1>4, CardIs
<1>8. Ready(b, s)
  BY <1>1, <1>3, <1>6, <1>7, ReadySame
<1>9. SlotsGood(r)
  BY <1>8, <1>5, TakenOut
<1> QED BY <1>5, <1>9, Landed
(* An image that cannot be opened.                                         *)
LEMMA MountRefused ==
  ASSUME SlotsAssumption, SlotsInv, NoneRobbed(Here), NEW s \in Slots,
         NEW r \in clear_slot([Here EXCEPT !.card[s].virgin = FALSE, !.card[s].robbed = card[s].virgin], s)
  PROVE  SlotsGood(r)
<1> DEFINE first == [Here.card EXCEPT ![s].virgin = FALSE]
           cards == [first EXCEPT ![s].robbed = card[s].virgin]
           b == [Here EXCEPT !.card[s].virgin = FALSE, !.card[s].robbed = card[s].virgin]
<1>1. /\ Here \in SlotStates /\ SlotsGood(Here) /\ Mounts(Here) /\ Here.card \in [Slots -> Cards]
      /\ card[s].virgin \in BOOLEAN
  BY HereIs DEF SlotsInv, SlotsGood, SlotStates, Cards
<1>2. b = [Here EXCEPT !.card = cards]
  BY <1>1 DEF SlotStates
<1>3. /\ first \in [Slots -> Cards]
      /\ \A t \in Slots : t # s => first[t] = Here.card[t]
      /\ first[s].fd = Here.card[s].fd /\ first[s].again = Here.card[s].again
      /\ first[s].left = Here.card[s].left /\ first[s].asked = Here.card[s].asked
  <2>1. Here.card[s] \in Cards
    BY <1>1
  <2>2. [Here.card[s] EXCEPT !.virgin = FALSE] \in Cards
    BY ONLY <2>1 DEF Cards
  <2>3. first \in [Slots -> Cards]
    BY ONLY <1>1, <2>2, s \in Slots
  <2> QED BY ONLY <1>1, <2>1, <2>3, s \in Slots DEF Cards
<1> HIDE DEF first
<1>4. /\ cards \in [Slots -> Cards]
      /\ \A t \in Slots : t # s => cards[t] = first[t]
      /\ cards[s].fd = first[s].fd /\ cards[s].again = first[s].again
      /\ cards[s].left = first[s].left /\ cards[s].asked = first[s].asked
      /\ cards[s].robbed = card[s].virgin
  BY <1>1, <1>3 DEF Cards
<1>5. Here.card[s].fd = 0 => card[s].virgin
  BY FirstIs
<1>6. ~Here.card[s].left
  BY <1>1 DEF Mounts
<1> HIDE DEF b, cards
<1>7. b \in SlotStates /\ b.io = Here.io /\ b.fdhandles = Here.fdhandles /\ b.card = cards
  BY <1>1, <1>2, <1>4, CardIs
<1>8. Ready(b, s)
  BY <1>1, <1>3, <1>4, <1>5, <1>6, <1>7, ReadySame
<1> QED BY <1>8, TakenOut DEF b

(* The card of a slot whose image was opened.                              *)
OpenedCards(f, s, fd, c) == [f EXCEPT ![s].fd = fd, ![s].virgin = FALSE, ![s].again = @ \/ c.mounted]
LEMMA CardsOpened ==
  ASSUME NEW f \in [Slots -> Cards], NEW s \in Slots, NEW fd \in Descriptors, NEW c \in Cards
  PROVE  LET g == OpenedCards(f, s, fd, c) IN
         /\ g \in [Slots -> Cards] /\ \A t \in Slots : t # s => g[t] = f[t]
         /\ g[s].fd = fd /\ ~g[s].virgin /\ (g[s].again <=> f[s].again \/ c.mounted)
         /\ g[s].left = f[s].left /\ g[s].asked = f[s].asked
<1> DEFINE first == [f EXCEPT ![s].fd = fd]
           second == [first EXCEPT ![s].virgin = FALSE]
           third == [second EXCEPT ![s].again = @ \/ c.mounted]
           v == second[s].again \/ c.mounted
           g == OpenedCards(f, s, fd, c)
<1>1. g = third /\ third = [second EXCEPT ![s].again = v]
  BY DEF OpenedCards
<1>2. first \in [Slots -> Cards]
  BY DEF Cards
<1>3. /\ \A t \in Slots : t # s => first[t] = f[t]
      /\ first[s].fd = fd /\ first[s].again = f[s].again /\ first[s].left = f[s].left /\ first[s].asked = f[s].asked
  BY DEF Cards
<1>4. second = [first EXCEPT ![s].virgin = FALSE]
  OBVIOUS
<1>5. v \in BOOLEAN
  OBVIOUS
<1> HIDE DEF first, second, third, v, g
<1>6. second \in [Slots -> Cards]
  <2>1. first[s] \in Cards
    BY <1>2
  <2>2. [first[s] EXCEPT !.virgin = FALSE] \in Cards
    BY ONLY <2>1 DEF Cards
  <2> QED BY ONLY <1>2, <1>4, <2>2, s \in Slots
<1>7. /\ \A t \in Slots : t # s => second[t] = first[t]
      /\ second[s].fd = first[s].fd /\ ~second[s].virgin /\ second[s].again = first[s].again
      /\ second[s].left = first[s].left /\ second[s].asked = first[s].asked
  BY ONLY <1>2, <1>4, s \in Slots DEF Cards
<1>8. g = [second EXCEPT ![s].again = v]
  BY <1>1
<1>9. g \in [Slots -> Cards]
  <2>1. second[s] \in Cards
    BY <1>6
  <2>2. [second[s] EXCEPT !.again = v] \in Cards
    BY ONLY <1>5, <2>1 DEF Cards
  <2> QED BY ONLY <1>6, <1>8, <2>2, s \in Slots
<1>10. /\ \A t \in Slots : t # s => g[t] = second[t]
       /\ g[s].fd = second[s].fd /\ (g[s].virgin <=> second[s].virgin) /\ g[s].again = v
       /\ g[s].left = second[s].left /\ g[s].asked = second[s].asked
  BY ONLY <1>5, <1>6, <1>8, s \in Slots DEF Cards
<1>11. g[s].again <=> f[s].again \/ c.mounted
  BY <1>3, <1>7, <1>10, Zenon DEF v
<1> QED BY <1>3, <1>7, <1>9, <1>10, <1>11 DEF g

LEMMA CardsMounted ==
  ASSUME NEW f \in [Slots -> Cards], NEW s \in Slots
  PROVE  LET g == [f EXCEPT ![s].mounted = TRUE] IN
         /\ g \in [Slots -> Cards] /\ \A t \in Slots : t # s => g[t] = f[t]
         /\ g[s].mounted = TRUE /\ g[s].fd = f[s].fd /\ g[s].virgin = f[s].virgin /\ g[s].again = f[s].again
         /\ g[s].left = f[s].left /\ g[s].asked = f[s].asked
BY DEF Cards

LEMMA ProbeIs ==
  ASSUME NEW st \in SlotStates, NEW s \in Slots, st.card[s].mounted, NEW r \in mcman_probePS2Card(st, s)
  PROVE  /\ r \in SlotStates /\ r.io = st.io /\ r.fdhandles = st.fdhandles
         /\ \A t \in Slots : t # s => r.card[t] = st.card[t]
         /\ r.card[s].mounted = st.card[s].mounted /\ r.card[s].fd = st.card[s].fd
         /\ r.card[s].virgin = st.card[s].virgin /\ r.card[s].again = st.card[s].again
         /\ r.card[s].left = st.card[s].left /\ r.card[s].asked = st.card[s].asked
<1> DEFINE clear == mcman_clearcache(st, s)
<1>1. PICK form \in {1, -1} : r = [clear EXCEPT !.card[s].cardform = form]
  BY DEF mcman_probePS2Card, FormOf
<1>2. /\ clear \in SlotStates /\ clear.io = st.io /\ clear.fdhandles = st.fdhandles
      /\ clear.card = [st.card EXCEPT ![s].unwritten = {}]
  BY ClearIs
<1>3. st.card \in [Slots -> Cards] /\ clear.card = [st.card EXCEPT ![s].unwritten = {}]
  BY <1>2 DEF SlotStates
<1>4. clear.card \in [Slots -> Cards]
  BY <1>2 DEF SlotStates
<1> DEFINE held == clear.card
           cards == [held EXCEPT ![s].cardform = form]
<1>5. r = [clear EXCEPT !.card = cards]
  BY <1>1
<1> HIDE DEF clear
<1>6. /\ \A t \in Slots : t # s => held[t] = st.card[t]
      /\ held[s].mounted = st.card[s].mounted /\ held[s].fd = st.card[s].fd
      /\ held[s].virgin = st.card[s].virgin /\ held[s].again = st.card[s].again
      /\ held[s].left = st.card[s].left /\ held[s].asked = st.card[s].asked
  BY ONLY <1>3, s \in Slots DEF Cards
<1>7. cards = [held EXCEPT ![s].cardform = form]
  OBVIOUS
<1> HIDE DEF held, cards
<1>8. /\ cards \in [Slots -> Cards]
      /\ \A t \in Slots : t # s => cards[t] = held[t]
      /\ cards[s].mounted = held[s].mounted /\ cards[s].fd = held[s].fd
      /\ cards[s].virgin = held[s].virgin /\ cards[s].again = held[s].again
      /\ cards[s].left = held[s].left /\ cards[s].asked = held[s].asked
  <2>1. held \in [Slots -> Cards]
    BY <1>4 DEF held
  <2>2. cards \in [Slots -> Cards]
    BY ONLY <1>7, <2>1, form \in {1, -1}, s \in Slots DEF Cards
  <2>3. /\ \A t \in Slots : t # s => cards[t] = held[t]
        /\ cards[s].mounted = held[s].mounted /\ cards[s].fd = held[s].fd
        /\ cards[s].virgin = held[s].virgin /\ cards[s].again = held[s].again
        /\ cards[s].left = held[s].left /\ cards[s].asked = held[s].asked
    BY ONLY <1>7, <2>1, s \in Slots DEF Cards
  <2> QED BY <2>2, <2>3
<1>9. r \in SlotStates /\ r.io = clear.io /\ r.fdhandles = clear.fdhandles /\ r.card = cards
  BY <1>2, <1>5, <1>8, CardIs
<1> QED BY <1>2, <1>6, <1>8, <1>9

(* An image that was opened: it is no image, it cannot be read, or it is   *)
(* in the slot.                                                            *)
LEMMA MountOpened ==
  ASSUME SlotsAssumption, SlotsInv, NoneRobbed(Here), NEW s \in Slots, NEW i \in Images, FreeFds(io) # {},
         NEW opened,
         opened = [Opened(Here, i) EXCEPT !.card[s].fd = Lowest(FreeFds(io)), !.card[s].virgin = FALSE,
                      !.card[s].again = @ \/ card[s].mounted]
  PROVE  LET mounted == [opened EXCEPT !.card[s].mounted = TRUE] IN
         /\ \A r \in clear_slot(opened, s) : SlotsGood(r)
         /\ \A p \in mcman_probePS2Card(mounted, s) :
               /\ p.card[s].cardform = 1 => SlotsGood(MarkKept(p, s))
               /\ \A r \in clear_slot(p, s) : SlotsGood(r)
<1> DEFINE mounted == [opened EXCEPT !.card[s].mounted = TRUE]
           f == Lowest(FreeFds(Here.io))
           a == Opened(Here, i)
           c == card[s]
           cards == OpenedCards(a.card, s, f, c)
           put == [cards EXCEPT ![s].mounted = TRUE]
<1>1. Here \in SlotStates /\ SlotsGood(Here) /\ Mounts(Here) /\ i \in Uses
  BY DEF SlotsInv, SlotsGood, Uses
<1>2. Here.io = io /\ Here.card = card /\ c = Here.card[s]
  BY HereIs
<1>3. /\ f \in Descriptors /\ Here.io[f] = Nothing /\ a \in SlotStates /\ a.card = Here.card
      /\ a.fdhandles = Here.fdhandles /\ a.io[f] = i
      /\ \A fd \in Descriptors : fd # f => a.io[fd] = Here.io[fd]
  BY <1>1, <1>2, OpenedIs
<1>4. c \in Cards /\ a.card \in [Slots -> Cards]
  BY <1>1, <1>2, <1>3 DEF SlotStates
<1>5. opened = [a EXCEPT !.card = cards]
  <2>1. a = [a EXCEPT !.card = a.card]
    BY <1>3 DEF SlotStates
  <2> QED BY <1>2, <1>3 DEF SlotStates, OpenedCards
<1> HIDE DEF a, f, c
<1>6. /\ cards \in [Slots -> Cards] /\ \A t \in Slots : t # s => cards[t] = a.card[t]
      /\ cards[s].fd = f /\ ~cards[s].virgin /\ (cards[s].again <=> a.card[s].again \/ c.mounted)
      /\ cards[s].left = a.card[s].left /\ cards[s].asked = a.card[s].asked
  BY ONLY <1>3, <1>4, s \in Slots, CardsOpened
<1> HIDE DEF cards
<1>7. opened \in SlotStates /\ opened.io = a.io /\ opened.fdhandles = a.fdhandles /\ opened.card = cards
  BY ONLY <1>3, <1>5, <1>6, s \in Slots, CardIs
<1>8. ~Here.card[s].left
  BY <1>1 DEF Mounts
<1>9. Ready(opened, s)
  <2>1. /\ opened.io = a.io /\ opened.fdhandles = Here.fdhandles
        /\ \A t \in Slots : t # s => opened.card[t] = Here.card[t]
        /\ opened.card[s].fd = f /\ (opened.card[s].again <=> Here.card[s].again \/ Here.card[s].mounted)
        /\ ~opened.card[s].left /\ opened.card[s].asked = Here.card[s].asked
    BY <1>2, <1>3, <1>6, <1>7, <1>8
  <2> QED BY ONLY SlotsAssumption, NoneRobbed(Here), s \in Slots, <1>1, <1>3, <1>7, <2>1, ReadyOpened
<1>10. mounted = [opened EXCEPT !.card = put]
  BY <1>7
<1>11. /\ put \in [Slots -> Cards] /\ \A t \in Slots : t # s => put[t] = cards[t]
       /\ put[s].mounted = TRUE /\ put[s].fd = cards[s].fd /\ put[s].virgin = cards[s].virgin
       /\ put[s].again = cards[s].again /\ put[s].left = cards[s].left /\ put[s].asked = cards[s].asked
  BY <1>6, CardsMounted
<1> HIDE DEF put, mounted
<1>12. mounted \in SlotStates /\ mounted.io = opened.io /\ mounted.fdhandles = opened.fdhandles /\ mounted.card = put
  BY <1>7, <1>10, <1>11, CardIs
<1>13. ASSUME NEW p \in mcman_probePS2Card(mounted, s)
       PROVE  /\ Ready(p, s) /\ p.card[s].mounted /\ ~p.card[s].virgin
              /\ p.card[s].fd = f /\ p.io[f] = i
  <2>1. /\ p \in SlotStates /\ p.io = mounted.io /\ p.fdhandles = mounted.fdhandles
        /\ \A t \in Slots : t # s => p.card[t] = mounted.card[t]
        /\ p.card[s].mounted = mounted.card[s].mounted /\ p.card[s].fd = mounted.card[s].fd
        /\ p.card[s].virgin = mounted.card[s].virgin /\ p.card[s].again = mounted.card[s].again
        /\ p.card[s].left = mounted.card[s].left /\ p.card[s].asked = mounted.card[s].asked
    BY <1>11, <1>12, <1>13, ProbeIs
  <2>2. /\ p.io = a.io /\ p.fdhandles = Here.fdhandles /\ \A t \in Slots : t # s => p.card[t] = Here.card[t]
        /\ p.card[s].mounted /\ p.card[s].fd = f /\ ~p.card[s].virgin
        /\ (p.card[s].again <=> Here.card[s].again \/ Here.card[s].mounted)
        /\ ~p.card[s].left /\ p.card[s].asked = Here.card[s].asked
    <3>1. p.io = a.io /\ p.fdhandles = Here.fdhandles
      BY ONLY <1>3, <1>7, <1>12, <2>1
    <3>2. \A t \in Slots : t # s => p.card[t] = Here.card[t]
      BY ONLY <1>3, <1>6, <1>11, <1>12, <2>1
    <3>3. /\ p.card[s].mounted /\ p.card[s].fd = f /\ ~p.card[s].virgin
          /\ p.card[s].again = cards[s].again /\ p.card[s].left = cards[s].left /\ p.card[s].asked = cards[s].asked
      BY ONLY <1>6, <1>11, <1>12, <2>1
    <3>4. p.card[s].again <=> Here.card[s].again \/ Here.card[s].mounted
      BY ONLY <1>2, <1>3, <1>6, <3>3
    <3>5. ~p.card[s].left /\ p.card[s].asked = Here.card[s].asked
      BY ONLY <1>3, <1>6, <1>8, <3>3
    <3> QED BY <3>1, <3>2, <3>3, <3>4, <3>5
  <2>3. Ready(p, s)
    BY ONLY SlotsAssumption, NoneRobbed(Here), s \in Slots, <1>1, <1>3, <2>1, <2>2, ReadyOpened
  <2> QED BY <1>3, <2>2, <2>3
<1>14. \A r \in clear_slot(opened, s) : SlotsGood(r)
  BY <1>9, TakenOut
<1>15. \A p \in mcman_probePS2Card(mounted, s) :
         /\ p.card[s].cardform = 1 => SlotsGood(MarkKept(p, s))
         /\ \A r \in clear_slot(p, s) : SlotsGood(r)
  BY <1>3, <1>13, PutIn, TakenOut
<1> QED BY <1>14, <1>15 DEF mounted

LEMMA ImageStep ==
  ASSUME SlotsAssumption, SlotsInv, NoneRobbed(Here), NEW s \in Slots, NEW i \in Images, mc_mount(s, i)
  PROVE  SlotsInv'
<1> DEFINE opened == [Opened(Here, i) EXCEPT !.card[s].fd = Lowest(FreeFds(io)), !.card[s].virgin = FALSE,
                         !.card[s].again = @ \/ card[s].mounted]
           mounted == [opened EXCEPT !.card[s].mounted = TRUE]
           refused == [Here EXCEPT !.card[s].virgin = FALSE, !.card[s].robbed = card[s].virgin]
<1>1. \/ \E st \in clear_slot(refused, s) : Becomes(st)
      \/ /\ FreeFds(io) # {}
         /\ \/ \E st \in clear_slot(opened, s) : Becomes(st)
            \/ \E st \in mcman_probePS2Card(mounted, s) :
                  IF st.card[s].cardform = 1 THEN Becomes(MarkKept(st, s))
                  ELSE \E back \in clear_slot(st, s) : Becomes(back)
  BY DEF mc_mount
<1>2. \A r \in clear_slot(refused, s) : SlotsGood(r)
  BY MountRefused
<1>3. FreeFds(io) # {} =>
        /\ \A r \in clear_slot(opened, s) : SlotsGood(r)
        /\ \A p \in mcman_probePS2Card(mounted, s) :
              /\ p.card[s].cardform = 1 => SlotsGood(MarkKept(p, s))
              /\ \A r \in clear_slot(p, s) : SlotsGood(r)
  BY MountOpened
<1> HIDE DEF opened, mounted, refused
<1>4. \E st : SlotsGood(st) /\ Becomes(st)
  BY <1>1, <1>2, <1>3
<1> QED BY <1>4, Landed
-----------------------------------------------------------------------------
LEMMA SlotsBegin ==
  ASSUME SlotsAssumption, SlotsInit
  PROVE  SlotsInv
<1> DEFINE c == [mounted |-> FALSE, fd |-> 0, cardform |-> 0, unwritten |-> {}, asked |-> FALSE,
                 virgin |-> TRUE, robbed |-> FALSE, again |-> FALSE, left |-> FALSE]
<1>1. /\ Here.io = [fd \in Descriptors |-> IF fd = 0 THEN "console" ELSE Nothing]
      /\ Here.card = [s \in Slots |-> c] /\ Here.fdhandles = [h \in Handles |-> Closed]
  BY HereIs DEF SlotsInit
<1>2. /\ c \in Cards /\ c.mounted = FALSE /\ c.cardform = 0 /\ c.virgin = TRUE /\ c.fd = 0
      /\ c.left = FALSE /\ c.asked = FALSE
  BY DEF Cards, SlotsAssumption
<1> HIDE DEF c
<1>3. Here.io \in [Descriptors -> Uses]
  BY <1>1 DEF Uses, Nothing
<1>4. Here.card \in [Slots -> Cards] /\ Here.fdhandles \in [Handles -> OpenHandles \cup {Closed}]
  BY <1>1, <1>2
<1>5. Here \in SlotStates
  <2>1. Here = [io |-> Here.io, card |-> Here.card, fdhandles |-> Here.fdhandles]
    BY HereIs DEF Here
  <2> QED BY <1>3, <1>4, <2>1 DEF SlotStates
<1>6. Mounts(Here) /\ Apart(Here) /\ AskedInv(Here) /\ Follows(Here)
  <2>1. \A s \in Slots : Here.card[s] = c
    BY <1>1
  <2>2. \A h \in Handles : ~Here.fdhandles[h].status
    BY <1>1 DEF Closed
  <2> QED BY <1>2, <2>1, <2>2 DEF Mounts, Apart, AskedInv, Follows
<1>7. Owned(Here)
  BY <1>1 DEF Owned, SlotsAssumption, Nothing
<1> QED BY <1>5, <1>6, <1>7 DEF SlotsInv, SlotsGood

LEMMA SlotsKept ==
  ASSUME SlotsAssumption, SlotsInv, [SlotsNext]_slotVars
  PROVE  SlotsInv'
<1>1. CASE SlotsNext
  <2>1. NoneRobbed(Here)
    BY <1>1, HereIs DEF SlotsNext, NoneRobbed
  <2>2. ASSUME NEW s \in Slots,
               \/ \E i \in Images : mc_mount(s, i)
               \/ mc_umount(s) \/ mc_open(s) \/ mc_getstat(s) \/ mc_chstat(s)
               \/ mc_rename(s) \/ mc_remove(s) \/ mc_rmdir(s) \/ mc_mkdir(s)
        PROVE  SlotsInv'
    <3>1. CASE \E i \in Images : mc_mount(s, i)
      BY <2>1, <3>1, ImageStep
    <3>2. CASE mc_umount(s)
      BY <2>1, <3>2, UmountStep
    <3>3. CASE mc_open(s)
      BY <3>3, OpenStep
    <3>4. CASE mc_getstat(s)
      BY <3>4, PathSteps
    <3>5. CASE mc_chstat(s) \/ mc_rename(s) \/ mc_remove(s) \/ mc_rmdir(s) \/ mc_mkdir(s)
      BY <3>5, PathSteps DEF mc_chstat, mc_rename, mc_remove, mc_rmdir, mc_mkdir
    <3> QED BY <2>2, <3>1, <3>2, <3>3, <3>4, <3>5
  <2>3. ASSUME NEW h \in Handles, mc_read(h) \/ mc_dread(h) \/ mc_lseek(h) \/ mc_write(h) \/ mc_close(h)
        PROVE  SlotsInv'
    BY <2>3, HandleSteps, CloseStep
  <2>4. CASE Others
    BY <2>4, OtherSteps
  <2> QED BY <1>1, <2>2, <2>3, <2>4 DEF SlotsNext, SlotsStep
<1>2. CASE UNCHANGED slotVars
  <2>1. SlotsGood(Here) /\ Becomes(Here)
    BY <1>2, HereIs DEF SlotsInv, slotVars, Becomes
  <2> QED BY <2>1, Landed
<1> QED BY <1>1, <1>2

LEMMA SlotsHold ==
  ASSUME SlotsInv
  PROVE  VmcSlotsSafe
<1>1. SlotsAgree
  BY HereIs DEF SlotsInv, SlotsGood, Mounts, Apart, SlotsAgree
<1>2. OwnDescriptors
  BY HereIs DEF SlotsInv, SlotsGood, Owned, OwnDescriptors
<1>3. HandleOfImage
  BY HereIs DEF SlotsInv, SlotsGood, Follows, HandleOfImage
<1>4. NothingLeft
  BY HereIs DEF SlotsInv, SlotsGood, Mounts, NothingLeft
<1> QED BY <1>1, <1>2, <1>3, <1>4 DEF VmcSlotsSafe

(* Through any images that are mounted, exchanged and taken out, whatever  *)
(* fails: a mounted slot has a card and an open image of its own, the      *)
(* driver closes its own descriptors only, a handle acts on its own image, *)
(* and a file that was closed without an error has nothing left in the     *)
(* cache, with any numbers of slots, images, handles and descriptors       *)
(* (mciomanx_backing.c, ps2mc_fio.c).                                      *)
THEOREM VmcSlotsAreSafe ==
  ASSUME SlotsAssumption
  PROVE  SlotsSpec => []VmcSlotsSafe
<1>1. SlotsInit => SlotsInv
  BY SlotsBegin
<1>2. SlotsInv /\ [SlotsNext]_slotVars => SlotsInv'
  BY SlotsKept
<1>3. SlotsInv => VmcSlotsSafe
  BY SlotsHold
<1> QED BY <1>1, <1>2, <1>3, PTL DEF SlotsSpec
=============================================================================
