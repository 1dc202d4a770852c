------------------------------ MODULE ApaJournal ------------------------------
(***************************************************************************)
(* The write-ahead journal of the APA partition driver                      *)
(* (iop/ps2hdd_osd/journal.c) under the function that uses it,              *)
(* apaCacheFlushAllDirty (iop/ps2hdd_osd/cache.c), on a drive with a        *)
(* volatile write cache that may lose power at any step.                    *)
(*                                                                         *)
(* apaCacheFlushAllDirty copies every dirty header to the journal area      *)
(* (sectors 10..), flushes the drive, writes the journal's index block      *)
(* (sector 8), flushes, writes the headers home, and empties the journal    *)
(* the same way.  At start-up apaJournalRestore copies a non-empty journal  *)
(* home and empties it.                                                     *)
(*                                                                         *)
(* The drive: home, slot and index are what a read returns.  homeMay,       *)
(* slotMay and indexMay hold, for each of them, every value a power cut may *)
(* leave there: a write adds its value, and Torn where it spans two sectors *)
(* (a header is 1024 bytes, the index block 512); a cache flush leaves only *)
(* the value last written.                                                  *)
(***************************************************************************)
EXTENDS Naturals, Sequences, FiniteSets

CONSTANTS Sectors,     \* the sectors that hold a partition header
          Headers,     \* the contents a header may have
          Torn,        \* a header of which only one sector was written
          NoMagic,     \* an index block that does not carry APAL_MAGIC
          MaxNum,      \* entries of apa_journal_t.sectors (126 in the code)
          CacheSize,   \* header buffers of the cache ("-n 20" in src/init.c)
          Faults       \* whether the drive may report an error

ASSUME JournalAssumption ==
  /\ IsFiniteSet(Sectors)
  /\ Torn \notin Headers
  /\ NoMagic \notin Seq(Sectors)
  /\ MaxNum \in Nat
  /\ CacheSize \in 0..MaxNum
  /\ Faults \in BOOLEAN

VARIABLES
  pc,          \* the step the driver is at; "failed": it did not start
  ret,         \* who called apaJournalFlush: "apply", "idle" or "start"
  mem,         \* the headers as the cache holds them
  dirty,       \* the headers flagged APA_CACHE_FLAG_DIRTY
  todo,        \* headers the current loop of apaCacheFlushAllDirty has left
  journalBuf,  \* the static journalBuf: the sectors it lists, or NoMagic
  home, slot, index,             \* the drive, as it reads
  homeMay, slotMay, indexMay     \* what a power cut may leave there

drive == <<home, slot, index, homeMay, slotMay, indexMay>>
vars  == <<pc, ret, mem, dirty, todo, journalBuf, drive>>

Slots  == 1..MaxNum
Blocks == Headers \cup {Torn}
Lists  == Seq(Sectors)

(* The sectors a journal index lists; none if it has no magic. *)
Listed(ix) == IF ix = NoMagic THEN {} ELSE {ix[i] : i \in DOMAIN ix}

(* What apaJournalRestore makes of the headers h, the journal area j and   *)
(* the index block ix.                                                     *)
Recovered(h, j, ix) ==
  [s \in Sectors |->
     IF s \in Listed(ix) THEN j[CHOOSE i \in DOMAIN ix : ix[i] = s] ELSE h[s]]

-----------------------------------------------------------------------------
(* The drive's operations. *)

PutHome(s, h) ==
  /\ home' = [home EXCEPT ![s] = h]
  /\ homeMay' = [homeMay EXCEPT ![s] = @ \cup {h, Torn}]
  /\ UNCHANGED <<slot, index, slotMay, indexMay>>

PutSlot(i, h) ==
  /\ slot' = [slot EXCEPT ![i] = h]
  /\ slotMay' = [slotMay EXCEPT ![i] = @ \cup {h, Torn}]
  /\ UNCHANGED <<home, index, homeMay, indexMay>>

PutIndex(ix) ==
  /\ index' = ix
  /\ indexMay' = indexMay \cup {ix}
  /\ UNCHANGED <<home, slot, homeMay, slotMay>>

FlushCache ==
  /\ homeMay' = [s \in Sectors |-> {home[s]}]
  /\ slotMay' = [i \in Slots |-> {slot[i]}]
  /\ indexMay' = {index}
  /\ UNCHANGED <<home, slot, index>>

(* A write that the drive reports as failed may have been done or not. *)
TryHome(s, h) == \E x \in {home[s], h, Torn} : PutHome(s, x)
TrySlot(i, h) == \E x \in {slot[i], h, Torn} : PutSlot(i, x)
TryIndex(ix)  == UNCHANGED drive \/ PutIndex(ix)

-----------------------------------------------------------------------------
Init ==
  /\ pc = "boot"
  /\ ret = "start"
  /\ home \in [Sectors -> Headers]
  /\ mem = home
  /\ dirty = {}
  /\ todo = {}
  /\ journalBuf = NoMagic
  /\ slot \in [Slots -> {Torn}]
  /\ index \in {NoMagic, <<>>}
  /\ homeMay = [s \in Sectors |-> {home[s]}]
  /\ slotMay = [i \in Slots |-> {slot[i]}]
  /\ indexMay = {index}

(* A caller changes a header it holds and flags it dirty.  The cache has   *)
(* CacheSize buffers, so no more than that are dirty at once.              *)
Edit(s, h) ==
  /\ pc = "idle"
  /\ Cardinality(dirty \cup {s}) =< CacheSize
  /\ mem' = [mem EXCEPT ![s] = h]
  /\ dirty' = dirty \cup {s}
  /\ UNCHANGED <<pc, ret, todo, journalBuf, drive>>

(* apaCacheFlushAllDirty is called. *)
FlushAllDirty ==
  /\ pc = "idle"
  /\ pc' = "log"
  /\ todo' = dirty
  /\ UNCHANGED <<ret, mem, dirty, journalBuf, drive>>

(* Variant: the dirty flag is cleared when the header is logged. *)
JournalWriteClears(s) ==
  /\ pc = "log"
  /\ s \in todo
  /\ todo' = todo \ {s}
  /\ dirty' = dirty \ {s}
  /\ PutSlot(Len(journalBuf) + 1, mem[s])
  /\ journalBuf' = Append(journalBuf, s)
  /\ UNCHANGED <<pc, ret, mem>>

(* Its first loop: apaJournalWrite of one dirty header.  An error is        *)
(* returned before journalBuf is touched, and ignored.                      *)
JournalWrite(s) ==
  /\ pc = "log"
  /\ s \in todo
  /\ todo' = todo \ {s}
  /\ LET num == Len(journalBuf) + 1 IN
       \/ /\ PutSlot(num, mem[s])
          /\ journalBuf' = Append(journalBuf, s)
       \/ /\ Faults
          /\ TrySlot(num, mem[s])
          /\ UNCHANGED journalBuf
  /\ UNCHANGED <<pc, ret, mem, dirty>>

Logged ==
  /\ pc = "log"
  /\ todo = {}
  /\ pc' = "flush1"
  /\ ret' = "apply"
  /\ UNCHANGED <<mem, dirty, todo, journalBuf, drive>>

(* apaJournalFlush: flush, write the index block, flush.  Any error skips   *)
(* the rest of it; its callers go on all the same, but for the start-up of  *)
(* the driver, which gives up (hdd.c, "log check failed").                  *)
OnSuccess == [apply |-> "apply", idle |-> "idle", start |-> "idle"]
OnError   == [apply |-> "apply", idle |-> "idle", start |-> "failed"]

Resume(next) ==
  /\ pc' = next[ret]
  /\ todo' = IF ret = "apply" THEN dirty ELSE {}

(* Variant: the flush before the index block is missing. *)
JournalFlush1Unflushed ==
  /\ pc = "flush1"
  /\ pc' = "index"
  /\ UNCHANGED <<ret, mem, dirty, todo, journalBuf, drive>>

JournalFlush1 ==
  /\ pc = "flush1"
  /\ \/ /\ FlushCache
        /\ pc' = "index"
        /\ UNCHANGED todo
     \/ /\ Faults
        /\ Resume(OnError)
        /\ UNCHANGED drive
  /\ UNCHANGED <<ret, mem, dirty, journalBuf>>

JournalFlushIndex ==
  /\ pc = "index"
  /\ \/ /\ PutIndex(journalBuf)
        /\ pc' = "flush2"
        /\ UNCHANGED todo
     \/ /\ Faults
        /\ Resume(OnError)
        /\ TryIndex(journalBuf)
  /\ UNCHANGED <<ret, mem, dirty, journalBuf>>

(* Variant: the flush after the index block is missing. *)
JournalFlush2Unflushed ==
  /\ pc = "flush2"
  /\ Resume(OnSuccess)
  /\ UNCHANGED <<ret, mem, dirty, journalBuf, drive>>

JournalFlush2 ==
  /\ pc = "flush2"
  /\ \/ FlushCache /\ Resume(OnSuccess)
     \/ Faults /\ UNCHANGED drive /\ Resume(OnError)
  /\ UNCHANGED <<ret, mem, dirty, journalBuf>>

(* The second loop: apaCacheTransfer of one dirty header.  It clears the    *)
(* dirty flag whether or not the write succeeded.                           *)
CacheTransfer(s) ==
  /\ pc = "apply"
  /\ s \in todo
  /\ todo' = todo \ {s}
  /\ dirty' = dirty \ {s}
  /\ \/ PutHome(s, mem[s])
     \/ Faults /\ TryHome(s, mem[s])
  /\ UNCHANGED <<pc, ret, mem, journalBuf>>

(* Variant: journalBuf.num is not cleared. *)
JournalResetKeepsNum(caller) ==
  /\ journalBuf' = IF journalBuf = NoMagic THEN <<>> ELSE journalBuf
  /\ pc' = "flush1"
  /\ ret' = caller

(* apaJournalReset: empty journalBuf, then flush it to the drive. *)
JournalReset(caller) ==
  /\ journalBuf' = <<>>
  /\ pc' = "flush1"
  /\ ret' = caller

Applied ==
  /\ pc = "apply"
  /\ todo = {}
  /\ JournalReset("idle")
  /\ UNCHANGED <<mem, dirty, todo, drive>>

-----------------------------------------------------------------------------
(* apaJournalRestore reads the index block.  An empty journal is left as    *)
(* it is; one without magic, or one that cannot be read, is reset.          *)
RestoreCheck ==
  /\ pc = "boot"
  /\ \/ /\ index # NoMagic
        /\ journalBuf' = index
        /\ pc' = IF index = <<>> THEN "idle" ELSE "replay"
        /\ todo' = Listed(index)
        /\ UNCHANGED ret
     \/ /\ index = NoMagic \/ Faults
        /\ JournalReset("start")
        /\ UNCHANGED todo
  /\ mem' = home
  /\ UNCHANGED <<dirty, drive>>

(* One header is copied from the journal area to its place, in the order    *)
(* of the index; an error ends the loop.                                    *)
RestoreCopy ==
  /\ pc = "replay"
  /\ todo # {}
  /\ LET i == CHOOSE k \in DOMAIN journalBuf :
                /\ journalBuf[k] \in todo
                /\ \A m \in DOMAIN journalBuf : journalBuf[m] \in todo => k =< m
         s == journalBuf[i]
     IN  \/ /\ PutHome(s, slot[i])
            /\ mem' = [mem EXCEPT ![s] = slot[i]]
            /\ todo' = todo \ {s}
            /\ UNCHANGED <<pc, ret, journalBuf>>
         \/ /\ Faults
            /\ TryHome(s, slot[i])
            /\ mem' = home'
            /\ todo' = {}
            /\ JournalReset("start")
  /\ UNCHANGED dirty

(* Variant: the copy loop may end before the last header. *)
RestoreDoneEarly ==
  /\ pc = "replay"
  /\ Cardinality(todo) =< 1
  /\ JournalReset("start")
  /\ UNCHANGED <<mem, dirty, todo, drive>>

(* The loop is over: the journal is erased, and the driver is ready. *)
RestoreDone ==
  /\ pc = "replay"
  /\ todo = {}
  /\ JournalReset("start")
  /\ UNCHANGED <<mem, dirty, todo, drive>>

(* The driver's memory is lost. *)
Forget ==
  /\ pc' = "boot"
  /\ ret' = "start"
  /\ mem' = home'
  /\ dirty' = {}
  /\ todo' = {}
  /\ journalBuf' = NoMagic

(* Power is lost: memory goes, the drive keeps one of the values each       *)
(* block may have.                                                          *)
PowerCut ==
  /\ home'  \in {h \in [Sectors -> Blocks] : \A s \in Sectors : h[s] \in homeMay[s]}
  /\ slot'  \in {j \in [Slots -> Blocks] : \A i \in Slots : j[i] \in slotMay[i]}
  /\ index' \in indexMay
  /\ homeMay' = [s \in Sectors |-> {home'[s]}]
  /\ slotMay' = [i \in Slots |-> {slot'[i]}]
  /\ indexMay' = {index'}
  /\ Forget

(* The driver is loaded again after an IOP reset (Reset in src/init.c), or   *)
(* after it gave up.  The EE asks for either between its calls, which are   *)
(* synchronous; the drive, with what its write cache holds, stays as it is. *)
Reload ==
  /\ pc \in {"idle", "failed"}
  /\ UNCHANGED drive
  /\ Forget

Next ==
  \/ \E s \in Sectors, h \in Headers : Edit(s, h)
  \/ FlushAllDirty
  \/ \E s \in Sectors : JournalWrite(s)
  \/ Logged
  \/ JournalFlush1
  \/ JournalFlushIndex
  \/ JournalFlush2
  \/ \E s \in Sectors : CacheTransfer(s)
  \/ Applied
  \/ RestoreCheck
  \/ RestoreCopy
  \/ RestoreDone
  \/ PowerCut
  \/ Reload

Spec == Init /\ [][Next]_vars

-----------------------------------------------------------------------------
(* What the journal is for. *)

TypeOK ==
  /\ pc \in {"boot", "replay", "idle", "log", "flush1", "index", "flush2",
            "apply", "failed"}
  /\ ret \in {"apply", "idle", "start"}
  /\ mem \in [Sectors -> Blocks]
  /\ dirty \in SUBSET Sectors
  /\ todo \in SUBSET Sectors
  /\ journalBuf \in Lists \cup {NoMagic}
  /\ home \in [Sectors -> Blocks]
  /\ slot \in [Slots -> Blocks]
  /\ index \in Lists \cup {NoMagic}
  /\ homeMay \in [Sectors -> SUBSET Blocks]
  /\ slotMay \in [Slots -> SUBSET Blocks]
  /\ indexMay \in SUBSET (Lists \cup {NoMagic})

(* The tables the next start-up may recover if power is lost now. *)
Images ==
  {Recovered(h, j, ix) :
     h \in {f \in [Sectors -> Blocks] : \A s \in Sectors : f[s] \in homeMay[s]},
     j \in {f \in [Slots -> Blocks] : \A i \in Slots : f[i] \in slotMay[i]},
     ix \in indexMay}

(* Whenever power is lost, what apaJournalRestore will make of the drive    *)
(* holds no torn header.                                                    *)
NoTornHeader == \A t \in Images : \A s \in Sectors : t[s] # Torn

(* Once apaCacheFlushAllDirty has returned, the headers as its caller left  *)
(* them are what every later start-up finds: nothing of the batch can be    *)
(* lost any more, and no older batch can come back from the journal.        *)
DurableOnReturn == (pc = "idle" /\ dirty = {}) => Images = {mem}

(* Whichever of apaCacheFlushAllDirty and apaJournalRestore empties the     *)
(* journal: the index block is not cleared while a header it lists has not  *)
(* reached its own sector.                                                  *)
EraseOnlyAfterCopy ==
  [][pc = "index" /\ pc' # "boot" /\ index' = <<>> =>
        \A s \in Listed(index) : home[s] = Recovered(home, slot, index)[s]]_vars

(* "copies the journal from the HDD and erases the original" (journal.c:59, *)
(* of apaJournalRestore): from its copy loop apaJournalRestore goes on to   *)
(* apaJournalReset, which erases the journal, only when each header that    *)
(* the index block lists has been copied to its own sector.                 *)
RestoreErasesCopied ==
  [][pc = "replay" /\ pc' = "flush1" =>
        \A s \in Listed(index) : home'[s] = Recovered(home, slot, index)[s]]_vars

(* The write-ahead rule, faults or not: when the index block comes to list  *)
(* a batch, each header of it is already safe in the journal area, as the   *)
(* cache holds it.                                                          *)
LogBeforeIndex ==
  [][pc = "index" /\ pc' # "boot" /\ index' # index =>
        \A i \in DOMAIN index' : slotMay[i] = {mem[index'[i]]}]_vars

(* Batch after batch, also when the erasing of an earlier one failed, the   *)
(* headers logged never run past journalBuf.sectors.                        *)
JournalFits == journalBuf = NoMagic \/ Len(journalBuf) =< MaxNum

(* The journal keeps the promise of AtomicTable: the callers' view is the   *)
(* cache's, or the one about to be recovered; the batch is committed when   *)
(* the index block lists it.                                                *)
Table == INSTANCE AtomicTable WITH
           Sectors <- Sectors,
           Headers <- Headers,
           view    <- IF pc \in {"boot", "replay", "failed"} THEN Recovered(home, slot, index) ELSE mem,
           table   <- Recovered(home, slot, index),
           durable <- Images

CrashAtomic == Table!Spec
=============================================================================
