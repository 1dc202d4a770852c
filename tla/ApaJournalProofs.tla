--------------------------- MODULE ApaJournalProofs ---------------------------
(***************************************************************************)
(* Proofs about ApaJournal, for any headers, sectors and cache size: what   *)
(* holds whether or not the drive reports errors, and then what the journal *)
(* is for on a drive that reports none: the batch of apaCacheFlushAllDirty  *)
(* is atomic under power cuts, durable when the function has returned, and  *)
(* never leaves a torn header.                                              *)
(***************************************************************************)
EXTENDS ApaJournal, FiniteSetTheorems, WellFoundedInduction, TLAPS

(* A journal that journalBuf, or the index block, has room for. *)
Fits(l) == l = NoMagic \/ Len(l) =< MaxNum

(* What the types rest on: the headers still to be logged and the ones      *)
(* already logged are together no more than the cache holds.                *)
Counted ==
  /\ Cardinality(dirty) =< CacheSize
  /\ pc = "idle" => journalBuf = <<>>
  /\ pc \in {"flush1", "index", "flush2"} /\ ret # "apply" => journalBuf = <<>>
  /\ pc \in {"log", "flush1", "index", "flush2", "replay"} => journalBuf \in Lists
  /\ pc = "log" => Len(journalBuf) + Cardinality(todo) =< CacheSize
  /\ pc = "replay" => todo \subseteq Listed(journalBuf)
  /\ Fits(journalBuf)
  /\ Fits(index)
  /\ \A ix \in indexMay : Fits(ix)

TypeInv == TypeOK /\ Counted

-----------------------------------------------------------------------------
LEMMA EmptyJournal ==
  <<>> \in Lists /\ Len(<<>>) = 0 /\ Fits(<<>>) /\ <<>> # NoMagic
<1>1. <<>> \in Seq(Sectors) /\ Len(<<>>) = 0
  OBVIOUS
<1>2. MaxNum >= 0 /\ NoMagic \notin Seq(Sectors)
  BY JournalAssumption
<1> QED BY <1>1, <1>2, JournalAssumption DEF Lists, Fits

LEMMA Bounds == CacheSize \in Nat /\ MaxNum \in Nat /\ CacheSize =< MaxNum
BY JournalAssumption

LEMMA ListedType ==
  ASSUME NEW ix \in Lists \cup {NoMagic}
  PROVE  Listed(ix) \in SUBSET Sectors
BY JournalAssumption DEF Lists, Listed

LEMMA FewerLeft ==
  ASSUME NEW T \in SUBSET Sectors, NEW s \in T
  PROVE  /\ Cardinality(T) \in Nat
         /\ Cardinality(T \ {s}) \in Nat
         /\ Cardinality(T \ {s}) = Cardinality(T) - 1
BY JournalAssumption, FS_Subset, FS_CardinalityType, FS_RemoveElement

LEMMA NoMoreDirty ==
  ASSUME NEW T \in SUBSET Sectors, NEW s \in Sectors
  PROVE  /\ Cardinality(T) \in Nat
         /\ Cardinality(T \ {s}) \in Nat
         /\ Cardinality(T \ {s}) =< Cardinality(T)
BY JournalAssumption, FS_Subset, FS_CardinalityType

LEMMA InitTyped == Init => TypeInv
<1> SUFFICES ASSUME Init PROVE TypeInv
  OBVIOUS
<1>1. TypeOK
  BY EmptyJournal DEF Init, TypeOK, Blocks, Slots
<1>2. Counted
  BY EmptyJournal, JournalAssumption, FS_EmptySet DEF Init, Counted, Fits
<1> QED BY <1>1, <1>2 DEF TypeInv

-----------------------------------------------------------------------------
(* The drive's operations keep the drive's part of the types. *)

DriveTyped ==
  /\ home \in [Sectors -> Blocks]
  /\ slot \in [Slots -> Blocks]
  /\ index \in Lists \cup {NoMagic}
  /\ homeMay \in [Sectors -> SUBSET Blocks]
  /\ slotMay \in [Slots -> SUBSET Blocks]
  /\ indexMay \in SUBSET (Lists \cup {NoMagic})
  /\ Fits(index)
  /\ \A ix \in indexMay : Fits(ix)

LEMMA PutHomeTyped ==
  ASSUME DriveTyped, NEW s \in Sectors, NEW h \in Blocks, PutHome(s, h)
  PROVE  DriveTyped'
BY DEF DriveTyped, PutHome, Blocks

LEMMA PutSlotTyped ==
  ASSUME DriveTyped, NEW i \in Nat, NEW h \in Blocks, PutSlot(i, h)
  PROVE  DriveTyped'
BY DEF DriveTyped, PutSlot, Blocks

LEMMA PutIndexTyped ==
  ASSUME DriveTyped, NEW ix \in Lists, Fits(ix), PutIndex(ix)
  PROVE  DriveTyped'
BY DEF DriveTyped, PutIndex

LEMMA FlushCacheTyped ==
  ASSUME DriveTyped, FlushCache
  PROVE  DriveTyped'
BY DEF DriveTyped, FlushCache

LEMMA PowerCutTyped ==
  ASSUME DriveTyped, PowerCut
  PROVE  DriveTyped'
BY DEF DriveTyped, PowerCut

LEMMA DriveUnchanged ==
  ASSUME DriveTyped, UNCHANGED drive
  PROVE  DriveTyped'
BY DEF DriveTyped, drive, Fits

(* The search for the first listed sector not yet copied finds one. *)
LEMMA FirstListed ==
  ASSUME NEW l, NEW T, NEW n \in Nat, DOMAIN l = 1..n,
         \E k \in DOMAIN l : l[k] \in T
  PROVE  LET i == CHOOSE k \in DOMAIN l :
                    /\ l[k] \in T
                    /\ \A m \in DOMAIN l : l[m] \in T => k =< m
         IN  i \in DOMAIN l /\ l[i] \in T
<1> DEFINE S == {k \in 1..n : l[k] \in T}
<1>1. S \in SUBSET Nat /\ S # {}
  OBVIOUS
<1>2. PICK k \in S : \A m \in S : <<m, k>> \notin OpToRel(<, Nat)
  BY <1>1, WFMin, NatLessThanWellFounded
<1>3. \A m \in S : ~ (m < k)
  <2>1. \A m, j \in Nat : m < j => <<m, j>> \in OpToRel(<, Nat)
    BY Zenon DEF OpToRel
  <2> QED BY <1>1, <1>2, <2>1
<1>4. \A m \in S : k =< m
  BY <1>1, <1>3
<1> QED BY <1>2, <1>4

-----------------------------------------------------------------------------
(* Every step keeps them. *)

DriverTyped ==
  /\ pc \in {"boot", "replay", "idle", "log", "flush1", "index", "flush2",
            "apply", "failed"}
  /\ ret \in {"apply", "idle", "start"}
  /\ mem \in [Sectors -> Blocks]
  /\ dirty \in SUBSET Sectors
  /\ todo \in SUBSET Sectors
  /\ journalBuf \in Lists \cup {NoMagic}

DriverCounted ==
  /\ Cardinality(dirty) =< CacheSize
  /\ pc = "idle" => journalBuf = <<>>
  /\ pc \in {"flush1", "index", "flush2"} /\ ret # "apply" => journalBuf = <<>>
  /\ pc \in {"log", "flush1", "index", "flush2", "replay"} => journalBuf \in Lists
  /\ pc = "log" => Len(journalBuf) + Cardinality(todo) =< CacheSize
  /\ pc = "replay" => todo \subseteq Listed(journalBuf)
  /\ Fits(journalBuf)

LEMMA TypeParts == TypeInv <=> DriverTyped /\ DriverCounted /\ DriveTyped
BY DEF TypeInv, TypeOK, Counted, DriverTyped, DriverCounted, DriveTyped

LEMMA StepTyped == TypeInv /\ [Next]_vars => TypeInv'
<1> SUFFICES ASSUME DriverTyped, DriverCounted, DriveTyped, [Next]_vars
             PROVE  DriverTyped' /\ DriverCounted' /\ DriveTyped'
  BY TypeParts, PTL
<1> USE DEF DriverTyped, DriverCounted
<1>1. CASE UNCHANGED vars
  BY <1>1, DriveUnchanged DEF vars, drive, Fits
<1>2. ASSUME NEW s \in Sectors, NEW h \in Headers, Edit(s, h)
      PROVE  DriverTyped' /\ DriverCounted' /\ DriveTyped'
  BY <1>2, DriveUnchanged DEF Edit, Blocks, Fits
<1>3. CASE FlushAllDirty
  <2>1. Cardinality(dirty) \in Nat
    BY JournalAssumption, FS_Subset, FS_CardinalityType
  <2> QED BY <1>3, <2>1, DriveUnchanged, EmptyJournal, Bounds DEF FlushAllDirty, Fits
<1>4. ASSUME NEW s \in Sectors, JournalWrite(s)
      PROVE  DriverTyped' /\ DriverCounted' /\ DriveTyped'
  <2>1. /\ journalBuf \in Lists /\ todo \in SUBSET Sectors /\ s \in todo
        /\ Len(journalBuf) \in Nat
        /\ Len(journalBuf) + Cardinality(todo) =< CacheSize
    BY <1>4 DEF JournalWrite, Lists
  <2>2. /\ Cardinality(todo) \in Nat /\ Cardinality(todo \ {s}) \in Nat
        /\ Cardinality(todo \ {s}) = Cardinality(todo) - 1
    BY <2>1, FewerLeft
  <2>3. DriveTyped'
    <3>1. mem[s] \in Blocks /\ Len(journalBuf) + 1 \in Nat
      BY <2>1
    <3>2. CASE PutSlot(Len(journalBuf) + 1, mem[s])
      BY <3>1, <3>2, PutSlotTyped
    <3>3. CASE TrySlot(Len(journalBuf) + 1, mem[s])
      <4>1. PICK x \in {slot[Len(journalBuf) + 1], mem[s], Torn} :
              PutSlot(Len(journalBuf) + 1, x)
        BY <3>3 DEF TrySlot
      <4>2. Len(journalBuf) + 1 \in Slots
        BY <2>1, <2>2, Bounds DEF Slots
      <4>3. x \in Blocks
        BY <3>1, <4>2 DEF DriveTyped, Blocks
      <4> QED BY <3>1, <4>1, <4>3, PutSlotTyped
    <3> QED BY <1>4, <3>2, <3>3 DEF JournalWrite
  <2>4. /\ todo' = todo \ {s}
        /\ UNCHANGED <<pc, ret, mem, dirty>>
        /\ journalBuf' \in {journalBuf, Append(journalBuf, s)}
        /\ pc = "log"
    BY <1>4 DEF JournalWrite
  <2>5. /\ journalBuf' \in Lists
        /\ Len(journalBuf') =< Len(journalBuf) + 1
        /\ Len(journalBuf') \in Nat
    BY <2>1, <2>4 DEF Lists
  <2>6. Len(journalBuf') + Cardinality(todo') =< CacheSize
    BY <2>1, <2>2, <2>4, <2>5, Bounds
  <2>7. Fits(journalBuf')
    BY <2>2, <2>4, <2>5, <2>6, Bounds DEF Fits
  <2> QED BY <2>1, <2>3, <2>4, <2>5, <2>6, <2>7
<1>5. CASE Logged
  BY <1>5, DriveUnchanged DEF Logged, Fits
<1>6. CASE JournalFlush1
  BY <1>6, DriveUnchanged, FlushCacheTyped DEF JournalFlush1, Resume, OnSuccess, OnError, Fits
<1>7. CASE JournalFlushIndex
  BY <1>7, DriveUnchanged, PutIndexTyped DEF JournalFlushIndex, Resume, OnSuccess, OnError, TryIndex, Fits
<1>8. CASE JournalFlush2
  BY <1>8, DriveUnchanged, FlushCacheTyped DEF JournalFlush2, Resume, OnSuccess, OnError, Fits
<1>9. ASSUME NEW s \in Sectors, CacheTransfer(s)
      PROVE  DriverTyped' /\ DriverCounted' /\ DriveTyped'
  <2>1. DriveTyped'
    BY <1>9, PutHomeTyped DEF CacheTransfer, TryHome, DriveTyped, Blocks
  <2>2. /\ Cardinality(dirty) \in Nat /\ Cardinality(dirty \ {s}) \in Nat
        /\ Cardinality(dirty \ {s}) =< Cardinality(dirty)
    BY NoMoreDirty
  <2> QED BY <1>9, <2>1, <2>2, JournalAssumption DEF CacheTransfer, Fits
<1>10. CASE Applied
  BY <1>10, DriveUnchanged, EmptyJournal DEF Applied, JournalReset
<1>11. CASE RestoreCheck
  BY <1>11, DriveUnchanged, EmptyJournal, ListedType
     DEF RestoreCheck, JournalReset, DriveTyped, Fits
<1>12. CASE RestoreCopy
  <2> DEFINE i == CHOOSE k \in DOMAIN journalBuf :
                    /\ journalBuf[k] \in todo
                    /\ \A m \in DOMAIN journalBuf : journalBuf[m] \in todo => k =< m
             s == journalBuf[i]
  <2>1. journalBuf \in Lists /\ todo \subseteq Listed(journalBuf) /\ todo # {}
    BY <1>12 DEF RestoreCopy
  <2>2. i \in DOMAIN journalBuf /\ s \in todo
    <3>1. \E k \in DOMAIN journalBuf : journalBuf[k] \in todo
      BY <2>1, JournalAssumption DEF Listed, Lists
    <3>2. DOMAIN journalBuf = 1..Len(journalBuf) /\ Len(journalBuf) \in Nat
      BY <2>1 DEF Lists
    <3> QED
      BY <3>1, <3>2, FirstListed
  <2>3. i \in Slots /\ slot[i] \in Blocks /\ s \in Sectors
    BY <2>1, <2>2, JournalAssumption, Bounds DEF Fits, Lists, Slots, DriveTyped
  <2>4. CASE PutHome(s, slot[i]) /\ mem' = [mem EXCEPT ![s] = slot[i]]
             /\ todo' = todo \ {s} /\ UNCHANGED <<pc, ret, journalBuf>>
    BY <1>12, <2>1, <2>3, <2>4, PutHomeTyped DEF RestoreCopy, Fits
  <2>5. CASE TryHome(s, slot[i]) /\ mem' = home' /\ todo' = {} /\ JournalReset("start")
    <3>1. DriveTyped'
      BY <2>3, <2>5, PutHomeTyped DEF TryHome, DriveTyped, Blocks
    <3> QED BY <1>12, <2>5, <3>1, EmptyJournal DEF RestoreCopy, JournalReset, DriveTyped
  <2> QED BY <1>12, <2>4, <2>5 DEF RestoreCopy
<1>13. CASE RestoreDone
  BY <1>13, DriveUnchanged, EmptyJournal DEF RestoreDone, JournalReset
<1>14. CASE PowerCut
  BY <1>14, PowerCutTyped, FS_EmptySet, JournalAssumption, EmptyJournal
     DEF PowerCut, Forget, DriveTyped, Fits
<1>15. CASE Reload
  BY <1>15, DriveUnchanged, FS_EmptySet, JournalAssumption, EmptyJournal
     DEF Reload, Forget, drive, DriveTyped, Fits
<1> QED
  BY <1>1, <1>2, <1>3, <1>4, <1>5, <1>6, <1>7, <1>8, <1>9, <1>10, <1>11, <1>12,
     <1>13, <1>14, <1>15 DEF Next

LEMMA TypeInvariant == Spec => []TypeInv
BY InitTyped, StepTyped, PTL DEF Spec

(* The driver's state and the drive's keep their types: journalBuf and the  *)
(* index block always list header sectors, and the journal area is only     *)
(* read at entries that were written.                                       *)
THEOREM TypeCorrect == Spec => []TypeOK
<1>1. TypeInv => TypeOK
  BY DEF TypeInv
<1> QED BY <1>1, TypeInvariant, PTL

(* apaJournalWrite never runs past journalBuf.sectors, whichever writes and *)
(* flushes fail, provided the cache has no more buffers than the journal.   *)
THEOREM JournalNeverOverflows == Spec => []JournalFits
<1>1. TypeInv => JournalFits
  BY DEF TypeInv, Counted, Fits, JournalFits
<1> QED BY <1>1, TypeInvariant, PTL

-----------------------------------------------------------------------------
(* The write-ahead rule.  Until apaJournalFlush has flushed the drive, the  *)
(* journal area reads as the batch; after it, it cannot hold anything else. *)

WriteAhead ==
  /\ pc \in {"log", "flush1"} =>
       \A i \in DOMAIN journalBuf : slot[i] = mem[journalBuf[i]]
  /\ pc = "index" =>
       \A i \in DOMAIN journalBuf : slotMay[i] = {mem[journalBuf[i]]}

LEMMA JournalDomain ==
  ASSUME TypeInv, pc \in {"log", "flush1", "index"}
  PROVE  /\ Len(journalBuf) \in Nat
         /\ DOMAIN journalBuf = 1..Len(journalBuf)
         /\ DOMAIN journalBuf \subseteq Slots
         /\ pc = "log" /\ todo # {} => Len(journalBuf) + 1 \in Slots
<1>1. journalBuf \in Lists /\ journalBuf # NoMagic /\ Len(journalBuf) =< MaxNum
  BY JournalAssumption DEF TypeInv, Counted, Fits, Lists
<1>2. Len(journalBuf) \in Nat /\ DOMAIN journalBuf = 1..Len(journalBuf)
  BY <1>1 DEF Lists
<1>3. ASSUME pc = "log", todo # {}
      PROVE  Len(journalBuf) + 1 \in Slots
  <2>1. PICK s : s \in todo
    BY <1>3
  <2>2. Cardinality(todo) \in Nat /\ Cardinality(todo) >= 1
    <3>1. todo \in SUBSET Sectors
      BY DEF TypeInv, TypeOK
    <3>2. /\ Cardinality(todo) \in Nat /\ Cardinality(todo \ {s}) \in Nat
          /\ Cardinality(todo \ {s}) = Cardinality(todo) - 1
      BY <2>1, <3>1, FewerLeft
    <3> QED BY <3>2
  <2>3. Len(journalBuf) + Cardinality(todo) =< CacheSize
    BY <1>3 DEF TypeInv, Counted
  <2> QED BY <1>2, <2>2, <2>3, Bounds DEF Slots
<1> QED BY <1>1, <1>2, <1>3, Bounds DEF Slots

LEMMA EmptyDomain == DOMAIN <<>> = {}
OBVIOUS

LEMMA WriteAheadStep == TypeInv /\ WriteAhead /\ [Next]_vars => WriteAhead'
<1> SUFFICES ASSUME TypeInv, WriteAhead, [Next]_vars
             PROVE  WriteAhead'
  OBVIOUS
<1>1. CASE UNCHANGED vars
  BY <1>1 DEF WriteAhead, vars, drive
<1>2. ASSUME NEW s \in Sectors, NEW h \in Headers, Edit(s, h)
      PROVE  WriteAhead'
  BY <1>2 DEF WriteAhead, Edit
<1>3. CASE FlushAllDirty
  BY <1>3, EmptyDomain DEF WriteAhead, FlushAllDirty, TypeInv, Counted
<1>4. ASSUME NEW s \in Sectors, JournalWrite(s)
      PROVE  WriteAhead'
  <2> DEFINE n == Len(journalBuf) + 1
  <2>1. /\ pc = "log" /\ pc' = "log" /\ mem' = mem /\ todo # {}
        /\ journalBuf \in Lists /\ slot \in [Slots -> Blocks]
    BY <1>4 DEF JournalWrite, TypeInv, TypeOK, Counted
  <2>2. /\ n \in Slots /\ Len(journalBuf) \in Nat
        /\ DOMAIN journalBuf = 1..Len(journalBuf) /\ DOMAIN journalBuf \subseteq Slots
    BY <2>1, JournalDomain
  <2>3. \A i \in DOMAIN journalBuf : slot[i] = mem[journalBuf[i]]
    BY <2>1 DEF WriteAhead
  <2>4. CASE PutSlot(n, mem[s]) /\ journalBuf' = Append(journalBuf, s)
    <3>1. slot' = [slot EXCEPT ![n] = mem[s]]
      BY <2>4 DEF PutSlot
    <3>2. /\ DOMAIN journalBuf' = 1..n
          /\ journalBuf'[n] = s
          /\ \A i \in DOMAIN journalBuf : journalBuf'[i] = journalBuf[i]
      BY <2>1, <2>2, <2>4 DEF Lists
    <3>3. slot'[n] = mem[s] /\ \A i \in DOMAIN journalBuf : slot'[i] = slot[i]
      BY <2>1, <2>2, <3>1
    <3>4. \A i \in 1..n : slot'[i] = mem[journalBuf'[i]]
      BY <2>2, <2>3, <3>2, <3>3
    <3> QED BY <2>1, <3>2, <3>4 DEF WriteAhead
  <2>5. CASE TrySlot(n, mem[s]) /\ journalBuf' = journalBuf
    <3>1. PICK x : PutSlot(n, x)
      BY <2>5 DEF TrySlot
    <3>2. \A i \in DOMAIN journalBuf : slot'[i] = slot[i]
      BY <2>1, <2>2, <3>1 DEF PutSlot
    <3> QED BY <2>1, <2>3, <2>5, <3>2 DEF WriteAhead
  <2> QED BY <1>4, <2>4, <2>5 DEF JournalWrite
<1>5. CASE Logged
  BY <1>5 DEF WriteAhead, Logged, drive
<1>6. CASE JournalFlush1
  <2>1. pc = "flush1" /\ UNCHANGED <<mem, journalBuf>>
    BY <1>6 DEF JournalFlush1
  <2>2. CASE FlushCache /\ pc' = "index"
    <3>1. \A i \in DOMAIN journalBuf : slotMay'[i] = {slot[i]}
      BY <2>1, <2>2, JournalDomain DEF FlushCache
    <3> QED BY <2>1, <2>2, <3>1 DEF WriteAhead
  <2>3. CASE Resume(OnError)
    BY <2>3 DEF Resume, OnSuccess, OnError, WriteAhead, TypeInv, TypeOK
  <2> QED BY <1>6, <2>2, <2>3 DEF JournalFlush1
<1>7. CASE JournalFlushIndex
  BY <1>7 DEF JournalFlushIndex, Resume, OnSuccess, OnError, WriteAhead, TypeInv, TypeOK
<1>8. CASE JournalFlush2
  BY <1>8 DEF JournalFlush2, Resume, OnSuccess, OnError, WriteAhead, TypeInv, TypeOK
<1>9. ASSUME NEW s \in Sectors, CacheTransfer(s)
      PROVE  WriteAhead'
  BY <1>9 DEF CacheTransfer, WriteAhead
<1>10. CASE Applied
  BY <1>10, EmptyDomain DEF Applied, JournalReset, WriteAhead
<1>11. CASE RestoreCheck
  BY <1>11, EmptyDomain DEF RestoreCheck, JournalReset, WriteAhead
<1>12. CASE RestoreCopy
  BY <1>12, EmptyDomain DEF RestoreCopy, JournalReset, WriteAhead
<1>13. CASE RestoreDone
  BY <1>13, EmptyDomain DEF RestoreDone, JournalReset, WriteAhead
<1>14. CASE PowerCut
  BY <1>14 DEF PowerCut, Forget, WriteAhead
<1>15. CASE Reload
  BY <1>15 DEF Reload, Forget, WriteAhead
<1> QED
  BY <1>1, <1>2, <1>3, <1>4, <1>5, <1>6, <1>7, <1>8, <1>9, <1>10, <1>11, <1>12,
     <1>13, <1>14, <1>15 DEF Next

(* Faults or not, the index block comes to list a batch only when no power  *)
(* cut can any more leave a header of it unwritten or torn in the journal.  *)
THEOREM WriteAheadRule == Spec => LogBeforeIndex
<1> DEFINE Rule == pc = "index" /\ pc' # "boot" /\ index' # index =>
                     \A i \in DOMAIN index' : slotMay[i] = {mem[index'[i]]}
<1>1. Init => WriteAhead
  BY DEF Init, WriteAhead
<1>2. TypeInv /\ WriteAhead /\ [Next]_vars => [Rule]_vars
  <2> SUFFICES ASSUME WriteAhead, Next, pc = "index", pc' # "boot", index' # index
               PROVE  \A i \in DOMAIN index' : slotMay[i] = {mem[index'[i]]}
    BY DEF Rule
  <2>1. JournalFlushIndex
    BY DEF Next, Edit, FlushAllDirty, JournalWrite, Logged, JournalFlush1,
           JournalFlush2, CacheTransfer, Applied, RestoreCheck, RestoreCopy,
           RestoreDone, PowerCut, Reload, Forget
  <2>2. index' = journalBuf
    BY <2>1 DEF JournalFlushIndex, PutIndex, TryIndex, drive
  <2> QED BY <2>2 DEF WriteAhead
<1> QED BY <1>1, <1>2, TypeInvariant, WriteAheadStep, PTL DEF Spec, LogBeforeIndex
-----------------------------------------------------------------------------
(* A drive that reports no error.                                          *)

Tables == [Sectors -> Headers]

(* The table a start-up recovers from what the drive reads as. *)
Kept == Recovered(home, slot, index)

(* Whatever a power cut leaves of headers that may hold hm and a journal    *)
(* area that may hold sm, a start-up that finds the index ix recovers t.    *)
Safe(hm, sm, t, ix) ==
  /\ \A s \in Sectors \ Listed(ix) : hm[s] = {t[s]}
  /\ ix # NoMagic => \A i \in DOMAIN ix : sm[i] = {t[ix[i]]}

(* The phases of the driver: before the index block lists the batch, ...    *)
Batching   == pc \in {"idle", "log"} \/ (pc \in {"flush1", "index"} /\ ret = "apply")
(* while it does in the drive's cache only, ...                             *)
Committing == pc = "flush2" /\ ret = "apply"
(* and while a journal that was applied is being emptied.                   *)
Erasing    == pc \in {"flush1", "index", "flush2"} /\ ret # "apply"
Starting   == pc \in {"boot", "replay"}

Current ==
  /\ \A s \in Sectors : home[s] \in homeMay[s]
  /\ \A i \in Slots : slot[i] \in slotMay[i]
  /\ index \in indexMay

StartInv ==
  Starting =>
    /\ dirty = {}
    /\ mem = home
    /\ indexMay = {index}
    /\ Kept \in Tables
    /\ Safe(homeMay, slotMay, Kept, index)
    /\ pc = "replay" => /\ journalBuf = index
                        /\ \A s \in Sectors \ todo : home[s] = Kept[s]

BatchInv ==
  Batching =>
    /\ indexMay = {<<>>}
    /\ home \in Tables
    /\ Safe(homeMay, slotMay, home, <<>>)
    /\ pc = "log" => dirty = Listed(journalBuf) \cup todo
    /\ pc \in {"flush1", "index"} => dirty = Listed(journalBuf)

CommitInv ==
  Committing =>
    /\ index = journalBuf
    /\ indexMay = {<<>>, journalBuf}
    /\ home \in Tables
    /\ dirty = Listed(journalBuf)
    /\ Safe(homeMay, slotMay, home, <<>>)
    /\ Safe(homeMay, slotMay, mem, journalBuf)

ApplyInv ==
  pc = "apply" =>
    /\ todo = dirty
    /\ dirty \subseteq Listed(journalBuf)
    /\ indexMay = {journalBuf}
    /\ Safe(homeMay, slotMay, mem, journalBuf)

EraseInv ==
  Erasing =>
    /\ dirty = {}
    /\ \A ix \in indexMay : Safe(homeMay, slotMay, mem, ix)
    /\ pc # "flush2" => indexMay = {index}
    /\ pc # "flush1" => Safe(homeMay, slotMay, mem, <<>>)
    /\ pc = "flush2" => index = <<>>

CacheInv ==
  /\ pc # "failed"
  /\ ~Starting => mem \in Tables
  /\ \A s \in Sectors \ dirty : home[s] = mem[s]

CrashInv ==
  Current /\ StartInv /\ BatchInv /\ CommitInv /\ ApplyInv /\ EraseInv /\ CacheInv

-----------------------------------------------------------------------------
(* The operators on values. *)

LEMMA SlotsOfIndex ==
  ASSUME NEW ix \in Lists \cup {NoMagic}, Fits(ix), ix # NoMagic
  PROVE  DOMAIN ix \subseteq Slots /\ \A i \in DOMAIN ix : ix[i] \in Sectors
BY Bounds DEF Fits, Lists, Slots

(* Where a listed header's copy is looked up. *)
LEMMA Lookup ==
  ASSUME NEW ix \in Lists \cup {NoMagic}, NEW s \in Listed(ix)
  PROVE  LET i == CHOOSE k \in DOMAIN ix : ix[k] = s
         IN  ix # NoMagic /\ i \in DOMAIN ix /\ ix[i] = s
BY DEF Listed

(* A start-up that finds ix recovers t. *)
LEMMA Recovers ==
  ASSUME NEW hm, NEW sm, NEW t \in Tables, NEW ix \in Lists \cup {NoMagic}, Fits(ix),
         Safe(hm, sm, t, ix),
         NEW h, \A s \in Sectors : h[s] \in hm[s],
         NEW j, \A i \in Slots : j[i] \in sm[i]
  PROVE  Recovered(h, j, ix) = t
<1>1. ASSUME NEW s \in Sectors
      PROVE  Recovered(h, j, ix)[s] = t[s]
  <2>1. CASE s \in Listed(ix)
    <3> DEFINE i == CHOOSE k \in DOMAIN ix : ix[k] = s
    <3>1. ix # NoMagic /\ i \in DOMAIN ix /\ ix[i] = s
      BY <2>1, Lookup
    <3>2. j[i] \in sm[i] /\ sm[i] = {t[s]}
      BY <3>1, SlotsOfIndex DEF Safe
    <3> QED BY <2>1, <3>2 DEF Recovered
  <2>2. CASE s \notin Listed(ix)
    BY <2>2 DEF Recovered, Safe
  <2> QED BY <2>1, <2>2
<1> QED BY <1>1 DEF Recovered, Tables

(* What the drive holds is safe when its cache is flushed, or lost. *)
LEMMA SafeSettles ==
  ASSUME NEW hm, NEW sm, NEW t, NEW ix \in Lists \cup {NoMagic}, Fits(ix),
         Safe(hm, sm, t, ix),
         NEW h, \A s \in Sectors : h[s] \in hm[s],
         NEW j, \A i \in Slots : j[i] \in sm[i]
  PROVE  Safe([s \in Sectors |-> {h[s]}], [i \in Slots |-> {j[i]}], t, ix)
BY SlotsOfIndex DEF Safe

(* Headers that the index lists may be rewritten. *)
LEMMA SafeRewritten ==
  ASSUME NEW hm, NEW sm, NEW t, NEW ix, Safe(hm, sm, t, ix),
         NEW hm2, \A s \in Sectors \ Listed(ix) : hm2[s] = hm[s]
  PROVE  Safe(hm2, sm, t, ix)
BY DEF Safe

LEMMA NothingListed == Listed(<<>>) = {} /\ Listed(NoMagic) = {} /\ DOMAIN <<>> = {}
BY DEF Listed

(* The header that apaJournalRestore copies next. *)
LEMMA CopySource ==
  ASSUME TypeInv, RestoreCopy
  PROVE  LET i == CHOOSE k \in DOMAIN journalBuf :
                    /\ journalBuf[k] \in todo
                    /\ \A m \in DOMAIN journalBuf : journalBuf[m] \in todo => k =< m
             s == journalBuf[i]
         IN  /\ i \in DOMAIN journalBuf /\ i \in Slots
             /\ s \in todo /\ s \in Sectors /\ s \in Listed(journalBuf)
<1> DEFINE i == CHOOSE k \in DOMAIN journalBuf :
                  /\ journalBuf[k] \in todo
                  /\ \A m \in DOMAIN journalBuf : journalBuf[m] \in todo => k =< m
<1>1. /\ journalBuf \in Lists /\ journalBuf # NoMagic /\ Fits(journalBuf)
      /\ todo \subseteq Listed(journalBuf) /\ todo # {}
  BY JournalAssumption DEF RestoreCopy, TypeInv, Counted, Lists
<1>2. \E k \in DOMAIN journalBuf : journalBuf[k] \in todo
  BY <1>1 DEF Listed
<1>3. DOMAIN journalBuf = 1..Len(journalBuf) /\ Len(journalBuf) \in Nat
  BY <1>1 DEF Lists
<1>4. i \in DOMAIN journalBuf /\ journalBuf[i] \in todo
  BY <1>2, <1>3, FirstListed
<1>5. i \in Slots /\ journalBuf[i] \in Sectors
  BY <1>1, <1>4, SlotsOfIndex
<1> QED BY <1>1, <1>4, <1>5

LEMMA ListedAppend ==
  ASSUME NEW l \in Lists, NEW s \in Sectors
  PROVE  Listed(Append(l, s)) = Listed(l) \cup {s}
<1>1. Append(l, s) \in Seq(Sectors) /\ l \in Seq(Sectors)
  BY DEF Lists
<1>2. l # NoMagic /\ Append(l, s) # NoMagic
  BY <1>1, JournalAssumption
<1>3. /\ DOMAIN Append(l, s) = (DOMAIN l) \cup {Len(l) + 1}
      /\ \A i \in DOMAIN l : Append(l, s)[i] = l[i]
      /\ Append(l, s)[Len(l) + 1] = s
  BY <1>1
<1> QED BY <1>2, <1>3 DEF Listed

(* With an empty journal only the headers' own sectors count. *)
LEMMA SafeEmpty ==
  ASSUME NEW hm, NEW sm, NEW t, NEW ix \in {<<>>, NoMagic}
  PROVE  Safe(hm, sm, t, ix) <=> \A s \in Sectors : hm[s] = {t[s]}
BY NothingListed DEF Safe

-----------------------------------------------------------------------------
(* What a power cut may leave behind, in each phase. *)

Durable == IF Committing THEN {home, mem} ELSE {Kept}

LEMMA ImagesOf ==
  ASSUME TypeInv, Current, NEW f \in [indexMay -> Tables],
         \A ix \in indexMay : Safe(homeMay, slotMay, f[ix], ix)
  PROVE  Images = {f[ix] : ix \in indexMay} /\ Kept = f[index]
<1> DEFINE H == {h \in [Sectors -> Blocks] : \A s \in Sectors : h[s] \in homeMay[s]}
           J == {j \in [Slots -> Blocks] : \A i \in Slots : j[i] \in slotMay[i]}
<1>1. home \in H /\ slot \in J /\ index \in indexMay
  BY DEF TypeInv, TypeOK, Current
<1>2. ASSUME NEW h \in H, NEW j \in J, NEW ix \in indexMay
      PROVE  Recovered(h, j, ix) = f[ix]
  <2>1. ix \in Lists \cup {NoMagic} /\ Fits(ix) /\ f[ix] \in Tables
    BY DEF TypeInv, TypeOK, Counted
  <2> QED BY <2>1, Recovers
<1>3. Images = {Recovered(h, j, ix) : h \in H, j \in J, ix \in indexMay}
  BY DEF Images
<1>4. Images \subseteq {f[ix] : ix \in indexMay}
  BY <1>2, <1>3
<1>5. {f[ix] : ix \in indexMay} \subseteq Images
  BY <1>1, <1>2, <1>3
<1> QED BY <1>1, <1>2, <1>4, <1>5 DEF Kept

LEMMA OneImage ==
  ASSUME TypeInv, Current, NEW t \in Tables,
         \A ix \in indexMay : Safe(homeMay, slotMay, t, ix)
  PROVE  Images = {t} /\ Kept = t
<1> DEFINE f == [ix \in indexMay |-> t]
<1>1. f \in [indexMay -> Tables] /\ \A ix \in indexMay : f[ix] = t
  OBVIOUS
<1>2. index \in indexMay
  BY DEF Current
<1> HIDE DEF f
<1>3. Images = {f[ix] : ix \in indexMay} /\ Kept = f[index]
  BY <1>1, ImagesOf
<1> QED BY <1>1, <1>2, <1>3

(* Every index block the drive may be left with goes with a whole table.    *)
LEMMA SomeTable ==
  ASSUME TypeInv, CrashInv, NEW ix \in indexMay
  PROVE  \E t \in Tables : Safe(homeMay, slotMay, t, ix)
<1>1. pc \in {"boot", "replay", "idle", "log", "flush1", "index", "flush2", "apply"}
  BY DEF TypeInv, TypeOK, CrashInv, CacheInv
<1> QED
  BY <1>1 DEF CrashInv, StartInv, BatchInv, CommitInv, ApplyInv, EraseInv, CacheInv,
              Starting, Batching, Committing, Erasing

LEMMA SameTable ==
  ASSUME TypeInv, CacheInv, dirty = {}
  PROVE  mem = home
BY DEF TypeInv, TypeOK, CacheInv

(* The batch is all or nothing at every step: outside of Committing there   *)
(* is one table to recover, and it is the old one until the index block     *)
(* lists the batch and the new one from then on.                            *)
LEMMA Meaning ==
  ASSUME TypeInv, CrashInv
  PROVE  /\ Images = Durable
         /\ Images \subseteq Tables
         /\ Kept \in Tables
         /\ Batching => Kept = home
         /\ ~Batching /\ ~Starting => Kept = mem
<1> USE DEF CrashInv
<1>0. pc \in {"boot", "replay", "idle", "log", "flush1", "index", "flush2", "apply"}
  BY DEF TypeInv, TypeOK, CacheInv
<1>1. CASE Starting
  <2>1. Images = {Kept} /\ Kept \in Tables
    BY <1>1, OneImage DEF StartInv
  <2> QED BY <1>1, <2>1 DEF Durable, Starting, Batching, Committing
<1>2. CASE Batching
  <2>1. Images = {home} /\ Kept = home /\ home \in Tables
    BY <1>2, OneImage DEF BatchInv
  <2> QED BY <1>2, <2>1 DEF Durable, Batching, Committing
<1>3. CASE Committing
  <2> DEFINE f == [ix \in indexMay |-> IF ix = journalBuf THEN mem ELSE home]
  <2>1. /\ index = journalBuf /\ indexMay = {<<>>, journalBuf}
        /\ home \in Tables /\ mem \in Tables
        /\ Safe(homeMay, slotMay, home, <<>>)
        /\ Safe(homeMay, slotMay, mem, journalBuf)
    BY <1>3 DEF CommitInv, CacheInv, Committing, Starting
  <2>2. f \in [indexMay -> Tables]
    BY <2>1
  <2>3. \A ix \in indexMay : Safe(homeMay, slotMay, f[ix], ix)
    BY <2>1
  <2>4. f[journalBuf] = mem /\ f[<<>>] \in {home, mem} /\ (journalBuf # <<>> => f[<<>>] = home)
    BY <2>1
  <2>5. Images = {f[ix] : ix \in indexMay} /\ Kept = f[index]
    <3> HIDE DEF f
    <3> QED BY <2>2, <2>3, ImagesOf
  <2>6. journalBuf = <<>> => home = mem
    <3> SUFFICES ASSUME journalBuf = <<>> PROVE home = mem
      OBVIOUS
    <3>1. dirty = {}
      BY <1>3, NothingListed DEF CommitInv
    <3> QED BY <3>1, SameTable
  <2> HIDE DEF f
  <2>7. Images = {home, mem} /\ Kept = mem
    BY <2>1, <2>4, <2>5, <2>6
  <2> QED BY <1>3, <2>1, <2>7 DEF Durable, Batching, Committing
<1>4. CASE pc = "apply" \/ Erasing
  <2>1. mem \in Tables /\ \A ix \in indexMay : Safe(homeMay, slotMay, mem, ix)
    BY <1>4 DEF ApplyInv, EraseInv, CacheInv, Erasing, Starting
  <2>2. Images = {mem} /\ Kept = mem
    BY <2>1, OneImage
  <2> QED BY <1>4, <2>1, <2>2 DEF Durable, Batching, Committing, Erasing
<1> QED
  BY <1>0, <1>1, <1>2, <1>3, <1>4 DEF Starting, Batching, Committing, Erasing

-----------------------------------------------------------------------------
(* Every step of the driver keeps CrashInv. *)

LEMMA InitCrash == Init => CrashInv
<1> SUFFICES ASSUME Init PROVE CrashInv
  OBVIOUS
<1>1. Starting /\ ~Batching /\ ~Committing /\ ~Erasing /\ pc = "boot"
  BY DEF Init, Starting, Batching, Committing, Erasing
<1>2. index \in {<<>>, NoMagic} /\ Listed(index) = {}
  BY NothingListed DEF Init
<1>3. Kept = home /\ home \in Tables
  BY <1>2 DEF Init, Kept, Recovered, Tables
<1>4. Safe(homeMay, slotMay, Kept, index)
  BY <1>2, <1>3, SafeEmpty DEF Init
<1>5. Current /\ CacheInv
  BY <1>1 DEF Init, Current, CacheInv
<1>6. StartInv
  BY <1>1, <1>3, <1>4 DEF Init, StartInv
<1> QED
  BY <1>1, <1>5, <1>6 DEF CrashInv, BatchInv, CommitInv, ApplyInv, EraseInv

LEMMA CurrentStep == TypeInv /\ Current /\ [Next]_vars => Current'
<1> SUFFICES ASSUME TypeInv, Current, [Next]_vars PROVE Current'
  OBVIOUS
<1> USE DEF Current
<1>1. CASE UNCHANGED drive
  BY <1>1 DEF drive
<1>2. CASE FlushCache
  BY <1>2 DEF FlushCache
<1>3. ASSUME NEW s \in Sectors, NEW h, PutHome(s, h) PROVE Current'
  BY <1>3 DEF PutHome, TypeInv, TypeOK
<1>4. ASSUME NEW i, NEW h, PutSlot(i, h) PROVE Current'
  BY <1>4 DEF PutSlot, TypeInv, TypeOK
<1>5. ASSUME NEW ix, PutIndex(ix) PROVE Current'
  BY <1>5 DEF PutIndex
<1>6. CASE PowerCut
  BY <1>6 DEF PowerCut
<1>7. CASE RestoreCopy
  <2> DEFINE i == CHOOSE k \in DOMAIN journalBuf :
                    /\ journalBuf[k] \in todo
                    /\ \A m \in DOMAIN journalBuf : journalBuf[m] \in todo => k =< m
  <2>1. journalBuf[i] \in Sectors
    BY <1>7, CopySource
  <2> HIDE DEF i
  <2> QED BY <1>3, <1>7, <2>1 DEF RestoreCopy, TryHome, i
<1>8. ASSUME NEW s \in Sectors, JournalWrite(s) PROVE Current'
  BY <1>4, <1>8 DEF JournalWrite, TrySlot
<1>9. ASSUME NEW s \in Sectors, CacheTransfer(s) PROVE Current'
  BY <1>3, <1>9 DEF CacheTransfer, TryHome
<1>10. CASE JournalFlush1 \/ JournalFlushIndex \/ JournalFlush2
  BY <1>1, <1>2, <1>5, <1>10 DEF JournalFlush1, JournalFlushIndex, JournalFlush2, TryIndex
<1>11. UNCHANGED drive \/ FlushCache \/ PowerCut \/ RestoreCopy
       \/ (\E s \in Sectors : JournalWrite(s) \/ CacheTransfer(s))
       \/ JournalFlush1 \/ JournalFlushIndex \/ JournalFlush2
  BY DEF Next, vars, Edit, FlushAllDirty, Logged, Applied, RestoreCheck, RestoreDone, Reload
<1> QED
  BY <1>1, <1>2, <1>6, <1>7, <1>8, <1>9, <1>10, <1>11

(* What a phase says of its variables; only one of them is not vacuous.     *)
Phases == StartInv /\ BatchInv /\ CommitInv /\ ApplyInv /\ EraseInv /\ CacheInv

LEMMA CrashStep ==
  ASSUME Faults = FALSE
  PROVE  TypeInv /\ WriteAhead /\ CrashInv /\ [Next]_vars => CrashInv'
<1> SUFFICES ASSUME TypeInv, TypeInv', WriteAhead, CrashInv, Current', [Next]_vars
             PROVE  Phases'
  BY StepTyped, CurrentStep DEF CrashInv, Phases
<1> USE DEF CrashInv, Phases, Starting, Batching, Committing, Erasing
<1>1. CASE UNCHANGED vars
  BY <1>1 DEF vars, drive, StartInv, BatchInv, CommitInv, ApplyInv, EraseInv, CacheInv, Kept
<1>2. ASSUME NEW s \in Sectors, NEW h \in Headers, Edit(s, h)
      PROVE  Phases'
  <2>1. mem \in Tables /\ mem' = [mem EXCEPT ![s] = h] /\ pc = "idle" /\ pc' = "idle"
    BY <1>2 DEF Edit, CacheInv
  <2>2. mem' \in Tables /\ \A r \in Sectors \ {s} : mem'[r] = mem[r]
    BY <2>1 DEF Tables
  <2>3. CacheInv'
    BY <1>2, <2>1, <2>2 DEF Edit, CacheInv, drive
  <2> QED BY <1>2, <2>1, <2>3 DEF Edit, drive, StartInv, BatchInv, CommitInv, ApplyInv, EraseInv
<1>3. CASE FlushAllDirty
  <2>1. journalBuf = <<>>
    BY <1>3 DEF FlushAllDirty, TypeInv, Counted
  <2> QED
    BY <1>3, <2>1, NothingListed
       DEF FlushAllDirty, drive, StartInv, BatchInv, CommitInv, ApplyInv, EraseInv, CacheInv
<1>4. ASSUME NEW s \in Sectors, JournalWrite(s)
      PROVE  Phases'
  <2> DEFINE num == Len(journalBuf) + 1
  <2>1. /\ pc = "log" /\ pc' = "log" /\ s \in todo /\ todo' = todo \ {s}
        /\ PutSlot(num, mem[s])
        /\ journalBuf' = Append(journalBuf, s)
        /\ UNCHANGED <<mem, dirty, ret>>
    BY <1>4 DEF JournalWrite
  <2>2. Listed(journalBuf') = Listed(journalBuf) \cup {s}
    BY <2>1, ListedAppend DEF TypeInv, Counted
  <2>3. UNCHANGED <<home, homeMay, index, indexMay>>
    BY <2>1 DEF PutSlot
  <2>4. Safe(homeMay, slotMay', home, <<>>)
    BY <2>1, SafeEmpty DEF BatchInv
  <2> QED
    BY <2>1, <2>2, <2>3, <2>4
       DEF StartInv, BatchInv, CommitInv, ApplyInv, EraseInv, CacheInv
<1>5. CASE Logged
  BY <1>5 DEF Logged, drive, StartInv, BatchInv, CommitInv, ApplyInv, EraseInv, CacheInv
<1>6. CASE JournalFlush1
  <2>1. /\ pc = "flush1" /\ pc' = "index" /\ FlushCache
        /\ UNCHANGED <<todo, ret, mem, dirty, journalBuf>>
    BY <1>6 DEF JournalFlush1
  <2>2. UNCHANGED <<home, slot, index>> /\ indexMay' = {index} /\ index \in indexMay
    BY <2>1 DEF FlushCache, Current
  <2>3. ASSUME NEW t, NEW ix \in indexMay, Safe(homeMay, slotMay, t, ix)
        PROVE  Safe(homeMay', slotMay', t, ix)
    BY <2>1, <2>3, SafeSettles DEF FlushCache, Current, TypeInv, TypeOK, Counted
  <2>4. CASE ret = "apply"
    <3>1. Safe(homeMay', slotMay', home, <<>>)
      BY <2>1, <2>3, <2>4 DEF BatchInv
    <3> QED
      BY <2>1, <2>2, <2>4, <3>1 DEF BatchInv, StartInv, CommitInv, ApplyInv, EraseInv, CacheInv
  <2>5. CASE ret # "apply"
    <3>1. dirty = {} /\ mem = home /\ Safe(homeMay, slotMay, mem, index)
      BY <2>1, <2>2, <2>5, SameTable DEF EraseInv
    <3>2. Safe(homeMay', slotMay', mem, index)
      BY <2>2, <2>3, <3>1
    <3>3. Safe(homeMay', slotMay', mem, <<>>)
      BY <2>1, <3>1, SafeEmpty DEF FlushCache
    <3> QED
      BY <2>1, <2>2, <2>5, <3>1, <3>2, <3>3
         DEF BatchInv, StartInv, CommitInv, ApplyInv, EraseInv, CacheInv
  <2> QED BY <2>4, <2>5
<1>7. CASE JournalFlushIndex
  <2>1. /\ pc = "index" /\ pc' = "flush2" /\ PutIndex(journalBuf)
        /\ UNCHANGED <<todo, ret, mem, dirty, journalBuf>>
    BY <1>7 DEF JournalFlushIndex
  <2>2. /\ UNCHANGED <<home, slot, homeMay, slotMay>> /\ index' = journalBuf
        /\ indexMay' = indexMay \cup {journalBuf}
    BY <2>1 DEF PutIndex
  <2>3. CASE ret = "apply"
    <3>1. /\ home \in Tables /\ dirty = Listed(journalBuf) /\ indexMay = {<<>>}
          /\ Safe(homeMay, slotMay, home, <<>>)
      BY <2>1, <2>3 DEF BatchInv
    <3>2. \A s \in Sectors : homeMay[s] = {home[s]}
      BY <3>1, SafeEmpty
    <3>3. \A i \in DOMAIN journalBuf : slotMay[i] = {mem[journalBuf[i]]}
      BY <2>1 DEF WriteAhead
    <3>4. Safe(homeMay, slotMay, mem, journalBuf)
      BY <3>1, <3>2, <3>3 DEF Safe, CacheInv
    <3> QED
      BY <2>1, <2>2, <2>3, <3>1, <3>4
         DEF BatchInv, StartInv, CommitInv, ApplyInv, EraseInv, CacheInv
  <2>4. CASE ret # "apply"
    <3>1. journalBuf = <<>> /\ dirty = {}
      BY <2>1, <2>4 DEF EraseInv, TypeInv, Counted
    <3> QED
      BY <2>1, <2>2, <2>4, <3>1
         DEF BatchInv, StartInv, CommitInv, ApplyInv, EraseInv, CacheInv
  <2> QED BY <2>3, <2>4
<1>8. CASE JournalFlush2
  <2>1. /\ pc = "flush2" /\ FlushCache /\ Resume(OnSuccess)
        /\ UNCHANGED <<ret, mem, dirty, journalBuf>>
        /\ ret \in {"apply", "idle", "start"}
    BY <1>8 DEF JournalFlush2, TypeInv, TypeOK
  <2>2. UNCHANGED <<home, slot, index>> /\ indexMay' = {index} /\ index \in indexMay
    BY <2>1 DEF FlushCache, Current
  <2>3. ASSUME NEW t, Safe(homeMay, slotMay, t, index)
        PROVE  Safe(homeMay', slotMay', t, index)
    BY <2>1, <2>3, SafeSettles DEF FlushCache, Current, TypeInv, TypeOK, Counted
  <2>4. CASE ret = "apply"
    <3>1. pc' = "apply" /\ todo' = dirty
      BY <2>1, <2>4 DEF Resume, OnSuccess
    <3>2. index = journalBuf /\ dirty = Listed(journalBuf) /\ Safe(homeMay, slotMay, mem, journalBuf)
      BY <2>1, <2>4 DEF CommitInv
    <3> QED
      BY <2>1, <2>2, <2>3, <3>1, <3>2
         DEF BatchInv, StartInv, CommitInv, ApplyInv, EraseInv, CacheInv
  <2>5. CASE ret # "apply"
    <3>1. pc' = "idle"
      BY <2>1, <2>5 DEF Resume, OnSuccess
    <3>2. dirty = {} /\ index = <<>> /\ mem = home /\ mem \in Tables
      BY <2>1, <2>5, SameTable DEF EraseInv, CacheInv
    <3>3. Safe(homeMay', slotMay', home, <<>>)
      BY <2>1, SafeEmpty DEF FlushCache
    <3> QED
      BY <2>1, <2>2, <3>1, <3>2, <3>3
         DEF BatchInv, StartInv, CommitInv, ApplyInv, EraseInv, CacheInv
  <2> QED BY <2>4, <2>5
<1>9. ASSUME NEW s \in Sectors, CacheTransfer(s)
      PROVE  Phases'
  <2>1. /\ pc = "apply" /\ pc' = "apply" /\ s \in todo
        /\ todo' = todo \ {s} /\ dirty' = dirty \ {s}
        /\ PutHome(s, mem[s]) /\ UNCHANGED <<ret, mem, journalBuf>>
    BY <1>9 DEF CacheTransfer
  <2>2. /\ UNCHANGED <<slot, index, slotMay, indexMay>>
        /\ home' = [home EXCEPT ![s] = mem[s]]
        /\ \A r \in Sectors \ {s} : homeMay'[r] = homeMay[r]
    BY <2>1 DEF PutHome, TypeInv, TypeOK
  <2>3. s \in Listed(journalBuf) /\ Safe(homeMay, slotMay, mem, journalBuf)
    BY <2>1 DEF ApplyInv
  <2>4. Safe(homeMay', slotMay, mem, journalBuf)
    BY <2>2, <2>3, SafeRewritten
  <2>5. \A r \in Sectors \ dirty' : home'[r] = mem'[r]
    BY <2>1, <2>2 DEF CacheInv, TypeInv, TypeOK
  <2> QED
    BY <2>1, <2>2, <2>4, <2>5 DEF BatchInv, StartInv, CommitInv, ApplyInv, EraseInv, CacheInv
<1>10. CASE Applied
  <2>1. /\ pc = "apply" /\ pc' = "flush1" /\ ret' = "idle" /\ journalBuf' = <<>>
        /\ todo = {} /\ UNCHANGED <<mem, dirty, todo, drive>>
    BY <1>10 DEF Applied, JournalReset
  <2>2. /\ dirty = {} /\ indexMay = {index} /\ index = journalBuf
        /\ Safe(homeMay, slotMay, mem, journalBuf)
    BY <2>1 DEF ApplyInv, Current
  <2> QED
    BY <2>1, <2>2 DEF drive, BatchInv, StartInv, CommitInv, ApplyInv, EraseInv, CacheInv
<1>11. CASE RestoreCheck
  <2>1. /\ pc = "boot" /\ mem' = home /\ UNCHANGED <<dirty, drive>>
        /\ mem = home /\ dirty = {} /\ indexMay = {index} /\ Kept \in Tables
        /\ Safe(homeMay, slotMay, Kept, index)
    BY <1>11 DEF RestoreCheck, StartInv
  <2>2. index \in {<<>>, NoMagic} => Kept = home
    BY NothingListed DEF Kept, Recovered, TypeInv, TypeOK
  <2>3. CASE pc' = "idle" /\ index = <<>>
    BY <2>1, <2>2, <2>3
       DEF drive, BatchInv, StartInv, CommitInv, ApplyInv, EraseInv, CacheInv
  <2>4. CASE pc' = "replay" /\ journalBuf' = index /\ todo' = Listed(index)
    <3>1. \A s \in Sectors \ Listed(index) : home[s] = Kept[s]
      BY DEF Kept, Recovered
    <3>2. UNCHANGED Kept
      BY <2>1 DEF drive, Kept
    <3> QED
      BY <2>1, <2>4, <3>1, <3>2
         DEF drive, BatchInv, StartInv, CommitInv, ApplyInv, EraseInv, CacheInv
  <2>5. CASE index = NoMagic /\ pc' = "flush1" /\ ret' = "start"
    BY <2>1, <2>2, <2>5
       DEF drive, BatchInv, StartInv, CommitInv, ApplyInv, EraseInv, CacheInv
  <2> QED BY <1>11, <2>3, <2>4, <2>5 DEF RestoreCheck, JournalReset
<1>12. CASE RestoreCopy
  <2> DEFINE i == CHOOSE k \in DOMAIN journalBuf :
                    /\ journalBuf[k] \in todo
                    /\ \A m \in DOMAIN journalBuf : journalBuf[m] \in todo => k =< m
             s == journalBuf[i]
  <2>1. /\ i \in DOMAIN journalBuf /\ i \in Slots /\ s \in todo /\ s \in Sectors
        /\ s \in Listed(journalBuf)
    BY <1>12, CopySource
  <2>2. /\ pc = "replay" /\ pc' = "replay" /\ PutHome(s, slot[i])
        /\ mem' = [mem EXCEPT ![s] = slot[i]] /\ todo' = todo \ {s}
        /\ UNCHANGED <<ret, journalBuf, dirty>>
    BY <1>12 DEF RestoreCopy
  <2>3. /\ journalBuf = index /\ mem = home /\ dirty = {} /\ indexMay = {index}
        /\ Kept \in Tables /\ Safe(homeMay, slotMay, Kept, index)
        /\ \A r \in Sectors \ todo : home[r] = Kept[r]
    BY <2>2 DEF StartInv
  <2> HIDE DEF i
  <2>4. /\ UNCHANGED <<slot, index, slotMay, indexMay>>
        /\ home' = [home EXCEPT ![s] = slot[i]]
        /\ \A r \in Sectors \ {s} : homeMay'[r] = homeMay[r]
    BY <2>1, <2>2 DEF PutHome, TypeInv, TypeOK
  <2>5. slot[i] = Kept[s]
    <3>1. index # NoMagic
      BY <2>1, <2>3 DEF Listed
    <3>2. slot[i] \in slotMay[i] /\ slotMay[i] = {Kept[s]}
      BY <2>1, <2>3, <3>1 DEF Safe, Current
    <3> QED BY <3>2
  <2>6. Kept' = Kept
    BY <2>1, <2>3, <2>4 DEF Kept, Recovered
  <2>7. Safe(homeMay', slotMay', Kept, index)
    BY <2>1, <2>3, <2>4, SafeRewritten
  <2>8. \A r \in Sectors \ todo' : home'[r] = Kept[r]
    BY <2>1, <2>2, <2>3, <2>4, <2>5 DEF TypeInv, TypeOK
  <2> QED
    BY <2>2, <2>3, <2>4, <2>6, <2>7, <2>8
       DEF BatchInv, StartInv, CommitInv, ApplyInv, EraseInv, CacheInv
<1>13. CASE RestoreDone
  <2>1. /\ pc = "replay" /\ pc' = "flush1" /\ ret' = "start" /\ todo = {}
        /\ UNCHANGED <<mem, dirty, todo, drive>>
    BY <1>13 DEF RestoreDone, JournalReset
  <2>2. /\ mem = home /\ dirty = {} /\ indexMay = {index}
        /\ Kept \in Tables /\ Safe(homeMay, slotMay, Kept, index)
        /\ \A s \in Sectors : home[s] = Kept[s]
    BY <2>1 DEF StartInv
  <2>3. mem = Kept
    BY <2>2 DEF Tables, TypeInv, TypeOK
  <2> QED
    BY <2>1, <2>2, <2>3
       DEF drive, BatchInv, StartInv, CommitInv, ApplyInv, EraseInv, CacheInv
<1>14. CASE PowerCut
  <2>1. /\ pc' = "boot" /\ mem' = home' /\ dirty' = {} /\ indexMay' = {index'}
        /\ index' \in indexMay
        /\ homeMay' = [s \in Sectors |-> {home'[s]}] /\ slotMay' = [i \in Slots |-> {slot'[i]}]
        /\ \A s \in Sectors : home'[s] \in homeMay[s]
        /\ \A i \in Slots : slot'[i] \in slotMay[i]
    BY <1>14 DEF PowerCut, Forget
  <2>2. index' \in Lists \cup {NoMagic} /\ Fits(index')
    BY <2>1 DEF TypeInv, TypeOK, Counted
  <2>3. PICK t \in Tables : Safe(homeMay, slotMay, t, index')
    BY <2>1, SomeTable
  <2>4. Kept' = t
    BY <2>1, <2>2, <2>3, Recovers DEF Kept
  <2>5. Safe(homeMay', slotMay', Kept', index')
    BY <2>1, <2>2, <2>3, <2>4, SafeSettles
  <2> QED
    BY <2>1, <2>4, <2>5 DEF BatchInv, StartInv, CommitInv, ApplyInv, EraseInv, CacheInv
<1>15. CASE Reload
  <2>1. /\ pc = "idle" /\ pc' = "boot" /\ mem' = home' /\ dirty' = {}
        /\ UNCHANGED drive /\ UNCHANGED <<home, homeMay, slotMay, index, indexMay>>
    BY <1>15 DEF Reload, Forget, CacheInv, drive
  <2>2. /\ indexMay = {<<>>} /\ index = <<>> /\ home \in Tables
        /\ Safe(homeMay, slotMay, home, <<>>)
    BY <2>1 DEF BatchInv, Current
  <2>3. Kept' = home
    BY <2>1, <2>2, NothingListed DEF Kept, Recovered, TypeInv, TypeOK
  <2> QED
    BY <2>1, <2>2, <2>3 DEF BatchInv, StartInv, CommitInv, ApplyInv, EraseInv, CacheInv
<1> QED
  BY <1>1, <1>2, <1>3, <1>4, <1>5, <1>6, <1>7, <1>8, <1>9, <1>10, <1>11, <1>12,
     <1>13, <1>14, <1>15 DEF Next

(* Copying a header home does not change what is recovered. *)
LEMMA CopyKeeps ==
  ASSUME Faults = FALSE, TypeInv, CrashInv, RestoreCopy
  PROVE  Kept' = Kept
<1> DEFINE i == CHOOSE k \in DOMAIN journalBuf :
                  /\ journalBuf[k] \in todo
                  /\ \A m \in DOMAIN journalBuf : journalBuf[m] \in todo => k =< m
           s == journalBuf[i]
<1>1. s \in Listed(journalBuf)
  BY CopySource
<1>2. home' = [home EXCEPT ![s] = slot[i]] /\ UNCHANGED <<slot, index>>
  BY DEF RestoreCopy, PutHome
<1>3. journalBuf = index
  BY DEF RestoreCopy, CrashInv, StartInv, Starting
<1> HIDE DEF i
<1> QED BY <1>1, <1>2, <1>3 DEF Kept, Recovered

LEMMA CrashInvariant ==
  ASSUME Faults = FALSE
  PROVE  Spec => [](TypeInv /\ CrashInv)
<1>1. Init => WriteAhead
  BY DEF Init, WriteAhead
<1>2. TypeInv /\ WriteAhead /\ CrashInv /\ [Next]_vars => CrashInv'
  BY CrashStep
<1> QED
  BY <1>1, <1>2, InitCrash, TypeInvariant, WriteAheadStep, PTL DEF Spec

-----------------------------------------------------------------------------
(* Once apaCacheFlushAllDirty has returned, a power cut at any time leaves  *)
(* what its caller wrote, and no older batch.                               *)
THEOREM BatchDurable ==
  ASSUME Faults = FALSE
  PROVE  Spec => []DurableOnReturn
<1>1. TypeInv /\ CrashInv => DurableOnReturn
  <2> SUFFICES ASSUME TypeInv, CrashInv, pc = "idle", dirty = {}
               PROVE  Images = {mem}
    BY DEF DurableOnReturn
  <2> QED
    BY Meaning, SameTable DEF CrashInv, Durable, Committing, Batching
<1> QED BY <1>1, CrashInvariant, PTL

(* Whenever power is lost, in an update or in the recovery from an earlier  *)
(* cut, the next start-up recovers no header of which only a part was       *)
(* written.                                                                 *)
THEOREM NeverTorn ==
  ASSUME Faults = FALSE
  PROVE  Spec => []NoTornHeader
<1>1. TypeInv /\ CrashInv => NoTornHeader
  BY Meaning, JournalAssumption DEF NoTornHeader, Tables
<1> QED BY <1>1, CrashInvariant, PTL

(* The index block is cleared only when every header it lists has reached   *)
(* its own sector.                                                          *)
THEOREM EraseAfterCopy ==
  ASSUME Faults = FALSE
  PROVE  Spec => EraseOnlyAfterCopy
<1> DEFINE Rule == pc = "index" /\ pc' # "boot" /\ index' = <<>> =>
                     \A s \in Listed(index) : home[s] = Recovered(home, slot, index)[s]
<1>1. TypeInv /\ CrashInv => (pc = "index" =>
         \A s \in Listed(index) : home[s] = Recovered(home, slot, index)[s])
  <2> SUFFICES ASSUME TypeInv, CrashInv, pc = "index", NEW s \in Listed(index)
               PROVE  home[s] = Kept[s]
    BY DEF Kept
  <2>1. CASE ret = "apply"
    BY <2>1, NothingListed DEF CrashInv, BatchInv, Batching, Current
  <2>2. CASE ret # "apply"
    <3>1. dirty = {}
      BY <2>2 DEF CrashInv, EraseInv, Erasing
    <3>2. home = mem
      BY <3>1, SameTable DEF CrashInv
    <3> QED BY <2>2, <3>2, Meaning DEF Batching, Starting
  <2> QED BY <2>1, <2>2
<1>2. TypeInv /\ CrashInv => [Rule]_vars
  BY <1>1 DEF Rule
<1> QED BY <1>2, CrashInvariant, PTL DEF EraseOnlyAfterCopy

-----------------------------------------------------------------------------
(* The journal implements AtomicTable. *)

View == IF pc \in {"boot", "replay", "failed"} THEN Kept ELSE mem

LEMMA InitImplements ==
  Init => Table!Init
<1> SUFFICES ASSUME Init PROVE Table!Init
  OBVIOUS
<1>1. TypeInv /\ CrashInv
  BY InitTyped, InitCrash
<1>2. Images = {Kept} /\ Kept \in Tables
  BY <1>1, Meaning DEF Init, Durable, Committing
<1> QED BY <1>2 DEF Init, Table!Init, Table!Tables, Tables, Kept

(* A step of the driver is one of the table's, or none. *)
LEMMA StepImplements ==
  ASSUME Faults = FALSE, TypeInv, CrashInv, TypeInv', CrashInv',
         Images' = Durable', Batching' => Kept' = home',
         ~Batching' /\ ~Starting' => Kept' = mem',
         [Next]_vars
  PROVE  [Table!Next]_(Table!vars)
<1> DEFINE Stutter == UNCHANGED <<View, Kept, Images>>
           Goal == [Table!Next]_(Table!vars)
<1>0. /\ Images = Durable /\ Images \subseteq Tables /\ Kept \in Tables
      /\ Batching => Kept = home
      /\ ~Batching /\ ~Starting => Kept = mem
  BY Meaning
<1>1. Stutter => Goal
  BY DEF Table!vars, View, Kept
<1>2. pc # "failed" /\ pc' # "failed"
  BY DEF CrashInv, CacheInv
(* The table to recover, and the callers' view, phase by phase. *)
<1>3. Starting => View = Kept /\ Images = {Kept}
  BY <1>0 DEF View, Durable, Starting, Committing
<1>4. Starting' => View' = Kept' /\ Images' = {Kept'}
  BY DEF View, Durable, Starting, Committing
<1>5. ~Starting => View = mem
  BY <1>2 DEF View, Starting
<1>6. ~Starting' => View' = mem'
  BY <1>2 DEF View, Starting
<1>7. Batching => Images = {home} /\ Kept = home /\ ~Starting
  BY <1>0 DEF Durable, Starting, Committing, Batching
<1>8. Batching' => Images' = {home'} /\ Kept' = home' /\ ~Starting'
  BY DEF Durable, Starting, Committing, Batching
<1>9. pc = "apply" \/ Erasing => Images = {mem} /\ Kept = mem /\ ~Starting
  BY <1>0 DEF Durable, Starting, Committing, Batching, Erasing
<1>10. (pc = "apply" \/ Erasing)' => Images' = {mem'} /\ Kept' = mem' /\ ~Starting'
  BY DEF Durable, Starting, Committing, Batching, Erasing
<1> SUFFICES Goal
  OBVIOUS
<1> HIDE DEF Stutter, Goal
<1>11. Batching /\ Batching' /\ UNCHANGED <<home, mem>> => Goal
  BY <1>1, <1>5, <1>6, <1>7, <1>8 DEF Stutter
<1>12. (pc = "apply" \/ Erasing) /\ (pc = "apply" \/ Erasing)' /\ mem' = mem => Goal
  BY <1>1, <1>5, <1>6, <1>9, <1>10 DEF Stutter
<1>13. CASE UNCHANGED vars
  <2>1. UNCHANGED <<View, Kept, Durable>>
    BY <1>13 DEF vars, drive, View, Kept, Durable, Committing
  <2> QED BY <1>0, <1>1, <2>1 DEF Stutter
<1>14. ASSUME NEW s \in Sectors, NEW h \in Headers, Edit(s, h)
       PROVE  Goal
  <2>1. /\ Batching /\ Batching' /\ mem' = [mem EXCEPT ![s] = h] /\ home' = home
    BY <1>14 DEF Edit, drive, Batching
  <2>2. View' = [View EXCEPT ![s] = h] /\ UNCHANGED <<Kept, Images>>
    BY <1>5, <1>6, <1>7, <1>8, <2>1
  <2> QED BY <2>2 DEF Goal, Table!Next, Table!Edit, View, Kept
<1>15. CASE FlushAllDirty \/ Logged \/ \E s \in Sectors : JournalWrite(s)
  <2>1. Batching /\ Batching' /\ UNCHANGED <<home, mem>>
    BY <1>15 DEF FlushAllDirty, Logged, JournalWrite, PutSlot, drive, Batching
  <2> QED BY <1>11, <2>1
<1>16. CASE JournalFlush1
  <2>1. /\ UNCHANGED <<home, mem>>
        /\ \/ Batching /\ Batching'
           \/ Erasing /\ Erasing'
    BY <1>16 DEF JournalFlush1, FlushCache, Batching, Erasing
  <2> QED BY <1>11, <1>12, <2>1
<1>17. CASE JournalFlushIndex
  <2>1. /\ UNCHANGED <<home, mem>>
        /\ \/ Batching /\ Committing'
           \/ Erasing /\ Erasing'
    BY <1>17 DEF JournalFlushIndex, PutIndex, Batching, Committing, Erasing
  <2>2. CASE Batching /\ Committing'
    <3>1. Images' = {home, mem} /\ Kept' = mem /\ View' = mem
      BY <1>6, <2>1, <2>2 DEF Durable, Committing, Batching, Starting
    <3>2. Kept' = View /\ Images' = Images \cup {View} /\ View' = View
      BY <1>5, <1>7, <2>2, <3>1
    <3> QED BY <3>2 DEF Goal, Table!Next, Table!Commit, View, Kept
  <2> QED BY <1>12, <2>1, <2>2
<1>18. CASE JournalFlush2
  <2>1. /\ UNCHANGED <<home, mem, dirty>>
        /\ \/ Committing /\ pc' = "apply"
           \/ Erasing /\ pc' = "idle"
    BY <1>18 DEF JournalFlush2, FlushCache, Resume, OnSuccess, TypeInv, TypeOK, Committing, Erasing
  <2>2. CASE Committing /\ pc' = "apply"
    <3>1. Kept = mem /\ View = mem
      BY <1>0, <1>5, <2>2 DEF Committing, Batching, Starting
    <3>2. Images' = {Kept} /\ UNCHANGED <<View, Kept>>
      BY <1>6, <1>10, <2>1, <2>2, <3>1
    <3> QED BY <3>2 DEF Goal, Table!Next, Table!Sync, View, Kept
  <2>3. CASE Erasing /\ pc' = "idle"
    <3>1. home = mem
      BY <2>3, SameTable DEF CrashInv, EraseInv
    <3>2. Batching'
      BY <2>3 DEF Batching
    <3> QED BY <1>1, <1>5, <1>6, <1>8, <1>9, <2>1, <2>3, <3>1, <3>2 DEF Stutter
  <2> QED BY <2>1, <2>2, <2>3
<1>19. CASE Applied \/ \E s \in Sectors : CacheTransfer(s)
  <2>1. pc = "apply" /\ (pc = "apply" \/ Erasing)' /\ mem' = mem
    BY <1>19 DEF Applied, JournalReset, CacheTransfer, Erasing
  <2> QED BY <1>12, <2>1
<1>20. CASE RestoreCheck
  <2>1. Starting /\ mem' = home /\ Kept' = Kept /\ home' = home
    BY <1>20 DEF RestoreCheck, Starting, drive, Kept
  <2>2. \/ Starting'
        \/ index \in {<<>>, NoMagic} /\ (Batching' \/ Erasing')
    BY <1>20 DEF RestoreCheck, JournalReset, Starting, Batching, Erasing
  <2>3. CASE Starting'
    BY <1>1, <1>3, <1>4, <2>1, <2>3 DEF Stutter
  <2>4. CASE index \in {<<>>, NoMagic} /\ (Batching' \/ Erasing')
    <3>1. Kept = home
      BY <2>4, NothingListed DEF Kept, Recovered, TypeInv, TypeOK
    <3>2. View' = home /\ Images' = {home}
      BY <1>6, <1>8, <1>10, <2>1, <2>4
    <3> QED BY <1>1, <1>3, <2>1, <3>1, <3>2 DEF Stutter
  <2> QED BY <2>2, <2>3, <2>4
<1>21. CASE RestoreCopy
  <2>1. Starting /\ Starting'
    BY <1>21 DEF RestoreCopy, Starting
  <2>2. Kept' = Kept
    BY <1>21, CopyKeeps
  <2> QED BY <1>1, <1>3, <1>4, <2>1, <2>2 DEF Stutter
<1>22. CASE RestoreDone
  <2>1. Starting /\ Erasing' /\ mem' = mem
    BY <1>22 DEF RestoreDone, JournalReset, Starting, Erasing
  <2>2. mem = Kept
    BY <1>22 DEF RestoreDone, CrashInv, StartInv, Starting, Tables, TypeInv, TypeOK
  <2> QED BY <1>1, <1>3, <1>6, <1>10, <2>1, <2>2 DEF Stutter
<1>23. CASE PowerCut
  <2>1. Starting'
    BY <1>23 DEF PowerCut, Forget, Starting
  <2>2. Kept' \in Images
    BY <1>23 DEF PowerCut, Images, Kept, TypeInv, TypeOK
  <2>3. View' = Kept' /\ Images' = {Kept'}
    BY <1>4, <2>1
  <2> QED BY <2>2, <2>3 DEF Goal, Table!Next, Table!PowerCut, View, Kept
<1>24. CASE Reload
  <2>1. Starting' /\ Batching /\ UNCHANGED drive
    BY <1>2, <1>24 DEF Reload, Forget, Starting, Batching
  <2>2. UNCHANGED Kept /\ home' = home
    BY <2>1 DEF drive, Kept
  <2>3. View' = Kept /\ UNCHANGED <<Kept, Images>>
    BY <1>4, <1>7, <2>1, <2>2
  <2> QED BY <2>3 DEF Goal, Table!Next, Table!Restart, View, Kept
<1> QED
  BY <1>13, <1>14, <1>15, <1>16, <1>17, <1>18, <1>19, <1>20, <1>21, <1>22, <1>23,
     <1>24 DEF Next

(* apaCacheFlushAllDirty and apaJournalRestore keep the promise of          *)
(* AtomicTable: at every moment, what a power cut may leave is the table    *)
(* without the batch or with all of it, and when the function has returned  *)
(* only the latter.                                                         *)
THEOREM JournalAtomic ==
  ASSUME Faults = FALSE
  PROVE  Spec => CrashAtomic
<1> DEFINE Read == /\ Images = Durable
                   /\ Batching => Kept = home
                   /\ ~Batching /\ ~Starting => Kept = mem
<1>1. TypeInv /\ CrashInv => Read
  BY Meaning
<1>2. TypeInv /\ CrashInv /\ (TypeInv /\ CrashInv)' /\ Read' /\ [Next]_vars
      => [Table!Next]_(Table!vars)
  BY StepImplements
<1> QED
  BY <1>1, <1>2, InitImplements, CrashInvariant, PTL DEF Spec, CrashAtomic, Table!Spec
=============================================================================
