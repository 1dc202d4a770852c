------------------------------- MODULE History -------------------------------
(***************************************************************************)
(* The play history that the console keeps on the memory cards, and that   *)
(* the program continues when it starts a disc (src/main_history.c).       *)
(*                                                                         *)
(* A file has MAX_ENTRIES entries.  An entry has a count, a set of bits    *)
(* that grows at certain counts, the bit that was added last, and a day.   *)
(* A blank entry has the title None.                                       *)
(***************************************************************************)
EXTENDS Integers, Sequences, FiniteSets

CONSTANTS NumPorts,     \* the memory card slots
          Titles,       \* the titles that are started
          MAX_ENTRIES,  \* OSD_HISTORY_MAX_ENTRIES
          FirstFiles,   \* what the console may have left on a card
          Days,         \* what the clock may tell; it fails as day 0
          MaxLaunches,  \* bounds the starts
          MaxFailures   \* bounds the calls that fail

None == "none"
NoHistory == <<>>         \* no file, or a short one that a failed write has left
Ports == 0 .. NumPorts - 1
Slots == 1 .. MAX_ENTRIES
Bits == 0 .. 5
Blank == [title |-> None, count |-> 0, bits |-> {}, shift |-> 0, day |-> 0]
BlankList == [i \in Slots |-> Blank]

VARIABLES cards,   \* on each card: the file and the titles of history.old
          update,  \* the update under way: its title and the next card
          past     \* what happened: starts, failures, titles recorded, last eviction
historyVars == <<cards, update, past>>

NoUpdate == [title |-> None, port |-> 0]
HistoryInit ==
    /\ cards \in [Ports -> [file : FirstFiles \cup {NoHistory}, old : {{}}]]
    /\ update = NoUpdate
    /\ past = [launches |-> 0, failures |-> [p \in Ports |-> {}],
               seen |-> [p \in Ports |-> IF cards[p].file = NoHistory THEN {}
                                         ELSE {cards[p].file[i].title : i \in Slots} \ {None}],
               evicted |-> [title |-> None, from |-> BlankList]]
-----------------------------------------------------------------------------
(* The loop keeps the entry of the least count.  A lower count does not    *)
(* reset the day that was kept, so that among equal counts an entry is     *)
(* kept if its day is below that of every entry that was once the least;   *)
(* the last one that was kept is the result.                               *)
\* Variant: the entry of the lowest day, whatever its count.
LeastByDay(list) == CHOOSE i \in Slots : \A j \in Slots : list[i].day <= list[j].day
OnceLeast(list) == {i \in Slots : \A j \in 1 .. i - 1 : list[i].count <= list[j].count}
KeptByLoop(list) ==
    {i \in OnceLeast(list) : \/ \A j \in 1 .. i - 1 : list[i].count < list[j].count
                             \/ \A j \in OnceLeast(list) : j < i => list[i].day < list[j].day}
LeastUsed(list) == CHOOSE i \in KeptByLoop(list) : \A j \in KeptByLoop(list) : j <= i

Grows(count) == count >= 14 /\ (count - 14) % 10 = 0
Low(n) == IF n >= 128 THEN 127 ELSE n
Weight(bits) ==
    LET worth(b, n) == IF b \in bits THEN n ELSE 0
    IN worth(0, 1) + worth(1, 2) + worth(2, 4) + worth(3, 8) + worth(4, 16) + worth(5, 32)

(* One more start of a title that has an entry: at 14, 24, ... starts a    *)
(* random bit is added; when all are there, the count stops at their value.*)
\* Variant: the new bit is any of the six.
CountAnyBit(e, day) ==
    IF e.bits # Bits
    THEN LET n == Low(e.count + 1) IN
         {[e EXCEPT !.day = day, !.count = n, !.bits = IF Grows(n) THEN @ \cup {b} ELSE @,
                    !.shift = IF Grows(n) THEN b ELSE @] : b \in Bits}
    ELSE {[e EXCEPT !.day = day, !.count = IF @ < 63 THEN @ + 1 ELSE Weight(e.bits),
                    !.shift = IF e.count < 63 THEN @ ELSE 7]}
Counted(e, day) ==
    LET n == Low(e.count + 1) IN
    CASE e.bits = Bits /\ e.count < 63 -> {[e EXCEPT !.day = day, !.count = @ + 1]}
      [] e.bits = Bits /\ e.count >= 63 -> {[e EXCEPT !.day = day, !.count = Weight(e.bits), !.shift = 7]}
      [] e.bits # Bits /\ Grows(n) ->
           {[e EXCEPT !.day = day, !.count = n, !.bits = @ \cup {b}, !.shift = b] : b \in Bits \ e.bits}
      [] OTHER -> {[e EXCEPT !.day = day, !.count = n]}

NewEntry(title, day) == [title |-> title, count |-> 1, bits |-> {0}, shift |-> 0, day |-> day]

(* What the list may become, with the entry that goes to history.old.      *)
processHistoryList(list, title, day) ==
    LET Kept(l) == [list |-> l, evicted |-> Blank]
        here == {i \in Slots : list[i].title = title}
        blank == {i \in Slots : list[i].title = None}
        first == CHOOSE i \in here : \A j \in here : i <= j
        least == LeastUsed(list)
    IN CASE here # {} -> {Kept([list EXCEPT ![first] = e]) : e \in Counted(list[first], day)}
         [] here = {} /\ blank # {} -> {Kept([list EXCEPT ![i] = NewEntry(title, day)]) : i \in blank}
         [] OTHER -> {[list |-> [list EXCEPT ![least] = NewEntry(title, day)], evicted |-> list[least]]}
-----------------------------------------------------------------------------
(* main_actions.c: a disc is about to be started.                          *)
StartDisc(title) ==
    /\ update.title = None /\ past.launches < MaxLaunches
    /\ update' = [title |-> title, port |-> 0]
    /\ past' = [past EXCEPT !.launches = @ + 1]
    /\ UNCHANGED cards

Onward == update' = IF update.port + 1 \in Ports THEN [update EXCEPT !.port = @ + 1] ELSE NoUpdate
Failures == UNION {past.failures[p] : p \in Ports}
MayFail == Cardinality(Failures) < MaxFailures

(* No formatted card of the PS2 is there, or the folder cannot be made.    *)
SkipCard ==
    /\ update.title # None /\ Onward
    /\ UNCHANGED <<cards, past>>

(* updateOSDHistoryFile on one card.  A file that cannot be opened or read *)
(* whole counts as an empty one.  history.old grows before the file is     *)
(* written, whatever comes of it, and the file is truncated before it is   *)
(* written.                                                                *)
ListOf(file, failure) ==
    IF failure = "read" \/ file = NoHistory THEN BlankList ELSE file
\* Variant: the evicted entry is not kept.
EvictedDropped(old, evicted, failure) == old
appendEvictedHistoryEntry(old, evicted, failure) ==
    IF evicted = Blank \/ failure = "append" THEN old ELSE old \cup {evicted.title}

UpdateCard(failure, day) ==
    LET port == update.port
        before == ListOf(cards[port].file, failure)
    IN /\ update.title # None /\ (failure = "none" \/ MayFail)
       /\ \E new \in processHistoryList(before, update.title, day) :
            /\ cards' = [cards EXCEPT
                 ![port].old = appendEvictedHistoryEntry(@, new.evicted, failure),
                 ![port].file = CASE failure = "open" -> @ [] failure = "write" -> NoHistory [] OTHER -> new.list]
            /\ past' = [past EXCEPT
                 !.failures[port] = IF failure = "none" THEN @ ELSE @ \cup {failure},
                 !.seen[port] = IF failure \in {"open", "write"} THEN @ ELSE @ \cup {update.title},
                 !.evicted = IF new.evicted = Blank THEN @ ELSE [title |-> new.evicted.title, from |-> before]]
       /\ Onward

Outcomes == {"none", "read", "append", "open", "write"}
HistoryNext ==
    \/ \E title \in Titles : StartDisc(title)
    \/ SkipCard
    \/ \E failure \in Outcomes, day \in Days \cup {0} : UpdateCard(failure, day)
HistorySpec == HistoryInit /\ [][HistoryNext]_historyVars
-----------------------------------------------------------------------------
ListedIn(file) == IF file = NoHistory THEN {} ELSE {i \in Slots : file[i].title # None}
Listed(p) == ListedIn(cards[p].file)

(* A title that was recorded on a card is in its list or was moved to      *)
(* history.old, unless a call on that same card failed in a way that loses *)
(* it: an update of the file that cannot be opened for writing does not.   *)
NothingForgotten ==
    \A p \in Ports : past.failures[p] \subseteq {"open"} =>
        past.seen[p] \subseteq {cards[p].file[i].title : i \in Listed(p)} \cup cards[p].old

(* A title has one entry.                                                  *)
TitlesOnce(file) == \A i, j \in ListedIn(file) : file[i].title = file[j].title => i = j
NoTwins == \A p \in Ports : TitlesOnce(cards[p].file)

(* An entry has one bit more for each of the counts 14, 24, 34, 44 and 54  *)
(* that it has passed, its count ends at 63 with all of them, and the bit  *)
(* shown is one that it has, or 7 at the end.                              *)
CountRight(e) ==
    /\ e.count \in 1 .. 63
    /\ Cardinality(e.bits) = 1 + Cardinality({14, 24, 34, 44, 54} \cap (1 .. e.count))
    /\ e.shift \in e.bits \/ (e.shift = 7 /\ e.count = 63)
CountsRight == \A p \in Ports : \A i \in Listed(p) : CountRight(cards[p].file[i])

(* The title that makes room has the least starts, and is the oldest where *)
(* all have as many.                                                       *)
LeastMakesRoom ==
    past.evicted.title # None =>
        LET list == past.evicted.from
            gone == CHOOSE i \in Slots : list[i].title = past.evicted.title
        IN /\ \A i \in Slots : list[i].count >= list[gone].count
           /\ (\A i \in Slots : list[i].count = list[gone].count) => \A i \in Slots : list[i].day >= list[gone].day

HistoryKept == NothingForgotten /\ NoTwins /\ CountsRight /\ LeastMakesRoom

(* The console keeps its file as the program does.                         *)
Names == Titles \cup {None} \cup {file[i].title : file \in FirstFiles, i \in Slots}
Entries == [title : Names, count : 0 .. 63, bits : SUBSET Bits, shift : 0 .. 7, day : Nat]
HistoryAssumption ==
    /\ NumPorts \in Nat \ {0} /\ MAX_ENTRIES \in Nat \ {0}
    /\ None \notin Titles /\ Days \subseteq Nat
    /\ \A file \in FirstFiles :
          /\ file \in [Slots -> Entries] /\ TitlesOnce(file)
          /\ \A i \in ListedIn(file) : CountRight(file[i])
=============================================================================
