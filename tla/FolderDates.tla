----------------------------- MODULE FolderDates -----------------------------
(***************************************************************************)
(* The dates by which the console's browser orders the folders of a memory *)
(* card or of hdd0:/__common: the editor of dates, and the orders that the *)
(* program makes by itself (src/filer_actions.c), over the conversion      *)
(* between the time of Japan, in which dates are kept, and the local time  *)
(* (src/main_title.c).                                                     *)
(*                                                                         *)
(* A date is <<year, month, day, hour, minute, second>>.  A name is a      *)
(* number: names are numbered in the order of stricmp.                     *)
(***************************************************************************)
EXTENDS Integers, Sequences, FiniteSets, SequencesExt

CONSTANTS Names,      \* the folders, 1 .. the number of them
          Kind,         \* of each: tuna, save (excluded), the category and payload of a SAS name
          FirstDates,   \* the directories that the program may find
          Places,       \* a card or not, and the minutes from Japan's to the local time
          MaxMoves      \* bounds the keys, and the orders that are made

Year == 1
Month == 2
Day == 3
Hour == 4
Minute == 5
Second == 6
Fields == 1 .. 6
None == 0
Tuna == <<2099, 12, 31, 23, 59, 59>>
LastButTuna == <<2099, 12, 31, 23, 59, 58>>

VARIABLES dir,     \* the date of each folder on the card or in the partition
          place,   \* whether it is a card, and the offset of the local time
          ed,      \* the editor: its list, the folder and the date being edited
          past     \* the last key or order, the folders written, the number of moves
dateVars == <<dir, place, ed, past>>
Closed == [open |-> FALSE]
-----------------------------------------------------------------------------
(* The calendar.                                                           *)
\* Variant: every fourth year is a leap year.
EveryFourth(y) == y % 4 = 0
isCustomDateLeapYear(y) == y % 4 = 0 /\ (y % 100 # 0 \/ y % 400 = 0)
DaysInMonth(y, m) ==
    IF m = 2 THEN (IF isCustomDateLeapYear(y) THEN 29 ELSE 28) ELSE IF m \in {4, 6, 9, 11} THEN 30 ELSE 31
Bottom(k) == IF k \in {Month, Day} THEN 1 ELSE 0
Top(t, k) == CASE k = Year -> 65536 [] k = Month -> 12 [] k = Day -> DaysInMonth(t[Year], t[Month])
               [] k = Hour -> 23 [] OTHER -> 59
Within(x, low, high) == IF x < low THEN low ELSE IF x > high THEN high ELSE x
Later(a, b) == \E k \in Fields : a[k] > b[k] /\ \A i \in 1 .. k - 1 : a[i] = b[i]

(* One more, or one less, of a field, carried into the fields before it.   *)
\* Variant: a day that is carried into does not look at the month.
DownTo31(t, k) ==
    LET j == CHOOSE j \in 1 .. k : (j = Year \/ t[j] > Bottom(j)) /\ \A i \in j + 1 .. k : t[i] <= Bottom(i)
    IN [i \in Fields |-> IF i < j \/ i > k THEN t[i] ELSE IF i = j THEN t[i] - 1
                         ELSE IF i = Day THEN 31 ELSE Top(t, i)]
Up(t, k) ==
    LET j == CHOOSE j \in 1 .. k : t[j] < Top(t, j) /\ \A i \in j + 1 .. k : t[i] >= Top(t, i)
    IN [i \in Fields |-> IF i < j \/ i > k THEN t[i] ELSE IF i = j THEN t[i] + 1 ELSE Bottom(i)]
Down(t, k) ==
    LET j == CHOOSE j \in 1 .. k : (j = Year \/ t[j] > Bottom(j)) /\ \A i \in j + 1 .. k : t[i] <= Bottom(i)
        less == [i \in Fields |-> IF i = j THEN t[i] - 1 ELSE IF i \in j + 1 .. k /\ i # Day THEN Top(t, i) ELSE t[i]]
    IN IF j < Day /\ Day <= k THEN [less EXCEPT ![Day] = DaysInMonth(less[Year], less[Month])] ELSE less

(* convertTimestampMinutes goes minute by minute; here an hour is a step,  *)
(* and the rest is done in minutes.  The year has 16 bits.                 *)
Valid(t) == /\ t[Month] \in 1 .. 12 /\ t[Day] \in 1 .. DaysInMonth(t[Year], t[Month])
            /\ t[Hour] <= 23 /\ t[Minute] <= 59 /\ t[Second] <= 59
shiftClockMinutes(t, minutes) ==
    LET n == IF minutes < 0 THEN -minutes ELSE minutes
        One(x, k) == IF minutes < 0 THEN Down(x, k) ELSE Up(x, k)
        hours[i \in 0 .. n \div 60] == IF i = 0 THEN t ELSE One(hours[i - 1], Hour)
        moved[i \in 0 .. n % 60] == IF i = 0 THEN hours[n \div 60] ELSE One(moved[i - 1], Minute)
    IN [moved[n % 60] EXCEPT ![Year] = @ % 65536]
ToLocal(t) == IF Valid(t) THEN shiftClockMinutes(t, place.offset) ELSE t
FromLocal(t) == IF Valid(t) THEN shiftClockMinutes(t, -place.offset) ELSE t
-----------------------------------------------------------------------------
InRange(t) == t[Year] \in 1 .. 2099 /\ Valid(t)

Normalized(t, lowest, highest) ==
    LET y == Within(t[Year], lowest, highest)
        m == Within(t[Month], 1, 12)
    IN <<y, m, Within(t[Day], 1, DaysInMonth(y, m)), Within(t[Hour], 0, 23), Within(t[Minute], 0, 59), Within(t[Second], 0, 59)>>
(* On a card the date of *Tuna is kept for the folders of that name.       *)
\* Variant: any folder may have it.
NothingReserved(t) == Normalized(t, 1, 2099)
normalizeCustomFolderTimestamp(t) ==
    LET n == Normalized(t, 1, 2099) IN IF place.card /\ n = Tuna THEN LastButTuna ELSE n

stepCustomFolderTimestamp(t, delta) ==
    LET n == normalizeCustomFolderTimestamp(t)
        last == IF place.card THEN LastButTuna ELSE Tuna
    IN CASE delta > 0 -> IF n = last THEN n ELSE Up(n, Second)
         [] OTHER -> IF n = <<1, 1, 1, 0, 0, 0>> THEN n ELSE normalizeCustomFolderTimestamp(Down(n, Second))

(* A field of the local date goes round; the rest stays but for the day of *)
(* a shorter month.  What leaves the range is not taken.                   *)
Turned(t, field, delta) ==
    LET low == Bottom(field)  high == IF field = Year THEN 2100 ELSE Top(t, field) IN
    [t EXCEPT ![field] = IF delta > 0 THEN (IF @ = high THEN low ELSE @ + 1) ELSE (IF @ = low THEN high ELSE @ - 1)]
\* Variant: the field of the date of Japan is changed.
AdjustInJapan(t, field, delta) ==
    IF ~Valid(t) THEN t
    ELSE LET new == Normalized(Turned(t, field, delta), 0, 2100) IN
         IF InRange(new) THEN normalizeCustomFolderTimestamp(new) ELSE t
adjustCustomDateField(t, field, delta) ==
    IF ~Valid(t) THEN t
    ELSE LET new == FromLocal(Normalized(Turned(ToLocal(t), field, delta), 0, 2100)) IN
         IF InRange(new) THEN normalizeCustomFolderTimestamp(new) ELSE t
-----------------------------------------------------------------------------
(* updateCustomDateEditorFolders: the date being edited goes into the      *)
(* list, which is sorted again, the newest first.                          *)
Newer(f, g) == Later(f.date, g.date) \/ (f.date = g.date /\ f.name < g.name)
Updated(e) == LET edited == {[f EXCEPT !.date = IF f.name = e.selected THEN e.date ELSE @] : f \in Range(e.list)}
              IN [e EXCEPT !.list = SetToSortSeq(edited, Newer)]
At(e, name) == CHOOSE i \in DOMAIN e.list : e.list[i].name = name

TunaDated(list) == {[f EXCEPT !.date = IF Kind[f.name].tuna THEN Tuna ELSE @] : f \in list}
Loaded == {[name |-> n, date |-> dir[n], original |-> dir[n]] : n \in Names}

Move(op) == past' = [past EXCEPT !.op = op, !.moves = @ + 1]
Moves == past.moves < MaxMoves
Looked(name) == [op |-> "look", name |-> name]

(* time_manip_custom on a folder.                                          *)
OpenEditor(name) ==
    /\ ~ed.open /\ Moves
    /\ LET list == TunaDated(Loaded)
           found == (CHOOSE f \in list : f.name = name).date
           date == normalizeCustomFolderTimestamp(IF InRange(found) THEN found ELSE <<2000, 1, 1, 0, 0, 0>>)
       IN ed' = Updated([open |-> TRUE, list |-> SetToSortSeq(list, Newer), selected |-> name, date |-> date])
    /\ Move(Looked(name)) /\ UNCHANGED <<dir, place>>

Adjust(field, delta) ==
    /\ ed.open /\ Moves
    /\ ed' = Updated([ed EXCEPT !.date = adjustCustomDateField(@, field, delta)])
    /\ Move([op |-> "adjust", field |-> field, before |-> ed.date])
    /\ UNCHANGED <<dir, place>>

(* Up and Down go to the folder above or below, with the date it has.      *)
selectCustomDateEditorFolder(direction) ==
    /\ ed.open /\ Moves
    /\ LET next == At(ed, ed.selected) + direction IN
         /\ next \in DOMAIN ed.list
         /\ ed' = Updated([ed EXCEPT !.selected = ed.list[next].name, !.date = ed.list[next].date])
         /\ Move(Looked(ed.list[next].name))
    /\ UNCHANGED <<dir, place>>

(* L1 and R1 put the folder a second before or behind its neighbour.       *)
\* Variant: L1 goes by the folder below.
BehindItself(e, newer) == At(e, e.selected) + 1
Reference(e, newer) == At(e, e.selected) + (IF newer THEN -1 ELSE 1)
moveCustomDateEditorNextToFolder(newer) ==
    /\ ed.open /\ Moves
    /\ LET ref == Reference(ed, newer) IN
         /\ ref \in DOMAIN ed.list
         /\ ed' = Updated([ed EXCEPT !.date = stepCustomFolderTimestamp(ed.list[ref].date, IF newer THEN 1 ELSE -1)])
         /\ Move([op |-> IF newer THEN "newer" ELSE "older", than |-> ed.list[At(ed, ed.selected) + (IF newer THEN -1 ELSE 1)]])
    /\ UNCHANGED <<dir, place>>

Cancel == /\ ed.open /\ ed' = Closed /\ past' = [past EXCEPT !.op = Looked(None)] /\ UNCHANGED <<dir, place>>

(* The folders whose date is another one than at loading are written, one  *)
(* by one; those that fail keep theirs.                                    *)
\* Variant: every folder is written.
WriteAll(list) == list
Changed(list) == {f \in list : f.date # f.original}
WriteDates(list, op) ==
    \E failed \in SUBSET Changed(list) :
        LET new == Changed(list) \ failed IN
        /\ dir' = [n \in Names |-> IF \E f \in new : f.name = n THEN (CHOOSE f \in new : f.name = n).date ELSE dir[n]]
        /\ past' = [past EXCEPT !.op = [op |-> op, whole |-> failed = {}, before |-> dir], !.moves = @ + 1,
                                !.written = @ \cup {f.name : f \in new}]

Confirm == /\ ed.open /\ ed' = Closed /\ UNCHANGED place
           /\ WriteDates(TunaDated(Range(Updated(ed).list)), "edited")
-----------------------------------------------------------------------------
(* The orders that are made: names that have *Tuna's date and saves of     *)
(* games are left out.                                                     *)
\* Variant: saves are put in order, too.
AllIn(n) == ~Kind[n].tuna
Ordered(n) == ~Kind[n].tuna /\ ~Kind[n].save

(* setSequentialTimestamp: sixty steps of a second for each place, which   *)
(* is a minute, so far from the first date that the range allows.          *)
setSequentialTimestamp(position) ==
    LET back[i \in 0 .. position] == IF i = 0 THEN LastButTuna ELSE Down(back[i - 1], Minute)
    IN back[position]
Sequential(n, descending) ==
    setSequentialTimestamp(Cardinality({m \in Names : Ordered(m) /\ (IF descending THEN m > n ELSE m < n)}))

(* getSasTimestampSlot: the payload as a fraction of a day, with digits of *)
(* base 40 from 1 on; codes of 39 make the digit 40.                       *)
\* Variant: the digits are taken from the first to the last.
SlotForward(payload) == FoldLeft(LAMBDA carry, code : ((code + 1) * 86400 + carry) \div 40, 0, payload)
getSasTimestampSlot(payload) ==
    LET carry == FoldRight(LAMBDA code, carry : ((code + 1) * 86400 + carry) \div 40, payload, 0)
    IN IF carry >= 86400 THEN 86399 ELSE carry

(* setSasTimestamp: a day for each category, back from 2099-01-01 07:59:59 *)
(* and back by the seconds of the slot in that day.                        *)
setSasTimestamp(category, slot) ==
    LET left == 8 * 3600 - 1 - slot
        time == IF left < 0 THEN left + 86400 ELSE left
        days == IF left < 0 THEN category + 1 ELSE category
        back[i \in 0 .. days] == IF i = 0 THEN <<2099, 1, 1, 0, 0, 0>> ELSE Down(back[i - 1], Day)
        date == back[days]
    IN <<date[1], date[2], date[3], time \div 3600, (time % 3600) \div 60, time % 60>>

MadeDate(mode, n) ==
    CASE mode = "AZ" -> Sequential(n, FALSE) [] mode = "ZA" -> Sequential(n, TRUE)
      [] OTHER -> setSasTimestamp(Kind[n].category, getSasTimestampSlot(Kind[n].payload))
time_manip_automatic(mode) ==
    /\ ~ed.open /\ Moves /\ UNCHANGED <<ed, place>>
    /\ WriteDates({[f EXCEPT !.date = IF Ordered(f.name) THEN MadeDate(mode, f.name) ELSE @] : f \in TunaDated(Loaded)}, mode)

(* Set *Tuna date, on cards only.                                          *)
time_manip(n) ==
    /\ ~ed.open /\ Moves /\ place.card /\ UNCHANGED <<ed, place>>
    /\ \/ /\ dir' = [dir EXCEPT ![n] = Tuna]
          /\ past' = [past EXCEPT !.op = Looked(n), !.moves = @ + 1, !.written = @ \ {n}]
       \/ UNCHANGED dir /\ Move(Looked(n))

DatesInit ==
    /\ dir \in FirstDates
    /\ place \in Places
    /\ ed = Closed
    /\ past = [op |-> Looked(None), moves |-> 0, written |-> {}]

DatesNext ==
    \/ \E n \in Names : OpenEditor(n) \/ time_manip(n)
    \/ \E field \in Fields, delta \in {1, -1} : Adjust(field, delta)
    \/ \E direction \in {1, -1} : selectCustomDateEditorFolder(direction)
    \/ \E newer \in BOOLEAN : moveCustomDateEditorNextToFolder(newer)
    \/ Cancel \/ Confirm
    \/ \E mode \in {"AZ", "ZA", "SAS"} : time_manip_automatic(mode)
-----------------------------------------------------------------------------
(* Reference: the minutes since the year 0, by the count of leap days.     *)
DaysBefore(y, m) ==
    LET ended == IF m > 2 THEN y ELSE y - 1 IN
    365 * y + ended \div 4 - ended \div 100 + ended \div 400
    + <<0, 31, 59, 90, 120, 151, 181, 212, 243, 273, 304, 334>>[m]
Minutes(t) == ((DaysBefore(t[Year], t[Month]) + t[Day] - 1) * 24 + t[Hour]) * 60 + t[Minute]

(* The local time of the date being edited is the offset away from it, and *)
(* the date comes back from it (main_title.c).                             *)
LocalTimeTrue ==
    ed.open /\ InRange(ed.date) =>
        /\ Minutes(ToLocal(ed.date)) = Minutes(ed.date) + place.offset
        /\ FromLocal(ToLocal(ed.date)) = ed.date

(* A key changes the field of the local date that it is for and no other,  *)
(* but for the day of a month that is too short, or it changes nothing; a  *)
(* second less is the answer to the date of *Tuna on a card.               *)
OneFieldTurned ==
    past.op.op = "adjust" =>
        LET b == ToLocal(past.op.before)  a == ToLocal(ed.date) IN
        \/ ed.date = past.op.before \/ ed.date = LastButTuna
        \/ /\ a[past.op.field] # b[past.op.field]
           /\ \A k \in Fields \ {past.op.field} :
                a[k] = b[k] \/ (k = Day /\ past.op.field \in {Year, Month} /\ a[Day] = DaysInMonth(a[Year], a[Month]))

(* L1 puts a folder above the one that was above it, and R1 below, unless  *)
(* that has a date at the end of the range, or that the program cannot use.*)
NeighbourPassed ==
    LET at == past.op.than.date IN
    /\ past.op.op = "newer" /\ InRange(at) => Later(ed.date, at) \/ at \in {LastButTuna, Tuna}
    /\ past.op.op = "older" /\ InRange(at) => Later(at, ed.date)

(* On a card, *Tuna's date is given to its folders only, so that they come *)
(* first; and every date that the program gives is one of the calendar.    *)
TunaFirst ==
    \A n \in past.written :
        /\ InRange(dir[n])
        /\ place.card => (dir[n] = Tuna <=> Kind[n].tuna)

(* An order that was written whole is the one that was asked for: by name, *)
(* or by category and, for names of letters, digits, blanks and            *)
(* underscores, by the name without its category, as far as the seconds of *)
(* a day can tell; and saves of games keep their dates.                    *)
SasBefore(x, y) ==
    LET p == Kind[x].payload  q == Kind[y].payload IN
    \/ Kind[x].category < Kind[y].category
    \/ /\ Kind[x].category = Kind[y].category
       /\ \/ Len(p) < Len(q) /\ \A i \in DOMAIN p : p[i] = q[i]
          \/ \E k \in DOMAIN p \cap DOMAIN q : p[k] < q[k] /\ \A i \in 1 .. k - 1 : p[i] = q[i]
Lettered(n) == \A i \in DOMAIN Kind[n].payload : Kind[n].payload[i] < 39
OrderMade ==
    LET Both == {n \in Names : ~Kind[n].tuna /\ ~Kind[n].save} IN
    past.op.op \in {"AZ", "ZA", "SAS"} =>
        /\ \A n \in Names : Kind[n].save => dir[n] = past.op.before[n]
        /\ past.op.whole =>
             CASE past.op.op = "AZ" -> \A x, y \in Both : x < y => Later(dir[x], dir[y])
               [] past.op.op = "ZA" -> \A x, y \in Both : x < y => Later(dir[y], dir[x])
               [] OTHER -> \A x, y \in Both : SasBefore(x, y) =>
                    \/ Later(dir[x], dir[y])
                    \/ Kind[x].category = Kind[y].category /\ (dir[x] = dir[y] \/ ~Lettered(x))
=============================================================================
