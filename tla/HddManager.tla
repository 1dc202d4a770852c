---------------------------- MODULE HddManager ----------------------------
(***************************************************************************)
(* The manager of the hard disk, src/hdd.c: its list of partitions, which  *)
(* is read once and then kept up by hand, the operations of its menu, and  *)
(* the injection of headers into many partitions; with the names of games, *)
(* iop/hdl_info.  The disk does one thing at a time; any of it may fail.   *)
(***************************************************************************)
EXTENDS Integers, Sequences, FiniteSets, SequencesExt

CONSTANTS Typed,             \* names that the user or a source folder gives: [text, num]
          Protected,         \* the texts that begin with "__"
          FirstChain,        \* the partitions at the start
          GameNames,         \* names that the user gives to games
          MAX_PARTITIONS,
          TotalMb,           \* hddSize
          MaxChanges,        \* a bound on the operations of the menu
          Sources            \* the folders that a source device has, each a sequence of names

VARIABLES disk,              \* [formatted, chain]: what is on the disk, in its order
          ui,                \* PartyInfo, numParty, hddUsed, and what the manager has mounted and loaded
          bulk               \* an injection into many partitions

None == "none"
NoName == [text |-> None, num |-> 0]
Named(text, num) == [text |-> text, num |-> num]
ToNumber(name, num) == Named(name.text, 10 * name.num + num)
-----------------------------------------------------------------------------
(* Partitions: a sub-partition carries the name of its main one and may    *)
(* stand before it; a file system can be broken.                           *)
Segment(name, type, size, sub, nsub, bad, game) ==
    [name |-> name, type |-> type, size |-> size, sub |-> sub, nsub |-> nsub, bad |-> bad, game |-> game]
Mbr == Segment(Named("__mbr", 0), "MBR", 1, FALSE, 0, FALSE, NoName)

OnDisk(name) == \E k \in DOMAIN disk.chain : disk.chain[k].name = name
Sizes(chain) == FoldLeft(LAMBDA sum, p : sum + p.size, 0, chain)
Mains(type) == SelectSeq(disk.chain, LAMBDA p : p.type = type /\ ~p.sub)

(* The places where a new partition may go: never before the MBR.          *)
Placed(chain, p) == {SubSeq(chain, 1, k) \o <<p>> \o SubSeq(chain, k + 1, Len(chain)) : k \in 1..Len(chain)}

(* A partition of two units is a main one with a sub-partition.            *)
Created(name, size, bad) ==
    LET main == Segment(name, "PFS", 1, FALSE, size - 1, bad, NoName) IN
    IF size = 1 THEN Placed(disk.chain, main)
    ELSE UNION {Placed(chain, [main EXCEPT !.sub = TRUE, !.nsub = 0]) : chain \in Placed(disk.chain, main)}

(* A failure may leave a partition that was not formatted.                 *)
hddMakeFilesystem(size, name) ==
    LET Made(ret, chains) == {[name |-> name, ret |-> ret, chain |-> chain] : chain \in chains} IN
    Made(-1, {disk.chain})
    \cup (IF ~disk.formatted \/ OnDisk(name) \/ Sizes(disk.chain) + size > TotalMb THEN {}
          ELSE Made(size, Created(name, size, FALSE)) \cup Made(-1, Created(name, 1, TRUE)))
-----------------------------------------------------------------------------
Empty == [Name |-> NoName, RawSize |-> 0, TotalSize |-> 0, Treatment |-> None, Game |-> NoName, Count |-> 0]

Treats(p) ==
    CASE p.type = "MBR" -> "SYSTEM" [] p.type = "HDL" -> "HDL_RAW"
      [] p.type = "PFS" -> "PFS" [] OTHER -> "NOACCESS"

MainOf(chain, name) == CHOOSE p \in ToSet(chain) : p.name = name /\ ~p.sub

(* HIOCGETSIZE of as many segments as the entry that was found first has.  *)
TotalSize(chain, p) ==
    LET segments == SelectSeq(chain, LAMBDA q : q.name = p.name /\ q.sub) IN
    MainOf(chain, p.name).size + (IF p.nsub = 0 THEN 0 ELSE Sizes(segments))

(* Variant: entries are counted from one. *)
FoundTwice(chain, info, p) ==
    [info EXCEPT !.PartyInfo[info.numParty + 1] =
                     [Empty EXCEPT !.Name = p.name, !.RawSize = p.size, !.Count = info.numParty + 1,
                                   !.Treatment = Treats(p)],
                 !.numParty = @ + 1]

Found(chain, info, p) ==
    LET k == info.numParty + 1
        treat == Treats(p)
        open == treat = "PFS" /\ ~MainOf(chain, p.name).bad
        entry == [Empty EXCEPT
            !.Name = p.name, !.RawSize = p.size, !.Count = info.numParty,
            !.TotalSize = IF treat = "PFS" THEN TotalSize(chain, p) ELSE 0,
            !.Treatment = IF treat = "PFS" /\ ~open THEN "NOACCESS" ELSE treat] IN
    [info EXCEPT !.PartyInfo[k] = entry, !.numParty = k,
                 !.pfs0 = IF treat # "PFS" THEN @ ELSE IF open THEN p.name ELSE NoName]

(* One turn of the loop that reads the chain.                              *)
(* Variant: only what is new in the list is counted as used. *)
ReadsNames(chain, info, p) ==
    LET same == {k \in 1..info.numParty : info.PartyInfo[k].Name = p.name} IN
    IF info.tooMany THEN info
    ELSE IF same # {} THEN [info EXCEPT !.PartyInfo[CHOOSE k \in same : TRUE].RawSize = @ + p.size]
    ELSE IF info.numParty >= MAX_PARTITIONS THEN [info EXCEPT !.tooMany = TRUE]
    ELSE Found(chain, [info EXCEPT !.hddUsed = @ + p.size], p)

Reads(chain, info, p) ==
    LET used == [info EXCEPT !.hddUsed = @ + p.size]
        same == {k \in 1..info.numParty : info.PartyInfo[k].Name = p.name} IN
    IF info.tooMany THEN info
    ELSE IF same # {} THEN [used EXCEPT !.PartyInfo[CHOOSE k \in same : TRUE].RawSize = @ + p.size]
    ELSE IF info.numParty >= MAX_PARTITIONS THEN [used EXCEPT !.tooMany = TRUE]
    ELSE Found(chain, used, p)

(* A chain that cannot be read to its end is taken as ending there.        *)
GetHddInfo(d, info) ==
    LET fresh == [info EXCEPT !.numParty = 0, !.hddUsed = 0, !.tooMany = FALSE, !.doubt = {}] IN
    IF ~d.formatted THEN {[fresh EXCEPT !.whole = TRUE]}
    ELSE {[FoldLeft(LAMBDA acc, p : Reads(d.chain, acc, p), fresh, SubSeq(d.chain, 1, n))
               EXCEPT !.whole = (n = Len(d.chain))] : n \in {0, Len(d.chain) - 1, Len(d.chain)}}
-----------------------------------------------------------------------------
NoBulk == [todo |-> <<>>, create |-> FALSE, made |-> FALSE, listed |-> 0, Injected |-> 0, Created |-> 0,
           Skipped |-> 0, Failed |-> 0, into |-> <<>>]

HddInit ==
    /\ disk = [formatted |-> TRUE, chain |-> FirstChain]
    /\ bulk = NoBulk
    /\ ui = [inside |-> FALSE, PartyInfo |-> [k \in 1..MAX_PARTITIONS |-> Empty], numParty |-> 0, hddUsed |-> 0,
             tooMany |-> FALSE, whole |-> FALSE, pfs0 |-> NoName, doubt |-> {}, busy |-> FALSE, changes |-> 0,
             protect |-> {p.name : p \in {q \in ToSet(FirstChain) : q.name.text \in Protected}}]

(* The list is read after a change of the disk to "chain".                 *)
Refreshed(info, chain) ==
    LET d == [formatted |-> chain # <<>>, chain |-> chain] IN
    disk' = d /\ ui' \in GetHddInfo(d, info)

(* Variant: only the mounts of the file browser end. *)
UnmountNone(info) == [info EXCEPT !.changes = @ + 1]
MenuUnmounts(info) == [info EXCEPT !.pfs0 = NoName, !.changes = @ + 1]

Enter ==
    /\ ~ui.inside /\ UNCHANGED <<disk, bulk>>
    /\ ui' \in GetHddInfo(disk, [ui EXCEPT !.inside = TRUE])

Leave ==
    /\ ui.inside /\ bulk = NoBulk /\ UNCHANGED <<disk, bulk>>
    /\ ui' = [ui EXCEPT !.inside = FALSE, !.pfs0 = NoName]

(* R1 opens the menu for the entry that the cursor is on, which exists     *)
(* with no name when the list is empty.                                    *)
Menu == ui.inside /\ bulk = NoBulk /\ ui.changes < MaxChanges
Cursor == {ui.PartyInfo[k] : k \in 1..(IF ui.numParty = 0 THEN 1 ELSE ui.numParty)}
(* Variant: the system's names are like any other. *)
RemoveAny(Info) == Info.Name # NoName /\ Info.Treatment # "SYSTEM"
EnableRemove(Info) ==
    Info.Name # NoName /\ Info.Treatment # "SYSTEM" /\ Info.Name.text \notin Protected
EnableRename(Info) == Info.Name # NoName /\ Info.Treatment # "SYSTEM"

(* The loops that append a number look at each entry once.                 *)
UniqueName(typed, names) ==
    FoldLeft(LAMBDA acc, name : IF name = acc.name THEN [name |-> ToNumber(typed, acc.num), num |-> acc.num + 1]
                                ELSE acc,
             [name |-> typed, num |-> 1], names).name
PartyNames(n) == [k \in 1..n |-> ui.PartyInfo[k].Name]
ConfirmProtectedPartitionCreate(name) == name.text \in Protected

(* What came of a creation, which the user agreed to if the name was       *)
(* protected: the list is only read again when it succeeded.               *)
(* Variant: the list is left as it was. *)
NotRefreshed(info, made) ==
    /\ disk' = [disk EXCEPT !.chain = made.chain]
    /\ ui' = IF ConfirmProtectedPartitionCreate(made.name) /\ made.chain # disk.chain
             THEN [info EXCEPT !.protect = @ \cup {made.name}] ELSE info
Makes(info, made) ==
    LET agreed == IF ConfirmProtectedPartitionCreate(made.name) /\ made.chain # disk.chain
                  THEN [info EXCEPT !.protect = @ \cup {made.name}] ELSE info IN
    IF made.ret > 0 THEN Refreshed(agreed, made.chain)
    ELSE /\ disk' = [disk EXCEPT !.chain = made.chain]
         /\ ui' = [agreed EXCEPT !.whole = @ /\ made.chain = disk.chain]

CreateParty ==
    /\ Menu /\ UNCHANGED bulk
    /\ \E typed \in Typed, size \in 1..2 :
           \E made \in hddMakeFilesystem(size, UniqueName(typed, PartyNames(MAX_PARTITIONS))) :
               Makes(MenuUnmounts(ui), made)

(* The driver refuses a partition that is mounted.                         *)
Busy(name) == MenuUnmounts(ui).pfs0 = name

(* Variant: the count of an entry that moves is kept. *)
ShiftOnly(list, at, n) ==
    [k \in 1..MAX_PARTITIONS |-> IF k < at THEN list[k] ELSE IF k < n THEN list[k + 1] ELSE Empty]
WithoutEntry(list, at, n) ==
    [k \in 1..MAX_PARTITIONS |->
        IF k < at THEN list[k]
        ELSE IF k < n THEN [list[k + 1] EXCEPT !.Count = @ - 1]
        ELSE Empty]

(* Only what the entry has as its total size is free again.                *)
RemoveParty ==
    /\ Menu /\ UNCHANGED bulk
    /\ \E Info \in Cursor :
           /\ EnableRemove(Info)
           /\ LET info == MenuUnmounts(ui) IN
              \/ /\ disk.formatted /\ OnDisk(Info.Name) /\ ~Busy(Info.Name)
                 /\ disk' = [disk EXCEPT !.chain = SelectSeq(@, LAMBDA p : p.name # Info.Name)]
                 /\ ui' = [info EXCEPT !.hddUsed = @ - Info.TotalSize, !.numParty = @ - 1,
                                       !.PartyInfo = WithoutEntry(@, Info.Count + 1, ui.numParty)]
              \/ ui' = [info EXCEPT !.busy = @ \/ Busy(Info.Name)] /\ UNCHANGED disk

RenameParty ==
    /\ Menu /\ UNCHANGED bulk
    /\ \E Info \in Cursor, typed \in Typed :
           /\ EnableRename(Info) /\ Info.Treatment # "HDL_GAME"
           /\ LET newName == UniqueName(typed, PartyNames(ui.numParty))
                  info == MenuUnmounts(ui) IN
              \/ /\ disk.formatted /\ OnDisk(Info.Name) /\ ~OnDisk(newName) /\ ~Busy(Info.Name) /\ Info.Name # typed
                 /\ disk' = [disk EXCEPT !.chain =
                        [k \in DOMAIN @ |-> IF @[k].name = Info.Name THEN [@[k] EXCEPT !.name = newName] ELSE @[k]]]
                 /\ ui' = [info EXCEPT !.PartyInfo[Info.Count + 1].Name = newName,
                                       !.protect = (@ \ {Info.Name}) \cup {n \in {newName} : n.text \in Protected}]
              \/ ui' = [info EXCEPT !.busy = @ \/ Busy(Info.Name)] /\ UNCHANGED disk

FormatHdd ==
    /\ Menu /\ UNCHANGED bulk
    /\ \/ Refreshed([MenuUnmounts(ui) EXCEPT !.protect = {Mbr.name}], <<Mbr>>)
       \/ Refreshed([MenuUnmounts(ui) EXCEPT !.protect = {}], <<>>)
       \/ Refreshed(MenuUnmounts(ui), disk.chain)
-----------------------------------------------------------------------------
(* Games: found by the name of the partition to be shown, and by the name  *)
(* of the game, the first that has it, to be renamed.                      *)
HdlGetGameInfo(name) == SelectSeq(Mains("HDL"), LAMBDA p : p.name = name)

SquareButton ==
    /\ ui.inside /\ bulk = NoBulk /\ UNCHANGED <<disk, bulk>>
    /\ \E k \in 1..ui.numParty :
           \/ /\ ui.PartyInfo[k].Treatment = "HDL_RAW"
              /\ HdlGetGameInfo(ui.PartyInfo[k].Name) # <<>>
              /\ ui' = [ui EXCEPT !.PartyInfo[k].Treatment = "HDL_GAME",
                                  !.PartyInfo[k].Game = HdlGetGameInfo(ui.PartyInfo[k].Name)[1].game,
                                  !.doubt = @ \ {ui.PartyInfo[k].Name}]
           \/ /\ ui.PartyInfo[k].Treatment = "HDL_GAME"
              /\ ui' = [ui EXCEPT !.PartyInfo[k].Treatment = "HDL_RAW"]

GameAt(old) ==
    CHOOSE k \in DOMAIN disk.chain :
        /\ disk.chain[k].type = "HDL" /\ ~disk.chain[k].sub /\ disk.chain[k].game = old
        /\ \A j \in 1..(k - 1) : disk.chain[j].type # "HDL" \/ disk.chain[j].sub \/ disk.chain[j].game # old
(* Variant: the first game is taken. *)
RenameFirstGame(old, new) ==
    [disk EXCEPT !.chain[CHOOSE k \in DOMAIN disk.chain : disk.chain[k].type = "HDL"].game = new]
HdlRenameGame(old, new) == [disk EXCEPT !.chain[GameAt(old)].game = new]

(* The list takes the new name whether or not the disk did.                *)
RenameGame ==
    /\ Menu /\ UNCHANGED bulk
    /\ \E Info \in Cursor, typed \in GameNames :
           /\ EnableRename(Info) /\ Info.Treatment = "HDL_GAME"
           /\ LET newName == UniqueName(typed, [k \in 1..MAX_PARTITIONS |-> ui.PartyInfo[k].Game])
                  info == MenuUnmounts(ui)
                  twins == SelectSeq(Mains("HDL"), LAMBDA p : p.game = Info.Game)
                  changed == Head(twins).name IN
              IF typed = Info.Game THEN ui' = info /\ UNCHANGED disk
              ELSE \/ /\ twins # <<>> /\ disk' = HdlRenameGame(Info.Game, newName)
                      /\ ui' = [info EXCEPT !.PartyInfo[Info.Count + 1].Game = newName,
                                            !.doubt = IF changed = Info.Name THEN @ \ {changed}
                                                      ELSE @ \cup {changed, Info.Name}]
                   \/ /\ UNCHANGED disk
                      /\ ui' = [info EXCEPT !.PartyInfo[Info.Count + 1].Game = newName, !.doubt = @ \cup {Info.Name}]
-----------------------------------------------------------------------------
(* Headers into every partition that the source has a folder for.          *)
(* Variant: whatever kind it is. *)
FindByNameOnly(name) == {k \in 1..ui.numParty : ui.PartyInfo[k].Name = name}
FindInjectablePartitionIndexByName(name) ==
    {k \in 1..ui.numParty : ui.PartyInfo[k].Name = name /\ ui.PartyInfo[k].Treatment = "PFS"}
FindPartitionIndexByName(name) == {k \in 1..ui.numParty : ui.PartyInfo[k].Name = name}

InjectMatchingHeadersFromSource ==
    /\ Menu /\ UNCHANGED disk
    /\ \E Info \in Cursor, names \in Sources, create \in BOOLEAN :
           /\ EnableRename(Info) /\ Info.Treatment = "PFS"
           /\ bulk' = [NoBulk EXCEPT !.todo = names, !.create = create, !.listed = Len(names)]
    /\ ui' = MenuUnmounts(ui)

(* The header alone, or files on the partition too, through pfs0.          *)
InjectHeaderIntoPartition(job, info, name) ==
    {[job |-> [job EXCEPT !.Failed = @ + 1], info |-> info]}
    \cup {[job |-> [job EXCEPT !.Injected = @ + 1, !.into = Append(@, name)],
           info |-> [info EXCEPT !.pfs0 = p]] : p \in {info.pfs0, NoName}}

partition == Head(bulk.todo)
Rest(job) == [job EXCEPT !.todo = Tail(@), !.made = FALSE]

InjectNext ==
    /\ bulk.todo # <<>> /\ (bulk.made \/ FindInjectablePartitionIndexByName(partition) # {})
    /\ UNCHANGED disk
    /\ \E r \in InjectHeaderIntoPartition(bulk, ui, partition) : bulk' = Rest(r.job) /\ ui' = r.info

Missing == FindPartitionIndexByName(partition) = {}

(* A partition of another kind, one that is not to be created, or one that *)
(* the user skips.                                                         *)
SkipNext ==
    /\ bulk.todo # <<>> /\ ~bulk.made /\ FindInjectablePartitionIndexByName(partition) = {}
    /\ bulk' = Rest([bulk EXCEPT !.Skipped = @ + 1]) /\ UNCHANGED <<disk, ui>>

Asked == bulk.todo # <<>> /\ ~bulk.made /\ Missing /\ bulk.create
StopBulk == Asked /\ bulk' = NoBulk /\ UNCHANGED <<disk, ui>>

(* A new partition has its header injected by its name, whatever the list  *)
(* that was read again has.                                                *)
CreatePartyExact ==
    /\ Asked
    /\ \E made \in hddMakeFilesystem(1, partition) :
           /\ Makes(ui, made)
           /\ bulk' = IF made.ret > 0 THEN [bulk EXCEPT !.Created = @ + 1, !.made = TRUE]
                      ELSE Rest([bulk EXCEPT !.Failed = @ + 1])

ShowHeaderBulkSummary == bulk # NoBulk /\ bulk.todo = <<>> /\ bulk' = NoBulk /\ UNCHANGED <<disk, ui>>

HddNext ==
    \/ Enter \/ Leave \/ CreateParty \/ RemoveParty \/ RenameParty \/ FormatHdd \/ SquareButton \/ RenameGame
    \/ InjectMatchingHeadersFromSource \/ InjectNext \/ SkipNext \/ StopBulk \/ CreatePartyExact
    \/ ShowHeaderBulkSummary
-----------------------------------------------------------------------------
(* After a list that was read to its end, and whatever was created,        *)
(* removed and renamed since, the list is the disk: each partition once,   *)
(* in order, at the index that it carries, with all its segments, and with *)
(* a kind that fits; a list cut short by an error has nothing else.        *)
Listed == SubSeq(ui.PartyInfo, 1, ui.numParty)
FirstNames(chain) ==
    FoldLeft(LAMBDA names, p : IF p.name \in ToSet(names) THEN names ELSE Append(names, p.name), <<>>, chain)
ListIsDisk ==
    LET names == [k \in 1..ui.numParty |-> Listed[k].Name] IN
    ui.inside =>
        /\ \A k \in 1..ui.numParty : Listed[k].Count = k - 1
        /\ \A k \in 1..ui.numParty :
               LET segments == SelectSeq(disk.chain, LAMBDA p : p.name = names[k]) IN
               /\ segments # <<>>
               /\ Listed[k].RawSize <= Sizes(segments)
               /\ (Listed[k].Treatment = "PFS") = (segments[1].type = "PFS" /\ ~MainOf(disk.chain, names[k]).bad)
               /\ ui.whole /\ ~ui.tooMany => Listed[k].RawSize = Sizes(segments) /\ Listed[k].TotalSize <= Sizes(segments)
        /\ ui.whole /\ ~ui.tooMany => names = FirstNames(disk.chain)

(* The room that the manager counts as free is there: what it counts as    *)
(* used is at least what is used, and is that when every partition was     *)
(* removed with all of its segments.                                       *)
UsedCovers == ui.inside /\ ui.whole /\ ~ui.tooMany => ui.hddUsed >= Sizes(disk.chain)

(* The driver never refuses an operation because the program itself still  *)
(* has the partition mounted to read its free space.                       *)
NeverBusy == ~ui.busy

(* The partitions whose names are protected are those of the start, those  *)
(* that the user agreed to, and those that a renaming made so: no other    *)
(* is created, and none is removed but by a format.                        *)
ProtectedStay ==
    LET there == {p \in {q.name : q \in ToSet(disk.chain)} : p.text \in Protected} IN
    there = ui.protect

(* The name of a game that is shown is the one that the disk has, but for  *)
(* one whose renaming failed and one that had a twin.                      *)
GamesTrue ==
    \A k \in 1..ui.numParty :
        ui.inside /\ Listed[k].Treatment = "HDL_GAME" /\ Listed[k].Name \notin ui.doubt =>
            \E p \in ToSet(Mains("HDL")) : p.name = Listed[k].Name /\ p.game = Listed[k].Game

(* An injection into many partitions counts each folder of the source      *)
(* once, and each header went into a file system of exactly that name.     *)
BulkCounts ==
    bulk # NoBulk =>
        /\ bulk.Injected + bulk.Skipped + bulk.Failed + Len(bulk.todo) = bulk.listed
        /\ \A k \in DOMAIN bulk.into :
               \E p \in ToSet(disk.chain) : p.name = bulk.into[k] /\ p.type = "PFS" /\ ~p.bad
=============================================================================
