----------------------------- MODULE HddHeader -----------------------------
(***************************************************************************)
(* The header of a partition, src/hdd_header_injector.c: a table of files  *)
(* and their bytes in the sectors before the partition's data, patched     *)
(* from the files of a source folder and written back, or its SYSTEM.CNF   *)
(* edited in a temporary file.  The bytes are a few cells; each access to  *)
(* the disk and to the source, which can be unplugged, may fail.           *)
(***************************************************************************)
EXTENDS Integers, Sequences, FiniteSets

CONSTANTS Tables,            \* tables of files that a partition can have at the start
          Folders,           \* source folders: the size of each file, 0 for one that is not there
          MaxOps             \* a bound on the operations

VARIABLES console_is_PSX,
          hdr,               \* [table, cells] on the disk
          source,            \* the folder now
          pfs,               \* the optional files on the partition, "part" when cut short
          tmpfiles,          \* the temporary files, of an earlier run too
          task               \* the operation that runs, or how the last one ended

headerVars == <<console_is_PSX, hdr, source, pfs, tmpfiles, task>>

Files == {"system.cnf", "icon.sys", "list.ico", "boot.kelf"}
Order == <<"system.cnf", "icon.sys", "list.ico", "boot.kelf">>
PfsFiles == <<"info.sys", "BOOT.ELF">>
TempNames == 1..2

(* Two cells are a sector; the first sector is the table.                  *)
AreaEnd == 10
Area == 2..(AreaEnd - 1)
data_offset(f) == CASE f = "system.cnf" -> 2 [] f = "icon.sys" -> 4 [] f = "list.ico" -> 6 [] OTHER -> 8
APA_HEADER_SYSTEM_CNF_MAX_SIZE == 2
max_size(f) == 2
SectorOf(c) == c \div 2
Sectors == 0..SectorOf(AreaEnd - 1)

At(offset, size) == [offset |-> offset, size |-> size]
NoTable == [f \in Files |-> At(0, 0)]

(* What a cell holds: of which file, of which making, at which place.      *)
Byte(by, f, k) == [by |-> by, of |-> f, k |-> k]
Zero == Byte("nobody", "none", 0)
Span(entry) == entry.offset..(entry.offset + entry.size - 1)
Spread(cells, entry, by, f) ==
    [c \in Area |-> IF c \in Span(entry) THEN Byte(by, f, c - entry.offset) ELSE cells[c]]
HeaderOf(table) ==
    [table |-> table,
     cells |-> [c \in Area |-> IF \E f \in Files : c \in Span(table[f])
                               THEN LET f == CHOOSE f \in Files : c \in Span(table[f])
                                    IN Byte("old", f, c - table[f].offset)
                               ELSE Zero]]
-----------------------------------------------------------------------------
Idle == [op |-> "idle", step |-> "", at |-> 0, buffer |-> HeaderOf(NoTable), before |-> HeaderOf(NoTable),
         folder |-> [f \in Files |-> 0], size |-> 0, temp |-> 0, earlier |-> {}, result |-> "none", tries |-> 0]

HeaderInit ==
    /\ console_is_PSX = FALSE /\ hdr = HeaderOf(NoTable) /\ tmpfiles = {} /\ task = Idle
    /\ source = [f \in Files \cup {PfsFiles[k] : k \in DOMAIN PfsFiles} |-> 0]
    /\ pfs = [k \in DOMAIN PfsFiles |-> "none"]

(* A console, a partition and the temporary files of a run that was cut.   *)
Choose ==
    /\ task.tries = 0 /\ task' = [Idle EXCEPT !.tries = 1]
    /\ console_is_PSX' \in BOOLEAN /\ tmpfiles' \in {{}, {1}, TempNames}
    /\ \E table \in Tables : hdr' = HeaderOf(table)
    /\ UNCHANGED <<source, pfs>>

Doing(op, step) == task.op = op /\ task.step = step
Ends(result) == task' = [task EXCEPT !.op = "idle", !.result = result]
Goes(step) == task' = [task EXCEPT !.step = step, !.at = 1]
OnlyTask == UNCHANGED <<console_is_PSX, hdr, source, pfs, tmpfiles>>

hddHeaderFileRequired(f) == f = "system.cnf" \/ (~console_is_PSX /\ f \in {"icon.sys", "list.ico"})
hddHeaderSourceHasFile(f) == source[f] > 0 /\ source[f] <= max_size(f)
hddHeaderSourceReady == \A f \in Files : hddHeaderFileRequired(f) => hddHeaderSourceHasFile(f)
-----------------------------------------------------------------------------
(* InjectHddPartitionHeaderFromSource: the source is waited for, the whole *)
(* header is read, patched from the files, and written sector by sector.   *)
InjectHddPartitionHeaderFromSource ==
    /\ task.op = "idle" /\ task.tries \in 1..MaxOps
    /\ source' \in Folders
    /\ task' = [Idle EXCEPT !.tries = task.tries + 1, !.op = "inject", !.step = "wait", !.before = hdr,
                            !.folder = [f \in Files |-> source'[f]]]
    /\ UNCHANGED <<console_is_PSX, hdr, pfs, tmpfiles>>

Unplug ==
    /\ task.op = "inject" /\ source' = [f \in DOMAIN source |-> 0] /\ source' # source
    /\ UNCHANGED <<console_is_PSX, hdr, pfs, tmpfiles, task>>

hddHeaderWaitForSource ==
    /\ Doing("inject", "wait") /\ OnlyTask
    /\ IF hddHeaderSourceReady THEN Goes("read") ELSE Ends("failed")

hddHeaderReadSectors ==
    /\ Doing("inject", "read") /\ OnlyTask
    /\ Ends("failed") \/ task' = [task EXCEPT !.step = "patch", !.at = 1, !.buffer = hdr]

(* Variant: the place that the table has is kept. *)
PatchedInPlace(h, f) ==
    [table |-> [h.table EXCEPT ![f].size = source[f]],
     cells |-> Spread(h.cells, At(data_offset(f), source[f]), "new", f)]
Patched(h, f) ==
    LET entry == At(data_offset(f), source[f]) IN
    [table |-> [h.table EXCEPT ![f] = entry], cells |-> Spread(h.cells, entry, "new", f)]

(* Variant: a file that is not there is passed over. *)
MissingPassed(f) == FALSE
MissingFatal(f) == hddHeaderFileRequired(f)

(* A file that is missing now is an error only when it is required.        *)
hddHeaderReadFileIntoHeader ==
    /\ Doing("inject", "patch") /\ OnlyTask
    /\ LET f == Order[task.at]
           next == IF task.at = Len(Order) THEN [task EXCEPT !.step = "write", !.at = 0]
                   ELSE [task EXCEPT !.at = @ + 1] IN
       IF source[f] = 0 THEN IF MissingFatal(f) THEN Ends("failed") ELSE task' = next
       ELSE \/ Ends("failed")
            \/ source[f] <= max_size(f) /\ task' = [next EXCEPT !.buffer = Patched(@, f)]

WithSector(h, s, from) ==
    [table |-> IF s = 0 THEN from.table ELSE h.table,
     cells |-> [c \in Area |-> IF SectorOf(c) = s THEN from.cells[c] ELSE h.cells[c]]]

hddHeaderWriteSectors ==
    /\ Doing("inject", "write") /\ UNCHANGED <<console_is_PSX, source, pfs, tmpfiles>>
    /\ \/ Ends("cut") /\ UNCHANGED hdr
       \/ /\ hdr' = WithSector(hdr, task.at, task.buffer)
          /\ IF task.at + 1 \in Sectors THEN task' = [task EXCEPT !.at = @ + 1] ELSE Goes("copy")

(* The optional files, on the partition itself: the first error ends the   *)
(* copying and leaves a part, and the injection still counts as done.      *)
hddHeaderCopyOptionalPfsFile ==
    /\ Doing("inject", "copy") /\ UNCHANGED <<console_is_PSX, hdr, source, tmpfiles>>
    /\ LET next == IF task.at = Len(PfsFiles) THEN Ends("done") ELSE task' = [task EXCEPT !.at = @ + 1] IN
       \/ Ends("partly") /\ pfs' \in {pfs, [pfs EXCEPT ![task.at] = "part"]}
       \/ source[PfsFiles[task.at]] = 0 /\ next /\ UNCHANGED pfs
       \/ source[PfsFiles[task.at]] > 0 /\ next /\ pfs' = [pfs EXCEPT ![task.at] = "whole"]
-----------------------------------------------------------------------------
(* Variant: up to the end of the area. *)
CapacityOfArea(table, f) ==
    IF AreaEnd - table[f].offset < APA_HEADER_SYSTEM_CNF_MAX_SIZE THEN AreaEnd - table[f].offset
    ELSE APA_HEADER_SYSTEM_CNF_MAX_SIZE

(* Up to the next file of the table, and never more than SYSTEM.CNF is.    *)
hddHeaderAttributeFileCapacity(table, f) ==
    LET later == {g \in Files \ {f} : table[g].size > 0 /\ table[g].offset > table[f].offset}
        limits == {table[g].offset - table[f].offset : g \in later}
                      \cup {AreaEnd - table[f].offset, APA_HEADER_SYSTEM_CNF_MAX_SIZE} IN
    CHOOSE n \in limits : \A m \in limits : n <= m

hddHeaderValidateSystemCnfEntry(table) ==
    LET cnf == table["system.cnf"] IN
    cnf.offset >= 2 /\ cnf.size > 0 /\ cnf.size <= hddHeaderAttributeFileCapacity(table, "system.cnf")

(* The first temporary name that no file has.                              *)
hddHeaderBuildTempPath ==
    IF TempNames \subseteq tmpfiles THEN {} ELSE {CHOOSE n \in TempNames \ tmpfiles :
                                                      \A m \in TempNames \ tmpfiles : n <= m}

EditHddPartitionHeaderSystemCnf ==
    /\ task.op = "idle" /\ task.tries \in 1..MaxOps
    /\ LET begun == [Idle EXCEPT !.tries = task.tries + 1, !.op = "edit", !.step = "editor", !.before = hdr,
                                 !.buffer = hdr, !.earlier = tmpfiles] IN
       \/ /\ hddHeaderValidateSystemCnfEntry(hdr.table)
          /\ \E n \in hddHeaderBuildTempPath : task' = [begun EXCEPT !.temp = n] /\ tmpfiles' = tmpfiles \cup {n}
       \/ task' = [begun EXCEPT !.op = "idle", !.result = "failed"] /\ UNCHANGED tmpfiles
    /\ UNCHANGED <<console_is_PSX, hdr, source, pfs>>

(* Variant: only when it could be read. *)
RemoveWhenRead(read) == IF read THEN tmpfiles \ {task.temp} ELSE tmpfiles
hddHeaderRemoveTempFile(read) == tmpfiles \ {task.temp}

(* The editor returns: the file may be gone, empty, too large, as it was,  *)
(* or have a new text of any size.                                         *)
EditorReturns ==
    /\ Doing("edit", "editor") /\ UNCHANGED <<console_is_PSX, hdr, source, pfs>>
    /\ \/ tmpfiles' = hddHeaderRemoveTempFile(FALSE) /\ Ends("failed")
       \/ tmpfiles' = hddHeaderRemoveTempFile(TRUE) /\ Ends("unchanged")
       \/ /\ tmpfiles' = hddHeaderRemoveTempFile(TRUE)
          /\ \E n \in 0..APA_HEADER_SYSTEM_CNF_MAX_SIZE :
                 IF n = 0 \/ n > hddHeaderAttributeFileCapacity(hdr.table, "system.cnf") THEN Ends("failed")
                 ELSE task' = [task EXCEPT !.step = "cells", !.size = n,
                                           !.at = SectorOf(hdr.table["system.cnf"].offset)]

Edited(c) ==
    LET start == task.before.table["system.cnf"].offset IN
    IF c < start + task.size THEN Byte("edit", "system.cnf", c - start) ELSE Zero
(* Variant: the rest of the sector is cleared. *)
MergedIntoZeros(s) == [c \in {c \in Area : SectorOf(c) = s} |-> Edited(c)]

(* A sector is read, the cells of the text in it are changed, the ones     *)
(* after the text cleared up to the capacity, and it is written.           *)
Merged(s) ==
    LET cnf == task.before.table["system.cnf"]
        room == cnf.offset..(cnf.offset + hddHeaderAttributeFileCapacity(task.before.table, "system.cnf") - 1) IN
    [c \in {c \in Area : SectorOf(c) = s} |-> IF c \in room THEN Edited(c) ELSE hdr.cells[c]]

hddHeaderWriteRawRange ==
    /\ Doing("edit", "cells") /\ UNCHANGED <<console_is_PSX, source, pfs, tmpfiles>>
    /\ LET cnf == hdr.table["system.cnf"]
           last == SectorOf(cnf.offset + hddHeaderAttributeFileCapacity(hdr.table, "system.cnf") - 1) IN
       \/ Ends("cut") /\ UNCHANGED hdr
       \/ /\ hdr' = [hdr EXCEPT !.cells = [c \in Area |-> IF c \in DOMAIN Merged(task.at) THEN Merged(task.at)[c] ELSE @[c]]]
          /\ IF task.at < last THEN task' = [task EXCEPT !.at = @ + 1] ELSE Goes("table")

(* The table, with the new size, is the last to be written.                *)
hddHeaderWriteSystemCnf ==
    /\ Doing("edit", "table") /\ UNCHANGED <<console_is_PSX, source, pfs, tmpfiles>>
    /\ \/ Ends("cut") /\ UNCHANGED hdr
       \/ Ends("done") /\ hdr' = [hdr EXCEPT !.table["system.cnf"].size = task.size]

HeaderNext ==
    \/ Choose \/ InjectHddPartitionHeaderFromSource \/ Unplug \/ hddHeaderWaitForSource \/ hddHeaderReadSectors
    \/ hddHeaderReadFileIntoHeader \/ hddHeaderWriteSectors \/ hddHeaderCopyOptionalPfsFile
    \/ EditHddPartitionHeaderSystemCnf \/ EditorReturns \/ hddHeaderWriteRawRange \/ hddHeaderWriteSystemCnf
-----------------------------------------------------------------------------
Intact(h, f) ==
    LET entry == h.table[f] IN
    entry.size = 0 \/ \E by \in {"old", "new", "edit"} :
        \A k \in 0..(entry.size - 1) : h.cells[entry.offset + k] = Byte(by, f, k)
AllIntact(h) == \A f \in Files : Intact(h, f)

(* A header whose files were whole is so again when an operation ends,     *)
(* unless writing it failed midway: the table points at whole files, which *)
(* are those of the folder where it had them.                              *)
(* (A file of the table that the folder does not have, and that another    *)
(* program put elsewhere, may be written over by an injection.)            *)
Standard(h) == \A f \in Files : h.table[f].size > 0 => h.table[f].offset = data_offset(f)
HeaderWhole ==
    task.op = "idle" /\ task.result # "none" /\ AllIntact(task.before)
    /\ (Standard(task.before) \/ task.temp # 0) =>
        /\ task.result # "cut" => AllIntact(hdr)
        /\ task.result \in {"failed", "unchanged"} => hdr = task.before

(* An edit, even one that is cut, changes nothing of the other files.      *)
EditKeepsOthers ==
    task.op = "edit" \/ task.result \in {"done", "unchanged", "cut"} =>
        \A f \in Files \ {"system.cnf"} :
            Intact(task.before, f) /\ task.temp # 0 => Intact(hdr, f) /\ hdr.table[f] = task.before.table[f]

(* The temporary files of an earlier run are neither written over nor left *)
(* in greater number.                                                      *)
NoTempLeft == task.temp # 0 => task.temp \notin task.earlier /\ (task.op = "idle" => tmpfiles = task.earlier)

(* Nothing is written before all that is required has been read, and what  *)
(* an injection that is done put into the table came from the folder.      *)
RequiredRead ==
    /\ task.op = "inject" /\ hdr # task.before =>
           \A f \in Files : hddHeaderFileRequired(f) => task.buffer.table[f].size = task.folder[f] /\ task.folder[f] > 0
    /\ task.temp = 0 /\ task.result \in {"done", "partly"} =>
           \A f \in Files : hdr.table[f] \in {task.before.table[f], At(data_offset(f), task.folder[f])}
=============================================================================
