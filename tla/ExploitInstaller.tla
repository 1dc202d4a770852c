-------------------------- MODULE ExploitInstaller --------------------------
(***************************************************************************)
(* The installer of system updates, src/main_exploit_installer.c: what the *)
(* console and the mode ask for, the room that it needs, and the steps     *)
(* that wipe, create, sign and write on a memory card, each of which may   *)
(* fail and end the installation where it stands.                          *)
(***************************************************************************)
EXTENDS Integers, Sequences, FiniteSets

CONSTANTS Consoles,          \* [region, rom, psx, dtl, xsystem]
          Capacities,        \* kilobytes of a card that the update folders can have
          Entries,           \* the entries of ps2_targets that the instance has
          SizeOf(_),         \* bytes_to_mc_kb of what is written
          EXPLOIT_BOOT_ELF_RESERVE_KB,
          MaxInstalls        \* a bound on the installations that are tried

VARIABLES console,           \* build_console_info
          mc,                \* the card: its capacity, BOOT.ELF, the folders and the files in them
          install            \* the installation that runs, or how the last one ended

None == "none"
Unknown == [region |-> "?", rom |-> "?", psx |-> FALSE, dtl |-> FALSE, xsystem |-> FALSE]
-----------------------------------------------------------------------------
Target(folder, file, payload) == [folder |-> folder, file |-> file, payload |-> payload]
ps2_targets ==
    <<Target("JPN", "osdsys.elf", "OSDSYS"), Target("JPN", "osd110.elf", "OSD110"),
      Target("JPN", "osd130.elf", "SYSTEM"), Target("JPN", "osdmain.elf", "SYSTEM"),
      Target("USA", "osd120.elf", "SYSTEM"), Target("USA", "osd130.elf", "SYSTEM"),
      Target("USA", "osdmain.elf", "SYSTEM"), Target("EUR", "osd130.elf", "SYSTEM"),
      Target("EUR", "osdmain.elf", "SYSTEM"), Target("CHN", "osdmain.elf", "SYSTEM")>>
psx_target == Target("JPN", "xosdmain.elf", "XSYSTEM")
FolderOrder == <<"JPN", "USA", "EUR", "CHN">>
Folders == {"JPN", "USA", "EUR", "CHN"}

get_system_update_payload(info) == IF info.dtl THEN "DTL" ELSE "SYSTEM"
get_psx_desr_payload(info) ==
    IF info.psx THEN "XSYSTEM" ELSE IF info.dtl THEN "DTL"
    ELSE IF info.xsystem THEN "XSYSTEM" ELSE "SYSTEM"

(* The entries of ps2_targets, counted from 1, that a mode selects.        *)
select_this_console_targets(info) ==
    CASE info.region = "J" -> (CASE info.rom = "100" -> {1, 3} [] info.rom = "101" -> {2, 3}
                                 [] info.rom = "120" -> {3} [] OTHER -> {4})
      [] info.region \in {"A", "H"} -> (CASE info.rom = "110" -> {5} [] info.rom = "120" -> {6} [] OTHER -> {7})
      [] info.region = "E" -> IF info.rom = "120" THEN {8} ELSE {9}
      [] info.region = "C" -> {10}
      [] OTHER -> {}
select_cross_model_targets(info) ==
    CASE info.region = "J" -> 1..4 [] info.region \in {"A", "H"} -> 5..7
      [] info.region = "E" -> 8..9 [] info.region = "C" -> {10} [] OTHER -> {}

Plan(selected, psx) == [selected |-> selected \cap Entries, include_psx_desr |-> psx]
build_install_plan(mode, info) ==
    CASE mode = "THIS_CONSOLE" -> IF info.psx THEN Plan({}, TRUE) ELSE Plan(select_this_console_targets(info), FALSE)
      [] mode = "CROSS_MODEL" -> Plan(select_cross_model_targets(info), FALSE)
      [] mode = "CROSS_REGION" -> Plan(DOMAIN ps2_targets, FALSE)
      [] mode = "CROSS_MODEL_REGION" -> Plan(DOMAIN ps2_targets, info.psx)
      [] mode = "PSX_DESR" -> Plan({}, info.psx)
Modes == {"THIS_CONSOLE", "CROSS_MODEL", "CROSS_REGION", "CROSS_MODEL_REGION", "PSX_DESR"}
Possible(plan) == plan.selected # {} \/ plan.include_psx_desr

build_needed_folders(plan) ==
    {ps2_targets[i].folder : i \in plan.selected} \cup (IF plan.include_psx_desr THEN {"JPN"} ELSE {})

(* What the plan writes: the payload of a target depends on the console,   *)
(* and a program of the user takes the place of them all.                  *)
Payload(i, info, custom) ==
    IF custom THEN "CUSTOM_PS2"
    ELSE IF ps2_targets[i].payload = "SYSTEM" THEN get_system_update_payload(info) ELSE ps2_targets[i].payload
PsxPayload(info, custom) == IF custom THEN "CUSTOM_PSX" ELSE get_psx_desr_payload(info)

File(target, payload) == [folder |-> target.folder, file |-> target.file, of |-> payload]
PlannedFiles(plan, info, custom) ==
    {File(ps2_targets[i], Payload(i, info, custom)) : i \in plan.selected}
    \cup (IF plan.include_psx_desr THEN {File(psx_target, PsxPayload(info, custom))} ELSE {})
Assets(folder) == {[folder |-> folder, file |-> f, of |-> f] : f \in {"icon.sys", "list.icn"}}
-----------------------------------------------------------------------------
(* Room, in kilobytes.  The card gives a directory one for every two       *)
(* entries, "." and ".." among them; the estimate counts one for each.     *)
RECURSIVE Kb(_)
Kb(files) == IF files = {} THEN 0 ELSE LET f == CHOOSE f \in files : TRUE IN SizeOf(f.of) + Kb(files \ {f})
In(files, folder) == {f \in files : f.folder = folder}
DirectoryKb(entries) == (entries + 3) \div 2
RECURSIVE DirectoriesKb(_, _)
DirectoriesKb(folders, files) ==
    IF folders = {} THEN 0
    ELSE LET d == CHOOSE d \in folders : TRUE IN
         DirectoryKb(Cardinality(In(files, d))) + DirectoriesKb(folders \ {d}, files)
Free(card) == card.capacity - Kb(card.files) - DirectoriesKb(card.folders, card.files)

NewFolders(plan, action) ==
    IF action = "DELETE" THEN build_needed_folders(plan) ELSE build_needed_folders(plan) \ mc.folders

(* Variant: the icons of the folders are forgotten. *)
EstimateTargetsOnly(plan, custom, action) == Kb(PlannedFiles(plan, console, custom))

estimate_install_file_kb(plan, custom, action) ==
    Kb(PlannedFiles(plan, console, custom) \cup UNION {Assets(d) : d \in NewFolders(plan, action)})

(* Variant: the folders are counted as free room even when they stay. *)
ReclaimAlways(plan, action) ==
    LET old == build_needed_folders(plan) \cap mc.folders IN
    Cardinality(old) + Kb({f \in mc.files : f.folder \in old})

estimate_reclaim_kb(plan, action) ==
    LET old == build_needed_folders(plan) \cap mc.folders IN
    IF action = "DELETE" THEN Cardinality(old) + Kb({f \in mc.files : f.folder \in old}) ELSE 0

boot_reserve_kb(custom) == IF custom \/ mc.boot THEN 0 ELSE EXPLOIT_BOOT_ELF_RESERVE_KB

estimate_install_space(plan, custom, action) ==
    [required |-> estimate_install_file_kb(plan, custom, action)
                      + Cardinality(NewFolders(plan, action)) + boot_reserve_kb(custom),
     available |-> Free(mc) + estimate_reclaim_kb(plan, action)]
-----------------------------------------------------------------------------
(* The steps of an installation, in the order of the code.                 *)
Op(op, arg) == [op |-> op, arg |-> arg]
Each(op, order, chosen) == [k \in 1..Len(SelectSeq(order, LAMBDA x : x \in chosen)) |->
                                Op(op, SelectSeq(order, LAMBDA x : x \in chosen)[k])]
Writes(plan, custom, chosen) ==
    LET order == SelectSeq(<<1, 2, 3, 4, 5, 6, 7, 8, 9, 10>>, LAMBDA i : i \in plan.selected \cap chosen) IN
    [k \in 1..Len(order) |-> Op("write", File(ps2_targets[order[k]], Payload(order[k], console, custom)))]
Signed(payload, writes) == IF writes = <<>> THEN <<>> ELSE <<Op("sign", payload)>> \o writes

install_custom_targets(plan) == Signed("CUSTOM_PS2", Writes(plan, TRUE, 1..10))
install_system_xlf_targets(plan) == Signed(get_system_update_payload(console), Writes(plan, FALSE, 3..10))
install_kernels(plan) == Signed("OSDSYS", Writes(plan, FALSE, {1})) \o Signed("OSD110", Writes(plan, FALSE, {2}))
install_psx_desr(plan, custom) ==
    IF ~plan.include_psx_desr THEN <<>>
    ELSE LET payload == PsxPayload(console, custom) IN
         Signed(payload, <<Op("write", File(psx_target, payload))>>)

(* Variant: every update folder is wiped. *)
PrepareAllFolders(plan, action) ==
    (IF action = "DELETE" THEN Each("wipe", FolderOrder, Folders) ELSE <<>>)
    \o Each("mkdir", FolderOrder, build_needed_folders(plan))

prepare_needed_folders(plan, action) ==
    (IF action = "DELETE" THEN Each("wipe", FolderOrder, build_needed_folders(plan)) ELSE <<>>)
    \o Each("mkdir", FolderOrder, build_needed_folders(plan))

(* Variant: the card is prepared first. *)
InstallCardFirst(plan, custom, action) ==
    prepare_needed_folders(plan, action)
    \o (IF custom THEN <<Op("reload", None), Op("build", None)>> ELSE <<>>)
    \o <<Op("signer", None)>>
    \o (IF custom THEN install_custom_targets(plan)
        ELSE install_system_xlf_targets(plan) \o install_kernels(plan))
    \o install_psx_desr(plan, custom)
    \o <<Op("assets", None)>>

install_selected_ps2_updates(plan, custom, action) ==
    (IF custom THEN <<Op("reload", None), Op("build", None)>> ELSE <<>>)
    \o <<Op("signer", None)>>
    \o prepare_needed_folders(plan, action)
    \o (IF custom THEN install_custom_targets(plan)
        ELSE install_system_xlf_targets(plan) \o install_kernels(plan))
    \o install_psx_desr(plan, custom)
    \o <<Op("assets", None)>>

-----------------------------------------------------------------------------
Idle == [tries |-> 0, todo |-> <<>>, result |-> None, plan |-> Plan({}, FALSE), custom |-> FALSE, action |-> None,
         spare |-> 0, before |-> {}, kept |-> {}, ready |-> {}, bound |-> None, assets |-> {}]

ExploitInit ==
    /\ console = Unknown /\ install = Idle
    /\ mc = [capacity |-> 0, boot |-> FALSE, folders |-> {}, files |-> {}]

build_console_info ==
    /\ console = Unknown /\ console' \in Consoles
    /\ \E capacity \in Capacities, boot \in BOOLEAN :
           mc' = [mc EXCEPT !.capacity = capacity, !.boot = boot]
    /\ UNCHANGED install

Running == install.todo # <<>>

(* The menus, up to the confirmation: nothing on the card is changed.  A   *)
(* card without update folders is treated as one to wipe.                  *)
ShowExploitInstaller ==
    /\ console # Unknown /\ ~Running /\ install.tries < MaxInstalls
    /\ \E mode \in Modes, custom \in BOOLEAN, action \in {"DELETE", "OVERWRITE"} :
           LET plan == build_install_plan(mode, console)
               space == estimate_install_space(plan, custom, action) IN
           /\ Possible(plan)
           /\ action = "OVERWRITE" => build_needed_folders(plan) \cap mc.folders # {}
           /\ space.available >= space.required
           /\ install' = [Idle EXCEPT
                  !.tries = install.tries + 1,
                  !.todo = install_selected_ps2_updates(plan, custom, action),
                  !.plan = plan, !.custom = custom, !.action = action,
                  !.spare = space.available - space.required + boot_reserve_kb(custom),
                  !.before = mc.files, !.kept = IF action = "DELETE" THEN {} ELSE mc.folders]
    /\ UNCHANGED <<console, mc>>

step == Head(install.todo)
Doing(op) == Running /\ step.op = op
Done(change) == install' = [change EXCEPT !.todo = Tail(@),
                                          !.result = IF Tail(install.todo) = <<>> THEN "done" ELSE @]
Ends(why) == install' = [install EXCEPT !.todo = <<>>, !.result = why]

(* Reading the program and the keys, building the payload, and starting    *)
(* the module that signs, which reboots the I/O processor.                 *)
Prepares ==
    /\ Running /\ step.op \in {"reload", "build", "signer"}
    /\ Done([install EXCEPT !.ready = @ \cup {step.op}]) \/ Ends("failed")
    /\ UNCHANGED <<console, mc>>

(* One entry after another, of the folder and then the folder itself.      *)
wipe_mc_folder ==
    /\ Doing("wipe") /\ UNCHANGED console
    /\ LET folder == step.arg IN
       \/ folder \in mc.folders /\ Ends("failed") /\ UNCHANGED mc
       \/ folder \notin mc.folders /\ Done(install) /\ UNCHANGED mc
       \/ /\ In(mc.files, folder) # {}
          /\ mc' = [mc EXCEPT !.files = @ \ {CHOOSE f \in In(@, folder) : TRUE}]
          /\ UNCHANGED install
       \/ /\ folder \in mc.folders /\ In(mc.files, folder) = {}
          /\ mc' = [mc EXCEPT !.folders = @ \ {folder}]
          /\ Done(install)

(* Variant: the icons are left to the folders that were wiped. *)
AssetsOfWiped(folder) == IF folder \in mc.folders \/ install.action = "OVERWRITE" THEN {} ELSE {folder}

(* A folder that is new will have its icons.                               *)
AssetsToWrite(folder) == IF folder \in mc.folders THEN {} ELSE {folder}

ensure_mc_folder ==
    /\ Doing("mkdir") /\ UNCHANGED console
    /\ LET folder == step.arg
           card == [mc EXCEPT !.folders = @ \cup {folder}] IN
       \/ Ends("failed") /\ UNCHANGED mc
       \/ Free(card) < 0 /\ Ends("full") /\ UNCHANGED mc
       \/ /\ Free(card) >= 0 /\ mc' = card
          /\ Done([install EXCEPT !.assets = @ \cup AssetsToWrite(folder)])

(* The keys of the payload are bound to the card, or it has no MagicGate.  *)
sign_payload_to_memory ==
    /\ Doing("sign") /\ UNCHANGED <<console, mc>>
    /\ Done([install EXCEPT !.bound = step.arg]) \/ Ends("failed")

(* The old file is cut to nothing, then written; an error leaves a part.   *)
Rewritten(file) ==
    [mc EXCEPT !.files = {f \in @ : <<f.folder, f.file>> # <<file.folder, file.file>>} \cup {file}]
Part(file) == [file EXCEPT !.of = "part"]
write_blob(file, next) ==
    \/ Ends("failed") /\ mc' \in {mc, Rewritten(Part(file))}
    \/ Free(Rewritten(file)) < 0 /\ Ends("full") /\ mc' \in {mc, Rewritten(Part(file))}
    \/ Free(Rewritten(file)) >= 0 /\ mc' = Rewritten(file) /\ next

WritePayload ==
    /\ Doing("write") /\ UNCHANGED console
    /\ write_blob([step.arg EXCEPT !.of = install.bound], Done(install))

(* icon.sys and list.icn of each new folder, then its attributes.          *)
NextAsset == CHOOSE f \in UNION {Assets(d) : d \in install.assets} \ mc.files : TRUE
finish_folder_assets ==
    /\ Doing("assets") /\ UNCHANGED console
    /\ IF UNION {Assets(d) : d \in install.assets} \subseteq mc.files
       THEN (Done(install) \/ Ends("failed")) /\ UNCHANGED mc
       ELSE write_blob(NextAsset, UNCHANGED install)

ExploitNext ==
    \/ build_console_info \/ ShowExploitInstaller \/ Prepares \/ wipe_mc_folder \/ ensure_mc_folder
    \/ sign_payload_to_memory \/ WritePayload \/ finish_folder_assets
-----------------------------------------------------------------------------
(* When the installer says that it is done, every file of the plan is on   *)
(* the card whole and bound to it, whatever earlier installations that     *)
(* failed have left there, and every folder that it created has its icons. *)
DoneIsInstalled ==
    install.result = "done" =>
        /\ PlannedFiles(install.plan, console, install.custom) \subseteq mc.files
        /\ \A d \in build_needed_folders(install.plan) \ install.kept : Assets(d) \subseteq mc.files

(* The room that was estimated is enough but for what directories of many  *)
(* files take: an installation that runs out of it was short of that.      *)
EstimateEnough ==
    install.result = "full" =>
        LET needed == build_needed_folders(install.plan)
            names == {[f EXCEPT !.of = None] :
                         f \in install.before \cup PlannedFiles(install.plan, console, install.custom)
                                  \cup UNION {Assets(d) : d \in needed}} IN
        install.spare < DirectoriesKb(needed, names) - Cardinality(needed)

(* The folders that the plan does not need keep their files, those that    *)
(* are only written over lose none, and none is touched before the program *)
(* of the user has been read and built and the signer runs.                *)
OthersUntouched ==
    LET needed == build_needed_folders(install.plan)
        Named(f) == <<f.folder, f.file>>
        mine == {Named(f) : f \in PlannedFiles(install.plan, console, install.custom)} IN
    Running \/ install.result # None =>
        /\ \A f \in install.before :
               f.folder \notin needed \/ (install.action = "OVERWRITE" /\ Named(f) \notin mine) => f \in mc.files
        /\ mc.files # install.before =>
               "signer" \in install.ready /\ (install.custom => "build" \in install.ready)
=============================================================================
