----------------------------- MODULE DriverStack -----------------------------
(***************************************************************************)
(* The driver stacks of wLaunchELF (src/init.c, and the callers of it in   *)
(* src/filer.c and src/filer_device.c).  The EE starts modules on the I/O  *)
(* processor on demand and remembers in `have_*` flags what it started;    *)
(* stacks that exclude each other are switched by resetting the IOP, which *)
(* drops every module, and the reset itself restarts the keyboard, whose   *)
(* driver may live on a device that has to be loaded first.                *)
(*                                                                         *)
(* A call tree is modelled by `todo', the steps that remain to be done: a  *)
(* call replaces itself by the steps of its body, each step reads the      *)
(* flags when its turn comes, so a reset deep inside a call is seen by the *)
(* rest of its callers exactly as in the program.                          *)
(***************************************************************************)
EXTENDS Naturals, Sequences, FiniteSets

CONSTANT Setups   \* the builds, consoles and settings to consider

Devices == {"mc0", "mc1", "vmc", "mass", "mmce", "mx4sio", "ata", "hdd",
            "dvr", "xfrom", "host", "udpfs", "none"}

ASSUME SetupAssumption == \A c \in Setups :
    /\ c.paths \subseteq Devices /\ c.boots \subseteq Devices
    /\ c.networks \subseteq {"eth", "udpfs"}
    /\ c.psx \in BOOLEAN /\ c.kbdUsed \in BOOLEAN
    /\ c.kbdFile \in Devices /\ c.kbdMap \in Devices

VARIABLES
    setup,      \* the build, console and settings, which stay as they are
    todo,       \* steps the EE still has to perform
    have,       \* the have_* flags that are set
    resident,   \* modules resident in the IOP
    storage,    \* storage_driver_stack_mode
    block,      \* block_storage_stack_mode, a set of bits
    net,        \* network_stack_mode
    parties,    \* devices whose partition list is cached (hddNparties, ndvrpparties)
    kbdOpen,    \* ps2kbd_opened
    armed,      \* the poweroff handler is registered in this IOP session
    ipCached,   \* ip_config_cached
    again       \* modules started while already resident

modes == <<storage, block, net>>
caches == <<parties, kbdOpen>>
vars == <<setup, todo, have, resident, storage, block, net, parties, kbdOpen, armed,
          ipCached, again>>

Paths    == setup.paths      \* devices the user opens, members of Devices
Boots    == setup.boots      \* devices the program may be started from
Networks == setup.networks   \* network stacks compiled in: ETH, UDPFS or both
PSX      == setup.psx        \* console_is_PSX
KbdUsed  == setup.kbdUsed    \* setting->usbkbd_used
KbdFile  == setup.kbdFile    \* device of setting->usbkbd_file, "none": embedded
KbdMap   == setup.kbdMap     \* device of setting->kbdmap_file, "none" if none
Flaky    == setup.flaky      \* modules whose loading or start may fail

(***************************************************************************)
(* Steps.  Load(m, needs) starts module m if its flag is clear and every   *)
(* flag of `needs' is set; the other steps are named after the function    *)
(* they stand for, or after the statement of it.                           *)
(***************************************************************************)
Step(op, on, needs) == [op |-> op, on |-> on, needs |-> needs]
Do(op) == Step(op, "none", {})
On(op, x) == Step(op, x, {})
Load(m, needs) == Step("load", m, needs)
Flag(f, needs) == Step("flag", f, needs)

Now(op) == todo # << >> /\ Head(todo).op = op
Arg == Head(todo).on
Needed == Head(todo).needs \subseteq have
Then(body) == todo' = body \o Tail(todo)
Return == todo' = Tail(todo)
When(cond, body) == IF cond THEN body ELSE << >>

Outcomes(m) == {"resident"}
    \cup (IF m \in Flaky THEN {"rejected", "failed"} ELSE {})

\* SifExecModuleBuffer: "rejected" is a negative ID, "failed" a negative start
\* result.
SifExecModule(m, outcome) ==
    /\ resident' = IF outcome = "resident" THEN resident \cup {m} ELSE resident
    /\ again' = IF outcome = "resident" THEN again \cup ({m} \cap resident) ELSE again

\* have_X = (ID >= 0 && ret >= 0), except for the modules whose flag is set
\* whatever the start returned.
Unchecked == {"xfrom", "hdl_info"}
Accepted(m) == CASE m \in Unchecked -> {"resident", "failed", "rejected"}
                 [] m = "vmcman" -> {"resident", "failed"}
                 [] OTHER -> {"resident"}

----------------------------------------------------------------------------
(* Bodies of the calls.                                                    *)

ensureCoreIoStackReady == <<Do("core"), Load("vmcman", {})>>

setupPowerOff == <<Do("setupPowerOff")>>

loadBdmCoreModules == <<Load("bdm", {}), Load("bdmfs", {"bdm"})>>

loadUsbModules == ensureCoreIoStackReady \o
    <<Load("usbd", {}), Load("bdm", {"usbd"}), Load("bdmfs", {"usbd", "bdm"}),
      Load("usb_mass", {"usbd", "bdm", "bdmfs"})>>

loadMmceModules == ensureCoreIoStackReady \o
    <<On("switchStorage", "mmce"), Load("mmce", {}), On("storageMode", "mmce")>>

loadMx4sioModules == ensureCoreIoStackReady \o
    <<On("switchStorage", "mx4sio")>> \o loadBdmCoreModules \o
    <<Load("mx4sio", {"bdm", "bdmfs"}), On("storageMode", "mx4sio")>>

loadAtaBlockDriver == loadBdmCoreModules \o
    <<Step("dev9", "none", {"bdm", "bdmfs"}), Load("ata_bd", {"bdm", "bdmfs", "dev9"})>>

loadAtaModules ==
    IF "ata" \in block /\ {"ata_bd", "dev9", "bdm", "bdmfs"} \subseteq have THEN << >>
    ELSE <<On("switchBlock", "ata")>> \o ensureCoreIoStackReady \o setupPowerOff
         \o loadAtaBlockDriver \o <<Step("blockMode", "ata", {"ata_bd"})>>

load_ps2hdd_stack == loadAtaBlockDriver \o
    <<Load("ps2hdd", {"ata_bd", "dev9"}), Load("ps2fs", {"ata_bd", "dev9", "ps2hdd"})>>

loadHddModules ==
    IF "hdd" \in block /\ "HDD" \in have THEN << >>
    ELSE <<On("switchBlock", "hdd")>> \o ensureCoreIoStackReady \o
         When("HDD" \notin have,
              setupPowerOff \o load_ps2hdd_stack \o <<Flag("HDD", {"ps2hdd", "ps2fs"})>>)
         \o <<Step("blockMode", "hdd", {"HDD"})>>

loadDVRPHddModules ==
    When(PSX, ensureCoreIoStackReady \o
        When("DVRP" \notin have,
             setupPowerOff \o load_ps2hdd_stack \o
             <<Load("dvrdrv", {"ps2hdd", "ps2fs"}), Load("dvrfile", {"dvrdrv"}),
               Flag("DVRP", {"dvrdrv", "dvrfile"})>>))

\* loadFlashModules, with load_pflash.
loadFlashModules ==
    When(PSX, ensureCoreIoStackReady \o
        When("xfrom" \notin have,
             <<Do("dev9")>> \o setupPowerOff \o <<Load("xfrom", {})>>))

load_ps2ip == <<On("switchNetwork", "eth"), Do("dev9"),
                Load("ps2ip", {"dev9"}), Load("ps2smap", {"dev9", "ps2ip"})>>

load_ps2host == <<On("switchNetwork", "eth")>> \o ensureCoreIoStackReady
    \o setupPowerOff \o load_ps2ip \o <<Load("ps2host", {"ps2ip", "ps2smap"})>>

loadNetModules == ensureCoreIoStackReady \o
    When("NetModules" \notin have,
         <<Do("getIpConfig")>>
         \o load_ps2ip \o <<Load("ps2netfs", {"ps2ip", "ps2smap"})>>
         \o load_ps2ip \o <<Load("ps2ftpd", {"ps2ip", "ps2smap"})>>
         \o <<Flag("NetModules", {"ps2netfs", "ps2ftpd"})>>)

load_udpfs == <<On("switchNetwork", "udpfs")>> \o ensureCoreIoStackReady
    \o setupPowerOff \o <<Do("getIpConfig"), Do("dev9"),
      Load("udpfs_smap", {"dev9"}),
      Load("udpfs_ministack", {"dev9", "udpfs_smap"}),
      Load("udpfs_ioman", {"dev9", "udpfs_smap", "udpfs_ministack"})>>

load_vmcman == ensureCoreIoStackReady \o
    <<Load("vmcman", {}), Step("vmcmanProbe", "none", {"vmcman"})>>

loadSecrSifModule == ensureCoreIoStackReady \o <<Load("secrsif", {})>>

prepareExploitSignerIop ==
    IF "signer" \in have THEN loadSecrSifModule
    ELSE <<Do("signerReboot")>>

resetRuntimeDeviceState == <<Do("Reset")>> \o ensureCoreIoStackReady \o <<Do("startKbd")>>

\* filer_device.c: ensurePathDeviceStackReady, and loadDeviceStackForPath.
ensurePathDeviceStackReady(d) ==
    CASE d = "mass" -> loadUsbModules
      [] d = "mmce" -> loadMmceModules
      [] d = "mx4sio" -> loadMx4sioModules
      [] d = "ata" -> loadAtaModules
      [] d = "hdd" -> loadHddModules
      [] d = "dvr" -> loadDVRPHddModules
      [] d = "xfrom" -> loadFlashModules
      [] d = "host" -> When("eth" \in Networks, load_ps2host)
      [] d = "udpfs" -> When("udpfs" \in Networks, load_udpfs)
      [] OTHER -> << >>

loadDeviceStackForPath(d) ==
    IF d = "vmc" THEN load_vmcman ELSE ensurePathDeviceStackReady(d)

\* filer.c: what genFixPath does to the drivers before the path is used.
genFixPath(d) ==
    (CASE d = "mc1" -> <<Do("ensureMc1")>>
       [] d = "mass" -> loadUsbModules
       [] d = "ata" -> loadAtaModules
       [] d = "mx4sio" -> When("mx4sio" \notin have, loadMx4sioModules)
       [] d = "mmce" -> loadMmceModules
       [] d = "hdd" -> When("hdd" \notin parties,
                            loadHddModules \o <<Step("partyList", "hdd", {"HDD"})>>)
       [] d = "dvr" -> When(PSX /\ "dvr" \notin parties,
                            loadDVRPHddModules \o <<Step("partyList", "dvr", {"DVRP"})>>)
       [] OTHER -> << >>)
    \o <<On("use", d)>>

\* init.c: a file named by a setting; a "mass" path is only rewritten.
getExternalFilePath(d) ==
    CASE d = "mass" -> << >>
      [] d = "hdd" -> loadHddModules
      [] d = "dvr" -> IF PSX THEN loadDVRPHddModules ELSE << >>
      [] OTHER -> <<On("genFixPath", d)>>

----------------------------------------------------------------------------
(* Steps that touch the IOP.                                               *)

LoadModule ==
    /\ Now("load")
    /\ Return
    /\ IF Arg \notin have /\ Needed
         THEN \E outcome \in Outcomes(Arg) :
                /\ SifExecModule(Arg, outcome)
                /\ have' = IF outcome \in Accepted(Arg) THEN have \cup {Arg} ELSE have
         ELSE UNCHANGED <<have, resident, again>>
    /\ UNCHANGED <<modes, caches, armed, ipCached>>

\* The basic modules and the fileXio and memory card clients.
EnsureCore ==
    /\ Now("core")
    /\ Return
    /\ IF "basic" \notin have
         THEN SifExecModule("basic", "resident")
         ELSE UNCHANGED <<resident, again>>
    /\ have' = have \cup {"basic", "filexio", "mcrpc"}
    /\ UNCHANGED <<modes, caches, armed, ipCached>>

\* have_ps2dev9 says that DEV9 was tried, ps2dev9_loaded that it is resident.
LoadDev9 ==
    /\ Now("dev9")
    /\ Return
    /\ IF "dev9tried" \notin have /\ Needed
         THEN \E outcome \in Outcomes("dev9") :
                /\ SifExecModule("dev9", outcome)
                /\ have' = have \cup {"dev9tried"}
                           \cup IF outcome = "resident" THEN {"dev9"} ELSE {}
         ELSE UNCHANGED <<have, resident, again>>
    /\ UNCHANGED <<modes, caches, armed, ipCached>>

\* The handler is registered before DEV9 is loaded; the flag is set after.
SetupPowerOff ==
    /\ Now("setupPowerOff")
    /\ IF "donePowerOff" \in have
         THEN Return /\ UNCHANGED <<have, resident, again, armed>>
         ELSE /\ Then(<<Do("dev9"), Flag("donePowerOff", {})>>)
              /\ \E outcome \in IF "poweroff" \in have THEN {"none"} ELSE Outcomes("poweroff") :
                    SifExecModule("poweroff", outcome)
              /\ have' = have \cup {"poweroff"}
              /\ armed' = TRUE
    /\ UNCHANGED <<modes, caches, ipCached>>

SetFlag ==
    /\ Now("flag")
    /\ Return
    /\ have' = IF Needed THEN have \cup {Arg} ELSE have
    /\ UNCHANGED <<resident, again, modes, caches, armed, ipCached>>

\* Variant: the NOT_MOUNT answer of an idle vmc device is taken for its absence.
VmcmanProbeStrict ==
    /\ Now("vmcmanProbe")
    /\ Return
    /\ have' = have \ {"vmcman"}
    /\ UNCHANGED <<resident, again, modes, caches, armed, ipCached>>

\* The device probe of load_vmcman: -ENODEV unless the driver registered itself.
VmcmanProbe ==
    /\ Now("vmcmanProbe")
    /\ Return
    /\ have' = IF "vmcman" \in resident THEN have ELSE have \ {"vmcman"}
    /\ UNCHANGED <<resident, again, modes, caches, armed, ipCached>>

\* Variant: resetDriverStackLoadTracking is forgotten.
ClearKeepsModes ==
    /\ have' = {}
    /\ UNCHANGED <<storage, block, net>>
    /\ parties' = {}
    /\ kbdOpen' = FALSE

\* Variant: done_setupPowerOff survives the reset.
ClearKeepsPowerOff ==
    /\ have' = have \cap {"donePowerOff"}
    /\ storage' = "default" /\ block' = {} /\ net' = "none"
    /\ parties' = {}
    /\ kbdOpen' = FALSE

\* Variant: invalidatePartitionCaches is forgotten.
ClearKeepsParties ==
    /\ have' = {}
    /\ storage' = "default" /\ block' = {} /\ net' = "none"
    /\ UNCHANGED parties
    /\ kbdOpen' = FALSE


clearIopModuleState ==
    /\ have' = {}
    /\ storage' = "default" /\ block' = {} /\ net' = "none"
    /\ parties' = {}
    /\ kbdOpen' = FALSE

Reset ==
    /\ Now("Reset")
    /\ Return
    /\ clearIopModuleState
    /\ resident' = {} /\ armed' = FALSE /\ again' = {}
    /\ UNCHANGED ipCached

\* SifIopRebootBuffer may fail and leave the IOP as it was; the flags are
\* cleared all the same.
SignerReboot ==
    /\ Now("signerReboot")
    /\ clearIopModuleState
    /\ \/ /\ Then(ensureCoreIoStackReady \o loadSecrSifModule
                  \o <<Flag("signer", {"secrsif"})>>)
          /\ resident' = {} /\ armed' = FALSE /\ again' = {}
       \/ /\ "signer" \in Flaky
          /\ Then(ensureCoreIoStackReady)
          /\ UNCHANGED <<resident, armed, again>>
    /\ UNCHANGED ipCached

----------------------------------------------------------------------------
(* Steps that decide on the EE.                                            *)

\* Variant: only MMCE after MX4SIO resets.
SwitchStorageOneWay ==
    /\ Now("switchStorage")
    /\ Then(When(storage = "mx4sio" /\ Arg = "mmce", resetRuntimeDeviceState))
    /\ UNCHANGED <<have, resident, again, modes, caches, armed, ipCached>>

\* Variant: resets until the mode is the wanted one.
SwitchStorageLoop ==
    /\ Now("switchStorage")
    /\ Then(When(storage # Arg, resetRuntimeDeviceState \o <<On("switchStorage", Arg)>>))
    /\ UNCHANGED <<have, resident, again, modes, caches, armed, ipCached>>


SwitchStorageDriverStack ==
    /\ Now("switchStorage")
    /\ Then(When(storage \notin {Arg, "default"}, resetRuntimeDeviceState))
    /\ UNCHANGED <<have, resident, again, modes, caches, armed, ipCached>>

StorageMode ==
    /\ Now("storageMode")
    /\ Return
    /\ storage' = IF Arg \in have THEN Arg ELSE storage
    /\ UNCHANGED <<have, resident, again, block, net, caches, armed, ipCached>>

\* ATA_BD and APA coexist, so none of the two resets the other.
SwitchBlockStorageStack ==
    /\ Now("switchBlock")
    /\ Then(When(Arg \notin block /\ block \cup {Arg} # {"hdd", "ata"} /\ block # {},
                 resetRuntimeDeviceState))
    /\ UNCHANGED <<have, resident, again, modes, caches, armed, ipCached>>

BlockMode ==
    /\ Now("blockMode")
    /\ Return
    /\ block' = IF Needed THEN block \cup {Arg} ELSE block
    /\ UNCHANGED <<have, resident, again, storage, net, caches, armed, ipCached>>

\* Compiled only into builds with both networks.
SwitchNetworkStack ==
    /\ Now("switchNetwork")
    /\ IF Networks # {"eth", "udpfs"} \/ net = Arg
         THEN Return /\ UNCHANGED net
         ELSE IF net # "none"
                THEN /\ Then(resetRuntimeDeviceState \o <<On("networkMode", Arg)>>)
                     /\ UNCHANGED net
                ELSE Return /\ net' = Arg
    /\ UNCHANGED <<have, resident, again, storage, block, caches, armed, ipCached>>

NetworkMode ==
    /\ Now("networkMode")
    /\ Return
    /\ net' = Arg
    /\ UNCHANGED <<have, resident, again, storage, block, caches, armed, ipCached>>

\* Variant: a driver that is resident is taken for granted.
EnsureMc1Nothing ==
    /\ Now("ensureMc1")
    /\ Return
    /\ UNCHANGED <<have, resident, again, modes, caches, armed, ipCached>>


EnsureMemoryCardPortAccessible ==
    /\ Now("ensureMc1")
    /\ Then(When(storage = "mx4sio" \/ "mx4sio" \in have, resetRuntimeDeviceState))
    /\ UNCHANGED <<have, resident, again, modes, caches, armed, ipCached>>

\* setPartyListForDevice, setDVRPPartyList: nothing is listed without a driver.
PartyList ==
    /\ Now("partyList")
    /\ Return
    /\ parties' = IF Needed THEN parties \cup {Arg} ELSE parties
    /\ UNCHANGED <<have, resident, again, modes, kbdOpen, armed, ipCached>>

\* The file is looked for beside the program, on mc0: and on mc1:, in an order
\* that depends on where the program is; the answer is cached for good.
GetIpConfig ==
    /\ Now("getIpConfig")
    /\ IF ipCached THEN Return
         ELSE \E tried \in SUBSET {"mc1"} :
              Then(When("mc1" \in tried, <<On("genFixPath", "mc1")>>))
    /\ ipCached' = TRUE
    /\ UNCHANGED <<have, resident, again, modes, caches, armed>>

StartKbd ==
    /\ Now("startKbd")
    /\ Then(When(KbdUsed /\ ~kbdOpen,
                 When(KbdFile = "mass", loadUsbModules) \o ensureCoreIoStackReady
                 \o <<Load("usbd", {}), Do("loadKbd"), Do("kbdInit")>>))
    /\ UNCHANGED <<have, resident, again, modes, caches, armed, ipCached>>

LoadKbdModules ==
    /\ Now("loadKbd")
    /\ Then(When("usbd" \in have /\ "ps2kbd" \notin have,
                 getExternalFilePath(KbdFile) \o <<Do("loadExternal")>>))
    /\ UNCHANGED <<have, resident, again, modes, caches, armed, ipCached>>

\* The embedded driver is tried when the file does not start; a negative ID of
\* it still counts as success.
LoadExternalModule ==
    /\ Now("loadExternal")
    /\ Return
    /\ \E outcome \in Outcomes("ps2kbd") : SifExecModule("ps2kbd", outcome)
    /\ have' = have \cup {"ps2kbd"}
    /\ UNCHANGED <<modes, caches, armed, ipCached>>

KbdInit ==
    /\ Now("kbdInit")
    /\ IF "ps2kbd" \in have
         THEN /\ kbdOpen' = TRUE
              /\ Then(When(KbdMap = "mass", loadUsbModules) \o <<Do("kbdMap")>>)
         ELSE Return /\ UNCHANGED kbdOpen
    /\ UNCHANGED <<have, resident, again, modes, parties, armed, ipCached>>

LoadKbdMap ==
    /\ Now("kbdMap")
    /\ Then(When("ps2kbd" \in resident, getExternalFilePath(KbdMap)))
    /\ UNCHANGED <<have, resident, again, modes, caches, armed, ipCached>>

GenFixPath ==
    /\ Now("genFixPath")
    /\ Then(genFixPath(Arg))
    /\ UNCHANGED <<have, resident, again, modes, caches, armed, ipCached>>

\* The caller opens the path genFixPath returned.
UsePath ==
    /\ Now("use")
    /\ Return
    /\ UNCHANGED <<have, resident, again, modes, caches, armed, ipCached>>

DeviceReady ==
    /\ Now("deviceReady")
    /\ Then(loadDeviceStackForPath(Arg))
    /\ UNCHANGED <<have, resident, again, modes, caches, armed, ipCached>>

----------------------------------------------------------------------------
(* Calls of the user interface.                                            *)

Idle == todo = << >>
Call(body) ==
    /\ Idle
    /\ todo' = body
    /\ UNCHANGED <<setup, have, resident, again, modes, caches, armed, ipCached>>

OpenPath == \E d \in Paths : Call(<<On("genFixPath", d)>>)
EnsurePathDeviceStackReady == \E d \in Paths : Call(ensurePathDeviceStackReady(d))

\* prepareTransferDeviceStacks, with the pairs it refuses.
incompatible(src, dst) ==
    \/ {src, dst} = {"mx4sio", "mc1"}
    \/ {src, dst} = {"mx4sio", "mmce"}
PrepareTransferDeviceStacks == \E src, dst \in Paths :
    /\ ~incompatible(src, dst)
    /\ Call(<<On("deviceReady", src), On("deviceReady", dst)>>)

RebootIopAndReloadCoreStack == Call(resetRuntimeDeviceState)
RebootIopAndLoadDeviceStackForPath == \E d \in Paths :
    Call(<<Do("Reset")>> \o ensureCoreIoStackReady \o <<On("deviceReady", d)>>)
LoadVmcman == Call(load_vmcman)
LoadNetModules == "eth" \in Networks /\ Call(loadNetModules)
PrepareExploitSignerIop == Call(prepareExploitSignerIop)
ReadPad == KbdUsed /\ Call(<<Do("startKbd")>>)
PowerOffMenu == Call(setupPowerOff)
LoadHdlInfoModule == Call(<<Load("hdl_info", {})>>)
LoadSecrSifModule == Call(loadSecrSifModule)
ReloadUdpfsModules == "udpfs" \in Networks /\
    Call(resetRuntimeDeviceState \o <<On("deviceReady", "udpfs")>>)

(***************************************************************************)
(* Start-up: Reset, the boot device's stack, the network configuration and *)
(* the keyboard.                                                           *)
(***************************************************************************)
Init ==
    /\ setup \in Setups
    /\ \E d \in Boots : todo = ensureCoreIoStackReady \o
         (IF d = "host" THEN <<Do("getIpConfig"), On("deviceReady", d)>>
                        ELSE <<On("deviceReady", d), Do("getIpConfig")>>)
         \o <<Do("startKbd")>>
    /\ have = {} /\ resident = {} /\ again = {}
    /\ storage = "default" /\ block = {} /\ net = "none"
    /\ parties = {} /\ kbdOpen = FALSE /\ armed = FALSE /\ ipCached = FALSE

Continue ==
    /\ UNCHANGED setup
    /\ \/ LoadModule \/ EnsureCore \/ LoadDev9 \/ SetupPowerOff \/ SetFlag
       \/ VmcmanProbe \/ Reset \/ SignerReboot
       \/ SwitchStorageDriverStack \/ StorageMode \/ SwitchBlockStorageStack
       \/ BlockMode \/ SwitchNetworkStack \/ NetworkMode
       \/ EnsureMemoryCardPortAccessible \/ PartyList \/ GetIpConfig
       \/ StartKbd \/ LoadKbdModules \/ LoadExternalModule \/ KbdInit \/ LoadKbdMap
       \/ GenFixPath \/ UsePath \/ DeviceReady

Begin ==
    \/ OpenPath \/ EnsurePathDeviceStackReady \/ PrepareTransferDeviceStacks
    \/ RebootIopAndReloadCoreStack \/ RebootIopAndLoadDeviceStackForPath
    \/ LoadVmcman \/ LoadNetModules \/ PrepareExploitSignerIop \/ ReadPad \/ PowerOffMenu
    \/ LoadHdlInfoModule \/ LoadSecrSifModule \/ ReloadUdpfsModules

Next == Continue \/ Begin
Spec == Init /\ [][Next]_vars /\ WF_vars(Continue)

----------------------------------------------------------------------------
(* Properties.                                                             *)

EthModules == {"ps2ip", "ps2smap", "ps2host", "ps2netfs", "ps2ftpd"}
UdpfsModules == {"udpfs_smap", "udpfs_ministack", "udpfs_ioman"}
Checked == {"usbd", "bdm", "bdmfs", "usb_mass", "mmce", "mx4sio", "ata_bd", "ps2hdd",
            "ps2fs", "dvrdrv", "dvrfile", "secrsif"} \cup EthModules \cup UdpfsModules
StackOf == [mmce |-> {"mmce"}, mx4sio |-> {"mx4sio", "bdm", "bdmfs"},
            mass |-> {"usbd", "bdm", "bdmfs", "usb_mass"}, ata |-> {"bdm", "bdmfs", "ata_bd"},
            hdd |-> {"ps2hdd", "ps2fs"}]

(* The keyboard driver and its map are not on the devices that exclude each
   other, and the reboot for the signer, which forgets the modes, does not leave
   the modules where they are. *)
KbdApart == {KbdFile, KbdMap} \cap {"mmce", "mx4sio"} = {}
RebootWorks == "signer" \notin Flaky

(* The MMCE and the MX4SIO driver are never resident together, whichever
   device is opened in whatever order (README.md: "MMCE and MX4SIO will incure
   an IOP reboot as the 2 are incompatible"), nor are modules of both network
   stacks: no mode is ever forgotten while its stack is there.  With the
   keyboard driver on one of the two devices they may be: the reset that
   makes room for the other one loads it again. *)
NeverBoth == RebootWorks =>
    /\ KbdApart => ~({"mmce", "mx4sio"} \subseteq resident)
    /\ resident \cap EthModules = {} \/ resident \cap UdpfsModules = {}

(* What the flags and the stack modes say is loaded is resident in the current
   IOP session, resets included ("Tracks driver stacks proven loaded in the
   current IOP session"). *)
StacksProven ==
    /\ have \cap Checked \subseteq resident
    /\ storage # "default" => storage \in resident
    /\ "ata" \in block => "ata_bd" \in resident
    /\ "hdd" \in block => {"ps2hdd", "ps2fs"} \subseteq resident
    /\ parties \subseteq {"hdd", "dvr"} \cap
          ((IF {"ps2hdd", "ps2fs"} \subseteq resident THEN {"hdd"} ELSE {}) \cup
           (IF {"dvrdrv", "dvrfile"} \subseteq resident THEN {"dvr"} ELSE {}))

(* Whenever a disk driver is resident, the handler that idles the disk and
   switches DEV9 off is registered in the same IOP session. *)
PowerOffArmed == resident \cap {"ps2hdd", "ata_bd"} # {} => armed

(* When genFixPath hands a path to its caller, the driver of that path is
   resident, and the slot of mc1: is not held by MX4SIO, even if the call reset
   the IOP on its way (as far as the drivers start at all).  With the keyboard
   driver or its map on MX4SIO the slot may be held: the reset that frees it
   loads MX4SIO again for them. *)
PathReady ==
    Now("use") /\ setup.flaky = {} =>
        /\ Arg \in DOMAIN StackOf => StackOf[Arg] \subseteq resident
        /\ Arg = "mc1" /\ "mx4sio" \notin {KbdFile, KbdMap} => "mx4sio" \notin resident

(* No module that starts is started while it is resident already.  The one
   exception is the keyboard driver itself, where its file is on a device whose opening may reset
   the IOP: have_ps2kbd was read before that reset restarted the keyboard. *)
StartOnce == setup.flaky = {} => again \subseteq (IF KbdFile \in {"mc1", "mmce", "mx4sio"} THEN {"ps2kbd"} ELSE {})

(* Every call returns: no chain of resets and reloads goes on for ever. *)
CallReturns == todo # << >> ~> todo = << >>
=============================================================================
