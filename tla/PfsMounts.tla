----------------------------- MODULE PfsMounts -----------------------------
(***************************************************************************)
(* The PFS mount points of the hard disk (src/filer_mount.c): the EE's     *)
(* table of what it mounted where, the slots pinned by virtual memory card *)
(* images, and the mounts themselves, which PFS keeps on the IOP.  One     *)
(* action is one operation of the user or of the FTP server.               *)
(***************************************************************************)
EXTENDS Integers, FiniteSets

CONSTANTS
  Parties,    \* the partitions of the disk
  Mountable,  \* those of them that hold a PFS file system
  NoParty     \* the empty string

ASSUME MountAssumption ==
  /\ Mountable \subseteq Parties
  /\ NoParty \notin Parties

MOUNT_LIMIT == 4
Slots == 0 .. MOUNT_LIMIT - 1
Vmcs  == {0, 1}

VARIABLES
  mountedParty,    \* the EE's table: slot -> partition or NoParty
  latestMount,     \* the slot used last, or -1
  vmc_PartyIndex,  \* virtual card -> slot its image is read from, or -1
  Party_vmcIndex,  \* slot -> virtual card whose image it holds, or -1
  vmcMounted,      \* virtual card -> mounted or not
  clipParty,       \* partition of the clipboard's entries, or NoParty
  program,         \* which part of the program is in control
  ftp,             \* the FTP server runs and has a client
  pfs,             \* what PFS has mounted: slot -> partition or NoParty
  image            \* virtual card -> slot of its open image file, or -1

vars == <<mountedParty, latestMount, vmc_PartyIndex, Party_vmcIndex,
          vmcMounted, clipParty, program, ftp, pfs, image>>

(***************************************************************************)
(* The mount state as one value, so that an operation that mounts several  *)
(* times is a composition of operators.  ret is the last call's result.    *)
(***************************************************************************)
Now == [table |-> mountedParty, latest |-> latestMount,
        index |-> vmc_PartyIndex, pins |-> Party_vmcIndex,
        card |-> vmcMounted, pfs |-> pfs, image |-> image, ret |-> 0]

Becomes(s) ==
  /\ mountedParty' = s.table /\ latestMount' = s.latest
  /\ vmc_PartyIndex' = s.index /\ Party_vmcIndex' = s.pins
  /\ vmcMounted' = s.card /\ pfs' = s.pfs /\ image' = s.image

First(S) == CHOOSE i \in S : \A j \in S : i <= j

(***************************************************************************)
(* PFS: a mount needs a free mount point and a PFS partition that nobody   *)
(* has open; an unmount needs that no file on it is open.                  *)
(***************************************************************************)
CanMount(s, i, p) ==
  p \in Mountable /\ s.pfs[i] = NoParty /\ \A j \in Slots : s.pfs[j] # p

CanUmount(s, i) == s.pfs[i] # NoParty /\ \A v \in Vmcs : s.image[v] # i

Mounted(s, i, p) == [s EXCEPT !.pfs[i] = p]

(***************************************************************************)
(* unmountParty of every slot of S: where PFS refuses, nothing changes.    *)
(***************************************************************************)
\* Variant: the entry is left in the table.
UnmountKeepsEntry(s, S) ==
  LET gone == {i \in S : CanUmount(s, i)} IN
  [s EXCEPT !.pfs = [i \in Slots |-> IF i \in gone THEN NoParty ELSE @[i]],
            !.latest = IF @ \in gone THEN -1 ELSE @]

unmountParties(s, S) ==
  LET gone == {i \in S : CanUmount(s, i)} IN
  [s EXCEPT !.table = [i \in Slots |-> IF i \in gone THEN NoParty ELSE @[i]],
            !.pfs = [i \in Slots |-> IF i \in gone THEN NoParty ELSE @[i]],
            !.latest = IF @ \in gone THEN -1 ELSE @]

\* Variant: the entry is cleared even when PFS keeps the partition mounted.
UnmountForgets(s, i) ==
  [unmountParties(s, {i}) EXCEPT !.table[i] = NoParty]

unmountParty(s, i) == unmountParties(s, {i})

(***************************************************************************)
(* mountParty.  Slots that are neither the latest nor pinned by a virtual  *)
(* card may be taken.  When the mount fails they are unmounted one after   *)
(* the other, and the mount is tried again in each of them.                *)
(***************************************************************************)
\* Variant: the slot used last is taken like any other.
UnneededAny(s) == {i \in Slots : s.pins[i] < 0}

Unneeded(s) == {i \in Slots : i # s.latest /\ s.pins[i] < 0}

Recorded(s, i, p) ==
  [Mounted(s, i, p) EXCEPT !.table[i] = p, !.latest = i, !.ret = i]

KillAndMount(s, p) ==
  LET After(i) == unmountParties(s, {j \in Unneeded(s) : j <= i})
      Works == {i \in Unneeded(s) : CanMount(After(i), i, p)}
  IN  IF Works # {}
        THEN Recorded(After(First(Works)), First(Works), p)
        ELSE [unmountParties(s, Unneeded(s)) EXCEPT !.ret = -1]

MountIn(s, i, p) ==
  IF CanMount(s, i, p) THEN Recorded(s, i, p) ELSE KillAndMount(s, p)

mountParty(s, p) ==
  LET known == {i \in Slots : s.table[i] = p}
      free  == {i \in Slots : s.table[i] = NoParty}
  IN  IF known # {} THEN [s EXCEPT !.latest = First(known), !.ret = First(known)]
      ELSE IF free # {} THEN MountIn(s, First(free), p)
      ELSE IF Unneeded(s) = {} THEN [s EXCEPT !.ret = -1]
      ELSE LET j == First(Unneeded(s)) IN MountIn(unmountParty(s, j), j, p)

(***************************************************************************)
(* unmountAll: the virtual cards first, which closes their images; the     *)
(* results of the unmounts are ignored.                                    *)
(***************************************************************************)
UmountCards(s, V) ==
  [s EXCEPT !.image = [v \in Vmcs |-> IF v \in V THEN -1 ELSE @[v]],
            !.card = [v \in Vmcs |-> v \notin V /\ @[v]]]

unmountAll(s) ==
  LET on == {v \in Vmcs : s.card[v]}
      c  == UmountCards(s, on)
      gone == {i \in Slots : c.table[i] # NoParty /\ CanUmount(c, i)}
  IN  [c EXCEPT !.index = [v \in Vmcs |-> IF v \in on THEN -1 ELSE @[v]],
                !.pins = [i \in Slots |-> -1],
                !.table = [i \in Slots |-> NoParty],
                !.pfs = [i \in Slots |-> IF i \in gone THEN NoParty ELSE @[i]],
                !.latest = -1]

(***************************************************************************)
(* MOUNTVMC0 and MOUNTVMC1 of the browser's menu.  The card's old mount    *)
(* goes first; its slot stays pinned while the other card's image is there.*)
(* Loading vmcman and opening the image may fail; an image that is not on  *)
(* the disk pins nothing.                                                  *)
(***************************************************************************)
\* Variant: the slot is freed although the other card's image is on it too.
ReleaseBoth(s, v) ==
  LET j == s.index[v] IN
  UmountCards([s EXCEPT !.index[v] = -1,
                        !.pins = [i \in Slots |-> IF i = j THEN -1 ELSE @[i]]],
              {v})

ReleaseCard(s, v) ==
  LET j == s.index[v]
      r == IF s.card[v] /\ j >= 0
             THEN [s EXCEPT !.index[v] = -1,
                            !.pins[j] = IF j # s.index[1 - v] THEN -1 ELSE @]
             ELSE s
  IN  UmountCards(r, {v})

AttachCard(s, v, j) ==
  [s EXCEPT !.index[v] = j, !.card[v] = TRUE, !.image[v] = j,
            !.pins = [i \in Slots |-> IF i = j THEN v ELSE @[i]]]

MountVmc(s, v, p) ==
  LET r == ReleaseCard(s, v) IN
  IF p = NoParty THEN {r, AttachCard(r, v, -1)}
  ELSE LET m == mountParty(r, p) IN
       IF m.ret < 0 \/ m.pfs[m.ret] = NoParty
         THEN {m} ELSE {m, AttachCard(m, v, m.ret)}

(***************************************************************************)
(* The other users of the mount points.                                    *)
(***************************************************************************)
\* Copying a file: the source is mounted, then the destination, and only
\* then are the two files opened.
CopyMounts(s, p, q) == mountParty(mountParty(s, p), q)

\* getExternalFilePath: the partition is mounted, and the path handed out
\* names slot 0 whatever mountParty returns.
getExternalFilePath(s, p) == [mountParty(s, p) EXCEPT !.ret = 0]

\* RunLoaderElf: slot 0 is mounted without the table, if need be after an
\* unmount of what is there; ret is -1 when the second try fails too.
RunLoaderElf(s, p) ==
  LET u == IF CanMount(s, 0, p) THEN s ELSE unmountParty(s, 0) IN
  IF CanMount(u, 0, p) THEN [Mounted(u, 0, p) EXCEPT !.ret = 0]
                       ELSE [u EXCEPT !.ret = -1]

\* GetHddInfo: every PFS partition is mounted in slot 0 in turn, without the
\* table, and the last one stays there.
GetHddInfo(s, p) ==
  LET u == IF CanUmount(s, 0) THEN Mounted(s, 0, NoParty) ELSE s IN
  IF CanMount(u, 0, p) THEN Mounted(u, 0, p) ELSE u

-----------------------------------------------------------------------------
Empty == [i \in Slots |-> NoParty]

Init ==
  /\ mountedParty = Empty /\ pfs = Empty
  /\ latestMount = -1
  /\ vmc_PartyIndex = [v \in Vmcs |-> -1] /\ image = [v \in Vmcs |-> -1]
  /\ Party_vmcIndex = [i \in Slots |-> -1]
  /\ vmcMounted = [v \in Vmcs |-> FALSE]
  /\ clipParty = NoParty
  /\ program = "menu" /\ ftp = FALSE

InBrowser == program = "browser" /\ UNCHANGED <<program, ftp>>
Awake == program \in {"menu", "browser"} /\ UNCHANGED <<program, ftp>>

\* A configuration, skin or language file on the disk.
ReadSetting(p) ==
  /\ program = "menu"
  /\ Becomes(mountParty(Now, p))
  /\ UNCHANGED <<clipParty, program, ftp>>

\* The keyboard driver or its map is read from the disk.
ReadExternalFile(p) ==
  Awake /\ Becomes(getExternalFilePath(Now, p)) /\ UNCHANGED clipParty

\* The editor or the exporter writes a file and unmounts its partition.
SaveFile(p) ==
  /\ Awake
  /\ LET m == mountParty(Now, p) IN
     Becomes(IF m.ret < 0 THEN m ELSE unmountParty(m, m.ret))
  /\ UNCHANGED clipParty

EnterBrowser ==
  /\ program = "menu" /\ program' = "browser"
  /\ Becomes(unmountAll(Now))
  /\ clipParty' = NoParty /\ UNCHANGED ftp

LeaveBrowser ==
  /\ program = "browser" /\ program' = "menu"
  /\ Becomes(unmountAll(Now))
  /\ UNCHANGED <<clipParty, ftp>>

\* A directory of a partition is listed, or something in it is sized,
\* deleted, renamed or created.
ReadHdd(p) ==
  InBrowser /\ Becomes(mountParty(Now, p)) /\ UNCHANGED clipParty

\* Variant: what the clipboard refers to is not looked at.
NotNeededNow == {i \in Slots : /\ mountedParty[i] # NoParty
                               /\ Party_vmcIndex[i] < 0}

NotNeeded == {i \in Slots : /\ mountedParty[i] \notin {NoParty, clipParty}
                            /\ Party_vmcIndex[i] < 0}

\* The list of partitions is shown.
ReadHddRoot ==
  /\ InBrowser
  /\ Becomes(unmountParties(Now, NotNeeded))
  /\ UNCHANGED clipParty

\* Files are copied or cut in a directory; NoParty: not on the disk.
FillClipboard(p) ==
  InBrowser /\ clipParty' = p /\ Becomes(Now)

Paste(p, q) ==
  InBrowser /\ Becomes(CopyMounts(Now, p, q)) /\ UNCHANGED clipParty

MountVmcFrom(v, p) ==
  /\ InBrowser
  /\ \E s \in MountVmc(Now, v, p) : Becomes(s)
  /\ UNCHANGED clipParty

EnterHddManager(p) ==
  /\ program = "menu" /\ program' = "manager"
  /\ Becomes(GetHddInfo(Now, p))
  /\ UNCHANGED <<clipParty, ftp>>

LeaveHddManager ==
  /\ program = "manager" /\ program' = "menu"
  /\ Becomes(unmountParty(unmountParty(unmountAll(Now), 0), 1))
  /\ UNCHANGED <<clipParty, ftp>>

\* A switch of driver stacks: everything is unmounted, then the IOP reset
\* drops whatever is left, the server included.
ResetIop ==
  /\ program \in {"menu", "browser"} /\ ftp' = FALSE
  /\ Becomes([unmountAll(Now) EXCEPT !.pfs = Empty])
  /\ UNCHANGED <<clipParty, program>>

\* A program on the disk is launched from the menu: its header is read
\* through mountParty, then the loader is given slot 0.
LaunchFromMenu(p) ==
  /\ program = "menu"
  /\ LET m == mountParty(Now, p)
         r == RunLoaderElf(m, p)
     IN  IF m.ret < 0
           THEN Becomes(m) /\ UNCHANGED program
           ELSE Becomes(r) /\ program' = IF r.ret = 0 THEN "gone" ELSE "stuck"
  /\ UNCHANGED <<clipParty, ftp>>

PowerCycle ==
  /\ program \in {"gone", "stuck"} /\ program' = "menu"
  /\ Becomes([unmountAll(Now) EXCEPT !.pfs = Empty])
  /\ clipParty' = NoParty /\ ftp' = FALSE

\* The network is started from the menu, with the FTP server.
StartFtp ==
  /\ program = "menu" /\ ftp' = TRUE
  /\ UNCHANGED <<mountedParty, latestMount, vmc_PartyIndex, Party_vmcIndex,
                 vmcMounted, clipParty, program, pfs, image>>

\* An FTP client changes its directory to the list of partitions, or into one.
FtpChangeDir(p) ==
  /\ ftp /\ program \in {"menu", "browser"}
  /\ LET u == IF CanUmount(Now, 0) THEN [pfs EXCEPT ![0] = NoParty] ELSE pfs IN
     pfs' = IF p # NoParty /\ CanMount([Now EXCEPT !.pfs = u], 0, p)
              THEN [u EXCEPT ![0] = p] ELSE u
  /\ UNCHANGED <<mountedParty, latestMount, vmc_PartyIndex, Party_vmcIndex,
                 vmcMounted, clipParty, program, ftp, image>>

Next ==
  \/ EnterBrowser \/ LeaveBrowser \/ ReadHddRoot
  \/ LeaveHddManager \/ ResetIop \/ PowerCycle \/ StartFtp
  \/ \E p \in Parties :
       \/ ReadSetting(p) \/ ReadExternalFile(p) \/ SaveFile(p) \/ ReadHdd(p)
       \/ EnterHddManager(p) \/ LaunchFromMenu(p)
       \/ \E q \in Parties : Paste(p, q)
  \/ \E p \in Parties \cup {NoParty} :
       \/ FillClipboard(p) \/ FtpChangeDir(p)
       \/ \E v \in Vmcs : MountVmcFrom(v, p)

Spec == Init /\ [][Next]_vars

-----------------------------------------------------------------------------
\* The table remembers the true state (filer_mount.c): a slot with an entry
\* is mounted, and with that partition.  The HDD manager works past the table
\* and repairs it on leaving; an FTP client takes slot 0 past the table too.
MountsAgree ==
  program \in {"menu", "browser"} /\ ~ftp =>
    \A i \in Slots : mountedParty[i] # NoParty => pfs[i] = mountedParty[i]

\* The pins are exactly the slots that hold the image of a mounted card, so
\* none is lost to a card that is gone and none is taken from one in use; and
\* each of these slots is still mounted.
PinsAgree ==
  /\ \A i \in Slots : Party_vmcIndex[i] >= 0 <=>
                       \E v \in Vmcs : vmcMounted[v] /\ vmc_PartyIndex[v] = i
  /\ \A v \in Vmcs : vmcMounted[v] /\ vmc_PartyIndex[v] >= 0
                      => pfs[vmc_PartyIndex[v]] # NoParty

\* Whatever the user did before, a partition with a file system can be
\* mounted: four slots are enough for the latest, two cards and one more.
AlwaysRoom ==
  program \in {"menu", "browser"} /\ ~ftp =>
    \A p \in Mountable : mountParty(Now, p).ret >= 0

\* Mounting the destination of a copy never takes the slot of its source:
\* when both mounts succeed, each path still names its own partition.
CopyKeepsSource ==
  program = "browser" /\ ~ftp =>
    \A p, q \in Mountable :
      LET a == mountParty(Now, p)
          b == mountParty(a, q)
      IN  a.ret >= 0 /\ b.ret >= 0 => b.pfs[a.ret] = p /\ b.pfs[b.ret] = q

\* Showing the list of partitions leaves mounted what the clipboard refers to.
ClipboardKept ==
  program = "browser" =>
    \A i \in Slots :
      mountedParty[i] = clipParty /\ pfs[i] = clipParty
        => unmountParties(Now, NotNeeded).pfs[i] = pfs[i]

\* What a path in use or the clipboard names stays mounted: of a copy, its
\* source while the destination is mounted; of the clipboard, its partition
\* while the list of partitions drops what nothing needs (filer_copy.c,
\* filer_mount.c).
SourcesStay == CopyKeepsSource /\ ClipboardKept

\* A program whose header was read is handed to the loader, whatever else
\* used slot 0 before (elf.c).
LaunchSucceeds == program # "stuck"
=============================================================================
