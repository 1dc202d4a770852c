------------------------------- MODULE VmcSlots -------------------------------
(***************************************************************************)
(* The two slots of the virtual memory card driver (iop/vmcman): images    *)
(* are mounted into them and taken out, and calls come through paths and   *)
(* handles.  Every call holds mcman_io_sema and is one step.  What happens *)
(* in the files of a card is in VmcFiles, in its blocks in VmcBlocks; here *)
(* an inner call is "ok", fails with -1 to -9 ("fail"), or fails with less *)
(* than -9 ("bad"), after which the driver forgets all it knows of a card. *)
(*                                                                         *)
(* Other programs open and close files too; iomanX gives the lowest free   *)
(* descriptor, and 0 is the console.                                       *)
(***************************************************************************)
EXTENDS Integers, Sequences

CONSTANTS Slots, Images, Handles, Descriptors

VARIABLES io,       \* iomanX: what each descriptor is open on
    card,           \* of a slot: mounted and fd (mcman_vmc_cardinfo), cardform, the
                    \* handles with data in the cache, and what was seen of its use
    fdhandles       \* mcman_fdhandles, with the image each was opened on

slotVars == <<io, card, fdhandles>>

(* Descriptor 0 is the console, and what a descriptor may be open on apart *)
(* from an image has a name of its own.                                    *)
SlotsAssumption ==
    /\ Descriptors \subseteq Nat /\ 0 \in Descriptors /\ Handles \subseteq Nat
    /\ Images \cap {"nothing", "file", "console"} = {}

Nothing == "nothing"
NoFd == -1
Closed == [status |-> FALSE]
(* How the three parts of a close end; the first that fails is the last.   *)
Endings == {<<"fail">>, <<"bad">>, <<"ok", "fail">>, <<"ok", "bad">>,
            <<"ok", "ok", "fail">>, <<"ok", "ok", "bad">>, <<"ok", "ok", "ok">>}
FreeFds(d) == {fd \in Descriptors : d[fd] = Nothing}
Lowest(set) == CHOOSE x \in set : \A y \in set : x <= y
Here == [io |-> io, card |-> card, fdhandles |-> fdhandles]
Becomes(st) == io' = st.io /\ card' = st.card /\ fdhandles' = st.fdhandles
-----------------------------------------------------------------------------
(* The cache of a slot is dropped with what was not written.               *)
mcman_clearcache(st, s) == [st EXCEPT !.card[s].unwritten = {}]
\* Variant: the handles stay.
HandlesKept(st, s) == st
mcman_invhandles(st, s) ==
    [st EXCEPT !.fdhandles = [h \in Handles |-> IF @[h].status /\ @[h].slot = s THEN Closed ELSE @[h]]]
Forget(st, s) == mcman_clearcache(mcman_invhandles(st, s), s)

(* A probe reads the card anew: the form is 1, 0 when nothing is mounted,  *)
(* or -1.                                                                  *)
FormOf(st, s) ==
    IF st.card[s].mounted THEN {1, -1} ELSE {0}
mcman_probePS2Card(st, s) ==
    {[mcman_clearcache(st, s) EXCEPT !.card[s].cardform = form] : form \in FormOf(st, s)}

(* A card with a form is not looked at again.                              *)
McDetectCard(st, s) ==
    IF st.card[s].cardform = 1 THEN [st |-> st, ok |-> TRUE]
    ELSE [st |-> Forget([st EXCEPT !.card[s].cardform = 0, !.card[s].asked = TRUE], s), ok |-> FALSE]
-----------------------------------------------------------------------------
(* mciomanx_backing.  A slot that was never used has descriptor 0.         *)
\* Variant: the form that was found stays.
SlotFormKept(st, s) ==
    LET fd == st.card[s].fd
        closed == IF fd >= 0 THEN [st EXCEPT !.io[fd] = Nothing] ELSE st
    IN {[closed EXCEPT !.card[s].mounted = FALSE, !.card[s].fd = NoFd]}
clear_slot(st, s) ==
    LET fd == st.card[s].fd
        closed == IF fd >= 0 THEN [st EXCEPT !.io[fd] = Nothing] ELSE st
    IN mcman_probePS2Card([closed EXCEPT !.card[s].mounted = FALSE, !.card[s].fd = NoFd], s)

Opened(st, what) == [st EXCEPT !.io[Lowest(FreeFds(st.io))] = what]

(* The handles of the slot that nothing closed yet: "kept".                *)
MarkKept(st, s) ==
    [st EXCEPT !.fdhandles = [h \in Handles |->
                  IF @[h].status /\ @[h].slot = s /\ ~st.card[s].asked THEN [@[h] EXCEPT !.kept = TRUE] ELSE @[h]],
               !.card[s].asked = FALSE]

(* The image cannot be opened, is no image, cannot be read in the probe,   *)
(* or is mounted.  The descriptor of an image that was mounted is lost.    *)
mc_mount(s, image) ==
    /\ card[s].mounted => ~card[s].again
    /\ \/ /\ \E st \in clear_slot([Here EXCEPT !.card[s].virgin = FALSE, !.card[s].robbed = card[s].virgin], s) : Becomes(st)
       \/ /\ FreeFds(io) # {}
          /\ LET fd == Lowest(FreeFds(io))
                 opened == [Opened(Here, image) EXCEPT !.card[s].fd = fd, !.card[s].virgin = FALSE,
                                !.card[s].again = @ \/ card[s].mounted]
                 mounted == [opened EXCEPT !.card[s].mounted = TRUE]
             IN \/ \E st \in clear_slot(opened, s) : Becomes(st)
                \/ \E st \in mcman_probePS2Card(mounted, s) :
                      IF st.card[s].cardform = 1 THEN Becomes(MarkKept(st, s))
                      ELSE \E back \in clear_slot(st, s) : Becomes(back)

mc_umount(s) ==
    /\ card[s].mounted
    /\ \E st \in clear_slot([Here EXCEPT !.card[s].asked = FALSE], s) : Becomes(st)
-----------------------------------------------------------------------------
(* Calls by a path.  Those that change something write the cache at the    *)
(* end, what open files have in it too.                                    *)
ByPath(s) ==
    LET d == McDetectCard(Here, s)
    IN \/ ~d.ok /\ Becomes(d.st)
       \/ d.ok /\ Becomes(Forget(d.st, s))
Flushing(s) == ByPath(s) \/ (McDetectCard(Here, s).ok /\ Becomes(mcman_clearcache(Here, s)))
mc_getstat(s) == ByPath(s)
mc_chstat(s) == Flushing(s)
mc_rename(s) == Flushing(s)
mc_remove(s) == Flushing(s)
mc_rmdir(s) == Flushing(s)
mc_mkdir(s) == Flushing(s)

mc_open(s) ==
    LET d == McDetectCard(Here, s)
        free == {h \in Handles : ~fdhandles[h].status}
    IN \/ ByPath(s)
       \/ /\ d.ok /\ free # {}
          /\ Becomes([d.st EXCEPT !.fdhandles[Lowest(free)] =
                [status |-> TRUE, slot |-> s, of |-> io[card[s].fd], begun |-> FALSE, kept |-> FALSE]])

(* Calls by a handle.  A read or a write that fails closes it.             *)
ByHandle(h, done) ==
    LET s == fdhandles[h].slot
        d == McDetectCard(Here, s)
    IN /\ fdhandles[h].status
       /\ \/ ~d.ok /\ Becomes(d.st)
          \/ d.ok /\ Becomes(done)
          \/ d.ok /\ Becomes([d.st EXCEPT !.fdhandles[h] = Closed])
          \/ d.ok /\ Becomes(Forget(d.st, s))
mc_read(h) == ByHandle(h, Here)
mc_dread(h) == ByHandle(h, Here)
mc_lseek(h) == fdhandles[h].status /\ LET d == McDetectCard(Here, fdhandles[h].slot) IN ~d.ok /\ Becomes(d.st)
mc_write(h) ==
    /\ fdhandles[h].status
    /\ ByHandle(h, [Here EXCEPT !.fdhandles[h].begun = TRUE, !.card[fdhandles[h].slot].unwritten = @ \cup {h}])

(* McClose: the data are written, then the entry, and then its cluster;    *)
(* the handle is closed whatever fails.                                    *)
Flushed(st, s, r) == IF r = "ok" THEN mcman_clearcache(st, s) ELSE IF r = "bad" THEN Forget(st, s) ELSE st
\* Variant: the entry is left in the cache.
CloseWritesOnce(h, st, r) ==
    LET s == fdhandles[h].slot
        data == Flushed(st, s, r[1])
    IN IF r[1] # "ok" \/ ~fdhandles[h].begun THEN [st |-> data, ok |-> r[1] = "ok"]
       ELSE [st |-> [data EXCEPT !.card[s].unwritten = @ \cup {h}], ok |-> TRUE]
McClose(h, st, r) ==
    LET s == fdhandles[h].slot
        data == Flushed(st, s, r[1])
        entry == IF ~fdhandles[h].begun THEN data
                 ELSE IF r[2] = "bad" THEN Forget(data, s)
                 ELSE [data EXCEPT !.card[s].unwritten = @ \cup {h}]
    IN IF Len(r) = 1 THEN [st |-> data, ok |-> FALSE]
       ELSE IF Len(r) = 2 /\ fdhandles[h].begun THEN [st |-> entry, ok |-> FALSE]
       ELSE [st |-> Flushed(entry, s, r[Len(r)]), ok |-> r[Len(r)] = "ok"]

mc_close(h) ==
    /\ fdhandles[h].status
    /\ LET s == fdhandles[h].slot
           d == McDetectCard([Here EXCEPT !.fdhandles[h] = Closed], s)
       IN IF ~d.ok THEN Becomes(d.st)
          ELSE \E r \in Endings :
                  LET c == McClose(h, d.st, r)
                  IN Becomes(IF c.ok /\ h \in c.st.card[s].unwritten
                             THEN [c.st EXCEPT !.card[s].left = TRUE]
                             ELSE [c.st EXCEPT !.card[s].unwritten = @ \ {h}])

(* The other programs.                                                     *)
Others ==
    \/ FreeFds(io) # {} /\ Becomes(Opened(Here, "file"))
    \/ \E fd \in Descriptors : io[fd] = "file" /\ Becomes([Here EXCEPT !.io[fd] = Nothing])
-----------------------------------------------------------------------------
SlotsInit ==
    /\ io = [fd \in Descriptors |-> IF fd = 0 THEN "console" ELSE Nothing]
    /\ card = [s \in Slots |-> [mounted |-> FALSE, fd |-> 0, cardform |-> 0, unwritten |-> {}, asked |-> FALSE,
                                virgin |-> TRUE, robbed |-> FALSE, again |-> FALSE, left |-> FALSE]]
    /\ fdhandles = [h \in Handles |-> Closed]
SlotsStep ==
    \/ \E s \in Slots :
          \/ \E image \in Images : mc_mount(s, image)
          \/ mc_umount(s) \/ mc_open(s) \/ mc_getstat(s) \/ mc_chstat(s)
          \/ mc_rename(s) \/ mc_remove(s) \/ mc_rmdir(s) \/ mc_mkdir(s)
    \/ \E h \in Handles : mc_read(h) \/ mc_dread(h) \/ mc_lseek(h) \/ mc_write(h) \/ mc_close(h)
    \/ Others
(* Bound: what follows the loss of the console is left out.                *)
SlotsNext == (\A s \in Slots : ~card[s].robbed) /\ SlotsStep

SlotsSpec == SlotsInit /\ [][SlotsNext]_slotVars
-----------------------------------------------------------------------------
(* A slot is mounted exactly when its card has a form, and then on an      *)
(* image of its own that is open.                                          *)
SlotsAgree ==
    \A s \in Slots :
        /\ card[s].mounted <=> card[s].cardform = 1
        /\ card[s].mounted => io[card[s].fd] \in Images
        /\ \A t \in Slots \ {s} : card[s].mounted /\ card[t].mounted => card[s].fd # card[t].fd

(* The driver closes what it opened and nothing else: every image that is  *)
(* open is that of a slot, unless a slot was mounted twice in a row, and   *)
(* the console is open, unless an image could not be opened for a slot     *)
(* that was never used.                                                    *)
OwnDescriptors ==
    /\ (\A s \in Slots : ~card[s].again) =>
          \A fd \in Descriptors : io[fd] \in Images => \E s \in Slots : card[s].mounted /\ card[s].fd = fd
    /\ (\A s \in Slots : ~card[s].robbed) => io[0] = "console"

(* A handle acts on the image that it was opened on, also after another    *)
(* one was mounted into its slot, unless that was done without a call in   *)
(* between, which alone closes the handles.                                *)
HandleOfImage ==
    \A h \in Handles : fdhandles[h].status /\ ~fdhandles[h].kept =>
        LET s == fdhandles[h].slot IN card[s].mounted => io[card[s].fd] = fdhandles[h].of

(* A file that was closed without an error has nothing left in the cache.  *)
NothingLeft == \A s \in Slots : ~card[s].left

(* Through any images that are mounted, exchanged and taken out, whatever  *)
(* fails: slots, descriptors and handles go with their images, and nothing *)
(* of a closed file is left unwritten (mciomanx_backing.c).                *)
VmcSlotsSafe == SlotsAgree /\ OwnDescriptors /\ HandleOfImage /\ NothingLeft
=============================================================================
