---------------------------- MODULE PfsMountsProofs ----------------------------
(***************************************************************************)
(* Proofs about PfsMounts, for any partitions, with or without a file       *)
(* system, and any order of the user's and the FTP client's operations.     *)
(***************************************************************************)
EXTENDS PfsMounts, TLAPS

Names == Parties \cup {NoParty}
Places == Slots \cup {-1}

(* The values of the mount state. *)
States ==
  [table : [Slots -> Names], latest : Places, index : [Vmcs -> Places],
   pins : [Slots -> Vmcs \cup {-1}], card : [Vmcs -> BOOLEAN],
   pfs : [Slots -> Names], image : [Vmcs -> Places], ret : Places]

(* A mounted card's image is open where the table says, and PFS has the     *)
(* partition there; a card that is gone leaves neither slot nor pin.        *)
Pinned(s) ==
  /\ s.image = s.index
  /\ \A v \in Vmcs : ~s.card[v] => s.index[v] = -1
  /\ \A i \in Slots : s.pins[i] >= 0 <=> \E v \in Vmcs : s.card[v] /\ s.index[v] = i
  /\ \A v \in Vmcs : s.index[v] >= 0 => s.pfs[s.index[v]] # NoParty

(* The table and PFS agree, both ways. *)
Synced(s) == s.pfs = s.table

MountInv ==
  /\ Now \in States
  /\ clipParty \in Names
  /\ program \in {"menu", "browser", "manager", "gone", "stuck"}
  /\ ftp \in BOOLEAN
  /\ Pinned(Now)
  /\ program \in {"menu", "browser"} /\ ~ftp => Synced(Now)
  /\ program = "manager" /\ ~ftp => \A i \in Slots \ {0} : pfs[i] = mountedParty[i]

-----------------------------------------------------------------------------
(* The values.  Slots are the numbers 0 to 3, and the first of some exists. *)

LEMMA SlotValues == Slots = {0, 1, 2, 3} /\ MOUNT_LIMIT = 4
BY DEF Slots, MOUNT_LIMIT

LEMMA FirstIn ==
  ASSUME NEW S \in SUBSET Slots, S # {}
  PROVE  First(S) \in S
<1>1. \E i \in S : \A j \in S : i <= j
  <2>1. \A i, j \in S : i \in 0..3 /\ j \in 0..3
    BY SlotValues
  <2>2. CASE 0 \in S
    BY <2>1, <2>2
  <2>3. CASE 0 \notin S /\ 1 \in S
    BY <2>1, <2>3
  <2>4. CASE 0 \notin S /\ 1 \notin S /\ 2 \in S
    BY <2>1, <2>4
  <2>5. CASE S = {3}
    BY <2>5
  <2> QED BY <2>2, <2>3, <2>4, <2>5, SlotValues
<1> QED BY <1>1 DEF First

(* An operation's result is the next state's value, but for its result.     *)
LEMMA NowBecomes ==
  ASSUME NEW s \in States, Becomes(s)
  PROVE  /\ Now' \in States
         /\ Now'.pfs = s.pfs /\ Now'.table = s.table
         /\ Pinned(s) => Pinned(Now')
         /\ Synced(s) => Synced(Now')
<1>1. Now' = [table |-> s.table, latest |-> s.latest, index |-> s.index, pins |-> s.pins,
              card |-> s.card, pfs |-> s.pfs, image |-> s.image, ret |-> 0]
  BY DEF Becomes, Now
<1> DEFINE n == Now'
<1> HIDE DEF n
<1>2. /\ n.table = s.table /\ n.pfs = s.pfs /\ n.index = s.index /\ n.pins = s.pins
      /\ n.card = s.card /\ n.image = s.image
  BY <1>1 DEF n
<1>3. n \in States
  BY <1>1, SlotValues DEF n, States, Places
<1>4. (Pinned(s) => Pinned(n)) /\ (Synced(s) => Synced(n))
  BY <1>2 DEF Pinned, Synced
<1> QED BY <1>2, <1>3, <1>4 DEF n

-----------------------------------------------------------------------------
(* Mounting and unmounting. *)

(* What no mount and no unmount changes: the cards and their pins. *)
Cards(s) == <<s.index, s.pins, s.card, s.image>>

LEMMA UnmountSome ==
  ASSUME NEW s \in States, NEW S \in SUBSET Slots
  PROVE  LET u == unmountParties(s, S) IN
         /\ u \in States
         /\ Cards(u) = Cards(s)
         /\ s.latest \notin S => u.latest = s.latest
         /\ \A i \in Slots : IF i \in S /\ CanUmount(s, i)
              THEN u.pfs[i] = NoParty /\ u.table[i] = NoParty
              ELSE u.pfs[i] = s.pfs[i] /\ u.table[i] = s.table[i]
<1> DEFINE u == unmountParties(s, S)
           gone == {i \in S : CanUmount(s, i)}
           T == [i \in Slots |-> IF i \in gone THEN NoParty ELSE s.table[i]]
           F == [i \in Slots |-> IF i \in gone THEN NoParty ELSE s.pfs[i]]
           l == IF s.latest \in gone THEN -1 ELSE s.latest
<1>1. T \in [Slots -> Names] /\ F \in [Slots -> Names] /\ l \in Places
  BY DEF States, Names, Places
<1>2. u = [s EXCEPT !.table = T, !.pfs = F, !.latest = l]
  BY DEF unmountParties
<1> HIDE DEF u, T, F, l
<1>3. u \in States /\ Cards(u) = Cards(s) /\ u.pfs = F /\ u.table = T /\ u.latest = l
  BY <1>1, <1>2 DEF States, Cards
<1> QED BY <1>3 DEF u, T, F, l

(* An unmount keeps the images' partitions, and the table's agreement.      *)
LEMMA UnmountKeeps ==
  ASSUME NEW s \in States, NEW S \in SUBSET Slots
  PROVE  LET u == unmountParties(s, S) IN
         /\ Pinned(s) => Pinned(u)
         /\ Synced(s) => Synced(u)
<1> DEFINE u == unmountParties(s, S)
<1>1. /\ u \in States /\ Cards(u) = Cards(s)
      /\ \A i \in Slots : IF i \in S /\ CanUmount(s, i)
              THEN u.pfs[i] = NoParty /\ u.table[i] = NoParty
              ELSE u.pfs[i] = s.pfs[i] /\ u.table[i] = s.table[i]
  BY UnmountSome
<1> HIDE DEF u
<1>2. /\ u.index = s.index /\ u.pins = s.pins /\ u.card = s.card /\ u.image = s.image
  BY <1>1 DEF Cards
<1>3. ASSUME Pinned(s) PROVE Pinned(u)
  <2>1. ASSUME NEW v \in Vmcs, s.index[v] >= 0
        PROVE  u.pfs[s.index[v]] # NoParty
    <3>1. s.index[v] \in Slots
      BY <2>1, SlotValues DEF States, Places
    <3>2. s.pfs[s.index[v]] # NoParty /\ ~CanUmount(s, s.index[v])
      BY <1>3, <2>1 DEF Pinned, CanUmount
    <3> QED BY <1>1, <3>1, <3>2
  <2> QED BY <1>2, <1>3, <2>1 DEF Pinned
<1>4. ASSUME Synced(s) PROVE Synced(u)
  <2>1. \A i \in Slots : u.pfs[i] = u.table[i]
    BY <1>1, <1>4 DEF Synced
  <2> QED BY <1>1, <2>1 DEF Synced, States
<1> QED BY <1>3, <1>4 DEF u

(* A partition mounted in a free mount point, without the table. *)
LEMMA MountOne ==
  ASSUME NEW s \in States, NEW i \in Slots, NEW p \in Parties
  PROVE  LET m == Mounted(s, i, p) IN
         /\ m \in States /\ Cards(m) = Cards(s) /\ m.table = s.table
         /\ m.latest = s.latest
         /\ m.pfs = [s.pfs EXCEPT ![i] = p]
         /\ Pinned(s) => Pinned(m)
<1> DEFINE m == Mounted(s, i, p)
           F == [s.pfs EXCEPT ![i] = p]
<1>1. m = [s EXCEPT !.pfs = F] /\ F \in [Slots -> Names]
  BY DEF Mounted, States, Names
<1>2. F[i] = p /\ \A j \in Slots \ {i} : F[j] = s.pfs[j]
  BY DEF States
<1> HIDE DEF m, F
<1>3. /\ m \in States /\ m.pfs = F /\ m.table = s.table /\ m.latest = s.latest
      /\ m.index = s.index /\ m.pins = s.pins /\ m.card = s.card /\ m.image = s.image
  BY <1>1 DEF States
<1>4. ASSUME Pinned(s) PROVE Pinned(m)
  <2>1. ASSUME NEW v \in Vmcs, s.index[v] >= 0
        PROVE  m.pfs[s.index[v]] # NoParty
    <3>1. s.index[v] \in Slots
      BY <2>1, SlotValues DEF States, Places
    <3> QED BY <1>2, <1>3, <1>4, <2>1, <3>1, MountAssumption DEF Pinned
  <2> QED BY <1>3, <1>4, <2>1 DEF Pinned
<1> QED BY <1>3, <1>4 DEF Cards, F, m

LEMMA RecordOne ==
  ASSUME NEW s \in States, NEW i \in Slots, NEW p \in Parties
  PROVE  LET m == Recorded(s, i, p) IN
         /\ m \in States /\ Cards(m) = Cards(s)
         /\ m.latest = i /\ m.ret = i
         /\ m.table = [s.table EXCEPT ![i] = p]
         /\ m.pfs = [s.pfs EXCEPT ![i] = p]
         /\ Pinned(s) => Pinned(m)
         /\ Synced(s) => Synced(m)
<1> DEFINE n == Mounted(s, i, p)
           T == [s.table EXCEPT ![i] = p]
           m == Recorded(s, i, p)
<1>1. /\ n \in States /\ Cards(n) = Cards(s) /\ n.table = s.table
      /\ n.pfs = [s.pfs EXCEPT ![i] = p]
      /\ Pinned(s) => Pinned(n)
  BY MountOne
<1>2. T \in [Slots -> Names] /\ i \in Places
  BY DEF States, Names, Places
<1>3. m = [n EXCEPT !.table = T, !.latest = i, !.ret = i]
  BY <1>1 DEF Recorded
<1> HIDE DEF n, m, T
<1>4. /\ m \in States /\ Cards(m) = Cards(n) /\ m.table = T /\ m.pfs = n.pfs
      /\ m.latest = i /\ m.ret = i
      /\ m.index = n.index /\ m.pins = n.pins /\ m.card = n.card /\ m.image = n.image
  BY <1>1, <1>2, <1>3 DEF States, Cards
<1>5. Pinned(n) => Pinned(m)
  BY <1>4 DEF Pinned
<1>6. Synced(s) => Synced(m)
  BY <1>1, <1>4 DEF Synced, T
<1> QED BY <1>1, <1>4, <1>5, <1>6 DEF T, m

-----------------------------------------------------------------------------
(* mountParty. *)

(* An operation on the mount points that keeps what the cards rely on.      *)
Keeps(s, m) ==
  /\ m \in States
  /\ Cards(m) = Cards(s)
  /\ Pinned(s) => Pinned(m)
  /\ Synced(s) => Synced(m)

LEMMA KeepsUnmount ==
  ASSUME NEW s \in States, NEW S \in SUBSET Slots
  PROVE  Keeps(s, unmountParties(s, S))
BY UnmountSome, UnmountKeeps DEF Keeps

LEMMA KeepsRecorded ==
  ASSUME NEW s \in States, NEW i \in Slots, NEW p \in Parties
  PROVE  Keeps(s, Recorded(s, i, p))
BY RecordOne DEF Keeps

LEMMA KeepsChain ==
  ASSUME NEW s, NEW u, NEW m, Keeps(s, u), Keeps(u, m)
  PROVE  Keeps(s, m)
BY DEF Keeps

LEMMA KeepsResult ==
  ASSUME NEW s \in States, NEW r \in Places
  PROVE  Keeps(s, [s EXCEPT !.ret = r]) /\ [s EXCEPT !.ret = r].pfs = s.pfs
<1> DEFINE m == [s EXCEPT !.ret = r]
<1>1. /\ m \in States /\ m.pfs = s.pfs /\ m.table = s.table
      /\ m.index = s.index /\ m.pins = s.pins /\ m.card = s.card /\ m.image = s.image
  BY DEF States
<1> HIDE DEF m
<1>2. Keeps(s, m)
  BY <1>1 DEF Keeps, Cards, Pinned, Synced
<1> QED BY <1>1, <1>2 DEF m

(* Where the mount of p ended, and that it took no slot in use. *)
Took(s, m, p, S) ==
  /\ m.ret \in Places
  /\ m.ret >= 0 => m.ret \in S /\ m.latest = m.ret /\ m.table[m.ret] = p /\ m.pfs[m.ret] = p
  /\ \A i \in Slots \ S : m.pfs[i] = s.pfs[i]

LEMMA KillAndMountTakes ==
  ASSUME NEW s \in States, NEW p \in Parties
  PROVE  Keeps(s, KillAndMount(s, p)) /\ Took(s, KillAndMount(s, p), p, Unneeded(s))
<1> DEFINE After(i) == unmountParties(s, {j \in Unneeded(s) : j <= i})
           Works == {i \in Unneeded(s) : CanMount(After(i), i, p)}
           m == KillAndMount(s, p)
<1>1. Unneeded(s) \subseteq Slots /\ Works \subseteq Slots
  BY DEF Unneeded
<1>2. CASE Works # {}
  <2> DEFINE i == First(Works)
             u == After(i)
  <2>1. i \in Works /\ i \in Slots /\ i \in Unneeded(s)
    BY <1>1, <1>2, FirstIn
  <2>2. m = Recorded(u, i, p)
    BY <1>2 DEF KillAndMount
  <2> DEFINE S == {j \in Unneeded(s) : j <= i}
  <2>3. S \in SUBSET Slots /\ u = unmountParties(s, S)
    BY <1>1
  <2>4. Keeps(s, u)
    BY <2>3, KeepsUnmount
  <2>5. u \in States /\ \A k \in Slots \ Unneeded(s) : u.pfs[k] = s.pfs[k]
    BY <2>3, UnmountSome
  <2> HIDE DEF i, u, S
  <2>6. /\ m.latest = i /\ m.ret = i
        /\ m.table = [u.table EXCEPT ![i] = p] /\ m.pfs = [u.pfs EXCEPT ![i] = p]
    BY <2>1, <2>2, <2>5, RecordOne
  <2>7. Keeps(s, m)
    BY <2>1, <2>2, <2>4, <2>5, KeepsRecorded, KeepsChain
  <2>8. Took(s, m, p, Unneeded(s))
    BY <2>1, <2>5, <2>6 DEF Took, States, Places
  <2> QED BY <2>7, <2>8
<1>3. CASE Works = {}
  <2> DEFINE u == unmountParties(s, Unneeded(s))
  <2>1. m = [u EXCEPT !.ret = -1]
    BY <1>3 DEF KillAndMount
  <2>2. Keeps(s, u) /\ \A k \in Slots \ Unneeded(s) : u.pfs[k] = s.pfs[k]
    BY <1>1, KeepsUnmount, UnmountSome
  <2> HIDE DEF u
  <2>3. u \in States /\ -1 \in Places
    BY <2>2 DEF Keeps, Places
  <2>4. Keeps(u, m) /\ m.pfs = u.pfs
    BY <2>1, <2>3, KeepsResult
  <2>5. m.ret = -1
    BY <2>1, <2>3 DEF States
  <2>6. Took(s, m, p, Unneeded(s))
    BY <2>2, <2>3, <2>4, <2>5 DEF Took
  <2> QED BY <2>2, <2>4, <2>6, KeepsChain
<1> QED BY <1>2, <1>3

LEMMA MountInTakes ==
  ASSUME NEW s \in States, NEW i \in Slots, NEW p \in Parties
  PROVE  /\ Keeps(s, MountIn(s, i, p))
         /\ Took(s, MountIn(s, i, p), p, Unneeded(s) \cup {k \in Slots : s.pfs[k] = NoParty})
<1> DEFINE m == MountIn(s, i, p)
           S == Unneeded(s) \cup {k \in Slots : s.pfs[k] = NoParty}
<1>1. CASE CanMount(s, i, p)
  <2>1. m = Recorded(s, i, p) /\ s.pfs[i] = NoParty
    BY <1>1 DEF MountIn, CanMount
  <2>2. /\ m.latest = i /\ m.ret = i
        /\ m.table = [s.table EXCEPT ![i] = p] /\ m.pfs = [s.pfs EXCEPT ![i] = p]
    BY <2>1, RecordOne
  <2>3. Took(s, m, p, S)
    BY <2>1, <2>2 DEF Took, States, Places
  <2> QED BY <2>1, <2>3, KeepsRecorded
<1>2. CASE ~CanMount(s, i, p)
  <2>1. m = KillAndMount(s, p)
    BY <1>2 DEF MountIn
  <2>2. Keeps(s, m) /\ Took(s, m, p, Unneeded(s))
    BY <2>1, KillAndMountTakes
  <2>3. Took(s, m, p, S)
    BY <2>2 DEF Took
  <2> QED BY <2>2, <2>3
<1> QED BY <1>1, <1>2

(* Where mountParty's result says p is mounted, it is; and the slot used    *)
(* last keeps its partition.                                                *)
LEMMA MountPartyKeeps ==
  ASSUME NEW s \in States, NEW p \in Parties
  PROVE  LET m == mountParty(s, p) IN
         /\ Keeps(s, m)
         /\ m.ret \in Places
         /\ Synced(s) /\ m.ret >= 0 => /\ m.latest = m.ret /\ m.table[m.ret] = p
                                      /\ m.pfs[m.ret] = p
         /\ Synced(s) => \A i \in Slots : s.latest = i /\ s.table[i] # NoParty
                                           => m.pfs[i] = s.pfs[i]
<1> DEFINE m == mountParty(s, p)
           known == {i \in Slots : s.table[i] = p}
           free  == {i \in Slots : s.table[i] = NoParty}
           Goal == /\ Keeps(s, m)
                   /\ m.ret \in Places
                   /\ Synced(s) /\ m.ret >= 0 => /\ m.latest = m.ret /\ m.table[m.ret] = p
                                                /\ m.pfs[m.ret] = p
                   /\ Synced(s) => \A i \in Slots : s.latest = i /\ s.table[i] # NoParty
                                                     => m.pfs[i] = s.pfs[i]
<1> SUFFICES Goal
  OBVIOUS
<1>1. CASE known # {}
  <2> DEFINE k == First(known)
  <2>1. k \in known
    BY <1>1, FirstIn
  <2>2. m = [s EXCEPT !.latest = k, !.ret = k]
    BY <1>1 DEF mountParty
  <2>3. k \in Places /\ k \in Slots /\ s.table[k] = p
    BY <2>1 DEF Places
  <2> HIDE DEF m, k
  <2>4. /\ m \in States /\ m.latest = k /\ m.ret = k /\ m.table = s.table /\ m.pfs = s.pfs
        /\ m.index = s.index /\ m.pins = s.pins /\ m.card = s.card /\ m.image = s.image
    BY <2>2, <2>3 DEF States
  <2>5. Keeps(s, m)
    BY <2>4 DEF Keeps, Cards, Pinned, Synced
  <2> QED BY <2>3, <2>4, <2>5 DEF Synced
<1>2. CASE known = {} /\ free # {}
  <2> DEFINE k == First(free)
  <2>1. k \in Slots
    BY <1>2, FirstIn
  <2>2. m = MountIn(s, k, p)
    BY <1>2 DEF mountParty
  <2>3. /\ Keeps(s, m)
        /\ Took(s, m, p, Unneeded(s) \cup {i \in Slots : s.pfs[i] = NoParty})
    BY <2>1, <2>2, MountInTakes
  <2> HIDE DEF m
  <2>4. Synced(s) => \A i \in Slots : s.latest = i /\ s.table[i] # NoParty
                                     => m.pfs[i] = s.pfs[i]
    BY <2>3 DEF Took, Synced, Unneeded
  <2> QED BY <2>3, <2>4 DEF Took
<1>3. CASE known = {} /\ free = {} /\ Unneeded(s) = {}
  <2>1. m = [s EXCEPT !.ret = -1]
    BY <1>3 DEF mountParty
  <2>2. -1 \in Places
    BY DEF Places
  <2>3. m.ret = -1 /\ Keeps(s, m) /\ m.pfs = s.pfs
    BY <2>1, <2>2, KeepsResult DEF States
  <2> QED BY <2>2, <2>3
<1>4. CASE known = {} /\ free = {} /\ Unneeded(s) # {}
  <2> DEFINE k == First(Unneeded(s))
             u == unmountParty(s, k)
  <2>1. k \in Slots /\ k \in Unneeded(s)
    BY <1>4, FirstIn DEF Unneeded
  <2>2. m = MountIn(u, k, p)
    BY <1>4 DEF mountParty
  <2>3. u = unmountParties(s, {k}) /\ {k} \in SUBSET Slots
    BY <2>1 DEF unmountParty
  <2>4. Keeps(s, u) /\ u \in States
    BY <2>3, KeepsUnmount DEF Keeps
  <2>5. ASSUME NEW i \in Slots, s.latest = i
        PROVE  i # k /\ u.latest = i /\ u.pfs[i] = s.pfs[i] /\ u.table[i] = s.table[i]
    <3>1. i # k
      BY <2>1, <2>5 DEF Unneeded
    <3> QED BY <2>3, <2>5, <3>1, UnmountSome
  <2> HIDE DEF k, u
  <2>6. /\ Keeps(u, m)
        /\ Took(u, m, p, Unneeded(u) \cup {i \in Slots : u.pfs[i] = NoParty})
    BY <2>1, <2>2, <2>4, MountInTakes
  <2> HIDE DEF m
  <2>7. Synced(s) => Synced(u)
    BY <2>4 DEF Keeps
  <2>8. ASSUME Synced(s), NEW i \in Slots, s.latest = i, s.table[i] # NoParty
        PROVE  m.pfs[i] = s.pfs[i]
    <3>1. u.pfs[i] # NoParty /\ u.latest = i
      BY <2>5, <2>8 DEF Synced
    <3>2. i \notin Unneeded(u) \cup {j \in Slots : u.pfs[j] = NoParty}
      BY <3>1 DEF Unneeded
    <3> QED BY <2>5, <2>6, <2>8, <3>2 DEF Took
  <2> QED BY <2>4, <2>6, <2>8, KeepsChain DEF Took
<1> QED BY <1>1, <1>2, <1>3, <1>4

LEMMA RecordedAt ==
  ASSUME NEW s \in States, NEW i \in Slots, NEW p \in Parties
  PROVE  Recorded(s, i, p).ret = i
BY DEF Recorded, Mounted, States

(* With the table and PFS in agreement, no more than two images and the     *)
(* slot used last are in the way of a mount.                                *)
LEMMA RoomForOne ==
  ASSUME NEW s \in States, NEW p \in Mountable, Synced(s), Pinned(s)
  PROVE  mountParty(s, p).ret >= 0
<1> DEFINE known == {i \in Slots : s.table[i] = p}
           free  == {i \in Slots : s.table[i] = NoParty}
<1>1. p \in Parties /\ p # NoParty
  BY MountAssumption
<1>2. CASE known # {}
  <2>1. First(known) \in Slots
    BY <1>2, FirstIn
  <2> QED BY <1>2, <2>1, SlotValues DEF mountParty, States
<1>3. CASE known = {} /\ free # {}
  <2> DEFINE k == First(free)
  <2>1. k \in free
    BY <1>3, FirstIn
  <2>2. CanMount(s, k, p)
    BY <1>1, <1>3, <2>1 DEF CanMount, Synced
  <2>3. mountParty(s, p) = Recorded(s, k, p)
    BY <1>3, <2>2 DEF mountParty, MountIn
  <2> HIDE DEF k
  <2>4. Recorded(s, k, p).ret = k
    <3>1. k \in Slots
      BY <2>1
    <3> QED BY <1>1, <3>1, RecordedAt
  <2> QED BY <2>1, <2>3, <2>4, SlotValues
<1>4. CASE known = {} /\ free = {}
  <2>1. Unneeded(s) # {}
    <3>1. \A i \in Slots : s.pins[i] >= 0 => i = s.index[0] \/ i = s.index[1]
      BY DEF Pinned, Vmcs
    <3>2. \E i \in Slots : i # s.latest /\ i # s.index[0] /\ i # s.index[1]
      <4>1. CASE 0 \notin {s.latest, s.index[0], s.index[1]}
        BY <4>1, SlotValues
      <4>2. CASE 1 \notin {s.latest, s.index[0], s.index[1]}
        BY <4>2, SlotValues
      <4>3. CASE 2 \notin {s.latest, s.index[0], s.index[1]}
        BY <4>3, SlotValues
      <4>4. CASE 3 \notin {s.latest, s.index[0], s.index[1]}
        BY <4>4, SlotValues
      <4> QED BY <4>1, <4>2, <4>3, <4>4
    <3>3. \A i \in Slots : s.pins[i] < 0 \/ s.pins[i] >= 0
      BY DEF States, Vmcs
    <3> QED BY <3>1, <3>2, <3>3 DEF Unneeded
  <2> DEFINE k == First(Unneeded(s))
             u == unmountParty(s, k)
  <2>2. k \in Slots /\ k \in Unneeded(s)
    BY <2>1, FirstIn DEF Unneeded
  <2>3. CanUmount(s, k)
    <3>1. s.pfs[k] # NoParty
      BY <1>4, <2>2 DEF Synced
    <3>2. ASSUME NEW v \in Vmcs, s.image[v] = k
          PROVE  FALSE
      <4>1. s.index[v] = k /\ k >= 0
        BY <2>2, <3>2, SlotValues DEF Pinned
      <4>2. s.card[v]
        BY <4>1 DEF Pinned
      <4>3. s.pins[k] >= 0 /\ s.pins[k] < 0
        BY <2>2, <4>1, <4>2 DEF Pinned, Unneeded
      <4> QED BY <2>2, <4>3 DEF States, Vmcs
    <3> QED BY <3>1, <3>2 DEF CanUmount
  <2>4. u = unmountParties(s, {k}) /\ {k} \in SUBSET Slots
    BY <2>2 DEF unmountParty
  <2>5. u \in States /\ u.pfs[k] = NoParty /\ \A i \in Slots \ {k} : u.pfs[i] = s.pfs[i]
    BY <2>2, <2>3, <2>4, UnmountSome
  <2>6. CanMount(u, k, p)
    BY <1>1, <1>4, <2>5 DEF CanMount, Synced
  <2>7. mountParty(s, p) = Recorded(u, k, p)
    BY <1>4, <2>1, <2>6 DEF mountParty, MountIn
  <2> HIDE DEF k, u
  <2>8. Recorded(u, k, p).ret = k
    BY <1>1, <2>2, <2>5, RecordedAt
  <2> QED BY <2>2, <2>7, <2>8, SlotValues
<1> QED BY <1>2, <1>3, <1>4

-----------------------------------------------------------------------------
(* The virtual cards. *)

LEMMA UnmountAllClears ==
  ASSUME NEW s \in States, Pinned(s)
  PROVE  LET u == unmountAll(s) IN
         /\ u \in States /\ Pinned(u)
         /\ u.table = Empty
         /\ \A v \in Vmcs : u.image[v] = -1
         /\ \A i \in Slots : u.pfs[i] = IF s.table[i] # NoParty THEN NoParty ELSE s.pfs[i]
<1> DEFINE u  == unmountAll(s)
           on == {v \in Vmcs : s.card[v]}
           c  == UmountCards(s, on)
           gone == {i \in Slots : c.table[i] # NoParty /\ CanUmount(c, i)}
           C == [v \in Vmcs |-> v \notin on /\ s.card[v]]
           G == [v \in Vmcs |-> IF v \in on THEN -1 ELSE s.image[v]]
           I == [v \in Vmcs |-> IF v \in on THEN -1 ELSE s.index[v]]
           N == [i \in Slots |-> -1]
           F == [i \in Slots |-> IF i \in gone THEN NoParty ELSE s.pfs[i]]
<1>1. /\ C \in [Vmcs -> BOOLEAN] /\ \A v \in Vmcs : ~C[v]
      /\ I \in [Vmcs -> Places] /\ \A v \in Vmcs : I[v] = -1
      /\ G = I
  BY DEF States, Places, Pinned
<1>2. c = [s EXCEPT !.image = G, !.card = C]
  BY DEF UmountCards
<1> HIDE DEF C, G, I
<1>3. /\ c.image = G /\ c.card = C /\ c.table = s.table /\ c.pfs = s.pfs
      /\ c \in States /\ c.index = s.index /\ c.pins = s.pins
  BY <1>1, <1>2 DEF States
<1> HIDE DEF c
<1>4. \A i \in Slots : i \in gone <=> s.table[i] # NoParty /\ s.pfs[i] # NoParty
  BY <1>1, <1>3, SlotValues DEF CanUmount
<1>5. N \in [Slots -> Vmcs \cup {-1}] /\ F \in [Slots -> Names] /\ Empty \in [Slots -> Names]
  BY DEF States, Names, Empty
<1>6. u = [c EXCEPT !.index = I, !.pins = N, !.table = Empty, !.pfs = F, !.latest = -1]
  BY <1>3 DEF unmountAll, c, Empty, I
<1>7. \A i \in Slots : F[i] = IF s.table[i] # NoParty THEN NoParty ELSE s.pfs[i]
  BY <1>4
<1>8. \A i \in Slots : N[i] = -1
  OBVIOUS
<1> HIDE DEF F, N, gone, u
<1>9. /\ u.index = I /\ u.pins = N /\ u.table = Empty /\ u.pfs = F /\ u.image = G /\ u.card = C
      /\ u \in States
  BY <1>1, <1>3, <1>5, <1>6 DEF States, Places
<1>10. Pinned(u)
  BY <1>1, <1>8, <1>9, SlotValues DEF Pinned
<1> QED BY <1>1, <1>7, <1>9, <1>10 DEF u

LEMMA ReleaseCardKeeps ==
  ASSUME NEW s \in States, Pinned(s), NEW v \in Vmcs
  PROVE  LET r == ReleaseCard(s, v) IN
         /\ r \in States /\ Pinned(r)
         /\ r.table = s.table /\ r.pfs = s.pfs
         /\ ~r.card[v] /\ r.index[v] = -1
<1> DEFINE r == ReleaseCard(s, v)
           j == s.index[v]
           I == [s.index EXCEPT ![v] = -1]
           N == IF s.card[v] /\ j >= 0 /\ j # s.index[1 - v]
                  THEN [s.pins EXCEPT ![j] = -1] ELSE s.pins
           C == [w \in Vmcs |-> w \notin {v} /\ s.card[w]]
           G == [w \in Vmcs |-> IF w \in {v} THEN -1 ELSE s.image[w]]
<1>0. /\ 1 - v \in Vmcs /\ 1 - v # v /\ \A w \in Vmcs : w = v \/ w = 1 - v
  BY DEF Vmcs
<1>1. /\ I \in [Vmcs -> Places] /\ C \in [Vmcs -> BOOLEAN] /\ G = I
      /\ I[v] = -1 /\ I[1 - v] = s.index[1 - v]
      /\ ~C[v] /\ C[1 - v] = s.card[1 - v]
  <2>1. s.index \in [Vmcs -> Places] /\ s.card \in [Vmcs -> BOOLEAN] /\ -1 \in Places
    BY DEF States, Places
  <2>2. I \in [Vmcs -> Places] /\ I[v] = -1 /\ I[1 - v] = s.index[1 - v]
    BY <1>0, <2>1
  <2>3. C \in [Vmcs -> BOOLEAN] /\ ~C[v] /\ C[1 - v] = s.card[1 - v]
    BY <1>0, <2>1
  <2>4. G = I
    BY <2>1 DEF Pinned
  <2> QED BY <2>2, <2>3, <2>4
<1>2. N \in [Slots -> Vmcs \cup {-1}]
  BY DEF States
<1>3. r = [s EXCEPT !.index = I, !.pins = N, !.card = C, !.image = G]
  <2>1. CASE s.card[v] /\ j >= 0
    <3>1. [s EXCEPT !.index[v] = -1, !.pins[j] = IF j # s.index[1 - v] THEN -1 ELSE @]
          = [s EXCEPT !.index = I, !.pins = N]
      <4>1. CASE j # s.index[1 - v]
        BY <2>1, <4>1 DEF States
      <4>2. CASE j = s.index[1 - v]
        <5>1. [s.pins EXCEPT ![j] = IF j # s.index[1 - v] THEN -1 ELSE @] = s.pins
          BY <4>2 DEF States
        <5> QED BY <4>2, <5>1 DEF States
      <4> QED BY <4>1, <4>2
    <3> HIDE DEF I, N
    <3> QED BY <2>1, <3>1 DEF ReleaseCard, UmountCards, States
  <2>2. CASE ~(s.card[v] /\ j >= 0)
    <3>1. s.index[v] = -1
      BY <2>2, SlotValues DEF Pinned, States, Places
    <3>2. I = s.index /\ N = s.pins
      BY <2>2, <3>1 DEF States
    <3> HIDE DEF I, N
    <3>3. s = [s EXCEPT !.index = I, !.pins = N]
      BY <3>2 DEF States
    <3> QED BY <2>2, <3>3 DEF ReleaseCard, UmountCards, States
  <2> QED BY <2>1, <2>2
<1>4. \A i \in Slots : N[i] >= 0 <=> \E w \in Vmcs : C[w] /\ I[w] = i
  <2> SUFFICES ASSUME NEW i \in Slots
               PROVE  N[i] >= 0 <=> C[1 - v] /\ I[1 - v] = i
    BY <1>0, <1>1
  <2>1. s.pins[i] >= 0 <=> (s.card[v] /\ j = i) \/ (s.card[1 - v] /\ s.index[1 - v] = i)
    BY <1>0 DEF Pinned
  <2>2. CASE s.card[v] /\ j = i
    <3>1. j >= 0 /\ (s.index[1 - v] = j => s.card[1 - v])
      BY <1>0, <2>2, SlotValues DEF Pinned
    <3>2. CASE j # s.index[1 - v]
      BY <1>1, <2>2, <3>1, <3>2 DEF States
    <3>3. CASE j = s.index[1 - v]
      BY <1>1, <2>1, <2>2, <3>1, <3>3
    <3> QED BY <3>2, <3>3
  <2>3. CASE ~(s.card[v] /\ j = i)
    <3>1. N[i] = s.pins[i]
      BY <2>3 DEF States
    <3> QED BY <1>1, <2>1, <2>3, <3>1
  <2> QED BY <2>2, <2>3
<1> HIDE DEF r, I, N, C, G
<1>5. /\ r.index = I /\ r.pins = N /\ r.card = C /\ r.image = G
      /\ r.table = s.table /\ r.pfs = s.pfs /\ r \in States
  BY <1>1, <1>2, <1>3 DEF States
<1>6. ASSUME NEW w \in Vmcs PROVE (~C[w] => I[w] = -1) /\ (I[w] >= 0 => s.pfs[I[w]] # NoParty)
  BY <1>0, <1>1 DEF Pinned
<1>7. Pinned(r)
  BY <1>1, <1>4, <1>5, <1>6 DEF Pinned
<1> QED BY <1>1, <1>5, <1>7 DEF r

LEMMA AttachCardKeeps ==
  ASSUME NEW s \in States, Pinned(s), NEW v \in Vmcs, ~s.card[v], s.index[v] = -1,
         NEW j \in Places, j >= 0 => s.pfs[j] # NoParty
  PROVE  LET a == AttachCard(s, v, j) IN
         a \in States /\ Pinned(a) /\ a.table = s.table /\ a.pfs = s.pfs
<1> DEFINE a == AttachCard(s, v, j)
           I == [s.index EXCEPT ![v] = j]
           G == [s.image EXCEPT ![v] = j]
           C == [s.card EXCEPT ![v] = TRUE]
           N == [i \in Slots |-> IF i = j THEN v ELSE s.pins[i]]
<1>1. /\ I \in [Vmcs -> Places] /\ G = I /\ C \in [Vmcs -> BOOLEAN]
      /\ N \in [Slots -> Vmcs \cup {-1}]
  BY DEF States, Pinned
<1>2. a = [s EXCEPT !.index = I, !.card = C, !.image = G, !.pins = N]
  BY DEF AttachCard, States
<1>3. /\ I[v] = j /\ C[v] /\ \A w \in Vmcs \ {v} : I[w] = s.index[w] /\ C[w] = s.card[w]
      /\ \A i \in Slots : N[i] = IF i = j THEN v ELSE s.pins[i]
  BY DEF States
<1> HIDE DEF a, I, G, C, N
<1>4. /\ a \in States /\ a.index = I /\ a.card = C /\ a.image = G /\ a.pins = N
      /\ a.table = s.table /\ a.pfs = s.pfs
  BY <1>1, <1>2 DEF States
<1>5. ASSUME NEW i \in Slots
      PROVE  N[i] >= 0 <=> \E w \in Vmcs : C[w] /\ I[w] = i
  <2>1. CASE i = j
    BY <1>3, <2>1 DEF Vmcs
  <2>2. CASE i # j
    <3>1. s.pins[i] >= 0 <=> \E w \in Vmcs \ {v} : s.card[w] /\ s.index[w] = i
      BY DEF Pinned
    <3> QED BY <1>3, <2>2, <3>1
  <2> QED BY <2>1, <2>2
<1>6. \A w \in Vmcs : (~C[w] => I[w] = -1) /\ (I[w] >= 0 => s.pfs[I[w]] # NoParty)
  BY <1>3 DEF Pinned
<1>7. Pinned(a)
  BY <1>1, <1>4, <1>5, <1>6 DEF Pinned
<1> QED BY <1>4, <1>7 DEF a

LEMMA MountVmcKeeps ==
  ASSUME NEW s \in States, Pinned(s), NEW v \in Vmcs, NEW p \in Names,
         NEW t \in MountVmc(s, v, p)
  PROVE  t \in States /\ Pinned(t) /\ (Synced(s) => Synced(t))
<1> DEFINE r == ReleaseCard(s, v)
           m == mountParty(r, p)
<1>1. /\ r \in States /\ Pinned(r) /\ (Synced(s) => Synced(r))
      /\ ~r.card[v] /\ r.index[v] = -1
  BY ReleaseCardKeeps DEF Synced
<1>2. CASE p = NoParty
  <2>1. t = r \/ t = AttachCard(r, v, -1)
    BY <1>2 DEF MountVmc
  <2> HIDE DEF r
  <2>2. -1 \in Places /\ ~(-1 >= 0)
    BY DEF Places
  <2> QED BY <1>1, <2>1, <2>2, AttachCardKeeps DEF Synced
<1>3. CASE p # NoParty
  <2> HIDE DEF r
  <2>1. p \in Parties
    BY <1>3 DEF Names
  <2>2. Keeps(r, m) /\ m.ret \in Places
    BY <1>1, <2>1, MountPartyKeeps
  <2>3. t = m \/ (m.ret >= 0 /\ m.pfs[m.ret] # NoParty /\ t = AttachCard(m, v, m.ret))
    BY <1>3, <2>2, SlotValues DEF MountVmc, r, Places
  <2> HIDE DEF m
  <2>4. /\ m \in States /\ Pinned(m) /\ (Synced(s) => Synced(m))
        /\ ~m.card[v] /\ m.index[v] = -1
    BY <1>1, <2>2 DEF Keeps, Cards
  <2> QED BY <2>2, <2>3, <2>4, AttachCardKeeps DEF Synced
<1> QED BY <1>2, <1>3

-----------------------------------------------------------------------------
(* Those who work past the table. *)

(* Slot 0 is unmounted, or mounted, without the table. *)
LEMMA DropKeeps ==
  ASSUME NEW s \in States, Pinned(s), CanUmount(s, 0)
  PROVE  LET m == Mounted(s, 0, NoParty) IN
         /\ m \in States /\ Pinned(m) /\ m.table = s.table
         /\ \A i \in Slots \ {0} : m.pfs[i] = s.pfs[i]
<1> DEFINE m == Mounted(s, 0, NoParty)
           F == [s.pfs EXCEPT ![0] = NoParty]
<1>1. m = [s EXCEPT !.pfs = F] /\ F \in [Slots -> Names]
  BY DEF Mounted, States, Names
<1>2. \A i \in Slots \ {0} : F[i] = s.pfs[i]
  BY DEF States
<1>3. \A v \in Vmcs : s.index[v] # 0
  BY DEF CanUmount, Pinned
<1> HIDE DEF m, F
<1>4. /\ m \in States /\ m.pfs = F /\ m.table = s.table
      /\ m.index = s.index /\ m.pins = s.pins /\ m.card = s.card /\ m.image = s.image
  BY <1>1 DEF States
<1>5. ASSUME NEW v \in Vmcs, s.index[v] >= 0
      PROVE  m.pfs[s.index[v]] # NoParty
  <2>1. s.index[v] \in Slots \ {0}
    BY <1>3, <1>5, SlotValues DEF States, Places
  <2> QED BY <1>2, <1>4, <1>5, <2>1 DEF Pinned
<1>6. Pinned(m)
  BY <1>4, <1>5 DEF Pinned
<1> QED BY <1>2, <1>4, <1>6 DEF m

LEMMA TakeKeeps ==
  ASSUME NEW s \in States, Pinned(s), NEW p \in Parties
  PROVE  LET m == Mounted(s, 0, p) IN
         /\ m \in States /\ Pinned(m) /\ m.table = s.table
         /\ \A i \in Slots \ {0} : m.pfs[i] = s.pfs[i]
<1> DEFINE m == Mounted(s, 0, p)
<1>1. 0 \in Slots
  BY SlotValues
<1>2. m \in States /\ Pinned(m) /\ m.table = s.table /\ m.pfs = [s.pfs EXCEPT ![0] = p]
  BY <1>1, MountOne
<1> QED BY <1>2 DEF States

LEMMA GetHddInfoKeeps ==
  ASSUME NEW s \in States, Pinned(s), NEW p \in Parties
  PROVE  LET m == GetHddInfo(s, p) IN
         /\ m \in States /\ Pinned(m) /\ m.table = s.table
         /\ \A i \in Slots \ {0} : m.pfs[i] = s.pfs[i]
<1> DEFINE u == IF CanUmount(s, 0) THEN Mounted(s, 0, NoParty) ELSE s
           m == GetHddInfo(s, p)
<1>1. /\ u \in States /\ Pinned(u) /\ u.table = s.table
      /\ \A i \in Slots \ {0} : u.pfs[i] = s.pfs[i]
  BY DropKeeps
<1>2. m = IF CanMount(u, 0, p) THEN Mounted(u, 0, p) ELSE u
  BY DEF GetHddInfo
<1> HIDE DEF u
<1>3. /\ Mounted(u, 0, p) \in States /\ Pinned(Mounted(u, 0, p))
      /\ Mounted(u, 0, p).table = u.table
      /\ \A i \in Slots \ {0} : Mounted(u, 0, p).pfs[i] = u.pfs[i]
  BY <1>1, TakeKeeps
<1> QED BY <1>1, <1>2, <1>3

LEMMA RunLoaderElfKeeps ==
  ASSUME NEW s \in States, Pinned(s), NEW p \in Parties
  PROVE  RunLoaderElf(s, p) \in States /\ Pinned(RunLoaderElf(s, p))
<1> DEFINE u == IF CanMount(s, 0, p) THEN s ELSE unmountParty(s, 0)
           t == Mounted(u, 0, p)
           m == RunLoaderElf(s, p)
<1>1. {0} \in SUBSET Slots /\ 0 \in Places /\ -1 \in Places
  BY SlotValues DEF Places
<1>2. u \in States /\ Pinned(u)
  BY <1>1, KeepsUnmount DEF Keeps, unmountParty
<1>3. m = [t EXCEPT !.ret = 0] \/ m = [u EXCEPT !.ret = -1]
  BY DEF RunLoaderElf
<1> HIDE DEF u
<1>4. t \in States /\ Pinned(t)
  BY <1>2, TakeKeeps
<1> HIDE DEF t, m
<1>5. m \in States /\ Pinned(m)
  BY <1>1, <1>2, <1>3, <1>4, KeepsResult DEF Keeps
<1> QED BY <1>5 DEF m

-----------------------------------------------------------------------------
(* Every operation keeps MountInv. *)

LEMMA InitMounts == Init => MountInv
<1> SUFFICES ASSUME Init PROVE MountInv
  OBVIOUS
<1>1. Now \in States
  BY SlotValues DEF Init, Now, States, Names, Places, Empty
<1>2. Pinned(Now)
  BY SlotValues DEF Init, Now, Pinned, Empty
<1>3. Synced(Now)
  BY DEF Init, Now, Synced
<1> QED BY <1>1, <1>2, <1>3 DEF Init, MountInv, Names

(* What an operation with the result s has to show. *)
LEMMA Operated ==
  ASSUME MountInv, NEW s \in States, Becomes(s), Pinned(s),
         program' \in {"menu", "browser", "manager", "gone", "stuck"},
         ftp' \in BOOLEAN, clipParty' \in Names,
         program' \in {"menu", "browser"} /\ ~ftp' => Synced(s),
         program' = "manager" /\ ~ftp' => \A i \in Slots \ {0} : s.pfs[i] = s.table[i]
  PROVE  MountInv'
<1>1. Now' \in States /\ Pinned(Now') /\ (Synced(s) => Synced(Now'))
  BY NowBecomes
<1>2. pfs' = s.pfs /\ mountedParty' = s.table
  BY DEF Becomes
<1> QED BY <1>1, <1>2 DEF MountInv

LEMMA Mounting ==
  ASSUME MountInv, NEW s, Keeps(Now, s), Becomes(s), UNCHANGED <<program, ftp>>,
         program \in {"menu", "browser"}, clipParty' \in Names
  PROVE  MountInv'
BY Operated DEF MountInv, Keeps

LEMMA NothingMounted ==
  /\ Empty \in [Slots -> Names]
  /\ \A s \in States : LET u == [s EXCEPT !.pfs = Empty] IN
        /\ u \in States /\ u.table = s.table /\ u.pfs = Empty
        /\ u.index = s.index /\ u.pins = s.pins /\ u.card = s.card /\ u.image = s.image
BY DEF Empty, States, Names

(* All is unmounted and the IOP reset. *)
LEMMA ResetAll ==
  ASSUME NEW s \in States, Pinned(s)
  PROVE  LET u == [unmountAll(s) EXCEPT !.pfs = Empty] IN
         u \in States /\ Pinned(u) /\ Synced(u)
<1> DEFINE a == unmountAll(s)
           u == [a EXCEPT !.pfs = Empty]
<1>1. a \in States /\ Pinned(a) /\ a.table = Empty /\ \A v \in Vmcs : a.image[v] = -1
  BY UnmountAllClears
<1> HIDE DEF a
<1>2. /\ u \in States /\ u.table = Empty /\ u.pfs = Empty
      /\ u.index = a.index /\ u.pins = a.pins /\ u.card = a.card /\ u.image = a.image
  BY <1>1, NothingMounted
<1>3. Pinned(u)
  BY <1>1, <1>2, SlotValues DEF Pinned
<1> QED BY <1>2, <1>3 DEF Synced, a

LEMMA MountStep == MountInv /\ [Next]_vars => MountInv'
<1> SUFFICES ASSUME MountInv, [Next]_vars PROVE MountInv'
  OBVIOUS
<1>0. Now \in States /\ Pinned(Now) /\ clipParty \in Names /\ ftp \in BOOLEAN
  BY DEF MountInv
<1>a. Keeps(Now, Now)
  BY <1>0 DEF Keeps
<1>b. \A p \in Parties : Keeps(Now, mountParty(Now, p)) /\ mountParty(Now, p).ret \in Places
  BY <1>0, MountPartyKeeps
<1>c. MountInv => (program \in {"menu", "browser"} /\ ~ftp => Synced(Now))
  BY DEF MountInv
<1>1. CASE UNCHANGED vars
  <2>1. Now' = Now /\ UNCHANGED <<clipParty, program, ftp, pfs, mountedParty>>
    BY <1>1 DEF vars, Now
  <2> QED BY <2>1 DEF MountInv
<1>2. ASSUME NEW p \in Parties, ReadSetting(p)
      PROVE  MountInv'
  BY <1>0, <1>2, <1>b, Mounting DEF ReadSetting
<1>3. ASSUME NEW p \in Parties, ReadExternalFile(p)
      PROVE  MountInv'
  <2> DEFINE m == mountParty(Now, p)
             s == [m EXCEPT !.ret = 0]
  <2>1. m \in States /\ 0 \in Places
    BY <1>b, SlotValues DEF Keeps, Places
  <2>2. Keeps(m, s)
    BY <2>1, KeepsResult
  <2>3. Keeps(Now, s)
    BY <1>b, <2>2, KeepsChain
  <2>4. Becomes(s)
    BY <1>3 DEF ReadExternalFile, getExternalFilePath
  <2> HIDE DEF s
  <2> QED BY <1>0, <1>3, <2>3, <2>4, Mounting DEF ReadExternalFile, Awake
<1>4. ASSUME NEW p \in Parties, SaveFile(p)
      PROVE  MountInv'
  <2> DEFINE m == mountParty(Now, p)
             s == IF m.ret < 0 THEN m ELSE unmountParty(m, m.ret)
  <2>1. Keeps(Now, m) /\ m \in States /\ m.ret \in Places
    BY <1>b DEF Keeps
  <2>2. m.ret < 0 \/ {m.ret} \in SUBSET Slots
    BY <2>1, SlotValues DEF Places
  <2>3. Keeps(Now, s)
    BY <2>1, <2>2, KeepsUnmount, KeepsChain DEF unmountParty
  <2>4. Becomes(s)
    BY <1>4 DEF SaveFile
  <2> HIDE DEF s
  <2> QED BY <1>0, <1>4, <2>3, <2>4, Mounting DEF SaveFile, Awake
<1>5. CASE EnterBrowser \/ LeaveBrowser
  <2> DEFINE u == unmountAll(Now)
  <2>1. /\ u \in States /\ Pinned(u) /\ u.table = Empty
        /\ \A i \in Slots : u.pfs[i] = IF Now.table[i] # NoParty THEN NoParty ELSE Now.pfs[i]
    BY <1>0, UnmountAllClears
  <2>2. ~ftp => Synced(u)
    <3> SUFFICES ASSUME ~ftp PROVE Synced(u)
      OBVIOUS
    <3>1. Now.pfs = Now.table
      BY <1>5, <1>c DEF EnterBrowser, LeaveBrowser, Synced
    <3>2. \A i \in Slots : u.pfs[i] = Empty[i]
      BY <2>1, <3>1 DEF Empty
    <3> QED BY <2>1, <3>2 DEF Synced, States, Empty
  <2>3. Becomes(u) /\ program' \in {"menu", "browser"} /\ ftp' = ftp /\ clipParty' \in Names
    BY <1>0, <1>5 DEF EnterBrowser, LeaveBrowser, Names
  <2> HIDE DEF u
  <2> QED BY <1>0, <2>1, <2>2, <2>3, Operated
<1>6. ASSUME NEW p \in Parties, ReadHdd(p)
      PROVE  MountInv'
  BY <1>0, <1>6, <1>b, Mounting DEF ReadHdd, InBrowser
<1>7. CASE ReadHddRoot
  <2>1. Keeps(Now, unmountParties(Now, NotNeeded))
    BY <1>0, KeepsUnmount DEF NotNeeded
  <2> QED BY <1>0, <1>7, <2>1, Mounting DEF ReadHddRoot, InBrowser
<1>8. ASSUME NEW p \in Names, FillClipboard(p)
      PROVE  MountInv'
  BY <1>8, <1>a, Mounting DEF FillClipboard, InBrowser
<1>9. ASSUME NEW p \in Parties, NEW q \in Parties, Paste(p, q)
      PROVE  MountInv'
  <2> DEFINE m == mountParty(Now, p)
             s == mountParty(m, q)
  <2>1. Keeps(Now, m) /\ m \in States
    BY <1>b DEF Keeps
  <2>2. Keeps(Now, s)
    BY <2>1, MountPartyKeeps, KeepsChain
  <2>3. Becomes(s)
    BY <1>9 DEF Paste, CopyMounts
  <2> HIDE DEF s
  <2> QED BY <1>0, <1>9, <2>2, <2>3, Mounting DEF Paste, InBrowser
<1>10. ASSUME NEW v \in Vmcs, NEW p \in Names, MountVmcFrom(v, p)
       PROVE  MountInv'
  <2>1. PICK s \in MountVmc(Now, v, p) : Becomes(s)
    BY <1>10 DEF MountVmcFrom
  <2>2. s \in States /\ Pinned(s) /\ (Synced(Now) => Synced(s))
    BY <1>0, MountVmcKeeps
  <2>3. program' = "browser" /\ program = "browser" /\ ftp' = ftp /\ clipParty' = clipParty
    BY <1>10 DEF MountVmcFrom, InBrowser
  <2> QED BY <1>0, <1>c, <2>1, <2>2, <2>3, Operated
<1>11. ASSUME NEW p \in Parties, EnterHddManager(p)
       PROVE  MountInv'
  <2> DEFINE s == GetHddInfo(Now, p)
  <2>1. /\ s \in States /\ Pinned(s) /\ s.table = Now.table
        /\ \A i \in Slots \ {0} : s.pfs[i] = Now.pfs[i]
    BY <1>0, GetHddInfoKeeps
  <2>2. /\ Becomes(s) /\ program = "menu" /\ program' = "manager"
        /\ ftp' = ftp /\ clipParty' = clipParty
    BY <1>11 DEF EnterHddManager
  <2> HIDE DEF s
  <2>3. ~ftp' => \A i \in Slots \ {0} : s.pfs[i] = s.table[i]
    BY <1>c, <2>1, <2>2 DEF Synced
  <2> QED BY <1>0, <2>1, <2>2, <2>3, Operated
<1>12. CASE LeaveHddManager
  <2> DEFINE a == unmountAll(Now)
             b == unmountParties(a, {0})
             c == unmountParties(b, {1})
  <2>0. {0} \in SUBSET Slots /\ {1} \in SUBSET Slots /\ 0 \in Slots
    BY SlotValues
  <2>1. /\ a \in States /\ Pinned(a) /\ a.table = Empty
        /\ \A v \in Vmcs : a.image[v] = -1
        /\ \A i \in Slots : a.pfs[i] = IF Now.table[i] # NoParty THEN NoParty ELSE Now.pfs[i]
    BY <1>0, UnmountAllClears
  <2> HIDE DEF a
  <2>2. Keeps(a, b) /\ b \in States /\ Pinned(b)
    BY <2>0, <2>1, KeepsUnmount DEF Keeps
  <2>3. /\ a.pfs[0] # NoParty => b.pfs[0] = NoParty /\ b.table[0] = NoParty
        /\ a.pfs[0] = NoParty => b.pfs[0] = a.pfs[0] /\ b.table[0] = a.table[0]
        /\ \A i \in Slots \ {0} : b.pfs[i] = a.pfs[i] /\ b.table[i] = a.table[i]
    <3>1. CanUmount(a, 0) <=> a.pfs[0] # NoParty
      BY <2>1 DEF CanUmount
    <3> QED BY <2>0, <2>1, <3>1, UnmountSome
  <2> HIDE DEF b
  <2>4. Keeps(b, c)
    BY <2>0, <2>2, KeepsUnmount
  <2>5. ~ftp => Synced(c)
    <3> SUFFICES ASSUME ~ftp PROVE Synced(c)
      OBVIOUS
    <3>1. \A i \in Slots \ {0} : Now.pfs[i] = Now.table[i]
      BY <1>12 DEF LeaveHddManager, MountInv, Now
    <3>2. \A i \in Slots : b.pfs[i] = NoParty /\ b.table[i] = NoParty
      BY <2>1, <2>3, <3>1 DEF Empty
    <3>3. Synced(b)
      BY <2>2, <3>2 DEF Synced, States
    <3> QED BY <2>4, <3>3 DEF Keeps
  <2>6. /\ Becomes(c) /\ program' = "menu" /\ ftp' = ftp /\ clipParty' = clipParty
    BY <1>12 DEF LeaveHddManager, unmountParty, a, b
  <2> HIDE DEF c
  <2> QED BY <1>0, <2>2, <2>4, <2>5, <2>6, Operated DEF Keeps
<1>13. CASE ResetIop \/ PowerCycle
  <2> DEFINE u == [unmountAll(Now) EXCEPT !.pfs = Empty]
  <2>1. u \in States /\ Pinned(u) /\ Synced(u)
    BY <1>0, ResetAll
  <2>2. /\ Becomes(u) /\ program' \in {"menu", "browser"} /\ ftp' = FALSE
        /\ clipParty' \in Names
    BY <1>0, <1>13 DEF ResetIop, PowerCycle, Names
  <2> HIDE DEF u
  <2> QED BY <2>1, <2>2, Operated
<1>14. ASSUME NEW p \in Parties, LaunchFromMenu(p)
       PROVE  MountInv'
  <2> DEFINE m == mountParty(Now, p)
             r == RunLoaderElf(m, p)
  <2>1. Keeps(Now, m) /\ m \in States /\ Pinned(m)
    BY <1>0, <1>b DEF Keeps
  <2>2. r \in States /\ Pinned(r)
    BY <2>1, RunLoaderElfKeeps
  <2>3. \/ Becomes(m) /\ UNCHANGED program
        \/ Becomes(r) /\ program' \in {"gone", "stuck"}
    BY <1>14 DEF LaunchFromMenu
  <2>4. program = "menu" /\ ftp' = ftp /\ clipParty' = clipParty
    BY <1>14 DEF LaunchFromMenu
  <2> HIDE DEF m, r
  <2>5. CASE Becomes(m) /\ UNCHANGED program
    BY <1>0, <2>1, <2>4, <2>5, Mounting
  <2>6. CASE Becomes(r) /\ program' \in {"gone", "stuck"}
    BY <1>0, <2>2, <2>4, <2>6, Operated
  <2> QED BY <2>3, <2>5, <2>6
<1>15. CASE StartFtp
  <2>1. Becomes(Now) /\ program' = "menu" /\ ftp' = TRUE /\ clipParty' = clipParty
    BY <1>15 DEF StartFtp, Becomes, Now
  <2> QED BY <1>0, <2>1, Operated
<1>16. ASSUME NEW p \in Names, FtpChangeDir(p)
       PROVE  MountInv'
  <2> DEFINE F == IF CanUmount(Now, 0) THEN [pfs EXCEPT ![0] = NoParty] ELSE pfs
             u == IF CanUmount(Now, 0) THEN Mounted(Now, 0, NoParty) ELSE Now
  <2>1. u = [Now EXCEPT !.pfs = F]
    BY <1>0 DEF Mounted, Now, States
  <2>2. u \in States /\ Pinned(u)
    BY <1>0, DropKeeps
  <2>3. u.pfs = F
    BY <2>1 DEF Now
  <2> DEFINE m == IF p # NoParty /\ CanMount(u, 0, p) THEN Mounted(u, 0, p) ELSE u
  <2> HIDE DEF F, u
  <2>4. m \in States /\ Pinned(m)
    BY <2>2, TakeKeeps DEF Names
  <2>5. m.pfs = pfs'
    <3>1. pfs' = IF p # NoParty /\ CanMount(u, 0, p) THEN [F EXCEPT ![0] = p] ELSE F
      BY <1>16, <2>1 DEF FtpChangeDir, F
    <3>2. Mounted(u, 0, p).pfs = [F EXCEPT ![0] = p]
      BY <2>2, <2>3 DEF Mounted, States
    <3> QED BY <2>3, <3>1, <3>2
  <2>6. /\ u.table = mountedParty /\ u.latest = latestMount /\ u.index = vmc_PartyIndex
        /\ u.pins = Party_vmcIndex /\ u.card = vmcMounted /\ u.image = image
    BY <2>1 DEF Now
  <2>7. /\ m.table = mountedParty /\ m.latest = latestMount /\ m.index = vmc_PartyIndex
        /\ m.pins = Party_vmcIndex /\ m.card = vmcMounted /\ m.image = image
    <3> DEFINE t == Mounted(u, 0, p)
    <3>1. /\ t.table = u.table /\ t.latest = u.latest /\ t.index = u.index
          /\ t.pins = u.pins /\ t.card = u.card /\ t.image = u.image
      BY <2>2 DEF Mounted, States
    <3> HIDE DEF t
    <3>2. m = t \/ m = u
      BY DEF t
    <3> QED BY <2>6, <3>1, <3>2
  <2>8. Becomes(m) /\ program' \in {"menu", "browser"} /\ ftp' = TRUE /\ clipParty' = clipParty
    BY <1>0, <1>16, <2>5, <2>7 DEF FtpChangeDir, Becomes
  <2> HIDE DEF m
  <2> QED BY <1>0, <2>4, <2>8, Operated
<1> QED
  BY <1>1, <1>2, <1>3, <1>4, <1>5, <1>6, <1>7, <1>8, <1>9, <1>10, <1>11, <1>12, <1>13,
     <1>14, <1>15, <1>16 DEF Next, Names

LEMMA MountInvariant == Spec => []MountInv
BY InitMounts, MountStep, PTL DEF Spec

-----------------------------------------------------------------------------
(* A slot the table has an entry for is mounted, with that partition,       *)
(* whatever the user did, as long as no FTP client takes slot 0 and outside *)
(* the HDD manager, which repairs the table on leaving.                     *)
THEOREM TableTrue == Spec => []MountsAgree
<1>1. MountInv => MountsAgree
  BY DEF MountInv, MountsAgree, Synced, Now
<1> QED BY <1>1, MountInvariant, PTL

(* The pins are exactly the slots of mounted images, and each of these      *)
(* slots is mounted, whatever the user and the FTP client do.               *)
THEOREM PinsTrue == Spec => []PinsAgree
<1>1. MountInv => PinsAgree
  BY DEF MountInv, PinsAgree, Pinned, Now
<1> QED BY <1>1, MountInvariant, PTL

(* Four slots are always enough to mount one more partition.                *)
THEOREM FourSlotsEnough == Spec => []AlwaysRoom
<1>1. MountInv => AlwaysRoom
  BY RoomForOne DEF MountInv, AlwaysRoom
<1> QED BY <1>1, MountInvariant, PTL

(* The mount of a copy's destination leaves the mount of its source.        *)
LEMMA SourceStays == Spec => []CopyKeepsSource
<1>1. MountInv => CopyKeepsSource
  <2> SUFFICES ASSUME MountInv, program = "browser", ~ftp,
                      NEW p \in Mountable, NEW q \in Mountable,
                      mountParty(Now, p).ret >= 0,
                      mountParty(mountParty(Now, p), q).ret >= 0
               PROVE  LET a == mountParty(Now, p)
                          b == mountParty(a, q)
                      IN  b.pfs[a.ret] = p /\ b.pfs[b.ret] = q
    BY DEF CopyKeepsSource
  <2> DEFINE a == mountParty(Now, p)
             b == mountParty(a, q)
  <2>1. p \in Parties /\ q \in Parties /\ p # NoParty
    BY MountAssumption
  <2>2. Now \in States /\ Synced(Now)
    BY DEF MountInv
  <2>3. /\ Keeps(Now, a) /\ a.ret \in Places
        /\ a.latest = a.ret /\ a.table[a.ret] = p /\ a.pfs[a.ret] = p
    BY <2>1, <2>2, MountPartyKeeps
  <2>4. a \in States /\ Synced(a) /\ a.ret \in Slots
    BY <2>2, <2>3, SlotValues DEF Keeps, Places
  <2> HIDE DEF a
  <2>5. /\ b.pfs[b.ret] = q
        /\ \A i \in Slots : a.latest = i /\ a.table[i] # NoParty => b.pfs[i] = a.pfs[i]
    BY <2>1, <2>4, MountPartyKeeps DEF a
  <2> QED BY <2>1, <2>3, <2>4, <2>5 DEF a
<1> QED BY <1>1, MountInvariant, PTL

(* The list of partitions leaves the clipboard's partition where it is.     *)
LEMMA ClipboardStays == Spec => []ClipboardKept
<1>1. MountInv => ClipboardKept
  <2> SUFFICES ASSUME MountInv, NEW i \in Slots, mountedParty[i] = clipParty
               PROVE  unmountParties(Now, NotNeeded).pfs[i] = pfs[i]
    BY DEF ClipboardKept
  <2>1. Now \in States /\ NotNeeded \in SUBSET Slots /\ i \notin NotNeeded
    BY DEF MountInv, NotNeeded
  <2> QED BY <2>1, UnmountSome DEF Now
<1> QED BY <1>1, MountInvariant, PTL

(* The partitions that a copy or the clipboard names stay mounted.          *)
THEOREM SourcesRemain == Spec => []SourcesStay
<1>1. CopyKeepsSource /\ ClipboardKept => SourcesStay
  BY DEF SourcesStay
<1> QED BY <1>1, SourceStays, ClipboardStays, PTL
=============================================================================
