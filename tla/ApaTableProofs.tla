--------------------------- MODULE ApaTableProofs ---------------------------
(***************************************************************************)
(* Proofs about ApaTable for any disk, names, sub-partitions and number of *)
(* jobs cut short: the chain of headers tiles the disk, a partition lists  *)
(* its own living sub-partitions only, names and open slots stay true, and *)
(* between jobs that nothing cuts short nothing is lost.                   *)
(***************************************************************************)
EXTENDS ApaTable, WellFoundedInduction, TLAPS

Ids == Names \cup ToSet(SystemNames) \cup {NoName, "__mbr"}

Header ==
  [next : Nat, prev : Nat, length : Nat \ {0}, type : {"pfs", "free", "mbr"},
   main : Nat, number : Nat, id : Ids, subs : Seq(Nat)]

IsMain(h, s) == h[s].type = "pfs" /\ h[s].main = MBR

Typed(h) ==
  /\ DOMAIN h \subseteq Nat /\ h \in [DOMAIN h -> Header] /\ MBR \in DOMAIN h
  /\ \A s \in DOMAIN h : h[s].type = "mbr" <=> s = MBR

(* The links: from each header to the one where it ends, or from the last   *)
(* one to the MBR, ...                                                      *)
Forth(h) ==
  \A s \in DOMAIN h : /\ h[s].next \in DOMAIN h /\ h[h[s].next].prev = s
                      /\ h[s].next # MBR => h[s].next = s + h[s].length
(* ... and back. *)
Back(h) == \A s \in DOMAIN h : h[s].prev \in DOMAIN h /\ h[h[s].prev].next = s

Spaced(h) == \A s, t \in DOMAIN h : s < t => s + h[s].length <= t

Ending(h) ==
  /\ \A s \in DOMAIN h : s + h[s].length <= Units
  /\ \A s, t \in DOMAIN h : h[s].next = MBR => t <= s

Tiles(h) == Typed(h) /\ Forth(h) /\ Back(h) /\ Spaced(h) /\ Ending(h)

(* What the headers say of partitions. *)
Contents(h) ==
  /\ \A s \in DOMAIN h : h[s].type # "pfs" => h[s].main = MBR /\ h[s].subs = <<>>
  /\ \A m \in DOMAIN h : \A i \in DOMAIN h[m].subs :
       LET s == h[m].subs[i] IN
       /\ m # MBR /\ IsMain(h, m)
       /\ s \in DOMAIN h /\ h[s].main = m /\ h[s].number = i
  /\ \A s, t \in DOMAIN h : IsMain(h, s) /\ IsMain(h, t) /\ h[s].id = h[t].id => s = t

SlotsTrue(h, sl) ==
  /\ sl \in [Slots -> [start : Nat, id : Ids, subs : Seq(Nat)]]
  /\ \A x \in Slots : sl[x] # Closed =>
       /\ sl[x].start \in DOMAIN h /\ IsMain(h, sl[x].start)
       /\ sl[x] = OpenSlot(h, sl[x].start)
  /\ \A x, y \in Slots : sl[x] # Closed /\ sl[x].start = sl[y].start => x = y

(* A partition that may be deleted: it lists nothing, nobody lists it and   *)
(* nobody has it open.                                                      *)
Doomed(h, sl, s) ==
  /\ s \in DOMAIN h /\ h[s].type = "pfs" /\ h[s].subs = <<>>
  /\ \A m \in DOMAIN h : \A i \in DOMAIN h[m].subs : h[m].subs[i] # s
  /\ \A x \in Slots : sl[x].start # s

AllDoomed(h, sl, todo) ==
  /\ todo \in Seq(Nat)
  /\ \A i \in DOMAIN todo : Doomed(h, sl, todo[i])
  /\ \A i, j \in DOMAIN todo : todo[i] = todo[j] => i = j

(* The partition p is new, and who asked for it can use it. *)
Making(h, sl, p, then) ==
  /\ p \in [size : Powers, id : Ids, main : Nat, number : Nat]
  /\ \/ /\ then.for = "open" /\ then = [for |-> "open", slot |-> then.slot]
        /\ then.slot \in Slots /\ sl[then.slot] = Closed
        /\ p.main = MBR
        /\ \A s \in DOMAIN h : IsMain(h, s) => h[s].id # p.id
     \/ /\ then.for = "link" /\ then = [for |-> "link", slot |-> then.slot]
        /\ then.slot \in Slots /\ sl[then.slot] # Closed
        /\ p.main = sl[then.slot].start /\ p.number = Len(sl[then.slot].subs) + 1
     \/ /\ then.for = "format" /\ then = [for |-> "format", next |-> then.next]
        /\ then.next \in 2 .. Len(SystemNames) + 1
        /\ p.id = SystemNames[then.next - 1] /\ p.main = MBR
        /\ \A s \in DOMAIN h : IsMain(h, s) =>
             \E k \in 1 .. then.next - 2 : h[s].id = SystemNames[k]

Inserting(h, sl, j) ==
  /\ j.step = "insert"
  /\ j = [step |-> "insert", at |-> j.at, p |-> j.p, then |-> j.then]
  /\ j.at \in DOMAIN h /\ h[j.at].type = "free"
  /\ h[j.at].length \in Powers /\ j.p.size <= h[j.at].length
  /\ Making(h, sl, j.p, j.then) /\ j.then.for # "format"

Appending(h, sl, j) ==
  /\ j.step = "append"
  /\ j = [step |-> "append", p |-> j.p, then |-> j.then]
  /\ \A s \in DOMAIN h : h[s].next = MBR => RoomBehind(s + h[s].length, j.p.size)
  /\ Making(h, sl, j.p, j.then)

Linking(h, sl, j) ==
  /\ j.step = "link"
  /\ j = [step |-> "link", slot |-> j.slot, sub |-> j.sub]
  /\ j.slot \in Slots /\ sl[j.slot] # Closed
  /\ j.sub \in DOMAIN h /\ h[j.sub].main = sl[j.slot].start
  /\ h[j.sub].number = Len(sl[j.slot].subs) + 1

Deleting(h, sl, j) ==
  /\ j.step = "delete"
  /\ j = [step |-> "delete", todo |-> j.todo]
  /\ j.todo # <<>> /\ AllDoomed(h, sl, j.todo)

(* The header at, or what it was merged into, and what is deleted next.     *)
Going(h, sl, at, todo) ==
  /\ at \in DOMAIN h \ {MBR}
  /\ h[at].type = "free" \/ Doomed(h, sl, at)
  /\ AllDoomed(h, sl, todo)
  /\ \A i \in DOMAIN todo : todo[i] # at

Stripping(h, sl, j) ==
  /\ j.step = "strip"
  /\ j = [step |-> "strip", at |-> j.at, todo |-> j.todo]
  /\ Going(h, sl, j.at, j.todo) /\ h[j.at].next = MBR

Merging(h, sl, j) ==
  /\ j.step = "merge"
  /\ j = [step |-> "merge", at |-> j.at, round |-> j.round, start |-> j.start,
          length |-> j.length, todo |-> j.todo]
  /\ j.round \in Nat
  /\ Going(h, sl, j.at, j.todo) /\ h[j.at].next # MBR

JobTrue(h, sl, j) ==
  \/ j = Idle
  \/ Inserting(h, sl, j) \/ Appending(h, sl, j) \/ Linking(h, sl, j)
  \/ Deleting(h, sl, j) \/ Stripping(h, sl, j) \/ Merging(h, sl, j)

(* The last header is a partition; only while one is made or cut off at the *)
(* end may it be an empty block.                                            *)
TailUsed(h, j) ==
  j.step \in {"append", "strip"} \/
    \A s \in DOMAIN h : h[s].next = MBR => h[s].type # "free"

Table(h, sl, j) ==
  Tiles(h) /\ Contents(h) /\ SlotsTrue(h, sl) /\ JobTrue(h, sl, j) /\ TailUsed(h, j)

TableInv == Table(hdr, slots, job)

(* Nothing cuts a job short while the end of the table is being changed: a  *)
(* cut there may leave an empty block at the end, and the next deletion     *)
(* before it links past the table.                                         *)
EndUncut == FaultSteps \cap {"append", "strip"} = {}

-----------------------------------------------------------------------------
(* Least and largest numbers. *)

(* A set of numbers that is not empty has a least one. *)
LEMMA Least ==
  ASSUME NEW S \in SUBSET Nat, S # {}
  PROVE  \E m \in S : \A n \in S : m <= n
<1>1. PICK m \in S : \A n \in S : ~ (<<n, m>> \in OpToRel(<, Nat))
  BY NatLessThanWellFounded, WFMin, Zenon
<1>2. ASSUME NEW n \in S PROVE m <= n
  <2>1. ~ (n < m)
    BY <1>1 DEF OpToRel
  <2> QED BY <2>1
<1> QED BY <1>2

(* What Min and Max choose, ... *)
LEMMA MinIs ==
  ASSUME NEW S \in SUBSET Nat, S # {}
  PROVE  Min(S) \in S /\ \A n \in S : Min(S) <= n
BY Least DEF Min

(* ... Max where the set has a bound. *)
LEMMA MaxIs ==
  ASSUME NEW S \in SUBSET Nat, S # {}, NEW k \in Nat, \A n \in S : n <= k
  PROVE  Max(S) \in S /\ \A n \in S : Max(S) >= n
<1>1. PICK e \in S : TRUE
  OBVIOUS
<1>2. k - e \in {k - n : n \in S}
  OBVIOUS
<1>3. {k - n : n \in S} \in SUBSET Nat
  OBVIOUS
<1>4. PICK m \in {k - n : n \in S} : \A n \in {k - n : n \in S} : m <= n
  BY <1>2, <1>3, Least
<1>5. PICK x \in S : m = k - x
  BY <1>4
<1>6. ASSUME NEW n \in S PROVE x >= n
  <2>1. k - n \in {k - i : i \in S}
    OBVIOUS
  <2>2. k - x <= k - n
    BY <2>1, <1>4, <1>5
  <2> QED BY <2>2
<1> QED BY <1>6 DEF Max

(* A partition of two at a time is one of the powers' halves. *)
LEMMA Halves ==
  ASSUME NEW l \in Powers, NEW k \in Powers, k <= l, l # k
  PROVE  /\ l \div 2 \in Powers /\ l = 2 * (l \div 2) /\ k <= l \div 2
BY DEF Powers

(* Every size in the table is a positive number. *)
LEMMA PowersAreNat == Powers \subseteq Nat \ {0}
BY DEF Powers

(* Room checked before padding is still there behind the padding. *)
LEMMA PadRoom ==
  ASSUME NEW e \in Nat, NEW size \in Powers, NEW t \in Powers, t < size,
         e % size # 0, e % t = 0, RoomBehind(e, size)
  PROVE  RoomBehind(e + t, size)
<1>1. Units \in Nat
  BY TableAssumption
<1>2. (e % size) + t <= size
  BY SMTT(60) DEF Powers
<1>3. (e + t) % size = IF (e % size) + t = size THEN 0 ELSE (e % size) + t
  BY <1>2, SMTT(60) DEF Powers
<1>4. size \in Nat \ {0} /\ t \in Nat /\ e % size \in Nat
  BY PowersAreNat
<1> QED BY <1>1, <1>2, <1>3, <1>4 DEF RoomBehind, Padding

-----------------------------------------------------------------------------
(***************************************************************************)
(* The changes of the chain.                                               *)
(***************************************************************************)
LEMMA FieldsOf ==
  ASSUME NEW h, Tiles(h), NEW s \in DOMAIN h
  PROVE  /\ s \in Nat /\ h[s] \in Header /\ Units \in Nat
         /\ h[s].next \in Nat /\ h[s].prev \in Nat /\ h[s].length \in Nat \ {0}
         /\ h[s].type \in {"pfs", "free", "mbr"} /\ h[s].main \in Nat
         /\ h[s].number \in Nat /\ h[s].id \in Ids /\ h[s].subs \in Seq(Nat)
<1>1. s \in Nat /\ h[s] \in Header /\ Units \in Nat
  BY TableAssumption DEF Tiles, Typed
<1> QED BY <1>1 DEF Header

(* The last header is the one the MBR links back to. *)
LEMMA LastIs ==
  ASSUME NEW h, Tiles(h)
  PROVE  /\ h[MBR].prev \in DOMAIN h /\ h[h[MBR].prev].next = MBR
         /\ \A s \in DOMAIN h : h[s].next = MBR <=> s = h[MBR].prev
<1>1. MBR \in DOMAIN h /\ Forth(h) /\ Back(h)
  BY DEF Tiles, Typed
<1> QED BY <1>1 DEF Forth, Back

(* The partition the MBR links back to is the one found last. *)
LEMMA LastHeaderIs ==
  ASSUME Tiles(hdr)
  PROVE  LastHeader = hdr[MBR].prev /\ PartEnd = hdr[MBR].prev + hdr[hdr[MBR].prev].length
BY LastIs DEF LastHeader, PartEnd

(* Where a header that is not the last one ends, the next one begins. *)
LEMMA NextIs ==
  ASSUME NEW h, Tiles(h), NEW s \in DOMAIN h, h[s].next # MBR
  PROVE  /\ h[s].next \in DOMAIN h /\ h[s].next = s + h[s].length
         /\ h[h[s].next].prev = s /\ s < h[s].next
<1>1. s \in Nat /\ h[s].length \in Nat \ {0} /\ Forth(h)
  BY FieldsOf DEF Tiles
<1> QED BY <1>1 DEF Forth

(* A header between two others has its neighbours between them. *)
LEMMA PrevIs ==
  ASSUME NEW h, Tiles(h), NEW s \in DOMAIN h, s # MBR
  PROVE  /\ h[s].prev \in DOMAIN h /\ h[h[s].prev].next = s
         /\ s = h[s].prev + h[h[s].prev].length /\ h[s].prev < s
<1>1. h[s].prev \in DOMAIN h /\ h[h[s].prev].next = s
  BY DEF Tiles, Back
<1> QED BY <1>1, NextIs

(* Headers with the same links. *)
SameLinks(h, g) ==
  /\ DOMAIN g = DOMAIN h /\ g \in [DOMAIN g -> Header]
  /\ \A s \in DOMAIN h :
       /\ g[s].next = h[s].next /\ g[s].prev = h[s].prev /\ g[s].length = h[s].length
       /\ g[s].type = "mbr" <=> h[s].type = "mbr"

(* A write that leaves the links alone leaves the tiling. *)
LEMMA TilesSame ==
  ASSUME NEW h, NEW g, Tiles(h), SameLinks(h, g)
  PROVE  Tiles(g)
<1>1. Typed(g)
  BY DEF Tiles, Typed, SameLinks
<1>2. ASSUME NEW s \in DOMAIN g
      PROVE  /\ g[s].next \in DOMAIN g /\ g[g[s].next].prev = s
             /\ g[s].next # MBR => g[s].next = s + g[s].length
             /\ g[s].prev \in DOMAIN g /\ g[g[s].prev].next = s
  <2>1. /\ h[s].next \in DOMAIN h /\ h[h[s].next].prev = s
        /\ h[s].next # MBR => h[s].next = s + h[s].length
        /\ h[s].prev \in DOMAIN h /\ h[h[s].prev].next = s
    BY DEF Tiles, Forth, Back, SameLinks
  <2> QED BY <2>1 DEF SameLinks
<1>3. Spaced(g) /\ Ending(g)
  BY DEF Tiles, Spaced, Ending, SameLinks
<1> QED BY <1>1, <1>2, <1>3 DEF Tiles, Forth, Back

(* The header of an empty block, by its fields. *)
LEMMA EmptyIs ==
  ASSUME NEW l \in Nat \ {0}, NEW n \in Nat, NEW p \in Nat
  PROVE  /\ Empty(l, n, p) \in Header
         /\ Empty(l, n, p).next = n /\ Empty(l, n, p).prev = p
         /\ Empty(l, n, p).length = l /\ Empty(l, n, p).type = "free"
         /\ Empty(l, n, p).main = MBR /\ Empty(l, n, p).subs = <<>>
BY DEF Empty, Header, Ids, MBR

(* One header changed, or added. *)
LEMMA WithIs ==
  ASSUME NEW D, NEW h \in [D -> Header], NEW s, NEW v \in Header
  PROVE  /\ With(h, s, v) \in [D \cup {s} -> Header]
         /\ With(h, s, v)[s] = v
         /\ \A t \in D : t # s => With(h, s, v)[t] = h[t]
BY DEF With

SameFields(v, w) ==
  /\ w.type = v.type /\ w.main = v.main /\ w.number = v.number
  /\ w.id = v.id /\ w.subs = v.subs

(* One field of one header set, ... *)
LEMMA FieldChanged ==
  ASSUME NEW v \in Header, NEW x \in Nat
  PROVE  /\ LET w == [v EXCEPT !.next = x] IN
            w \in Header /\ SameFields(v, w) /\ w.next = x /\ w.prev = v.prev
            /\ w.length = v.length
         /\ LET w == [v EXCEPT !.prev = x] IN
            w \in Header /\ SameFields(v, w) /\ w.next = v.next /\ w.prev = x
            /\ w.length = v.length
         /\ x # 0 => LET w == [v EXCEPT !.length = x] IN
            w \in Header /\ SameFields(v, w) /\ w.next = v.next /\ w.prev = v.prev
            /\ w.length = x
BY DEF Header, SameFields

(* ... equal fields make equal headers, ... *)
LEMMA SameHeader ==
  ASSUME NEW v \in Header, NEW w \in Header, SameFields(v, w),
         w.next = v.next, w.prev = v.prev, w.length = v.length
  PROVE  w = v
<1>1. v = [next |-> v.next, prev |-> v.prev, length |-> v.length, type |-> v.type,
           main |-> v.main, number |-> v.number, id |-> v.id, subs |-> v.subs]
  BY DEF Header
<1>2. w = [next |-> w.next, prev |-> w.prev, length |-> w.length, type |-> w.type,
           main |-> w.main, number |-> w.number, id |-> w.id, subs |-> w.subs]
  BY DEF Header
<1> QED BY <1>1, <1>2 DEF SameFields

(* Changes of single fields, named so that a proof need not look into them. *)
SetLength(h, a, x) == [h EXCEPT ![a].length = x]
SetNext(h, a, x) == [h EXCEPT ![a].next = x]
SetPrev(h, a, x) == [h EXCEPT ![a].prev = x]

(* ... and the same in the table: the length, ... *)
LEMMA LengthSet ==
  ASSUME NEW D, NEW h \in [D -> Header], NEW a \in D, NEW x \in Nat \ {0}
  PROVE  /\ SetLength(h, a, x) \in [D -> Header]
         /\ \A t \in D : LET w == SetLength(h, a, x)[t] IN
              /\ SameFields(h[t], w) /\ w.next = h[t].next /\ w.prev = h[t].prev
              /\ w.length = IF t = a THEN x ELSE h[t].length
<1> DEFINE k == SetLength(h, a, x)
           u == [h[a] EXCEPT !.length = x]
<1>1. /\ u \in Header /\ SameFields(h[a], u) /\ u.next = h[a].next /\ u.prev = h[a].prev
      /\ u.length = x
  BY FieldChanged
<1>2. k = [h EXCEPT ![a] = u]
  BY DEF SetLength
<1> HIDE DEF k, u
<1>3. k \in [D -> Header] /\ \A t \in D : k[t] = IF t = a THEN u ELSE h[t]
  BY <1>1, <1>2
<1>4. \A t \in D : SameFields(h[t], h[t])
  BY DEF SameFields
<1>5. \A t \in D : /\ SameFields(h[t], k[t]) /\ k[t].next = h[t].next /\ k[t].prev = h[t].prev
                   /\ k[t].length = IF t = a THEN x ELSE h[t].length
  BY <1>1, <1>3, <1>4
<1> QED BY <1>3, <1>5 DEF k

(* ... the link forth, ... *)
LEMMA NextSet ==
  ASSUME NEW D, NEW h \in [D -> Header], NEW a \in D, NEW x \in Nat
  PROVE  /\ SetNext(h, a, x) \in [D -> Header]
         /\ \A t \in D : LET w == SetNext(h, a, x)[t] IN
              /\ SameFields(h[t], w) /\ w.prev = h[t].prev /\ w.length = h[t].length
              /\ w.next = IF t = a THEN x ELSE h[t].next
<1> DEFINE k == SetNext(h, a, x)
           v == h[a]
           u == [v EXCEPT !.next = x]
<1>a. v \in Header
  OBVIOUS
<1> HIDE DEF v
<1>b. u \in Header /\ SameFields(v, u) /\ u.prev = v.prev /\ u.length = v.length /\ u.next = x
  BY <1>a, FieldChanged
<1>1. /\ u \in Header /\ SameFields(h[a], u) /\ u.prev = h[a].prev /\ u.length = h[a].length
      /\ u.next = x
  BY <1>b DEF v
<1> USE DEF v
<1>2. k = [h EXCEPT ![a] = u]
  BY DEF SetNext
<1> HIDE DEF k, u
<1>3. k \in [D -> Header] /\ \A t \in D : k[t] = IF t = a THEN u ELSE h[t]
  BY <1>1, <1>2
<1>4. \A t \in D : SameFields(h[t], h[t])
  BY DEF SameFields
<1>5. \A t \in D : /\ SameFields(h[t], k[t]) /\ k[t].prev = h[t].prev /\ k[t].length = h[t].length
                   /\ k[t].next = IF t = a THEN x ELSE h[t].next
  BY <1>1, <1>3, <1>4
<1> QED BY <1>3, <1>5 DEF k

(* ... the link back, ... *)
LEMMA PrevSet ==
  ASSUME NEW D, NEW h \in [D -> Header], NEW a \in D, NEW x \in Nat
  PROVE  /\ SetPrev(h, a, x) \in [D -> Header]
         /\ \A t \in D : LET w == SetPrev(h, a, x)[t] IN
              /\ SameFields(h[t], w) /\ w.next = h[t].next /\ w.length = h[t].length
              /\ w.prev = IF t = a THEN x ELSE h[t].prev
<1> DEFINE k == SetPrev(h, a, x)
           u == [h[a] EXCEPT !.prev = x]
<1>1. /\ u \in Header /\ SameFields(h[a], u) /\ u.next = h[a].next /\ u.length = h[a].length
      /\ u.prev = x
  BY FieldChanged
<1>2. k = [h EXCEPT ![a] = u]
  BY DEF SetPrev
<1> HIDE DEF k, u
<1>3. k \in [D -> Header] /\ \A t \in D : k[t] = IF t = a THEN u ELSE h[t]
  BY <1>1, <1>2
<1>4. \A t \in D : SameFields(h[t], h[t])
  BY DEF SameFields
<1>5. \A t \in D : /\ SameFields(h[t], k[t]) /\ k[t].next = h[t].next /\ k[t].length = h[t].length
                   /\ k[t].prev = IF t = a THEN x ELSE h[t].prev
  BY <1>1, <1>3, <1>4
<1> QED BY <1>3, <1>5 DEF k

(* A link to the right of a and one to the left of b. *)
Linked(h, a, x, b, y) == [h EXCEPT ![a].next = x, ![b].prev = y]

(* ... both links, ... *)
LEMMA Relinked ==
  ASSUME NEW D, NEW h \in [D -> Header], NEW a \in D, NEW b \in D,
         NEW x \in Nat, NEW y \in Nat
  PROVE  /\ Linked(h, a, x, b, y) \in [D -> Header]
         /\ \A t \in D : LET w == Linked(h, a, x, b, y)[t] IN
              /\ SameFields(h[t], w) /\ w.length = h[t].length
              /\ w.next = IF t = a THEN x ELSE h[t].next
              /\ w.prev = IF t = b THEN y ELSE h[t].prev
<1> DEFINE k == SetNext(h, a, x)
           g == Linked(h, a, x, b, y)
<1>1. g = SetPrev(k, b, y)
  BY DEF Linked, SetNext, SetPrev
<1>2. k \in [D -> Header] /\ \A t \in D :
        /\ SameFields(h[t], k[t]) /\ k[t].prev = h[t].prev /\ k[t].length = h[t].length
        /\ k[t].next = IF t = a THEN x ELSE h[t].next
  BY NextSet
<1> HIDE DEF k, g
<1>3. g \in [D -> Header] /\ \A t \in D :
        /\ SameFields(k[t], g[t]) /\ g[t].next = k[t].next /\ g[t].length = k[t].length
        /\ g[t].prev = IF t = b THEN y ELSE k[t].prev
  BY <1>1, <1>2, PrevSet
<1>4. \A t \in D : SameFields(h[t], g[t])
  BY <1>2, <1>3 DEF SameFields
<1> QED BY <1>2, <1>3, <1>4 DEF g

(* The same, with the length of a changed. *)
Sized(h, a, l, x, b, y) ==
  [h EXCEPT ![a].length = l, ![a].next = x, ![b].prev = y]

SizedFields(D, h, g, a, l, x, b, y) ==
  \A t \in D : /\ SameFields(h[t], g[t])
               /\ g[t].length = IF t = a THEN l ELSE h[t].length
               /\ g[t].next = IF t = a THEN x ELSE h[t].next
               /\ g[t].prev = IF t = b THEN y ELSE h[t].prev

(* ... and both links with the length. *)
LEMMA Resized ==
  ASSUME NEW D, NEW h \in [D -> Header], NEW a \in D, NEW b \in D,
         NEW l \in Nat \ {0}, NEW x \in Nat, NEW y \in Nat
  PROVE  /\ Sized(h, a, l, x, b, y) \in [D -> Header]
         /\ SizedFields(D, h, Sized(h, a, l, x, b, y), a, l, x, b, y)
<1> DEFINE k == SetLength(h, a, l)
           g == Sized(h, a, l, x, b, y)
<1>1. g = Linked(k, a, x, b, y)
  BY DEF Linked, SetLength, Sized
<1>2. k \in [D -> Header] /\ \A t \in D :
        /\ SameFields(h[t], k[t]) /\ k[t].next = h[t].next /\ k[t].prev = h[t].prev
        /\ k[t].length = IF t = a THEN l ELSE h[t].length
  BY LengthSet
<1> HIDE DEF k, g
<1>3. g \in [D -> Header] /\ \A t \in D :
        /\ SameFields(k[t], g[t]) /\ g[t].length = k[t].length
        /\ g[t].next = IF t = a THEN x ELSE k[t].next
        /\ g[t].prev = IF t = b THEN y ELSE k[t].prev
  <2>1. k \in [D -> Header]
    BY <1>2
  <2> QED BY ONLY <1>1, <2>1, Relinked, a \in D, b \in D, x \in Nat, y \in Nat, SMTT(20)
<1>4. \A t \in D : SameFields(h[t], g[t])
  BY <1>2, <1>3 DEF SameFields
<1> QED BY <1>2, <1>3, <1>4 DEF g, SizedFields
(* A header v behind the last one. *)
LEMMA BehindIs ==
  ASSUME NEW h, Tiles(h), NEW v \in Header, NEW e,
         e = h[MBR].prev + h[h[MBR].prev].length,
         v.type # "mbr", v.next = MBR, v.prev = h[MBR].prev, e + v.length <= Units
  PROVE  LET g == Behind(h, h[MBR].prev, e, v) IN
         /\ e \in Nat /\ e \notin DOMAIN h
         /\ DOMAIN g = DOMAIN h \cup {e} /\ Tiles(g)
         /\ g[MBR].prev = e /\ g[e] = v
         /\ \A t \in DOMAIN h : SameFields(h[t], g[t]) /\ g[t].length = h[t].length
<1> DEFINE L == h[MBR].prev
           k == With(h, e, v)
           g == Behind(h, L, e, v)
<1>1. /\ L \in DOMAIN h /\ h[L].next = MBR /\ \A s \in DOMAIN h : h[s].next = MBR <=> s = L
      /\ MBR \in DOMAIN h /\ MBR \in Nat
  BY LastIs DEF Tiles, Typed, MBR
<1>2. L \in Nat /\ h[L].length \in Nat \ {0} /\ e \in Nat /\ Units \in Nat
  BY <1>1, FieldsOf
<1>3. ASSUME NEW t \in DOMAIN h
      PROVE  t \in Nat /\ h[t].length \in Nat \ {0} /\ t <= L /\ t + h[t].length <= e
  <2>1. t \in Nat /\ h[t].length \in Nat \ {0}
    BY FieldsOf
  <2>2. t <= L
    BY <1>1 DEF Tiles, Ending
  <2>3. CASE t < L
    <3>1. t + h[t].length <= L
      BY <2>3, <1>1 DEF Tiles, Spaced
    <3> QED BY <3>1, <2>1, <2>2, <1>2
  <2> QED BY <2>1, <2>2, <2>3, <1>2
<1>4. e \notin DOMAIN h /\ e # MBR /\ e # L /\ v.prev = L
  BY <1>1, <1>2, <1>3 DEF MBR
<1> DEFINE D == DOMAIN h
<1>5. D = DOMAIN h /\ h \in [D -> Header]
  BY DEF Tiles, Typed
<1> HIDE DEF D
<1>6. /\ k \in [D \cup {e} -> Header]
      /\ k[e] = v /\ \A t \in D : k[t] = h[t]
  <2>1. k \in [D \cup {e} -> Header]
    BY <1>5, WithIs
  <2>2. k[e] = v
    BY DEF With
  <2>3. \A t \in D : t # e => k[t] = h[t]
    BY <1>5 DEF With
  <2> QED BY <2>1, <2>2, <2>3, <1>4, <1>5
<1>7. g = Linked(k, L, e, MBR, e)
  BY DEF Behind, Linked
<1> HIDE DEF k, g, L
<1>8. /\ DOMAIN g = DOMAIN h \cup {e} /\ g[e] = v
      /\ \A t \in DOMAIN h : /\ SameFields(h[t], g[t]) /\ g[t].length = h[t].length
                             /\ g[t].next = IF t = L THEN e ELSE h[t].next
                             /\ g[t].prev = IF t = MBR THEN e ELSE h[t].prev
      /\ g \in [DOMAIN g -> Header]
  <2> DEFINE E == D \cup {e}
  <2>1. L \in E /\ MBR \in E /\ k \in [E -> Header]
    BY <1>1, <1>5, <1>6
  <2> HIDE DEF E
  <2>2. /\ g \in [E -> Header]
        /\ \A t \in E : /\ SameFields(k[t], g[t]) /\ g[t].length = k[t].length
                        /\ g[t].next = IF t = L THEN e ELSE k[t].next
                        /\ g[t].prev = IF t = MBR THEN e ELSE k[t].prev
    <3>1. e \in Nat
      BY <1>2
    <3> QED BY ONLY <3>1, <1>7, <2>1, Relinked
  <2>3. DOMAIN g = E /\ E = DOMAIN h \cup {e}
    BY <2>2, <1>5 DEF E
  <2>4. k[e] = v /\ \A t \in DOMAIN h : k[t] = h[t]
    BY <1>5, <1>6
  <2>5. g[e] = v
    <3>1. g[e] \in Header /\ SameFields(v, g[e]) /\ g[e].next = v.next
          /\ g[e].prev = v.prev /\ g[e].length = v.length
      BY <2>2, <2>4, <1>4 DEF E
    <3> QED BY <3>1, SameHeader
  <2> QED BY <2>2, <2>3, <2>4, <2>5
<1>9. Tiles(g)
  <2>1. Typed(g)
    <3>1. \A s \in DOMAIN g : g[s].type = "mbr" <=> s = MBR
      BY <1>4, <1>8 DEF Tiles, Typed, SameFields
    <3> QED BY <3>1, <1>1, <1>2, <1>8 DEF Tiles, Typed
  <2>2. ASSUME NEW s \in DOMAIN g
        PROVE  /\ g[s].next \in DOMAIN g /\ g[g[s].next].prev = s
               /\ g[s].next # MBR => g[s].next = s + g[s].length
    <3>1. CASE s = e
      BY <3>1, <1>1, <1>8
    <3>2. CASE s = L
      BY <3>2, <1>1, <1>4, <1>8, <1>2
    <3>3. CASE s \in DOMAIN h /\ s # L
      <4>1. /\ h[s].next \in DOMAIN h /\ h[s].next # MBR /\ h[h[s].next].prev = s
            /\ h[s].next = s + h[s].length
        BY <3>3, <1>1, NextIs
      <4> QED BY <4>1, <3>3, <1>8
    <3> QED BY <3>1, <3>2, <3>3, <1>8
  <2>3. ASSUME NEW s \in DOMAIN g PROVE g[s].prev \in DOMAIN g /\ g[g[s].prev].next = s
    <3>1. CASE s = e
      BY <3>1, <1>1, <1>4, <1>8
    <3>2. CASE s = MBR
      BY <3>2, <1>1, <1>4, <1>8
    <3>3. CASE s \in DOMAIN h /\ s # MBR
      <4>1. h[s].prev \in DOMAIN h /\ h[h[s].prev].next = s
        BY <3>3, PrevIs
      <4> QED BY <4>1, <3>3, <1>1, <1>8
    <3> QED BY <3>1, <3>2, <3>3, <1>8
  <2>4. Spaced(g)
    <3> SUFFICES ASSUME NEW s \in DOMAIN g, NEW t \in DOMAIN g, s < t
                 PROVE  s + g[s].length <= t
      BY DEF Spaced
    <3>1. CASE s \in DOMAIN h /\ t \in DOMAIN h
      BY <3>1, <1>8 DEF Tiles, Spaced
    <3>2. CASE s \in DOMAIN h /\ t = e
      BY <3>2, <1>3, <1>8
    <3>3. CASE s = e
      BY <3>3, <1>2, <1>3, <1>8
    <3> QED BY <3>1, <3>2, <3>3, <1>8
  <2>5. Ending(g)
    <3>1. \A s \in DOMAIN g : s + g[s].length <= Units
      BY <1>8 DEF Tiles, Ending
    <3>2. ASSUME NEW s \in DOMAIN g, NEW t \in DOMAIN g, g[s].next = MBR PROVE t <= s
      <4>1. s = e
        <5>1. s # e => s \in DOMAIN h
          BY <1>8
        <5>2. s \in DOMAIN h => g[s].next = IF s = L THEN e ELSE h[s].next
          BY <1>8
        <5>3. s \in DOMAIN h => (h[s].next = MBR => s = L)
          BY <1>1
        <5> QED BY <5>1, <5>2, <5>3, <3>2, <1>4
      <4> QED BY <4>1, <1>2, <1>3, <1>8
    <3> QED BY <3>1, <3>2 DEF Ending
  <2> QED BY <2>1, <2>2, <2>3, <2>4, <2>5 DEF Tiles, Forth, Back
<1>10. g[MBR].prev = e
  BY <1>1, <1>8
<1> QED BY <1>2, <1>4, <1>8, <1>9, <1>10 DEF g, L

(* Headers b .. n, and no other, become one header at b. *)
LEMMA MergedIs ==
  ASSUME NEW h, Tiles(h), NEW b \in DOMAIN h, NEW n \in DOMAIN h, b < n,
         NEW g, g \in [DOMAIN g -> Header],
         DOMAIN g = {t \in DOMAIN h : t <= b \/ n <= t},
         g[b].next = n, g[b].prev = h[b].prev, g[b].length = n - b,
         g[n].next = h[n].next, g[n].prev = b, g[n].length = h[n].length,
         \A t \in DOMAIN g : g[t].type = "mbr" <=> h[t].type = "mbr",
         \A t \in DOMAIN g : t # b /\ t # n =>
           g[t].next = h[t].next /\ g[t].prev = h[t].prev /\ g[t].length = h[t].length
  PROVE  Tiles(g)
<1>1. /\ b \in Nat /\ n \in Nat /\ MBR \in DOMAIN h /\ MBR = 0 /\ n # MBR
      /\ Units \in Nat
  BY FieldsOf DEF Tiles, Typed, MBR
<1>2. b \in DOMAIN g /\ n \in DOMAIN g /\ MBR \in DOMAIN g /\ b # n
  BY <1>1
<1>3. ASSUME NEW t \in DOMAIN g
      PROVE  /\ t \in DOMAIN h /\ t \in Nat /\ h[t].length \in Nat \ {0}
             /\ t <= b \/ n <= t
  BY FieldsOf
<1>4. ASSUME NEW s \in DOMAIN h, NEW t \in DOMAIN h, s < t
      PROVE  s + h[s].length <= t
  BY <1>4 DEF Tiles, Spaced
<1>5. Typed(g)
  BY <1>2, <1>3 DEF Tiles, Typed
<1>6. ASSUME NEW s \in DOMAIN g
      PROVE  /\ g[s].next \in DOMAIN g /\ g[g[s].next].prev = s
             /\ g[s].next # MBR => g[s].next = s + g[s].length
  <2>1. CASE s = b
    BY <2>1, <1>1, <1>2
  <2>2. CASE s # b
    <3>1. g[s].next = h[s].next /\ g[s].length = h[s].length
      BY <2>2
    <3>2. CASE h[s].next = MBR
      <4>1. h[MBR].prev = s
        BY <3>2, <1>3 DEF Tiles, Forth
      <4>2. g[MBR].prev = s
        BY <4>1, <1>1, <1>2
      <4> QED BY <4>2, <3>1, <3>2, <1>2
    <3>3. CASE h[s].next # MBR
      <4> DEFINE m == h[s].next
      <4>1. m \in DOMAIN h /\ m = s + h[s].length /\ h[m].prev = s /\ s < m
        BY <3>3, <1>3, NextIs
      <4> HIDE DEF m
      <4>2. CASE s < b
        <5>1. m <= b
          BY <4>1, <4>2, <1>3, <1>4
        <5>2. m \in DOMAIN g /\ m # n
          BY <5>1, <4>1, <1>1
        <5>3. g[m].prev = s
          BY <5>2, <4>1
        <5> QED BY <5>2, <5>3, <4>1, <3>1 DEF m
      <4>3. CASE n <= s
        <5>1. m \in Nat /\ n < m
          BY <4>1, <4>3, <1>1, <1>3
        <5>2. m \in DOMAIN g /\ m # n /\ m # b
          BY <5>1, <4>1, <1>1
        <5>3. g[m].prev = s
          BY <5>2, <4>1
        <5> QED BY <5>2, <5>3, <4>1, <3>1 DEF m
      <4> QED BY <4>2, <4>3, <2>2, <1>1, <1>3
    <3> QED BY <3>2, <3>3
  <2> QED BY <2>1, <2>2
<1>7. ASSUME NEW s \in DOMAIN g PROVE g[s].prev \in DOMAIN g /\ g[g[s].prev].next = s
  <2>1. CASE s = n
    BY <2>1, <1>1, <1>2
  <2>2. CASE s = MBR
    <3> DEFINE p == h[MBR].prev
    <3>1. p \in DOMAIN h /\ h[p].next = MBR
      BY LastIs
    <3>2. n <= p
      BY <3>1 DEF Tiles, Ending
    <3>3. g[s].prev = p
      BY <2>2, <1>1, <1>2
    <3> HIDE DEF p
    <3>4. p \in DOMAIN g /\ p # b
      BY <3>1, <3>2, <1>1
    <3>5. g[p].next = MBR
      BY <3>1, <3>4
    <3> QED BY <3>3, <3>4, <3>5, <2>2
  <2>3. CASE s # MBR /\ s # n
    <3> DEFINE p == h[s].prev
    <3>1. p \in DOMAIN h /\ h[p].next = s /\ s = p + h[p].length /\ p < s /\ p \in Nat
      BY <2>3, <1>3, PrevIs, FieldsOf
    <3>2. g[s].prev = p
      BY <2>3
    <3> HIDE DEF p
    <3>3. p # b /\ p \in DOMAIN g
      <4>1. CASE s <= b
        BY <4>1, <3>1, <1>1, <1>3
      <4>2. CASE n < s
        <5>1. n <= p
          <6>1. p < n => s <= n
            BY <3>1, <1>4
          <6> QED BY <6>1, <4>2, <3>1, <1>1, <1>3
        <5> QED BY <5>1, <3>1, <1>1
      <4> QED BY <4>1, <4>2, <2>3, <1>1, <1>3
    <3>4. g[p].next = s
      BY <3>1, <3>3
    <3> QED BY <3>2, <3>3, <3>4
  <2> QED BY <2>1, <2>2, <2>3
<1>8. Spaced(g)
  <2> SUFFICES ASSUME NEW s \in DOMAIN g, NEW t \in DOMAIN g, s < t
               PROVE  s + g[s].length <= t
    BY DEF Spaced
  <2>1. CASE s = b
    BY <2>1, <1>1, <1>3
  <2>2. CASE s # b
    <3>1. s + h[s].length <= t
      BY <1>3, <1>4
    <3> QED BY <3>1, <2>2
  <2> QED BY <2>1, <2>2
<1>9. Ending(g)
  <2>1. ASSUME NEW s \in DOMAIN g PROVE s + g[s].length <= Units
    <3>1. s + h[s].length <= Units /\ n + h[n].length <= Units
      BY <1>3 DEF Tiles, Ending
    <3>2. CASE s = b
      BY <3>1, <3>2, <1>1, <1>2, <1>3
    <3> QED BY <3>1, <3>2
  <2>2. ASSUME NEW s \in DOMAIN g, NEW t \in DOMAIN g, g[s].next = MBR PROVE t <= s
    <3>1. h[s].next = MBR
      BY <2>2, <1>1
    <3> QED BY <3>1, <1>3 DEF Tiles, Ending
  <2> QED BY <2>1, <2>2 DEF Ending
<1> QED BY <1>5, <1>6, <1>7, <1>8, <1>9 DEF Tiles, Forth, Back

(* One header becomes two. *)
LEMMA SplitIs ==
  ASSUME NEW h, Tiles(h), NEW s \in DOMAIN h \ {MBR}, h[s].next # MBR,
         NEW m, m \in Nat, s < m, m < h[s].next,
         NEW g, g \in [DOMAIN g -> Header], DOMAIN g = DOMAIN h \cup {m},
         g[s].next = m, g[s].prev = h[s].prev, g[s].length = m - s,
         g[m].next = h[s].next, g[m].prev = s, g[m].length = h[s].next - m,
         g[m].type = "free", g[h[s].next].prev = m,
         \A t \in DOMAIN h : g[t].type = "mbr" <=> h[t].type = "mbr",
         \A t \in DOMAIN h : t # s =>
           /\ g[t].next = h[t].next /\ g[t].length = h[t].length
           /\ t # h[s].next => g[t].prev = h[t].prev
  PROVE  Tiles(g)
<1> DEFINE n == h[s].next
<1>1. /\ s \in Nat /\ n \in Nat /\ n \in DOMAIN h /\ MBR \in DOMAIN h /\ MBR = 0
      /\ n = s + h[s].length /\ h[n].prev = s /\ Units \in Nat /\ n # MBR /\ n # s
  BY FieldsOf, NextIs, SMTT(20) DEF Tiles, Typed, MBR
<1>2. /\ g[s].next = m /\ g[s].length = m - s /\ g[m].next = n /\ g[m].length = n - m
      /\ g[n].prev = m /\ m < n
      /\ \A t \in DOMAIN h : t # s =>
           /\ g[t].next = h[t].next /\ g[t].length = h[t].length
           /\ t # n => g[t].prev = h[t].prev
  OBVIOUS
<1> HIDE DEF n
<1>3. ASSUME NEW t \in DOMAIN h
      PROVE  /\ t \in Nat /\ h[t].length \in Nat \ {0}
             /\ t + h[t].length <= Units
             /\ s < t => n <= t
             /\ t < s => t + h[t].length <= s
             /\ h[t].next = n <=> t = s
  <2>1. t \in Nat /\ h[t].length \in Nat \ {0}
    BY FieldsOf
  <2>2. t + h[t].length <= Units
    BY DEF Tiles, Ending
  <2>3. s < t => s + h[s].length <= t
    BY DEF Tiles, Spaced
  <2>4. t < s => t + h[t].length <= s
    BY DEF Tiles, Spaced
  <2>5. h[h[t].next].prev = t
    BY DEF Tiles, Forth
  <2>6. h[t].next = n <=> t = s
    BY <2>5, <1>1 DEF n
  <2> QED BY <2>1, <2>2, <2>3, <2>4, <2>6, <1>1
<1>4. m \notin DOMAIN h /\ m # MBR /\ m # s /\ m # n
  BY <1>1, <1>2, <1>3
<1>5. Typed(g)
  <2>1. \A t \in DOMAIN g : g[t].type = "mbr" <=> t = MBR
    BY <1>4 DEF Tiles, Typed
  <2> QED BY <2>1, <1>1 DEF Tiles, Typed
<1>6. ASSUME NEW t \in DOMAIN g
      PROVE  /\ g[t].next \in DOMAIN g /\ g[g[t].next].prev = t
             /\ g[t].next # MBR => g[t].next = t + g[t].length
  <2>1. CASE t = m
    BY <2>1, <1>1, <1>2
  <2>2. CASE t = s
    BY <2>2, <1>1, <1>2
  <2>3. CASE t \in DOMAIN h /\ t # s
    <3>1. /\ h[t].next \in DOMAIN h /\ h[h[t].next].prev = t
          /\ h[t].next # MBR => h[t].next = t + h[t].length
      BY <2>3 DEF Tiles, Forth
    <3>2. h[t].next # n
      BY <2>3, <1>3
    <3>3. g[h[t].next].prev = t
      BY <3>1, <3>2, <1>2
    <3> QED BY <3>1, <3>3, <2>3, <1>2
  <2> QED BY <2>1, <2>2, <2>3
<1>7. ASSUME NEW t \in DOMAIN g PROVE g[t].prev \in DOMAIN g /\ g[g[t].prev].next = t
  <2>1. CASE t = m
    BY <2>1, <1>2
  <2>2. CASE t = n
    BY <2>2, <1>2
  <2>3. CASE t \in DOMAIN h /\ t # n
    <3>1. h[t].prev \in DOMAIN h /\ h[h[t].prev].next = t
      BY <2>3 DEF Tiles, Back
    <3>2. h[t].prev # s
      BY <3>1, <2>3 DEF n
    <3>3. g[t].prev = h[t].prev
      BY <2>3, <1>2
    <3>4. g[h[t].prev].next = t
      BY <3>1, <3>2, <1>2
    <3> QED BY <3>1, <3>3, <3>4
  <2> QED BY <2>1, <2>2, <2>3
<1>8. Spaced(g)
  <2> SUFFICES ASSUME NEW t \in DOMAIN g, NEW u \in DOMAIN g, t < u
               PROVE  t + g[t].length <= u
    BY DEF Spaced
  <2>1. CASE t = m
    BY <2>1, <1>1, <1>2, <1>3
  <2>2. CASE t = s
    BY <2>2, <1>1, <1>2, <1>3
  <2>3. CASE t \in DOMAIN h /\ t # s /\ u \in DOMAIN h
    BY <2>3, <1>2 DEF Tiles, Spaced
  <2>4. CASE t \in DOMAIN h /\ t # s /\ u = m
    <3>1. t < s
      BY <2>4, <1>1, <1>2, <1>3
    <3> QED BY <3>1, <2>4, <1>1, <1>2, <1>3
  <2> QED BY <2>1, <2>2, <2>3, <2>4
<1>9. Ending(g)
  <2>1. ASSUME NEW t \in DOMAIN g PROVE t + g[t].length <= Units
    <3>1. n <= Units
      BY <1>1, <1>3
    <3>2. CASE t \in {s, m}
      BY <3>1, <3>2, <1>1, <1>2
    <3>3. CASE t \in DOMAIN h \ {s}
      BY <3>3, <1>2, <1>3
    <3> QED BY <3>2, <3>3
  <2>2. ASSUME NEW t \in DOMAIN g, NEW u \in DOMAIN g, g[t].next = MBR PROVE u <= t
    <3>1. t \in DOMAIN h /\ h[t].next = MBR
      BY <2>2, <1>1, <1>2, <1>4
    <3>2. \A x \in DOMAIN h : x <= t
      BY <3>1 DEF Tiles, Ending
    <3>3. CASE u \in DOMAIN h
      BY <3>2, <3>3
    <3>4. CASE u = m
      <4>1. n <= t
        BY <3>2, <1>1
      <4> QED BY <4>1, <3>1, <3>4, <1>1, <1>2, <1>3
    <3> QED BY <3>3, <3>4
  <2> QED BY <2>1, <2>2 DEF Ending
<1> QED BY <1>5, <1>6, <1>7, <1>8, <1>9 DEF Tiles, Forth, Back

(* The last header is cut off. *)
LEMMA CutIs ==
  ASSUME NEW h, Tiles(h), NEW s \in DOMAIN h \ {MBR}, h[s].next = MBR,
         NEW g, g \in [DOMAIN g -> Header], DOMAIN g = DOMAIN h \ {s},
         g[h[s].prev].next = MBR, g[MBR].prev = h[s].prev,
         \A t \in DOMAIN g :
           /\ g[t].length = h[t].length
           /\ g[t].type = "mbr" <=> h[t].type = "mbr"
           /\ t # h[s].prev => g[t].next = h[t].next
           /\ t # MBR => g[t].prev = h[t].prev
  PROVE  Tiles(g)
<1> DEFINE p == h[s].prev
<1>1. /\ p \in DOMAIN h /\ h[p].next = s /\ s = p + h[p].length /\ p < s
      /\ p \in Nat /\ s \in Nat /\ MBR \in DOMAIN h /\ MBR = 0 /\ h[p].length \in Nat
  BY PrevIs, FieldsOf DEF Tiles, Typed, MBR
<1>2. g[p].next = MBR /\ g[MBR].prev = p /\ \A t \in DOMAIN g : t # p => g[t].next = h[t].next
  OBVIOUS
<1> HIDE DEF p
<1>3. p \in DOMAIN g /\ MBR \in DOMAIN g
  BY <1>1
<1>4. ASSUME NEW t \in DOMAIN g
      PROVE  t \in DOMAIN h /\ t # s /\ t \in Nat /\ t <= p
  <2>1. t \in DOMAIN h /\ t # s /\ t \in Nat
    BY FieldsOf
  <2>2. t <= s
    BY <2>1 DEF Tiles, Ending
  <2>3. p < t => p + h[p].length <= t
    BY <2>1, <1>1 DEF Tiles, Spaced
  <2> QED BY <2>1, <2>2, <2>3, <1>1
<1>5. Typed(g)
  BY <1>3, <1>4 DEF Tiles, Typed
<1>6. ASSUME NEW t \in DOMAIN g
      PROVE  /\ g[t].next \in DOMAIN g /\ g[g[t].next].prev = t
             /\ g[t].next # MBR => g[t].next = t + g[t].length
  <2>1. CASE t = p
    BY <2>1, <1>2, <1>3
  <2>2. CASE t # p
    <3>1. /\ h[t].next \in DOMAIN h /\ h[h[t].next].prev = t
          /\ h[t].next # MBR => h[t].next = t + h[t].length
      BY <1>4 DEF Tiles, Forth
    <3>2. h[MBR].prev = s
      BY LastIs
    <3>3. h[t].next # s /\ h[t].next # MBR
      <4>1. h[s].prev = p
        BY DEF p
      <4> QED BY <4>1, <3>1, <3>2, <2>2, <1>4
    <3>4. g[h[t].next].prev = t
      BY <3>1, <3>3
    <3> QED BY <3>1, <3>3, <3>4, <2>2, <1>2
  <2> QED BY <2>1, <2>2
<1>7. ASSUME NEW t \in DOMAIN g PROVE g[t].prev \in DOMAIN g /\ g[g[t].prev].next = t
  <2>1. CASE t = MBR
    BY <2>1, <1>2, <1>3
  <2>2. CASE t # MBR
    <3>1. h[t].prev \in DOMAIN h /\ h[h[t].prev].next = t
      BY <1>4 DEF Tiles, Back
    <3>2. h[t].prev # s /\ h[t].prev # p
      BY <3>1, <2>2, <1>1, <1>4
    <3>3. g[t].prev = h[t].prev
      BY <2>2
    <3>4. g[h[t].prev].next = t
      BY <3>1, <3>2, <1>2
    <3> QED BY <3>1, <3>2, <3>3, <3>4
  <2> QED BY <2>1, <2>2
<1>8. Spaced(g)
  BY <1>4 DEF Tiles, Spaced
<1>9. Ending(g)
  <2>1. \A t \in DOMAIN g : t + g[t].length <= Units
    BY <1>4 DEF Tiles, Ending
  <2>2. ASSUME NEW t \in DOMAIN g, NEW u \in DOMAIN g, g[t].next = MBR PROVE u <= t
    <3>1. t = p
      <4>1. h[t].next = MBR => t = s
        BY <1>4, LastIs
      <4> QED BY <4>1, <2>2, <1>2, <1>4
    <3> QED BY <3>1, <1>4
  <2> QED BY <2>1, <2>2 DEF Ending
<1> QED BY <1>5, <1>6, <1>7, <1>8, <1>9 DEF Tiles, Forth, Back

-----------------------------------------------------------------------------
(***************************************************************************)
(* What the headers say, when some of them become empty blocks or go.      *)
(***************************************************************************)
EmptyHeader(v) == v.type = "free" /\ v.main = MBR /\ v.subs = <<>>

(* Every partition of h but d is in g as it was; what is new in g is empty. *)
Cleared(h, g, d) ==
  /\ \A t \in DOMAIN g : (t \in DOMAIN h /\ SameFields(h[t], g[t])) \/ EmptyHeader(g[t])
  /\ \A t \in DOMAIN h : h[t].type = "pfs" /\ t # d =>
       t \in DOMAIN g /\ SameFields(h[t], g[t])

Harmless(h, sl, d) == (d \in DOMAIN h => h[d].type # "pfs") \/ Doomed(h, sl, d)

(* What the headers say of partitions outlives a block made empty, ... *)
LEMMA ClearedContents ==
  ASSUME NEW h, NEW g, NEW sl, NEW d, Tiles(h), Contents(h), SlotsTrue(h, sl), Cleared(h, g, d),
         Harmless(h, sl, d)
  PROVE  Contents(g)
<1>1. ASSUME NEW m \in DOMAIN g, ~ EmptyHeader(g[m])
      PROVE  m \in DOMAIN h /\ SameFields(h[m], g[m])
  BY <1>1 DEF Cleared
<1>2. ASSUME NEW s \in DOMAIN g, g[s].type # "pfs" PROVE g[s].main = MBR /\ g[s].subs = <<>>
  <2>1. CASE EmptyHeader(g[s])
    BY <2>1 DEF EmptyHeader
  <2>2. CASE ~ EmptyHeader(g[s])
    BY <1>1, <1>2, <2>2 DEF SameFields, Contents
  <2> QED BY <2>1, <2>2
<1>3. ASSUME NEW m \in DOMAIN g, NEW i \in DOMAIN g[m].subs
      PROVE  LET s == g[m].subs[i] IN
             /\ m # MBR /\ IsMain(g, m)
             /\ s \in DOMAIN g /\ g[s].main = m /\ g[s].number = i
  <2>1. m \in DOMAIN h /\ SameFields(h[m], g[m])
    BY <1>1, <1>3 DEF EmptyHeader
  <2> DEFINE s == h[m].subs[i]
  <2>2. i \in DOMAIN h[m].subs /\ g[m].subs[i] = s
    BY <2>1 DEF SameFields
  <2>3. m # MBR /\ IsMain(h, m) /\ s \in DOMAIN h /\ h[s].main = m /\ h[s].number = i
    BY <2>1, <2>2 DEF Contents
  <2>4. s # d \/ h[s].type # "pfs"
    BY <2>1, <2>2, <2>3 DEF Harmless, Doomed
  <2> HIDE DEF s
  <2>5. h[s].type = "pfs"
    BY <2>3 DEF Contents
  <2>6. s \in DOMAIN g /\ SameFields(h[s], g[s])
    BY <2>3, <2>4, <2>5 DEF Cleared
  <2> QED BY <2>1, <2>2, <2>3, <2>6 DEF SameFields, IsMain
<1>4. ASSUME NEW s \in DOMAIN g, NEW t \in DOMAIN g, IsMain(g, s), IsMain(g, t), g[s].id = g[t].id
      PROVE  s = t
  <2>1. ASSUME NEW u \in DOMAIN g, IsMain(g, u)
        PROVE  u \in DOMAIN h /\ IsMain(h, u) /\ h[u].id = g[u].id
    BY <1>1, <2>1 DEF SameFields, IsMain, EmptyHeader
  <2>2. s \in DOMAIN h /\ IsMain(h, s) /\ t \in DOMAIN h /\ IsMain(h, t) /\ h[s].id = h[t].id
    BY <2>1, <1>4
  <2> QED BY <2>2 DEF Contents
<1> QED BY <1>2, <1>3, <1>4 DEF Contents

(* ... so do partitions, ... *)
LEMMA ClearedMain ==
  ASSUME NEW h, NEW g, NEW d, Cleared(h, g, d), NEW s \in DOMAIN g, IsMain(g, s)
  PROVE  s \in DOMAIN h /\ IsMain(h, s) /\ SameFields(h[s], g[s])
<1>1. ~ EmptyHeader(g[s])
  BY DEF IsMain, EmptyHeader
<1>2. s \in DOMAIN h /\ SameFields(h[s], g[s])
  BY <1>1 DEF Cleared
<1> QED BY <1>2 DEF SameFields, IsMain

(* ... open slots, ... *)
LEMMA ClearedSlots ==
  ASSUME NEW h, NEW g, NEW sl, NEW d, SlotsTrue(h, sl), Cleared(h, g, d), Harmless(h, sl, d)
  PROVE  SlotsTrue(g, sl)
<1>1. ASSUME NEW x \in Slots, sl[x] # Closed
      PROVE  /\ sl[x].start \in DOMAIN g /\ IsMain(g, sl[x].start)
             /\ sl[x] = OpenSlot(g, sl[x].start)
  <2> DEFINE s == sl[x].start
  <2>1. s \in DOMAIN h /\ IsMain(h, s) /\ sl[x] = OpenSlot(h, s)
    BY <1>1 DEF SlotsTrue
  <2>2. s # d
    BY <2>1 DEF Harmless, Doomed, IsMain
  <2> HIDE DEF s
  <2>3. s \in DOMAIN g /\ SameFields(h[s], g[s])
    BY <2>1, <2>2 DEF Cleared, IsMain
  <2>4. IsMain(g, s) /\ OpenSlot(g, s) = OpenSlot(h, s)
    BY <2>1, <2>3 DEF SameFields, IsMain, OpenSlot
  <2> QED BY <2>1, <2>3, <2>4 DEF s
<1> QED BY <1>1 DEF SlotsTrue

(* ... the right to delete another partition, ... *)
LEMMA ClearedDoomed ==
  ASSUME NEW h, NEW g, NEW sl, NEW d, Cleared(h, g, d), NEW s, s # d, Doomed(h, sl, s)
  PROVE  Doomed(g, sl, s)
<1>1. s \in DOMAIN g /\ SameFields(h[s], g[s])
  BY DEF Doomed, Cleared
<1>2. g[s].type = "pfs" /\ g[s].subs = <<>>
  BY <1>1 DEF SameFields, Doomed
<1>3. ASSUME NEW m \in DOMAIN g, NEW i \in DOMAIN g[m].subs PROVE g[m].subs[i] # s
  <2>1. CASE EmptyHeader(g[m])
    BY <2>1, <1>3 DEF EmptyHeader
  <2>2. CASE m \in DOMAIN h /\ SameFields(h[m], g[m])
    <3>1. g[m].subs = h[m].subs
      BY <2>2 DEF SameFields
    <3> QED BY <3>1, <2>2 DEF Doomed
  <2> QED BY <2>1, <2>2 DEF Cleared
<1> QED BY <1>1, <1>2, <1>3 DEF Doomed

(* ... the rest of a removal, ... *)
LEMMA ClearedTodo ==
  ASSUME NEW h, NEW g, NEW sl, NEW d, Cleared(h, g, d), NEW todo, AllDoomed(h, sl, todo),
         \A i \in DOMAIN todo : todo[i] # d
  PROVE  AllDoomed(g, sl, todo)
BY ClearedDoomed DEF AllDoomed

(* ... and the right to make a new one. *)
LEMMA ClearedMaking ==
  ASSUME NEW h, NEW g, NEW sl, NEW d, Cleared(h, g, d), NEW p, NEW then, Making(h, sl, p, then)
  PROVE  Making(g, sl, p, then)
<1>1. \A s \in DOMAIN g : IsMain(g, s) => s \in DOMAIN h /\ IsMain(h, s) /\ h[s].id = g[s].id
  BY ClearedMain DEF SameFields
<1>2. (\A s \in DOMAIN h : IsMain(h, s) => h[s].id # p.id)
        => (\A s \in DOMAIN g : IsMain(g, s) => g[s].id # p.id)
  BY <1>1
<1>3. (\A s \in DOMAIN h : IsMain(h, s) => \E k \in 1 .. then.next - 2 : h[s].id = SystemNames[k])
        => (\A s \in DOMAIN g : IsMain(g, s) => \E k \in 1 .. then.next - 2 : g[s].id = SystemNames[k])
  BY <1>1
<1> QED BY <1>2, <1>3 DEF Making

-----------------------------------------------------------------------------
(***************************************************************************)
(* The steps of a new partition.                                           *)
(***************************************************************************)
LEMMA JobKinds ==
  ASSUME NEW h, NEW sl, NEW j, JobTrue(h, sl, j)
  PROVE  /\ j.step = "insert" => Inserting(h, sl, j)
         /\ j.step = "append" => Appending(h, sl, j)
         /\ j.step = "link" => Linking(h, sl, j)
         /\ j.step = "delete" => Deleting(h, sl, j)
         /\ j.step = "strip" => Stripping(h, sl, j)
         /\ j.step = "merge" => Merging(h, sl, j)
<1>1. j = Idle => j.step = "idle"
  BY DEF Idle
<1> QED BY <1>1 DEF JobTrue, Inserting, Appending, Linking, Deleting, Stripping, Merging

(* The block at s is two empty blocks. *)
HalvedAt(s) ==
  /\ hdr[s].length = 2 * (hdr[s].length \div 2) /\ hdr[s].length \div 2 \in Powers
  /\ DOMAIN hdr' = DOMAIN hdr \cup {s + (hdr[s].length \div 2)}
  /\ s + (hdr[s].length \div 2) \notin DOMAIN hdr
  /\ EmptyHeader(hdr'[s + (hdr[s].length \div 2)])
  /\ hdr'[s + (hdr[s].length \div 2)].length = hdr[s].length \div 2
  /\ \A t \in DOMAIN hdr :
       /\ SameFields(hdr[t], hdr'[t])
       /\ hdr'[t].length = IF t = s THEN hdr[s].length \div 2 ELSE hdr[t].length

(* apaInsertPartition halves an empty block: both halves tile it. *)
LEMMA HalveStep ==
  ASSUME TableInv, Halve
  PROVE  TableInv' /\ HalvedAt(job.at)
<1> DEFINE s == job.at
           n == hdr[s].next
           l == hdr[s].length
           half == l \div 2
           m == s + half
           k == With(hdr, m, Empty(half, n, s))
<1>1. Tiles(hdr) /\ Contents(hdr) /\ SlotsTrue(hdr, slots) /\ TailUsed(hdr, job)
  BY DEF TableInv, Table
<1>2. /\ Inserting(hdr, slots, job) /\ job.step = "insert"
      /\ l # job.p.size
      /\ hdr' = Sized(k, s, half, m, n, m)
      /\ UNCHANGED <<slots, job>>
  BY JobKinds DEF TableInv, Table, Halve, Sized
<1>3. /\ s \in DOMAIN hdr /\ hdr[s].type = "free" /\ l \in Powers
      /\ job.p.size \in Powers /\ job.p.size <= l
  BY <1>2 DEF Inserting, Making
<1>4. s # MBR /\ n # MBR /\ MBR = 0
  BY <1>1, <1>2, <1>3 DEF Tiles, Typed, TailUsed, MBR
<1>5. half \in Powers /\ l = 2 * half /\ job.p.size <= half /\ half \in Nat \ {0}
  BY <1>2, <1>3, Halves, PowersAreNat
<1>6. s \in Nat /\ n \in Nat /\ n = s + l /\ n \in DOMAIN hdr /\ m \in Nat /\ s < m /\ m < n
      /\ m # s /\ n # s /\ m # n /\ n = m + half
  <2>1. s \in Nat
    BY <1>1, <1>3, FieldsOf
  <2>2. n \in DOMAIN hdr /\ n = s + l
    BY <1>1, <1>3, <1>4, NextIs
  <2> HIDE DEF s, n, l, half
  <2> QED BY <1>5, <2>1, <2>2 DEF m
<1>7. m \notin DOMAIN hdr
  <2>1. \A t \in DOMAIN hdr : s < t => s + hdr[s].length <= t
    BY <1>1, <1>3 DEF Tiles, Spaced
  <2> QED BY <2>1, <1>6
<1> DEFINE D == DOMAIN hdr
           E == D \cup {m}
           e == Empty(half, n, s)
<1>8. e \in Header /\ EmptyHeader(e) /\ e.next = n /\ e.prev = s /\ e.length = half
      /\ e.type = "free"
  <2>1. half \in Nat \ {0} /\ n \in Nat /\ s \in Nat
    BY <1>5, <1>6
  <2> HIDE DEF half, n, s
  <2> QED BY <2>1, EmptyIs DEF EmptyHeader
<1>9. D = DOMAIN hdr /\ hdr \in [D -> Header] /\ s \in D /\ n \in D /\ s \in E /\ n \in E
  BY <1>1, <1>3, <1>6 DEF Tiles, Typed
<1>10. k \in [E -> Header] /\ k[m] = e /\ \A t \in DOMAIN hdr : k[t] = hdr[t]
  <2> HIDE DEF D, e, m
  <2>1. k \in [E -> Header]
    BY <1>8, <1>9, WithIs DEF e
  <2>2. k[m] = e
    BY DEF With, e
  <2>3. \A t \in D : t # m => k[t] = hdr[t]
    BY <1>9 DEF With
  <2> QED BY <2>1, <2>2, <2>3, <1>7, <1>9
<1> HIDE DEF s, n, l, half, m, k, D, E, e
<1>11. /\ hdr' \in [E -> Header]
       /\ \A t \in E : /\ SameFields(k[t], hdr'[t])
                       /\ hdr'[t].length = IF t = s THEN half ELSE k[t].length
                       /\ hdr'[t].next = IF t = s THEN m ELSE k[t].next
                       /\ hdr'[t].prev = IF t = n THEN m ELSE k[t].prev
  <2>1. k \in [E -> Header]
    BY <1>10
  <2>2. s \in E /\ n \in E
    BY <1>9
  <2>3. hdr' = Sized(k, s, half, m, n, m)
    BY <1>2
  <2>4. half \in Nat \ {0} /\ m \in Nat
    BY <1>5, <1>6
  <2>5. hdr' \in [E -> Header] /\ SizedFields(E, k, hdr', s, half, m, n, m)
    BY ONLY <2>1, <2>2, <2>3, <2>4, Resized
  <2> QED BY <2>5 DEF SizedFields
<1>12. DOMAIN hdr' = DOMAIN hdr \cup {m} /\ hdr' \in [DOMAIN hdr' -> Header]
  BY <1>9, <1>11 DEF E
<1>13. /\ SameFields(e, hdr'[m]) /\ hdr'[m].length = half /\ hdr'[m].next = n
       /\ hdr'[m].prev = s
  BY <1>6, <1>8, <1>10, <1>11 DEF E
<1>14. ASSUME NEW t \in DOMAIN hdr
       PROVE  /\ SameFields(hdr[t], hdr'[t])
              /\ hdr'[t].length = IF t = s THEN half ELSE hdr[t].length
              /\ hdr'[t].next = IF t = s THEN m ELSE hdr[t].next
              /\ hdr'[t].prev = IF t = n THEN m ELSE hdr[t].prev
  BY <1>9, <1>10, <1>11 DEF E
<1>15. Tiles(hdr')
  <2>1. /\ hdr'[s].next = m /\ hdr'[s].prev = hdr[s].prev /\ hdr'[s].length = m - s
        /\ hdr'[n].prev = m
    BY <1>3, <1>5, <1>6, <1>14 DEF m
  <2>2. hdr'[m].length = n - m /\ hdr'[m].type = "free"
    BY <1>5, <1>6, <1>8, <1>13 DEF SameFields
  <2>3. \A t \in DOMAIN hdr : hdr'[t].type = "mbr" <=> hdr[t].type = "mbr"
    BY <1>14 DEF SameFields
  <2>4. \A t \in DOMAIN hdr : t # s =>
           /\ hdr'[t].next = hdr[t].next /\ hdr'[t].length = hdr[t].length
           /\ t # hdr[s].next => hdr'[t].prev = hdr[t].prev
    BY <1>14 DEF n
  <2>5. hdr[s].next = n /\ hdr[s].next # MBR
    BY <1>4 DEF n
  <2>6. s \in DOMAIN hdr \ {MBR}
    BY <1>3, <1>4
  <2>7. m \in Nat /\ s < m /\ m < n /\ hdr'[m].next = n /\ hdr'[m].prev = s
    BY <1>6, <1>13
  <2>8. Tiles(hdr) /\ DOMAIN hdr' = DOMAIN hdr \cup {m} /\ hdr' \in [DOMAIN hdr' -> Header]
    BY <1>1, <1>12
  <2> QED BY ONLY <2>1, <2>2, <2>3, <2>4, <2>5, <2>6, <2>7, <2>8, SplitIs, SMTT(20)
<1>16. Cleared(hdr, hdr', MBR)
  BY <1>8, <1>12, <1>13, <1>14 DEF Cleared, EmptyHeader, SameFields
<1>17. Harmless(hdr, slots, MBR)
  BY <1>1 DEF Harmless, Tiles, Typed
<1>18. Contents(hdr') /\ SlotsTrue(hdr', slots)
  BY <1>1, <1>16, <1>17, ClearedContents, ClearedSlots
<1>19. Inserting(hdr', slots, job)
  <2>1. Making(hdr', slots, job.p, job.then)
    BY <1>2, <1>16, ClearedMaking DEF Inserting
  <2>2. hdr'[s].type = "free" /\ hdr'[s].length = half /\ s \in DOMAIN hdr'
    BY <1>3, <1>12, <1>14 DEF SameFields
  <2> QED BY <1>2, <1>5, <2>1, <2>2 DEF Inserting, s
<1>20. TailUsed(hdr', job)
  <2> SUFFICES ASSUME NEW t \in DOMAIN hdr', hdr'[t].next = MBR PROVE hdr'[t].type # "free"
    BY DEF TailUsed
  <2>1. t # m
    BY <1>13, <1>4
  <2>2. t \in DOMAIN hdr /\ t # s
    BY <2>1, <1>12, <1>14, <1>4, <1>6
  <2>3. hdr[t].next = MBR
    BY <2>2, <1>14
  <2>4. hdr[t].type # "free"
    BY <2>2, <2>3, <1>1, <1>2 DEF TailUsed
  <2> QED BY <2>2, <2>4, <1>14 DEF SameFields
<1>21. HalvedAt(job.at)
  <2>1. EmptyHeader(hdr'[m])
    BY <1>8, <1>13 DEF EmptyHeader, SameFields
  <2>2. l = 2 * half /\ half \in Powers /\ m \notin DOMAIN hdr /\ DOMAIN hdr' = DOMAIN hdr \cup {m}
    BY <1>5, <1>7, <1>12
  <2>3. hdr'[m].length = half
    BY <1>13
  <2>4. \A t \in DOMAIN hdr : /\ SameFields(hdr[t], hdr'[t])
                             /\ hdr'[t].length = IF t = s THEN half ELSE hdr[t].length
    BY <1>14
  <2> QED BY <2>1, <2>2, <2>3, <2>4, Zenon DEF HalvedAt, s, l, half, m
<1>22. TableInv'
  BY <1>2, <1>15, <1>18, <1>19, <1>20 DEF TableInv, Table, JobTrue
<1> QED BY <1>21, <1>22

(* The partition p is at s in g, where h has no partition. *)
NewAt(h, g, s, p) ==
  /\ s \in DOMAIN g /\ s # MBR
  /\ g[s].type = "pfs" /\ g[s].main = p.main /\ g[s].number = p.number
  /\ g[s].id = p.id /\ g[s].subs = <<>> /\ g[s].length = p.size
  /\ s \in DOMAIN h => h[s].type = "free"
  /\ \A t \in DOMAIN h : t # s => t \in DOMAIN g
  /\ \A t \in DOMAIN g : t # s => t \in DOMAIN h /\ SameFields(h[t], g[t])

(* A new partition takes the place of no other, ... *)
LEMMA NewKeeps ==
  ASSUME NEW h, NEW g, NEW s, NEW p, NewAt(h, g, s, p), NEW t \in DOMAIN h, h[t].type = "pfs"
  PROVE  t # s /\ t \in DOMAIN g /\ SameFields(h[t], g[t])
BY DEF NewAt

(* ... has a name no other has, ... *)
LEMMA MakingId ==
  ASSUME NEW h, NEW g, NEW sl, NEW s, NEW p, NEW then, Tiles(h), SlotsTrue(h, sl), Making(h, sl, p, then),
         NewAt(h, g, s, p), IsMain(g, s), NEW t \in DOMAIN g, t # s, IsMain(g, t)
  PROVE  g[t].id # g[s].id
<1>1. t \in DOMAIN h /\ IsMain(h, t) /\ h[t].id = g[t].id /\ g[s].id = p.id /\ p.main = MBR
  BY DEF NewAt, SameFields, IsMain
<1>2. CASE then.for = "open"
  BY <1>1, <1>2 DEF Making
<1>3. CASE then.for = "link"
  <2>1. then.slot \in Slots /\ sl[then.slot] # Closed /\ sl[then.slot].start = MBR
    BY <1>1, <1>3 DEF Making
  <2>2. IsMain(h, MBR) /\ MBR \in DOMAIN h
    BY <2>1 DEF SlotsTrue
  <2> QED BY <2>2 DEF Tiles, Typed, IsMain
<1>4. CASE then.for = "format"
  <2>1. /\ then.next \in 2 .. Len(SystemNames) + 1 /\ p.id = SystemNames[then.next - 1]
        /\ \E i \in 1 .. then.next - 2 : h[t].id = SystemNames[i]
    BY <1>1, <1>4 DEF Making
  <2>2. SystemNames \in Seq(STRING) /\ Len(SystemNames) \in Nat
        /\ DOMAIN SystemNames = 1 .. Len(SystemNames)
    BY TableAssumption
  <2>3. \A i, j \in DOMAIN SystemNames : SystemNames[i] = SystemNames[j] => i = j
    BY TableAssumption
  <2>4. PICK i \in 1 .. then.next - 2 : h[t].id = SystemNames[i]
    BY <2>1
  <2>5. i \in DOMAIN SystemNames /\ then.next - 1 \in DOMAIN SystemNames /\ i # then.next - 1
    BY <2>1, <2>2, <2>4
  <2>6. SystemNames[i] # SystemNames[then.next - 1]
    BY <2>3, <2>5
  <2> QED BY <2>1, <2>4, <2>6, <1>1
<1> QED BY <1>2, <1>3, <1>4 DEF Making

(* ... keeps what the headers say true, ... *)
LEMMA MadeContents ==
  ASSUME NEW h, NEW g, NEW sl, NEW s, NEW p, NEW then, Tiles(h), Contents(h), SlotsTrue(h, sl),
         Making(h, sl, p, then), NewAt(h, g, s, p)
  PROVE  Contents(g)
<1>1. ASSUME NEW m \in DOMAIN g, g[m].type # "pfs" PROVE g[m].main = MBR /\ g[m].subs = <<>>
  <2>1. m # s /\ m \in DOMAIN h /\ SameFields(h[m], g[m])
    BY <1>1 DEF NewAt
  <2> QED BY <2>1, <1>1 DEF Contents, SameFields
<1>2. ASSUME NEW m \in DOMAIN g, NEW i \in DOMAIN g[m].subs
      PROVE  LET t == g[m].subs[i] IN
             /\ m # MBR /\ IsMain(g, m)
             /\ t \in DOMAIN g /\ g[t].main = m /\ g[t].number = i
  <2>1. m \in DOMAIN h /\ SameFields(h[m], g[m])
    BY <1>2 DEF NewAt
  <2> DEFINE t == h[m].subs[i]
  <2>2. i \in DOMAIN h[m].subs /\ g[m].subs[i] = t
    BY <2>1 DEF SameFields
  <2>3. m # MBR /\ IsMain(h, m) /\ t \in DOMAIN h /\ h[t].main = m /\ h[t].number = i
    BY <2>1, <2>2 DEF Contents
  <2> HIDE DEF t
  <2>4. h[t].type = "pfs"
    BY <2>3 DEF Contents
  <2>5. t \in DOMAIN g /\ SameFields(h[t], g[t])
    BY <2>3, <2>4, NewKeeps
  <2> QED BY <2>1, <2>2, <2>3, <2>5 DEF SameFields, IsMain
<1>3. ASSUME NEW m \in DOMAIN g, NEW t \in DOMAIN g, IsMain(g, m), IsMain(g, t), g[m].id = g[t].id
      PROVE  m = t
  <2>1. CASE m = s \/ t = s
    BY <2>1, <1>3, MakingId
  <2>2. CASE m # s /\ t # s
    <3>1. /\ m \in DOMAIN h /\ IsMain(h, m) /\ h[m].id = g[m].id
          /\ t \in DOMAIN h /\ IsMain(h, t) /\ h[t].id = g[t].id
      BY <1>3, <2>2 DEF NewAt, SameFields, IsMain
    <3> QED BY <3>1, <1>3 DEF Contents
  <2> QED BY <2>1, <2>2
<1> QED BY <1>1, <1>2, <1>3 DEF Contents

(* ... and no open slot is the new one. *)
LEMMA MadeSlots ==
  ASSUME NEW h, NEW g, NEW sl, NEW s, NEW p, SlotsTrue(h, sl), NewAt(h, g, s, p)
  PROVE  SlotsTrue(g, sl) /\ \A x \in Slots : sl[x].start # s
<1>1. ASSUME NEW x \in Slots, sl[x] # Closed
      PROVE  /\ sl[x].start \in DOMAIN g /\ IsMain(g, sl[x].start) /\ sl[x].start # s
             /\ sl[x] = OpenSlot(g, sl[x].start)
  <2> DEFINE t == sl[x].start
  <2>1. t \in DOMAIN h /\ IsMain(h, t) /\ sl[x] = OpenSlot(h, t)
    BY <1>1 DEF SlotsTrue
  <2> HIDE DEF t
  <2>2. t # s /\ t \in DOMAIN g /\ SameFields(h[t], g[t])
    BY <2>1, NewKeeps DEF IsMain
  <2>3. IsMain(g, t) /\ OpenSlot(g, t) = OpenSlot(h, t)
    BY <2>1, <2>2 DEF SameFields, IsMain, OpenSlot
  <2> QED BY <2>1, <2>2, <2>3 DEF t
<1>2. \A x \in Slots : sl[x] = Closed => sl[x].start # s
  BY DEF Closed, NewAt
<1> QED BY <1>1, <1>2 DEF SlotsTrue

(* An open slot that is new. *)
LEMMA OpenedSlots ==
  ASSUME NEW g, NEW sl, NEW x \in Slots, NEW s, SlotsTrue(g, sl), Tiles(g), s \in DOMAIN g, IsMain(g, s),
         \A y \in Slots : sl[y].start # s
  PROVE  SlotsTrue(g, [sl EXCEPT ![x] = OpenSlot(g, s)])
<1> DEFINE new == OpenSlot(g, s)
           to == [sl EXCEPT ![x] = new]
<1>1. s \in Nat /\ g[s].id \in Ids /\ g[s].subs \in Seq(Nat)
  BY FieldsOf
<1>2. new \in [start : Nat, id : Ids, subs : Seq(Nat)] /\ new.start = s
  BY <1>1 DEF OpenSlot
<1>3. new = OpenSlot(g, s)
  OBVIOUS
<1> HIDE DEF new
<1>4. /\ to \in [Slots -> [start : Nat, id : Ids, subs : Seq(Nat)]]
      /\ to[x] = new /\ \A y \in Slots : y # x => to[y] = sl[y]
  BY <1>2 DEF SlotsTrue
<1>5. to = [sl EXCEPT ![x] = OpenSlot(g, s)]
  BY <1>3
<1> HIDE DEF to
<1>6. ASSUME NEW y \in Slots, to[y] # Closed
      PROVE  to[y].start \in DOMAIN g /\ IsMain(g, to[y].start) /\ to[y] = OpenSlot(g, to[y].start)
  <2>1. CASE y = x
    BY <2>1, <1>2, <1>3, <1>4
  <2>2. CASE y # x
    <3>1. to[y] = sl[y]
      BY <2>2, <1>4
    <3> QED BY <3>1, <1>6 DEF SlotsTrue
  <2> QED BY <2>1, <2>2
<1>7. ASSUME NEW y \in Slots, NEW z \in Slots, to[y] # Closed, to[y].start = to[z].start PROVE y = z
  <2>1. CASE y = x \/ z = x
    BY <2>1, <1>2, <1>4, <1>7
  <2>2. CASE y # x /\ z # x
    <3>1. to[y] = sl[y] /\ to[z] = sl[z]
      BY <2>2, <1>4
    <3> QED BY <3>1, <1>7 DEF SlotsTrue
  <2> QED BY <2>1, <2>2
<1> QED BY <1>4, <1>5, <1>6, <1>7 DEF SlotsTrue

(* The sizes hddFormat tries are powers of two. *)
LEMMA NextSize ==
  ASSUME NEW size \in Powers
  PROVE  Min({2 * size, PartMax}) \in Powers
<1>1. PartMax \in Powers
  BY TableAssumption
<1>2. size \in Nat /\ PartMax \in Nat
  BY <1>1, PowersAreNat
<1>3. Min({2 * size, PartMax}) \in {2 * size, PartMax} /\ Min({2 * size, PartMax}) <= PartMax
  <2>1. {2 * size, PartMax} \in SUBSET Nat /\ PartMax \in {2 * size, PartMax}
    BY <1>2
  <2> QED BY <2>1, MinIs
<1>4. 2 * size <= PartMax => 2 * size \in Powers
  BY <1>1 DEF Powers
<1> QED BY <1>1, <1>3, <1>4

(* The next system partition, if it has room. *)
LEMMA FormatGoesOn ==
  ASSUME NEW g, NEW sl, Tiles(g), NEW i \in 1 .. Len(SystemNames) + 1, NEW size \in Powers, NEW end,
         \A t \in DOMAIN g : g[t].next = MBR => end = t + g[t].length,
         \A t \in DOMAIN g : IsMain(g, t) => \E k \in 1 .. i - 1 : g[t].id = SystemNames[k]
  PROVE  FormatJob(i, size, end) = Idle \/ Appending(g, sl, FormatJob(i, size, end))
<1>1. SystemNames \in Seq(STRING) /\ Len(SystemNames) \in Nat /\ DOMAIN SystemNames = 1 .. Len(SystemNames)
  BY TableAssumption
<1>2. CASE i > Len(SystemNames) \/ ~RoomBehind(end, size)
  BY <1>2 DEF FormatJob
<1>3. CASE ~(i > Len(SystemNames) \/ ~RoomBehind(end, size))
  <2> DEFINE p == [size |-> size, id |-> SystemNames[i], main |-> MBR, number |-> 0]
             then == [for |-> "format", next |-> i + 1]
             j == [step |-> "append", then |-> then, p |-> p]
  <2>1. FormatJob(i, size, end) = j
    BY <1>3 DEF FormatJob
  <2>2. i \in DOMAIN SystemNames /\ i \in Nat /\ i + 1 \in 2 .. Len(SystemNames) + 1
        /\ (i + 1) - 1 = i /\ (i + 1) - 2 = i - 1
    BY <1>1, <1>3
  <2>3. SystemNames[i] \in Ids
    BY <2>2 DEF Ids, ToSet
  <2>4. p \in [size : Powers, id : Ids, main : Nat, number : Nat]
    BY <2>3 DEF MBR
  <2>5. Making(g, sl, p, then)
    BY <2>2, <2>4 DEF Making
  <2>6. \A t \in DOMAIN g : g[t].next = MBR => RoomBehind(t + g[t].length, size)
    BY <1>3
  <2> HIDE DEF p, then
  <2>7. p.size = size
    BY DEF p
  <2> QED BY <2>1, <2>5, <2>6, <2>7 DEF Appending
<1> QED BY <1>2, <1>3

(* What follows a partition that was made, for every caller. *)
LEMMA MadeTable ==
  ASSUME Tiles(hdr), Contents(hdr), SlotsTrue(hdr, slots), NEW s, NEW p, NEW then,
         Making(hdr, slots, p, then), NEW g, Tiles(g), NewAt(hdr, g, s, p), Made(g, s, then),
         \A t \in DOMAIN g : g[t].next = MBR =>
           g[t].type # "free" /\ (then.for = "format" => t = s)
  PROVE  TableInv'
<1>1. hdr' = g /\ Contents(g)
  BY MadeContents DEF Made
<1>2. SlotsTrue(g, slots) /\ \A x \in Slots : slots[x].start # s
  BY MadeSlots
<1>3. s \in DOMAIN g /\ g[s].type = "pfs" /\ s \in Nat /\ g[s].length = p.size /\ p.size \in Powers
  BY FieldsOf DEF NewAt, Making
<1>4. \A j : j.step # "insert" => TailUsed(g, j)
  BY DEF TailUsed
<1>5. CASE then.for = "open"
  <2>1. /\ then.slot \in Slots /\ p.main = MBR
        /\ slots' = [slots EXCEPT ![then.slot] = OpenSlot(g, s)] /\ job' = Idle
    BY <1>5 DEF Making, Made
  <2>2. IsMain(g, s)
    BY <2>1 DEF NewAt, IsMain
  <2>3. SlotsTrue(g, slots')
    BY <2>1, <2>2, <1>2, <1>3, OpenedSlots
  <2>4. TailUsed(g, Idle)
    BY DEF TailUsed
  <2> QED BY <2>1, <2>3, <2>4, <1>1 DEF TableInv, Table, JobTrue
<1>6. CASE then.for = "link"
  <2>1. /\ then.slot \in Slots /\ slots[then.slot] # Closed
        /\ p.main = slots[then.slot].start /\ p.number = Len(slots[then.slot].subs) + 1
        /\ slots' = slots /\ job' = [step |-> "link", slot |-> then.slot, sub |-> s]
    BY <1>6 DEF Making, Made
  <2>2. Linking(g, slots, [step |-> "link", slot |-> then.slot, sub |-> s])
    BY <2>1, <1>3 DEF Linking, NewAt
  <2>3. TailUsed(g, job')
    BY DEF TailUsed
  <2> QED BY <2>1, <2>2, <2>3, <1>1, <1>2 DEF TableInv, Table, JobTrue
<1>7. CASE then.for = "format"
  <2> DEFINE i == then.next
             size == Min({2 * p.size, PartMax})
  <2>1. /\ i \in 2 .. Len(SystemNames) + 1 /\ p.id = SystemNames[i - 1] /\ p.main = MBR
        /\ \A t \in DOMAIN hdr : IsMain(hdr, t) => \E k \in 1 .. i - 2 : hdr[t].id = SystemNames[k]
        /\ slots' = slots
    BY <1>7 DEF Making, Made
  <2>2. job' = FormatJob(i, size, s + p.size)
    BY <1>7, <1>3 DEF Made
  <2>3. size \in Powers
    BY <1>3, NextSize
  <2>4. \A t \in DOMAIN g : g[t].next = MBR => s + p.size = t + g[t].length
    BY <1>3, <1>7
  <2>5. Len(SystemNames) \in Nat
    BY TableAssumption
  <2> HIDE DEF i, size
  <2>6. ASSUME NEW t \in DOMAIN g, IsMain(g, t) PROVE \E k \in 1 .. i - 1 : g[t].id = SystemNames[k]
    <3>1. CASE t = s
      BY <3>1, <2>1, <2>5 DEF NewAt
    <3>2. CASE t # s
      <4>1. t \in DOMAIN hdr /\ IsMain(hdr, t) /\ hdr[t].id = g[t].id
        BY <2>6, <3>2 DEF NewAt, SameFields, IsMain
      <4>2. PICK k \in 1 .. i - 2 : hdr[t].id = SystemNames[k]
        BY <4>1, <2>1
      <4> QED BY <4>1, <4>2, <2>1, <2>5
    <3> QED BY <3>1, <3>2
  <2>7. i \in 1 .. Len(SystemNames) + 1
    BY <2>1, <2>5
  <2>8. job' = Idle \/ Appending(g, slots, job')
    BY <2>2, <2>3, <2>4, <2>6, <2>7, FormatGoesOn
  <2>9. TailUsed(g, job')
    BY DEF TailUsed
  <2> QED BY <2>1, <2>8, <2>9, <1>1, <1>2 DEF TableInv, Table, JobTrue
<1> QED BY <1>5, <1>6, <1>7 DEF Making

(* No header gets longer or shorter. *)
SameLengths == \A t \in DOMAIN hdr : hdr'[t].length = hdr[t].length

(* apaInsertPartition takes the block that fits. *)
LEMMA FillStep ==
  ASSUME TableInv, Fill
  PROVE  TableInv' /\ NewAt(hdr, hdr', job.at, job.p) /\ SameLengths
<1> DEFINE s == job.at
           p == job.p
           v == apaFillHeader(p, hdr[s].next, hdr[s].prev)
           g == With(hdr, s, v)
           D == DOMAIN hdr
<1>1. Tiles(hdr) /\ Contents(hdr) /\ SlotsTrue(hdr, slots) /\ TailUsed(hdr, job)
  BY DEF TableInv, Table
<1>2. Inserting(hdr, slots, job) /\ job.step = "insert" /\ hdr[s].length = p.size /\ Made(g, s, job.then)
  BY JobKinds DEF TableInv, Table, Fill
<1>3. /\ s \in D /\ hdr[s].type = "free" /\ Making(hdr, slots, p, job.then)
      /\ job.then.for # "format"
  BY <1>2 DEF Inserting
<1>4. s # MBR
  BY <1>1, <1>3 DEF Tiles, Typed
<1>5. /\ v.next = hdr[s].next /\ v.prev = hdr[s].prev /\ v.length = p.size /\ v.type = "pfs"
      /\ v.main = p.main /\ v.number = p.number /\ v.id = p.id /\ v.subs = <<>>
  BY DEF apaFillHeader
<1>6. v \in Header
  <2>1. hdr[s].next \in Nat /\ hdr[s].prev \in Nat
    BY <1>1, <1>3, FieldsOf
  <2>2. p.size \in Nat \ {0} /\ p.id \in Ids /\ p.main \in Nat /\ p.number \in Nat
    BY <1>3, PowersAreNat DEF Making
  <2> HIDE DEF s, p
  <2> QED BY <2>1, <2>2 DEF Header, apaFillHeader
<1>7. D = DOMAIN hdr /\ hdr \in [D -> Header]
  BY <1>1 DEF Tiles, Typed
<1> HIDE DEF v, D
<1>8. g \in [D -> Header]
  <2>1. g \in [D \cup {s} -> Header]
    BY <1>6, <1>7, WithIs
  <2> QED BY <2>1, <1>3
<1>9. g[s] = v /\ \A t \in D : t # s => g[t] = hdr[t]
  BY <1>3, <1>7 DEF With
<1> HIDE DEF g
<1>10. DOMAIN g = DOMAIN hdr /\ g \in [DOMAIN g -> Header]
  BY <1>7, <1>8
<1>11. Tiles(g)
  <2>1. \A t \in DOMAIN hdr :
       /\ g[t].next = hdr[t].next /\ g[t].prev = hdr[t].prev /\ g[t].length = hdr[t].length
       /\ g[t].type = "mbr" <=> hdr[t].type = "mbr"
    BY <1>2, <1>3, <1>5, <1>7, <1>9
  <2> QED BY <2>1, <1>1, <1>10, TilesSame DEF SameLinks
<1>12. NewAt(hdr, g, s, p)
  BY <1>3, <1>4, <1>5, <1>7, <1>9, <1>10 DEF NewAt, SameFields
<1>13. \A t \in DOMAIN g : g[t].next = MBR => g[t].type # "free"
  BY <1>1, <1>2, <1>5, <1>7, <1>9, <1>10 DEF TailUsed
<1>14. hdr' = g
  BY <1>2 DEF Made
<1>15. NewAt(hdr, hdr', s, p) /\ SameLengths
  BY <1>2, <1>5, <1>7, <1>9, <1>12, <1>14 DEF SameLengths
<1>16. TableInv'
  BY <1>1, <1>2, <1>3, <1>11, <1>12, <1>13, MadeTable
<1> QED BY <1>15, <1>16

(* Where the next partition goes, there is room for it. *)
LEMMA RoomAtTheEnd ==
  ASSUME Tiles(hdr), Appending(hdr, slots, job)
  PROVE  /\ PartEnd = hdr[MBR].prev + hdr[hdr[MBR].prev].length /\ LastHeader = hdr[MBR].prev
         /\ PartEnd \in Nat /\ LastHeader \in DOMAIN hdr /\ LastHeader \in Nat
         /\ RoomBehind(PartEnd, job.p.size)
         /\ job.p.size \in Powers /\ job.p.size \in Nat \ {0}
         /\ PartEnd + job.p.size <= Units
<1> DEFINE L == hdr[MBR].prev
<1>1. LastHeader = L /\ PartEnd = L + hdr[L].length /\ L \in DOMAIN hdr /\ hdr[L].next = MBR
  BY LastHeaderIs, LastIs
<1>2. L \in Nat /\ hdr[L].length \in Nat /\ Units \in Nat
  BY <1>1, FieldsOf
<1>3. RoomBehind(PartEnd, job.p.size)
  BY <1>1 DEF Appending
<1>4. job.p.size \in Powers
  BY DEF Appending, Making
<1>5. job.p.size \in Nat \ {0}
  BY <1>4, PowersAreNat
<1> HIDE DEF L
<1>6. PartEnd \in Nat
  BY <1>1, <1>2
<1>7. Padding(PartEnd, job.p.size) \in Nat
  BY <1>5, <1>6 DEF Padding
<1>8. PartEnd + job.p.size <= Units
  BY <1>2, <1>3, <1>5, <1>6, <1>7 DEF RoomBehind
<1> QED BY <1>1, <1>2, <1>3, <1>4, <1>5, <1>6, <1>8 DEF L

(* An empty block of the largest size the alignment allows is the last one. *)
PaddedBy(t) ==
  /\ t \in PadSizes(job.p.size) /\ \A u \in PadSizes(job.p.size) : u <= t
  /\ PartEnd \in Nat /\ PartEnd \notin DOMAIN hdr /\ DOMAIN hdr' = DOMAIN hdr \cup {PartEnd}
  /\ EmptyHeader(hdr'[PartEnd]) /\ hdr'[PartEnd].length = t /\ hdr'[MBR].prev = PartEnd
  /\ \A u \in DOMAIN hdr : SameFields(hdr[u], hdr'[u]) /\ hdr'[u].length = hdr[u].length

(* hddAddPartitionHere puts padding behind the last partition. *)
LEMMA PadStep ==
  ASSUME TableInv, Pad
  PROVE  TableInv' /\ \E t \in Powers : PaddedBy(t)
<1> DEFINE size == job.p.size
           t == Max(PadSizes(size))
           L == hdr[MBR].prev
           e == PartEnd
           v == Empty(t, MBR, L)
<1>1. Tiles(hdr) /\ Contents(hdr) /\ SlotsTrue(hdr, slots)
  BY DEF TableInv, Table
<1>2. Appending(hdr, slots, job) /\ job.step = "append" /\ e % size # 0 /\ PadSizes(size) # {}
      /\ UNCHANGED <<slots, job>> /\ hdr' = Behind(hdr, LastHeader, e, Empty(t, MBR, LastHeader))
  BY JobKinds DEF TableInv, Table, Pad
<1>3. /\ LastHeader = L /\ e = L + hdr[L].length /\ e \in Nat /\ L \in Nat
      /\ RoomBehind(e, size) /\ size \in Powers /\ size \in Nat
  BY <1>1, <1>2, RoomAtTheEnd
<1>4. /\ t \in Powers /\ t < size /\ e % t = 0 /\ t \in Nat \ {0}
      /\ t \in PadSizes(size) /\ \A u \in PadSizes(size) : u <= t
  <2>1. PadSizes(size) \in SUBSET Nat /\ \A x \in PadSizes(size) : x <= size
    <3>1. \A x \in PadSizes(size) : x \in Nat /\ x < size
      BY PowersAreNat DEF PadSizes
    <3> HIDE DEF size, t, e
    <3> QED BY <3>1, <1>3
  <2>2. t \in PadSizes(size) /\ \A u \in PadSizes(size) : t >= u
    BY <2>1, <1>2, <1>3, MaxIs
  <2>3. t \in Powers /\ t < size /\ e % t = 0 /\ t \in Nat \ {0}
    BY <2>2, PowersAreNat DEF PadSizes
  <2>4. \A u \in PadSizes(size) : u \in Nat
    BY <2>1
  <2> HIDE DEF t, e
  <2>5. \A u \in PadSizes(size) : u <= t
    BY <2>2, <2>3, <2>4
  <2> QED BY <2>2, <2>3, <2>5
<1>5. RoomBehind(e + t, size) /\ e + t <= Units
  <2>1. RoomBehind(e + t, size)
    BY <1>2, <1>3, <1>4, PadRoom
  <2>2. Padding(e + t, size) \in Nat
    BY <1>3, <1>4, PowersAreNat DEF Padding
  <2>3. Units \in Nat
    BY TableAssumption
  <2> QED BY <2>1, <2>2, <2>3, <1>3, <1>4 DEF RoomBehind
<1>6. /\ v \in Header /\ EmptyHeader(v) /\ v.next = MBR /\ v.prev = L /\ v.length = t /\ v.type = "free"
  <2>1. t \in Nat \ {0} /\ L \in Nat /\ MBR \in Nat
    BY <1>3, <1>4 DEF MBR
  <2> HIDE DEF t, L
  <2> QED BY <2>1, EmptyIs DEF EmptyHeader
<1>7. hdr' = Behind(hdr, L, e, v)
  BY <1>2, <1>3
<1>8. /\ DOMAIN hdr' = DOMAIN hdr \cup {e} /\ Tiles(hdr') /\ hdr'[MBR].prev = e /\ hdr'[e] = v
      /\ e \notin DOMAIN hdr
      /\ \A x \in DOMAIN hdr : SameFields(hdr[x], hdr'[x]) /\ hdr'[x].length = hdr[x].length
  <2> HIDE DEF v, t, e
  <2>1. e + v.length <= Units /\ v.type # "mbr" /\ e = hdr[MBR].prev + hdr[hdr[MBR].prev].length
        /\ v.prev = hdr[MBR].prev /\ hdr' = Behind(hdr, hdr[MBR].prev, e, v)
    BY <1>3, <1>5, <1>6, <1>7
  <2>2. Tiles(hdr) /\ v \in Header /\ v.next = MBR
    BY <1>1, <1>6
  <2> DEFINE g == Behind(hdr, hdr[MBR].prev, e, v)
  <2>3. hdr' = g /\ g = Behind(hdr, hdr[MBR].prev, e, v)
    BY <2>1
  <2> HIDE DEF g, L
  <2>4. /\ DOMAIN g = DOMAIN hdr \cup {e} /\ Tiles(g) /\ g[MBR].prev = e /\ g[e] = v
        /\ e \notin DOMAIN hdr
        /\ \A x \in DOMAIN hdr : SameFields(hdr[x], g[x]) /\ g[x].length = hdr[x].length
    BY <2>1, <2>2, <2>3, BehindIs
  <2> QED BY <2>3, <2>4
<1> HIDE DEF v, t, L
<1>9. Cleared(hdr, hdr', MBR)
  BY <1>6, <1>8 DEF Cleared
<1>10. Harmless(hdr, slots, MBR)
  BY <1>1 DEF Harmless, Tiles, Typed
<1>11. Contents(hdr') /\ SlotsTrue(hdr', slots)
  BY <1>1, <1>9, <1>10, ClearedContents, ClearedSlots
<1>12. Appending(hdr', slots, job)
  <2>1. Making(hdr', slots, job.p, job.then)
    BY <1>2, <1>9, ClearedMaking DEF Appending
  <2>2. ASSUME NEW x \in DOMAIN hdr', hdr'[x].next = MBR PROVE RoomBehind(x + hdr'[x].length, size)
    <3>1. x = e
      BY <2>2, <1>8, LastIs
    <3> QED BY <3>1, <1>5, <1>6, <1>8
  <2> QED BY <2>1, <2>2, <1>2 DEF Appending
<1>13. TailUsed(hdr', job)
  BY <1>2 DEF TailUsed
<1>14. t \in Powers /\ PaddedBy(t)
  BY <1>3, <1>4, <1>6, <1>8 DEF PaddedBy
<1>15. TableInv'
  BY <1>2, <1>8, <1>11, <1>12, <1>13 DEF TableInv, Table, JobTrue
<1> QED BY <1>14, <1>15

(* hddAddPartitionHere puts the partition behind the padding. *)
LEMMA PlaceStep ==
  ASSUME TableInv, Place
  PROVE  /\ TableInv' /\ NewAt(hdr, hdr', PartEnd, job.p) /\ SameLengths
         /\ PartEnd \notin DOMAIN hdr /\ PartEnd \in Nat /\ hdr'[MBR].prev = PartEnd
<1> DEFINE p == job.p
           L == hdr[MBR].prev
           e == PartEnd
           v == apaFillHeader(p, MBR, L)
           g == Behind(hdr, L, e, v)
<1>1. Tiles(hdr) /\ Contents(hdr) /\ SlotsTrue(hdr, slots)
  BY DEF TableInv, Table
<1>2. Appending(hdr, slots, job) /\ job.step = "append"
      /\ Made(Behind(hdr, LastHeader, e, apaFillHeader(p, MBR, LastHeader)), e, job.then)
  BY JobKinds DEF TableInv, Table, Place
<1>3. /\ LastHeader = L /\ e = L + hdr[L].length /\ e \in Nat /\ L \in Nat
      /\ p.size \in Powers /\ p.size \in Nat \ {0} /\ e + p.size <= Units
  BY <1>1, <1>2, RoomAtTheEnd
<1>4. Making(hdr, slots, p, job.then)
  BY <1>2 DEF Appending
<1>5. /\ v.next = MBR /\ v.prev = L /\ v.length = p.size /\ v.type = "pfs"
      /\ v.main = p.main /\ v.number = p.number /\ v.id = p.id /\ v.subs = <<>>
  BY DEF apaFillHeader
<1>6. v \in Header
  <2>1. p.id \in Ids /\ p.main \in Nat /\ p.number \in Nat
    BY <1>4 DEF Making
  <2> HIDE DEF L, p
  <2> QED BY <2>1, <1>3 DEF Header, apaFillHeader, MBR
<1>7. Made(g, e, job.then)
  BY <1>2, <1>3
<1>8. /\ e \notin DOMAIN hdr /\ DOMAIN g = DOMAIN hdr \cup {e} /\ Tiles(g)
      /\ g[MBR].prev = e /\ g[e] = v
      /\ \A x \in DOMAIN hdr : SameFields(hdr[x], g[x]) /\ g[x].length = hdr[x].length
  <2> HIDE DEF v, e
  <2>1. e + v.length <= Units /\ v.type # "mbr" /\ e = hdr[MBR].prev + hdr[hdr[MBR].prev].length
        /\ v.prev = hdr[MBR].prev /\ g = Behind(hdr, hdr[MBR].prev, e, v)
    BY <1>3, <1>5
  <2> HIDE DEF g, L
  <2>2. Tiles(hdr) /\ v \in Header /\ v.next = MBR
    BY <1>1, <1>5, <1>6
  <2> QED BY <2>1, <2>2, BehindIs
<1> HIDE DEF v, L, g
<1>9. NewAt(hdr, g, e, p)
  <2>1. MBR \in DOMAIN hdr
    BY <1>1 DEF Tiles, Typed
  <2> QED BY <2>1, <1>5, <1>8 DEF NewAt
<1>10. ASSUME NEW x \in DOMAIN g, g[x].next = MBR PROVE g[x].type # "free" /\ x = e
  <2>1. x = e
    BY <1>10, <1>8, LastIs
  <2> QED BY <2>1, <1>5, <1>8
<1>11. hdr' = g
  BY <1>7 DEF Made
<1>12. SameLengths
  BY <1>8, <1>11 DEF SameLengths
<1>13. TableInv'
  BY <1>1, <1>4, <1>7, <1>8, <1>9, <1>10, MadeTable
<1> QED BY <1>3, <1>8, <1>9, <1>11, <1>12, <1>13

(* A list of sub-partitions replaced: the chain stays as it is. *)
SetSubs(h, m, q) == [h EXCEPT ![m].subs = q]

(* The list of sub-partitions of one header set. *)
LEMMA SubsSet ==
  ASSUME NEW D, NEW h \in [D -> Header], NEW m \in D, NEW q \in Seq(Nat)
  PROVE  /\ SetSubs(h, m, q) \in [D -> Header]
         /\ \A t \in D : LET w == SetSubs(h, m, q)[t] IN
              /\ w.next = h[t].next /\ w.prev = h[t].prev /\ w.length = h[t].length
              /\ w.type = h[t].type /\ w.main = h[t].main /\ w.number = h[t].number
              /\ w.id = h[t].id
         /\ SetSubs(h, m, q)[m].subs = q
         /\ \A t \in D : t # m => SetSubs(h, m, q)[t] = h[t]
<1> DEFINE u == [h[m] EXCEPT !.subs = q]
           k == SetSubs(h, m, q)
<1>1. /\ u \in Header /\ u.subs = q /\ u.next = h[m].next /\ u.prev = h[m].prev
      /\ u.length = h[m].length /\ u.type = h[m].type /\ u.main = h[m].main
      /\ u.number = h[m].number /\ u.id = h[m].id
  <2>1. h[m] \in Header
    OBVIOUS
  <2> QED BY <2>1 DEF Header
<1>2. k = [h EXCEPT ![m] = u]
  BY DEF SetSubs
<1> HIDE DEF k, u
<1>3. k \in [D -> Header] /\ k[m] = u /\ \A t \in D : t # m => k[t] = h[t]
  BY <1>1, <1>2
<1>4. \A t \in D :
        /\ k[t].next = h[t].next /\ k[t].prev = h[t].prev /\ k[t].length = h[t].length
        /\ k[t].type = h[t].type /\ k[t].main = h[t].main /\ k[t].number = h[t].number
        /\ k[t].id = h[t].id
  BY <1>1, <1>3
<1> QED BY <1>1, <1>3, <1>4 DEF k

(* g is h with another list of sub-partitions for m. *)
Relisted(h, g, m, q) ==
  /\ DOMAIN g = DOMAIN h /\ m \in DOMAIN h /\ g[m].subs = q
  /\ \A t \in DOMAIN h : t # m => g[t] = h[t]
  /\ \A t \in DOMAIN h :
       /\ g[t].type = h[t].type /\ g[t].main = h[t].main /\ g[t].number = h[t].number
       /\ g[t].id = h[t].id /\ g[t].next = h[t].next /\ g[t].length = h[t].length

(* A partition whose list changed, in the table and in its slot: the links, ... *)
LEMMA RelistedIs ==
  ASSUME NEW h, Tiles(h), NEW m \in DOMAIN h, NEW q \in Seq(Nat), NEW g, g = SetSubs(h, m, q)
  PROVE  Tiles(g) /\ Relisted(h, g, m, q)
<1> DEFINE D == DOMAIN h
<1>1. D = DOMAIN h /\ h \in [D -> Header]
  BY DEF Tiles, Typed
<1> HIDE DEF D
<1>2. /\ g \in [D -> Header]
      /\ \A t \in D :
              /\ g[t].next = h[t].next /\ g[t].prev = h[t].prev /\ g[t].length = h[t].length
              /\ g[t].type = h[t].type /\ g[t].main = h[t].main /\ g[t].number = h[t].number
              /\ g[t].id = h[t].id
      /\ g[m].subs = q
      /\ \A t \in D : t # m => g[t] = h[t]
  BY <1>1, SubsSet
<1>3. DOMAIN g = DOMAIN h /\ g \in [DOMAIN g -> Header]
  BY <1>1, <1>2
<1>4. SameLinks(h, g)
  BY <1>1, <1>2, <1>3 DEF SameLinks
<1> QED BY <1>1, <1>2, <1>3, <1>4, TilesSame DEF Relisted

(* ... the headers, ... *)
LEMMA RelistedContents ==
  ASSUME NEW h, NEW g, NEW m, NEW q, Contents(h), Relisted(h, g, m, q), m # MBR, IsMain(h, m),
         \A i \in DOMAIN q :
           q[i] \in DOMAIN h /\ h[q[i]].main = m /\ h[q[i]].number = i
  PROVE  Contents(g)
<1>1. ASSUME NEW s \in DOMAIN g, g[s].type # "pfs" PROVE g[s].main = MBR /\ g[s].subs = <<>>
  <2>1. s # m /\ s \in DOMAIN h /\ g[s] = h[s]
    BY <1>1 DEF Relisted, IsMain
  <2> QED BY <2>1, <1>1 DEF Contents
<1>2. ASSUME NEW u \in DOMAIN g, NEW i \in DOMAIN g[u].subs
      PROVE  LET s == g[u].subs[i] IN
             /\ u # MBR /\ IsMain(g, u)
             /\ s \in DOMAIN g /\ g[s].main = u /\ g[s].number = i
  <2> DEFINE s == g[u].subs[i]
  <2>1. u \in DOMAIN h
    BY DEF Relisted
  <2>2. u # MBR /\ IsMain(h, u) /\ s \in DOMAIN h /\ h[s].main = u /\ h[s].number = i
    <3>1. CASE u = m
      <4>1. g[u].subs = q
        BY <3>1 DEF Relisted
      <4> QED BY <4>1, <3>1
    <3>2. CASE u # m
      <4>1. g[u] = h[u]
        BY <2>1, <3>2 DEF Relisted
      <4> QED BY <4>1, <2>1 DEF Contents
    <3> QED BY <3>1, <3>2
  <2> HIDE DEF s
  <2>3. /\ u \in DOMAIN g /\ s \in DOMAIN g /\ g[s].main = h[s].main /\ g[s].number = h[s].number
        /\ g[u].main = h[u].main /\ g[u].type = h[u].type
    BY <2>1, <2>2 DEF Relisted
  <2> QED BY <2>2, <2>3 DEF IsMain, s
<1>3. ASSUME NEW s \in DOMAIN g, NEW t \in DOMAIN g, IsMain(g, s), IsMain(g, t), g[s].id = g[t].id
      PROVE  s = t
  BY <1>3 DEF Relisted, Contents, IsMain
<1> QED BY <1>1, <1>2, <1>3 DEF Contents

(* The slot that has m open, if there is one, remembers the new list. *)
SlotsRelisted(sl, to, m, q) ==
  /\ to \in [Slots -> [start : Nat, id : Ids, subs : Seq(Nat)]]
  /\ \A x \in Slots : sl[x].start # m => to[x] = sl[x]
  /\ \A x \in Slots : sl[x].start = m =>
       to[x].start = m /\ to[x].id = sl[x].id /\ to[x].subs = q

SameStarts(sl, to) == \A x \in Slots : to[x].start = sl[x].start

(* ... the slots ... *)
LEMMA RelistedSlots ==
  ASSUME NEW h, NEW g, NEW m, NEW q \in Seq(Nat), NEW sl, NEW to, SlotsTrue(h, sl), Relisted(h, g, m, q),
         m # MBR, SlotsRelisted(sl, to, m, q)
  PROVE  SlotsTrue(g, to) /\ SameStarts(sl, to)
<1> USE DEF SlotsRelisted
<1>1. \A x \in Slots : to[x].start = sl[x].start
  OBVIOUS
<1>2. ASSUME NEW x \in Slots, to[x] # Closed
      PROVE  /\ sl[x] # Closed /\ to[x].start \in DOMAIN g /\ IsMain(g, to[x].start)
             /\ to[x] = OpenSlot(g, to[x].start)
  <2> DEFINE s == sl[x].start
  <2>1. sl[x] # Closed
    BY <1>2 DEF Closed
  <2>2. s \in DOMAIN h /\ IsMain(h, s) /\ sl[x] = OpenSlot(h, s)
    BY <2>1 DEF SlotsTrue
  <2>3. to[x].start = s /\ s \in DOMAIN g /\ IsMain(g, s)
    BY <2>2, <1>1 DEF Relisted, IsMain
  <2>4. to[x] = OpenSlot(g, s)
    <3>1. CASE s = m
      <4>1. to[x] = [start |-> to[x].start, id |-> to[x].id, subs |-> to[x].subs]
        OBVIOUS
      <4>2. sl[x].id = h[m].id
        BY <2>2, <3>1 DEF OpenSlot
      <4>3. g[m].id = h[m].id /\ g[m].subs = q
        BY DEF Relisted
      <4> QED BY <4>1, <4>2, <4>3, <3>1 DEF OpenSlot
    <3>2. CASE s # m
      <4>1. to[x] = sl[x] /\ g[s] = h[s]
        BY <3>2, <2>2 DEF Relisted
      <4> QED BY <4>1, <2>2 DEF OpenSlot
    <3> QED BY <3>1, <3>2
  <2> QED BY <2>1, <2>3, <2>4
<1>3. ASSUME NEW x \in Slots, NEW y \in Slots, to[x] # Closed, to[x].start = to[y].start PROVE x = y
  BY <1>1, <1>2, <1>3 DEF SlotsTrue
<1> QED BY <1>1, <1>2, <1>3 DEF SlotsTrue, SameStarts

(* ... and the end of the table. *)
LEMMA RelistedTail ==
  ASSUME NEW h, NEW g, NEW m, NEW q, Relisted(h, g, m, q), NEW j, NEW k, TailUsed(h, j),
         j.step \notin {"append", "strip"}
  PROVE  TailUsed(g, k)
BY DEF Relisted, TailUsed

(* The same in the open slot x. *)
SlotSubs(sl, x, q) == [sl EXCEPT ![x].subs = q]

(* The slot x gets m's new list: all slots are true again. *)
LEMMA SlotRelisted ==
  ASSUME NEW h, NEW g, NEW sl, NEW x \in Slots, NEW q \in Seq(Nat), SlotsTrue(h, sl), sl[x] # Closed,
         NEW m, m = sl[x].start, m # MBR, Relisted(h, g, m, q), NEW to, to = SlotSubs(sl, x, q)
  PROVE  SlotsTrue(g, to) /\ SameStarts(sl, to)
<1>1. sl \in [Slots -> [start : Nat, id : Ids, subs : Seq(Nat)]]
  BY DEF SlotsTrue
<1>2. /\ to \in [Slots -> [start : Nat, id : Ids, subs : Seq(Nat)]]
      /\ to[x].start = sl[x].start /\ to[x].id = sl[x].id /\ to[x].subs = q
      /\ \A y \in Slots : y # x => to[y] = sl[y]
  BY <1>1 DEF SlotSubs
<1>3. \A y \in Slots : sl[y].start = m => y = x
  BY DEF SlotsTrue
<1>4. \A y \in Slots : sl[y].start # m => to[y] = sl[y]
  BY <1>2
<1>5. \A y \in Slots : sl[y].start = m =>
        to[y].start = m /\ to[y].id = sl[y].id /\ to[y].subs = q
  BY <1>2, <1>3
<1>6. SlotsRelisted(sl, to, m, q)
  BY <1>2, <1>4, <1>5 DEF SlotsRelisted
<1> QED BY <1>6, RelistedSlots

(* A sub-partition that its partition lists no more may go. *)
LEMMA DelistedDoomed ==
  ASSUME NEW h, NEW g, NEW m, NEW q, NEW sl, NEW to, Tiles(h), Contents(h), SlotsTrue(h, sl),
         Relisted(h, g, m, q), SameStarts(sl, to), m \in DOMAIN h,
         NEW i, i \in DOMAIN h[m].subs, \A k \in DOMAIN q : q[k] # h[m].subs[i]
  PROVE  Doomed(g, to, h[m].subs[i]) /\ h[m].subs[i] # m
<1> DEFINE s == h[m].subs[i]
<1>1. m # MBR /\ IsMain(h, m) /\ s \in DOMAIN h /\ h[s].main = m /\ h[s].number = i
  BY DEF Contents
<1>2. h[s].type = "pfs" /\ ~IsMain(h, s) /\ s # m
  BY <1>1 DEF Contents, IsMain
<1>3. h[s].subs = <<>>
  <2>1. h[s].subs \in Seq(Nat)
    BY <1>1, FieldsOf
  <2>2. \A k \in DOMAIN h[s].subs : FALSE
    BY <1>1, <1>2 DEF Contents
  <2> HIDE DEF s
  <2>3. Len(h[s].subs) \in Nat /\ DOMAIN h[s].subs = 1 .. Len(h[s].subs)
    BY <2>1
  <2>4. Len(h[s].subs) = 0
    <3>1. Len(h[s].subs) # 0 => 1 \in DOMAIN h[s].subs
      BY <2>3
    <3> QED BY <3>1, <2>2
  <2> QED BY <2>1, <2>4
<1>4. s \in DOMAIN g /\ g[s] = h[s]
  BY <1>1, <1>2 DEF Relisted
<1>5. ASSUME NEW u \in DOMAIN g, NEW k \in DOMAIN g[u].subs PROVE g[u].subs[k] # s
  <2>1. CASE u = m
    <3>1. g[u].subs = q
      BY <2>1 DEF Relisted
    <3> QED BY <3>1
  <2>2. CASE u # m
    <3>1. g[u] = h[u] /\ u \in DOMAIN h
      BY <2>2 DEF Relisted
    <3>2. h[h[u].subs[k]].main = u
      BY <3>1 DEF Contents
    <3> QED BY <3>1, <3>2, <2>2, <1>1
  <2> QED BY <2>1, <2>2
<1>6. ASSUME NEW x \in Slots PROVE to[x].start # s
  <2> USE DEF SameStarts
  <2>1. s # MBR
    BY <1>1, <1>2 DEF Tiles, Typed
  <2>2. CASE sl[x] = Closed
    BY <2>1, <2>2 DEF Closed
  <2>3. CASE sl[x] # Closed
    <3>1. IsMain(h, sl[x].start)
      BY <2>3 DEF SlotsTrue
    <3> QED BY <3>1, <1>2
  <2> QED BY <2>2, <2>3
<1> QED BY <1>2, <1>3, <1>4, <1>5, <1>6 DEF Doomed

(* ioctl2AddSub lists the sub-partition it made. *)
LEMMA LinkStep ==
  ASSUME TableInv, Link
  PROVE  TableInv'
<1> DEFINE x == job.slot
           m == slots[x].start
           q == Append(slots[x].subs, job.sub)
<1>1. Tiles(hdr) /\ Contents(hdr) /\ SlotsTrue(hdr, slots) /\ TailUsed(hdr, job)
  BY DEF TableInv, Table
<1>2. Linking(hdr, slots, job) /\ job.step = "link" /\ job' = Idle
      /\ hdr' = SetSubs(hdr, m, Append(hdr[m].subs, job.sub)) /\ slots' = SlotSubs(slots, x, q)
  BY JobKinds DEF TableInv, Table, Link, SetSubs, SlotSubs
<1>3. /\ x \in Slots /\ slots[x] # Closed
      /\ job.sub \in DOMAIN hdr /\ hdr[job.sub].main = m /\ hdr[job.sub].number = Len(slots[x].subs) + 1
  BY <1>2 DEF Linking
<1>4. m \in DOMAIN hdr /\ IsMain(hdr, m) /\ hdr[m].subs = slots[x].subs
  BY <1>1, <1>3 DEF SlotsTrue, OpenSlot
<1>5. m # MBR
  BY <1>1, <1>4 DEF Tiles, Typed, IsMain
<1>6. job.sub \in Nat /\ slots[x].subs \in Seq(Nat) /\ q \in Seq(Nat)
  BY <1>1, <1>3, <1>4, FieldsOf
<1>7. ASSUME NEW i \in DOMAIN q
      PROVE  q[i] \in DOMAIN hdr /\ hdr[q[i]].main = m /\ hdr[q[i]].number = i
  <2>1. CASE i \in DOMAIN slots[x].subs
    <3>1. q[i] = hdr[m].subs[i] /\ i \in DOMAIN hdr[m].subs
      BY <2>1, <1>4, <1>6
    <3> QED BY <3>1, <1>1, <1>4 DEF Contents
  <2>2. CASE i \notin DOMAIN slots[x].subs
    <3>1. i = Len(slots[x].subs) + 1 /\ q[i] = job.sub
      BY <2>2, <1>6
    <3> QED BY <3>1, <1>3
  <2> QED BY <2>1, <2>2
<1>8. hdr' = SetSubs(hdr, m, q)
  BY <1>2, <1>4
<1> HIDE DEF m, q
<1>9. Tiles(hdr') /\ Relisted(hdr, hdr', m, q)
  BY <1>1, <1>4, <1>6, <1>8, RelistedIs
<1>10. Contents(hdr')
  BY <1>1, <1>4, <1>5, <1>7, <1>9, RelistedContents
<1>11. SlotsTrue(hdr', slots')
  <2>1. m = slots[x].start
    BY DEF m
  <2> QED BY <1>1, <1>2, <1>3, <1>5, <1>6, <1>9, <2>1, SlotRelisted
<1>12. TailUsed(hdr', Idle)
  BY <1>1, <1>2, <1>9, RelistedTail
<1> QED BY <1>2, <1>9, <1>10, <1>11, <1>12 DEF TableInv, Table, JobTrue

-----------------------------------------------------------------------------
(***************************************************************************)
(* The calls.                                                              *)
(***************************************************************************)
LEMMA BlankIs ==
  /\ Tiles(Blank) /\ Contents(Blank) /\ DOMAIN Blank = {MBR}
  /\ Blank[MBR].next = MBR /\ Blank[MBR].length = 1 /\ Blank[MBR].type = "mbr"
<1>1. /\ DOMAIN Blank = {MBR} /\ Blank[MBR].next = MBR /\ Blank[MBR].prev = MBR
      /\ Blank[MBR].length = 1 /\ Blank[MBR].type = "mbr" /\ Blank[MBR].main = MBR
      /\ Blank[MBR].subs = <<>>
  BY DEF Blank
<1>2. Blank \in [{MBR} -> Header]
  BY DEF Blank, Header, Ids, MBR
<1>3. Units \in Nat \ {0} /\ MBR = 0
  BY TableAssumption DEF MBR
<1>4. Typed(Blank)
  BY <1>1, <1>2, <1>3 DEF Typed
<1>5. Forth(Blank) /\ Back(Blank)
  BY <1>1 DEF Forth, Back
<1>6. Spaced(Blank)
  BY <1>1, <1>3 DEF Spaced
<1>7. Ending(Blank)
  BY <1>1, <1>3 DEF Ending
<1>8. Contents(Blank)
  BY <1>1 DEF Contents, IsMain
<1> QED BY <1>1, <1>4, <1>5, <1>6, <1>7, <1>8 DEF Tiles

(* An empty disk is a sound table. *)
LEMMA BlankTable ==
  ASSUME NEW sl, sl \in [Slots -> [start : Nat, id : Ids, subs : Seq(Nat)]],
         \A x \in Slots : sl[x] = Closed
  PROVE  Table(Blank, sl, FormatJob(1, 1, 1))
<1>1. SlotsTrue(Blank, sl)
  BY DEF SlotsTrue
<1>2. FormatJob(1, 1, 1) = Idle \/ Appending(Blank, sl, FormatJob(1, 1, 1))
  <2>1. Len(SystemNames) \in Nat /\ 1 \in Powers
    BY TableAssumption DEF Powers
  <2>2. 1 \in 1 .. Len(SystemNames) + 1
    BY <2>1
  <2>3. \A t \in DOMAIN Blank : Blank[t].next = MBR => 1 = t + Blank[t].length
    BY BlankIs DEF MBR
  <2>4. \A t \in DOMAIN Blank : IsMain(Blank, t) => \E k \in 1 .. 1 - 1 : Blank[t].id = SystemNames[k]
    BY BlankIs DEF IsMain
  <2> QED BY <2>1, <2>2, <2>3, <2>4, BlankIs, FormatGoesOn
<1>3. TailUsed(Blank, FormatJob(1, 1, 1))
  BY BlankIs DEF TailUsed
<1> QED BY <1>1, <1>2, <1>3, BlankIs DEF Table, JobTrue

(* The slot of nothing, by its fields. *)
LEMMA ClosedIs ==
  /\ Closed \in [start : Nat, id : Ids, subs : Seq(Nat)] /\ Closed.start = MBR
BY DEF Closed, Ids, MBR

(* The first state. *)
LEMMA InitTable ==
  ASSUME Init
  PROVE  TableInv
<1>1. slots \in [Slots -> [start : Nat, id : Ids, subs : Seq(Nat)]] /\ \A x \in Slots : slots[x] = Closed
  BY ClosedIs DEF Init
<1> QED BY <1>1, BlankTable DEF Init, TableInv

(* hddFormat. *)
LEMMA FormatStep ==
  ASSUME TableInv, hddFormat
  PROVE  TableInv'
<1>1. slots \in [Slots -> [start : Nat, id : Ids, subs : Seq(Nat)]] /\ \A x \in Slots : slots[x] = Closed
  BY DEF TableInv, Table, SlotsTrue, hddFormat
<1>2. Table(Blank, slots, FormatJob(1, 1, 1))
  BY <1>1, BlankTable
<1> QED BY <1>2 DEF TableInv, hddFormat

(* A name leads to a partition that has it. *)
LEMMA NamedIs ==
  ASSUME TableInv, NEW n, Named(n) # {}
  PROVE  LET s == Min(Named(n)) IN
         s \in DOMAIN hdr /\ s # MBR /\ IsMain(hdr, s) /\ hdr[s].id = n
<1>1. Tiles(hdr)
  BY DEF TableInv, Table
<1>2. Named(n) \in SUBSET Nat
  BY <1>1 DEF Named, Mains, Tiles, Typed
<1>3. Min(Named(n)) \in Named(n)
  BY <1>2, MinIs
<1> QED BY <1>1, <1>3 DEF Named, Mains, IsMain, IsSub, Tiles, Typed

(* A partition whose name no slot has is in no slot. *)
LEMMA NotOpen ==
  ASSUME TableInv, NEW s \in DOMAIN hdr, s # MBR, ~IsOpen(hdr[s].id), NEW x \in Slots
  PROVE  slots[x].start # s
<1>1. CASE slots[x] = Closed
  BY <1>1, ClosedIs
<1>2. CASE slots[x] # Closed
  <2>1. slots[x].id = hdr[slots[x].start].id
    BY <1>2 DEF TableInv, Table, SlotsTrue, OpenSlot
  <2> QED BY <2>1, <1>2 DEF IsOpen
<1> QED BY <1>1, <1>2

(* apaOpen of a partition that exists. *)
LEMMA OpenStep ==
  ASSUME TableInv, NEW n, NEW x \in Slots, Open(n, x)
  PROVE  TableInv'
<1> DEFINE s == Min(Named(n))
<1>1. /\ job = Idle /\ slots[x] = Closed /\ ~IsOpen(n) /\ Named(n) # {}
      /\ slots' = [slots EXCEPT ![x] = OpenSlot(hdr, s)] /\ hdr' = hdr /\ job' = job
  BY DEF Open
<1>2. s \in DOMAIN hdr /\ s # MBR /\ IsMain(hdr, s) /\ hdr[s].id = n
  BY <1>1, NamedIs
<1> HIDE DEF s
<1>3. \A y \in Slots : slots[y].start # s
  BY <1>1, <1>2, NotOpen
<1>4. SlotsTrue(hdr, slots')
  BY <1>1, <1>2, <1>3, OpenedSlots DEF TableInv, Table
<1> QED BY <1>1, <1>4 DEF TableInv, Table, JobTrue

(* hddClose. *)
LEMMA CloseStep ==
  ASSUME TableInv, NEW x \in Slots, hddClose(x)
  PROVE  TableInv'
<1>1. job = Idle /\ slots' = [slots EXCEPT ![x] = Closed] /\ hdr' = hdr /\ job' = job
  BY DEF hddClose
<1>2. SlotsTrue(hdr, slots)
  BY DEF TableInv, Table
<1>3. SlotsTrue(hdr, slots')
  <2>1. slots' \in [Slots -> [start : Nat, id : Ids, subs : Seq(Nat)]]
    BY <1>1, <1>2, ClosedIs DEF SlotsTrue
  <2>2. slots'[x] = Closed /\ \A y \in Slots : y # x => slots'[y] = slots[y]
    BY <1>1, <1>2 DEF SlotsTrue
  <2>3. \A y \in Slots : slots'[y] # Closed => y # x /\ slots[y] # Closed /\ slots'[y] = slots[y]
    BY <2>2
  <2>4. ASSUME NEW y \in Slots, slots'[y] # Closed
        PROVE  /\ slots'[y].start \in DOMAIN hdr /\ IsMain(hdr, slots'[y].start)
               /\ slots'[y] = OpenSlot(hdr, slots'[y].start) /\ slots'[y].start # MBR
    <3>1. /\ slots'[y].start \in DOMAIN hdr /\ IsMain(hdr, slots'[y].start)
          /\ slots'[y] = OpenSlot(hdr, slots'[y].start)
      BY <2>3, <2>4, <1>2 DEF SlotsTrue
    <3> QED BY <3>1 DEF TableInv, Table, Tiles, Typed, IsMain
  <2>5. ASSUME NEW y \in Slots, NEW z \in Slots, slots'[y] # Closed, slots'[y].start = slots'[z].start
        PROVE  y = z
    <3>1. slots'[y].start # MBR
      BY <2>4, <2>5
    <3>2. z # x
      BY <3>1, <2>2, <2>5, ClosedIs
    <3> QED BY <3>2, <2>2, <2>3, <2>5, <1>2 DEF SlotsTrue
  <2> QED BY <2>1, <2>4, <2>5 DEF SlotsTrue
<1> QED BY <1>1, <1>3 DEF TableInv, Table, JobTrue

(* The block chosen is one of those that fit. *)
LEMMA BestBlockIs ==
  ASSUME Tiles(hdr), NEW size, EmptyBlocks(size) # {}
  PROVE  BestBlock(size) \in EmptyBlocks(size)
<1> DEFINE B == EmptyBlocks(size)
           K == {hdr[s].length : s \in B}
<1>1. B \in SUBSET Nat /\ \A s \in B : hdr[s].length \in Nat
  BY FieldsOf DEF EmptyBlocks
<1> HIDE DEF B
<1>2. K \in SUBSET Nat /\ K # {}
  BY <1>1 DEF B
<1>3. Min(K) \in K
  BY <1>2, MinIs
<1>4. PICK s \in B : hdr[s].length = Min(K)
  BY <1>3
<1>5. {t \in B : hdr[t].length = Min(K)} \in SUBSET Nat
  BY <1>1
<1>6. Min({t \in B : hdr[t].length = Min(K)}) \in {t \in B : hdr[t].length = Min(K)}
  BY <1>4, <1>5, MinIs
<1> QED BY <1>6 DEF BestBlock, B

(* hddAddPartitionHere up to its first change. *)
LEMMA AddStep ==
  ASSUME TableInv, job = Idle, NEW p, NEW then, Making(hdr, slots, p, then), then.for # "format",
         HasRoom(p.size, EmptyBlocks(p.size)),
         job' = hddAddPartitionHere(p, then, EmptyBlocks(p.size)), UNCHANGED <<hdr, slots>>
  PROVE  TableInv'
<1>1. Tiles(hdr) /\ Contents(hdr) /\ SlotsTrue(hdr, slots) /\ TailUsed(hdr, job)
  BY DEF TableInv, Table
<1>2. \A j : TailUsed(hdr, j)
  BY <1>1 DEF TailUsed, Idle
<1>3. CASE EmptyBlocks(p.size) # {}
  <2> DEFINE b == BestBlock(p.size)
             j == [step |-> "insert", at |-> b, p |-> p, then |-> then]
  <2>1. job' = j
    BY <1>3 DEF hddAddPartitionHere
  <2>2. b \in EmptyBlocks(p.size)
    BY <1>1, <1>3, BestBlockIs
  <2> HIDE DEF b
  <2>3. b \in DOMAIN hdr /\ hdr[b].type = "free" /\ hdr[b].length \in Powers /\ p.size <= hdr[b].length
    <3>1. b \in DOMAIN hdr /\ hdr[b].type = "free" /\ hdr[b].length \in Powers /\ hdr[b].length >= p.size
      BY <2>2 DEF EmptyBlocks
    <3>2. p.size \in Nat /\ hdr[b].length \in Nat
      BY <3>1, PowersAreNat DEF Making
    <3> QED BY <3>1, <3>2
  <2>4. Inserting(hdr, slots, j)
    BY <2>3 DEF Inserting
  <2> QED BY <1>1, <1>2, <2>1, <2>4 DEF TableInv, Table, JobTrue
<1>4. CASE EmptyBlocks(p.size) = {}
  <2> DEFINE j == [step |-> "append", p |-> p, then |-> then]
  <2>1. job' = j
    BY <1>4 DEF hddAddPartitionHere
  <2>2. RoomBehind(PartEnd, p.size)
    BY <1>4 DEF HasRoom
  <2>3. \A s \in DOMAIN hdr : hdr[s].next = MBR => RoomBehind(s + hdr[s].length, p.size)
    BY <1>1, <2>2, LastIs, LastHeaderIs
  <2>4. Appending(hdr, slots, j)
    BY <2>3 DEF Appending
  <2> QED BY <1>1, <1>2, <2>1, <2>4 DEF TableInv, Table, JobTrue
<1> QED BY <1>3, <1>4

(* The sizes a caller may ask for. *)
LEMMA SizesArePowers == Sizes \subseteq Powers
BY DEF Sizes, Powers

(* apaOpen of a partition to be made. *)
LEMMA CreateStep ==
  ASSUME TableInv, NEW n \in Names, NEW x \in Slots, NEW size \in Sizes, Create(n, size, x)
  PROVE  TableInv'
<1> DEFINE p == [size |-> size, id |-> n, main |-> MBR, number |-> 0]
           then == [for |-> "open", slot |-> x]
<1>1. /\ job = Idle /\ slots[x] = Closed /\ Named(n) = {} /\ HasRoom(size, EmptyBlocks(size))
      /\ job' = hddAddPartitionHere(p, then, EmptyBlocks(size)) /\ UNCHANGED <<hdr, slots>>
  BY DEF Create
<1>2. p \in [size : Powers, id : Ids, main : Nat, number : Nat]
  BY SizesArePowers DEF Ids, MBR
<1>3. \A s \in DOMAIN hdr : IsMain(hdr, s) => hdr[s].id # n
  BY <1>1 DEF Named, Mains, IsMain, IsSub
<1>4. Making(hdr, slots, p, then)
  BY <1>1, <1>2, <1>3 DEF Making
<1>5. p.size = size /\ then.for # "format"
  OBVIOUS
<1> HIDE DEF p, then
<1> QED BY <1>1, <1>4, <1>5, AddStep

(* ioctl2AddSub up to its first change. *)
LEMMA AddSubStep ==
  ASSUME TableInv, NEW x \in Slots, NEW size \in Sizes, ioctl2AddSub(x, size)
  PROVE  TableInv'
<1> DEFINE p == [size |-> size, id |-> NoName, main |-> slots[x].start,
                 number |-> Len(slots[x].subs) + 1]
           then == [for |-> "link", slot |-> x]
<1>1. /\ job = Idle /\ slots[x] # Closed /\ HasRoom(size, EmptyBlocks(size))
      /\ job' = hddAddPartitionHere(p, then, EmptyBlocks(size)) /\ UNCHANGED <<hdr, slots>>
  BY DEF ioctl2AddSub
<1>2. slots[x].start \in Nat /\ slots[x].subs \in Seq(Nat)
  BY DEF TableInv, Table, SlotsTrue
<1>3. p \in [size : Powers, id : Ids, main : Nat, number : Nat]
  BY <1>2, SizesArePowers DEF Ids
<1>4. Making(hdr, slots, p, then)
  BY <1>1, <1>3 DEF Making
<1>5. p.size = size /\ then.for # "format"
  OBVIOUS
<1> HIDE DEF p, then
<1> QED BY <1>1, <1>4, <1>5, AddStep

(* A list without its last element. *)
LEMMA LastOff ==
  ASSUME NEW q \in Seq(Nat), q # <<>>
  PROVE  /\ Front(q) \in Seq(Nat) /\ Last(q) = q[Len(q)] /\ Len(q) \in DOMAIN q
         /\ \A i \in DOMAIN Front(q) : i \in DOMAIN q /\ i # Len(q) /\ Front(q)[i] = q[i]
BY DEF Front, Last

(* ioctl2DeleteLastSub takes the last sub-partition off both lists. *)
LEMMA DeleteLastStep ==
  ASSUME TableInv, NEW x \in Slots, ioctl2DeleteLastSub(x)
  PROVE  TableInv'
<1> DEFINE m == slots[x].start
           r == slots[x].subs
           q == Front(r)
           s == Last(r)
<1>1. Tiles(hdr) /\ Contents(hdr) /\ SlotsTrue(hdr, slots) /\ TailUsed(hdr, job)
  BY DEF TableInv, Table
<1>2. /\ job = Idle /\ slots[x] # Closed /\ r # <<>>
      /\ hdr' = SetSubs(hdr, m, Front(hdr[m].subs)) /\ slots' = SlotSubs(slots, x, q)
      /\ job' = [step |-> "delete", todo |-> <<Last(hdr[m].subs)>>]
  BY DEF ioctl2DeleteLastSub, SetSubs, SlotSubs
<1>3. m \in DOMAIN hdr /\ IsMain(hdr, m) /\ hdr[m].subs = r
  BY <1>1, <1>2 DEF SlotsTrue, OpenSlot
<1>4. m # MBR
  BY <1>1, <1>3 DEF Tiles, Typed, IsMain
<1>5. r \in Seq(Nat)
  BY <1>1, <1>3, FieldsOf
<1>6. /\ q \in Seq(Nat) /\ s = r[Len(r)] /\ Len(r) \in DOMAIN r
      /\ \A i \in DOMAIN q : i \in DOMAIN r /\ i # Len(r) /\ q[i] = r[i]
  BY <1>2, <1>5, LastOff
<1>7. hdr' = SetSubs(hdr, m, q) /\ job' = [step |-> "delete", todo |-> <<s>>]
  BY <1>2, <1>3
<1> HIDE DEF q, s
<1>8. \A i \in DOMAIN r : r[i] \in DOMAIN hdr /\ hdr[r[i]].main = m /\ hdr[r[i]].number = i
  BY <1>1, <1>3 DEF Contents
<1>9. Tiles(hdr') /\ Relisted(hdr, hdr', m, q)
  BY <1>1, <1>3, <1>6, <1>7, RelistedIs
<1>10. Contents(hdr')
  <2>1. \A i \in DOMAIN q : q[i] \in DOMAIN hdr /\ hdr[q[i]].main = m /\ hdr[q[i]].number = i
    BY <1>6, <1>8
  <2> QED BY <2>1, <1>1, <1>3, <1>4, <1>9, RelistedContents
<1>11. SlotsTrue(hdr', slots') /\ SameStarts(slots, slots')
  <2>1. m = slots[x].start
    OBVIOUS
  <2>2. /\ q \in Seq(Nat) /\ SlotsTrue(hdr, slots) /\ slots[x] # Closed /\ m # MBR
        /\ Relisted(hdr, hdr', m, q) /\ slots' = SlotSubs(slots, x, q)
    BY <1>1, <1>2, <1>4, <1>6, <1>9
  <2> HIDE DEF m
  <2> QED BY <2>1, <2>2, SlotRelisted
<1>12. Doomed(hdr', slots', s)
  <2>1. s = hdr[m].subs[Len(r)] /\ Len(r) \in DOMAIN hdr[m].subs
    BY <1>3, <1>6
  <2>2. ASSUME NEW k \in DOMAIN q PROVE q[k] # s
    <3>1. k \in DOMAIN r /\ k # Len(r) /\ q[k] = r[k]
      BY <1>6
    <3>2. hdr[q[k]].number = k /\ hdr[s].number = Len(r)
      BY <3>1, <1>6, <1>8
    <3> QED BY <3>1, <3>2
  <2> QED BY <2>1, <2>2, <1>1, <1>3, <1>9, <1>11, DelistedDoomed
<1>13. s \in Nat
  BY <1>5, <1>6
<1>14. AllDoomed(hdr', slots', <<s>>) /\ <<s>> # <<>>
  BY <1>12, <1>13 DEF AllDoomed
<1>15. Deleting(hdr', slots', job')
  BY <1>7, <1>14 DEF Deleting
<1>16. TailUsed(hdr', job')
  BY <1>1, <1>2, <1>9, RelistedTail DEF Idle
<1> QED BY <1>9, <1>10, <1>11, <1>15, <1>16 DEF TableInv, Table, JobTrue

(* The list of a removed partition's jobs: its sub-partitions, then itself. *)
LEMMA ReversedAnd ==
  ASSUME NEW q \in Seq(Nat), NEW m \in Nat, NEW todo, todo = Reverse(q) \o <<m>>
  PROVE  /\ todo \in Seq(Nat) /\ Len(todo) = Len(q) + 1 /\ Len(q) \in Nat
         /\ \A i \in 1 .. Len(q) : Len(q) - i + 1 \in DOMAIN q /\ todo[i] = q[Len(q) - i + 1]
         /\ todo[Len(q) + 1] = m
<1> DEFINE r == Reverse(q)
<1>1. /\ r \in Seq(Nat) /\ Len(r) = Len(q) /\ Len(q) \in Nat
      /\ \A i \in 1 .. Len(q) : Len(q) - i + 1 \in DOMAIN q /\ r[i] = q[Len(q) - i + 1]
  BY DEF Reverse
<1>2. todo = r \o <<m>>
  OBVIOUS
<1> HIDE DEF r
<1>3. todo \in Seq(Nat) /\ Len(todo) = Len(q) + 1
  <2>1. <<m>> \in Seq(Nat) /\ Len(<<m>>) = 1
    OBVIOUS
  <2>2. r \o <<m>> \in Seq(Nat) /\ Len(r \o <<m>>) = Len(r) + 1
    BY <1>1, <2>1
  <2> QED BY <1>1, <1>2, <2>2
<1>4. \A i \in 1 .. Len(r) : (r \o <<m>>)[i] = r[i]
  BY <1>1
<1>5. todo[Len(q) + 1] = m
  BY <1>1, <1>2
<1> QED BY <1>1, <1>2, <1>3, <1>4, <1>5

(* apaRemove empties the list before it deletes anything. *)
LEMMA RemoveStep ==
  ASSUME TableInv, NEW n, apaRemove(n)
  PROVE  TableInv'
<1> DEFINE m == Min(Named(n))
           r == hdr[m].subs
           todo == Reverse(r) \o <<m>>
           l == Len(r)
<1>1. Tiles(hdr) /\ Contents(hdr) /\ SlotsTrue(hdr, slots) /\ TailUsed(hdr, job)
  BY DEF TableInv, Table
<1>2. /\ job = Idle /\ ~IsOpen(n) /\ Named(n) # {} /\ hdr' = SetSubs(hdr, m, <<>>)
      /\ slots' = slots /\ job' = [step |-> "delete", todo |-> todo]
  BY DEF apaRemove, SetSubs
<1>3. m \in DOMAIN hdr /\ m # MBR /\ IsMain(hdr, m) /\ hdr[m].id = n
  BY <1>2, NamedIs
<1> HIDE DEF m
<1>4. m \in Nat /\ r \in Seq(Nat) /\ <<>> \in Seq(Nat)
  BY <1>1, <1>3, FieldsOf
<1>5. /\ todo \in Seq(Nat) /\ Len(todo) = l + 1 /\ l \in Nat
      /\ \A i \in 1 .. l : l - i + 1 \in DOMAIN r /\ todo[i] = r[l - i + 1]
      /\ todo[l + 1] = m
  <2> HIDE DEF r
  <2> QED BY <1>4, ReversedAnd
<1> HIDE DEF todo, r, l
<1>6. Tiles(hdr') /\ Relisted(hdr, hdr', m, <<>>)
  BY <1>1, <1>2, <1>3, <1>4, RelistedIs
<1>7. Contents(hdr')
  BY <1>1, <1>3, <1>6, RelistedContents
<1>8. \A x \in Slots : slots[x].start # m
  BY <1>2, <1>3, NotOpen
<1>9. SlotsTrue(hdr', slots')
  <2>1. slots \in [Slots -> [start : Nat, id : Ids, subs : Seq(Nat)]]
    BY <1>1 DEF SlotsTrue
  <2>2. SlotsTrue(hdr, slots) /\ Relisted(hdr, hdr', m, <<>>) /\ m # MBR /\ <<>> \in Seq(Nat)
    BY <1>1, <1>3, <1>4, <1>6
  <2>3. SlotsRelisted(slots, slots, m, <<>>)
    BY <2>1, <1>8 DEF SlotsRelisted
  <2>4. SlotsTrue(hdr', slots)
    BY <2>2, <2>3, RelistedSlots
  <2> QED BY <2>4, <1>2
<1>10. Doomed(hdr', slots', m)
  <2>1. m \in DOMAIN hdr' /\ hdr'[m].type = "pfs" /\ hdr'[m].subs = <<>>
    BY <1>3, <1>6 DEF Relisted, IsMain
  <2>2. ASSUME NEW u \in DOMAIN hdr', NEW i \in DOMAIN hdr'[u].subs PROVE hdr'[u].subs[i] # m
    <3>1. hdr'[hdr'[u].subs[i]].main = u /\ u # MBR
      BY <1>7 DEF Contents
    <3>2. hdr'[m].main = MBR
      BY <1>3, <1>6 DEF Relisted, IsMain
    <3> QED BY <3>1, <3>2
  <2> QED BY <2>1, <2>2, <1>2, <1>8 DEF Doomed
<1>11. ASSUME NEW i \in DOMAIN r PROVE Doomed(hdr', slots', r[i]) /\ r[i] # m
  <2>1. i \in DOMAIN hdr[m].subs /\ r[i] = hdr[m].subs[i]
    BY DEF r
  <2>2. SameStarts(slots, slots')
    BY <1>2 DEF SameStarts
  <2> QED BY <2>1, <2>2, <1>1, <1>3, <1>6, DelistedDoomed
<1>12. DOMAIN todo = 1 .. l + 1 /\ \A i \in 1 .. l + 1 : i \in 1 .. l \/ i = l + 1
  BY <1>5
<1>13. ASSUME NEW i \in DOMAIN todo PROVE Doomed(hdr', slots', todo[i])
  BY <1>5, <1>10, <1>11, <1>12
<1>14. ASSUME NEW i \in DOMAIN todo, NEW j \in DOMAIN todo, todo[i] = todo[j] PROVE i = j
  <2>1. CASE i \in 1 .. l /\ j \in 1 .. l
    <3>1. \A k \in DOMAIN r : hdr[r[k]].number = k
      BY <1>1, <1>3 DEF Contents, r
    <3>2. l - i + 1 \in DOMAIN r /\ l - j + 1 \in DOMAIN r /\ r[l - i + 1] = r[l - j + 1]
      BY <2>1, <1>5, <1>14
    <3>3. l - i + 1 = l - j + 1
      BY <3>1, <3>2
    <3> QED BY <3>3, <2>1, <1>5
  <2>2. CASE i = l + 1 /\ j \in 1 .. l
    BY <2>2, <1>5, <1>11, <1>14
  <2>3. CASE i \in 1 .. l /\ j = l + 1
    BY <2>3, <1>5, <1>11, <1>14
  <2> QED BY <2>1, <2>2, <2>3, <1>12
<1>15. todo # <<>>
  <2>1. Len(todo) # 0
    BY <1>5
  <2> QED BY <2>1
<1>16. Deleting(hdr', slots', job')
  BY <1>2, <1>5, <1>13, <1>14, <1>15 DEF Deleting, AllDoomed
<1>17. TailUsed(hdr', job')
  BY <1>1, <1>2, <1>6, RelistedTail DEF Idle
<1> QED BY <1>6, <1>7, <1>9, <1>16, <1>17 DEF TableInv, Table, JobTrue

SetId(h, a, n) == [h EXCEPT ![a].id = n]

(* The name in one header set. *)
LEMMA IdSet ==
  ASSUME NEW D, NEW h \in [D -> Header], NEW a \in D, NEW n \in Ids
  PROVE  /\ SetId(h, a, n) \in [D -> Header]
         /\ \A t \in D : LET w == SetId(h, a, n)[t] IN
              /\ w.next = h[t].next /\ w.prev = h[t].prev /\ w.length = h[t].length
              /\ w.type = h[t].type /\ w.main = h[t].main /\ w.number = h[t].number
              /\ w.subs = h[t].subs
              /\ w.id = IF t = a THEN n ELSE h[t].id
<1> DEFINE u == [h[a] EXCEPT !.id = n]
           k == SetId(h, a, n)
<1>1. /\ u \in Header /\ u.subs = h[a].subs /\ u.next = h[a].next /\ u.prev = h[a].prev
      /\ u.length = h[a].length /\ u.type = h[a].type /\ u.main = h[a].main
      /\ u.number = h[a].number /\ u.id = n
  <2>1. h[a] \in Header
    OBVIOUS
  <2> QED BY <2>1 DEF Header
<1>2. k = [h EXCEPT ![a] = u]
  BY DEF SetId
<1> HIDE DEF k, u
<1>3. k \in [D -> Header] /\ k[a] = u /\ \A t \in D : t # a => k[t] = h[t]
  BY <1>1, <1>2
<1>4. \A t \in D :
        /\ k[t].next = h[t].next /\ k[t].prev = h[t].prev /\ k[t].length = h[t].length
        /\ k[t].type = h[t].type /\ k[t].main = h[t].main /\ k[t].number = h[t].number
        /\ k[t].subs = h[t].subs /\ k[t].id = IF t = a THEN n ELSE h[t].id
  BY <1>1, <1>3
<1> QED BY <1>3, <1>4 DEF k

(* apaRename. *)
LEMMA RenameStep ==
  ASSUME TableInv, NEW old, NEW new \in Names, apaRename(old, new)
  PROVE  TableInv'
<1> DEFINE s == Min(Named(old))
           D == DOMAIN hdr
<1>1. Tiles(hdr) /\ Contents(hdr) /\ SlotsTrue(hdr, slots) /\ TailUsed(hdr, job)
  BY DEF TableInv, Table
<1>2. /\ job = Idle /\ Named(new) = {} /\ ~IsOpen(old) /\ Named(old) # {}
      /\ hdr' = SetId(hdr, s, new) /\ slots' = slots /\ job' = job
  BY DEF apaRename, SetId
<1>3. s \in DOMAIN hdr /\ s # MBR /\ IsMain(hdr, s) /\ hdr[s].id = old
  BY <1>2, NamedIs
<1> HIDE DEF s
<1>4. D = DOMAIN hdr /\ hdr \in [D -> Header] /\ s \in D /\ new \in Ids
  BY <1>1, <1>3 DEF Tiles, Typed, Ids
<1> HIDE DEF D
<1>5. /\ hdr' \in [D -> Header]
      /\ \A t \in D :
              /\ hdr'[t].next = hdr[t].next /\ hdr'[t].prev = hdr[t].prev
              /\ hdr'[t].length = hdr[t].length
              /\ hdr'[t].type = hdr[t].type /\ hdr'[t].main = hdr[t].main
              /\ hdr'[t].number = hdr[t].number /\ hdr'[t].subs = hdr[t].subs
              /\ hdr'[t].id = IF t = s THEN new ELSE hdr[t].id
  BY <1>2, <1>4, IdSet
<1>6. DOMAIN hdr' = DOMAIN hdr /\ hdr' \in [DOMAIN hdr' -> Header]
  BY <1>4, <1>5
<1>7. Tiles(hdr')
  <2>1. SameLinks(hdr, hdr')
    BY <1>4, <1>5, <1>6 DEF SameLinks
  <2> QED BY <2>1, <1>1, TilesSame
<1>8. \A t \in DOMAIN hdr : IsMain(hdr', t) <=> IsMain(hdr, t)
  BY <1>4, <1>5 DEF IsMain
<1>9. Contents(hdr')
  <2>1. \A t \in DOMAIN hdr' : hdr'[t].type # "pfs" => hdr'[t].main = MBR /\ hdr'[t].subs = <<>>
    BY <1>1, <1>4, <1>5, <1>6 DEF Contents
  <2>2. ASSUME NEW m \in DOMAIN hdr', NEW i \in DOMAIN hdr'[m].subs
        PROVE  LET t == hdr'[m].subs[i] IN
               /\ m # MBR /\ IsMain(hdr', m)
               /\ t \in DOMAIN hdr' /\ hdr'[t].main = m /\ hdr'[t].number = i
    <3>1. m \in DOMAIN hdr /\ hdr'[m].subs = hdr[m].subs
      BY <1>4, <1>5, <1>6
    <3> DEFINE t == hdr[m].subs[i]
    <3>2. m # MBR /\ IsMain(hdr, m) /\ t \in DOMAIN hdr /\ hdr[t].main = m /\ hdr[t].number = i
      BY <3>1, <1>1 DEF Contents
    <3>3. hdr'[t].main = hdr[t].main /\ hdr'[t].number = hdr[t].number
      BY <3>2, <1>4, <1>5
    <3> QED BY <3>1, <3>2, <3>3, <1>6, <1>8
  <2>3. ASSUME NEW t \in DOMAIN hdr', NEW u \in DOMAIN hdr', IsMain(hdr', t), IsMain(hdr', u),
               hdr'[t].id = hdr'[u].id
        PROVE  t = u
    <3>1. \A v \in DOMAIN hdr : IsMain(hdr, v) => hdr[v].id # new
      BY <1>2 DEF Named, Mains, IsMain, IsSub
    <3>2. IsMain(hdr, t) /\ IsMain(hdr, u) /\ t \in DOMAIN hdr /\ u \in DOMAIN hdr
      BY <2>3, <1>6, <1>8
    <3>3. /\ hdr'[t].id = IF t = s THEN new ELSE hdr[t].id
          /\ hdr'[u].id = IF u = s THEN new ELSE hdr[u].id
      BY <3>2, <1>4, <1>5
    <3> QED BY <3>1, <3>2, <3>3, <2>3, <1>1 DEF Contents
  <2> QED BY <2>1, <2>2, <2>3 DEF Contents
<1>10. SlotsTrue(hdr', slots)
  <2>1. \A x \in Slots : slots[x].start # s
    BY <1>2, <1>3, NotOpen
  <2>2. ASSUME NEW x \in Slots, slots[x] # Closed
        PROVE  /\ slots[x].start \in DOMAIN hdr' /\ IsMain(hdr', slots[x].start)
               /\ slots[x] = OpenSlot(hdr', slots[x].start)
    <3> DEFINE t == slots[x].start
    <3>1. t \in DOMAIN hdr /\ IsMain(hdr, t) /\ slots[x] = OpenSlot(hdr, t) /\ t # s
      BY <2>1, <2>2, <1>1 DEF SlotsTrue
    <3> HIDE DEF t
    <3>2. hdr'[t].id = hdr[t].id /\ hdr'[t].subs = hdr[t].subs
      BY <3>1, <1>4, <1>5
    <3>3. OpenSlot(hdr', t) = OpenSlot(hdr, t) /\ IsMain(hdr', t) /\ t \in DOMAIN hdr'
      BY <3>1, <3>2, <1>6, <1>8 DEF OpenSlot
    <3> QED BY <3>1, <3>3 DEF t
  <2> QED BY <2>2, <1>1 DEF SlotsTrue
<1>11. TailUsed(hdr', job)
  BY <1>1, <1>2, <1>4, <1>5, <1>6 DEF TailUsed, Idle
<1> QED BY <1>2, <1>7, <1>9, <1>10, <1>11 DEF TableInv, Table, JobTrue

-----------------------------------------------------------------------------
(***************************************************************************)
(* The steps of a deletion.                                                *)
(***************************************************************************)
LEMMA TodoTrue ==
  ASSUME NEW h, NEW sl, NEW rest, AllDoomed(h, sl, rest)
  PROVE  JobTrue(h, sl, Todo(rest)) /\ Todo(rest).step \notin {"append", "strip"}
<1>1. CASE rest = <<>>
  BY <1>1 DEF Todo, JobTrue, Idle
<1>2. CASE rest # <<>>
  <2>1. Todo(rest) = [step |-> "delete", todo |-> rest]
    BY <1>2 DEF Todo
  <2>2. Deleting(h, sl, [step |-> "delete", todo |-> rest])
    BY <1>2 DEF Deleting
  <2> QED BY <2>1, <2>2 DEF JobTrue
<1> QED BY <1>1, <1>2

(* A list without its first element. *)
LEMMA TailIs ==
  ASSUME NEW q \in Seq(Nat), q # <<>>
  PROVE  /\ Head(q) = q[1] /\ 1 \in DOMAIN q /\ Tail(q) \in Seq(Nat)
         /\ \A i \in DOMAIN Tail(q) : i + 1 \in DOMAIN q /\ i + 1 # 1 /\ Tail(q)[i] = q[i + 1]
OBVIOUS

(* What is left of a removal may still be deleted. *)
LEMMA TailDoomed ==
  ASSUME NEW h, NEW sl, NEW todo, AllDoomed(h, sl, todo), todo # <<>>
  PROVE  /\ AllDoomed(h, sl, Tail(todo)) /\ Doomed(h, sl, Head(todo))
         /\ \A i \in DOMAIN Tail(todo) : Tail(todo)[i] # Head(todo)
<1>1. todo \in Seq(Nat)
  BY DEF AllDoomed
<1>2. /\ Head(todo) = todo[1] /\ 1 \in DOMAIN todo /\ Tail(todo) \in Seq(Nat)
      /\ \A i \in DOMAIN Tail(todo) :
           i \in Nat /\ i + 1 \in DOMAIN todo /\ i + 1 # 1 /\ Tail(todo)[i] = todo[i + 1]
  BY <1>1, TailIs
<1>3. \A i \in DOMAIN todo : Doomed(h, sl, todo[i])
  BY DEF AllDoomed
<1>4. \A i, j \in DOMAIN todo : todo[i] = todo[j] => i = j
  BY DEF AllDoomed
<1>5. \A i, j \in DOMAIN Tail(todo) : Tail(todo)[i] = Tail(todo)[j] => i = j
  <2> SUFFICES ASSUME NEW i \in DOMAIN Tail(todo), NEW j \in DOMAIN Tail(todo),
                      Tail(todo)[i] = Tail(todo)[j]
               PROVE  i = j
    OBVIOUS
  <2>1. i + 1 = j + 1
    BY <1>2, <1>4
  <2> QED BY <2>1, <1>2
<1>6. \A i \in DOMAIN Tail(todo) : Doomed(h, sl, Tail(todo)[i])
  BY <1>2, <1>3
<1>7. \A i \in DOMAIN Tail(todo) : Tail(todo)[i] # Head(todo)
  BY <1>2, <1>4
<1>8. Doomed(h, sl, Head(todo))
  BY <1>2, <1>3
<1> QED BY <1>2, <1>5, <1>6, <1>7, <1>8 DEF AllDoomed

(* apaDelete of the next partition of a removal. *)
LEMMA DeleteNextStep ==
  ASSUME TableInv, DeleteNext
  PROVE  TableInv'
<1> DEFINE s == Head(job.todo)
           rest == Tail(job.todo)
<1>1. Tiles(hdr) /\ Contents(hdr) /\ SlotsTrue(hdr, slots) /\ TailUsed(hdr, job)
  BY DEF TableInv, Table
<1>2. /\ Deleting(hdr, slots, job) /\ job.step = "delete" /\ hdr' = hdr /\ slots' = slots
      /\ job' = IF hdr[s].next = MBR
                THEN [step |-> "strip", at |-> s, todo |-> rest]
                ELSE [step |-> "merge", at |-> s, round |-> 1, start |-> s,
                      length |-> hdr[s].length, todo |-> rest]
  BY JobKinds DEF TableInv, Table, DeleteNext
<1>3. AllDoomed(hdr, slots, rest) /\ Doomed(hdr, slots, s) /\ \A i \in DOMAIN rest : rest[i] # s
  BY <1>2, TailDoomed DEF Deleting
<1> HIDE DEF s, rest
<1>4. s \in DOMAIN hdr \ {MBR}
  BY <1>1, <1>3 DEF Doomed, Tiles, Typed
<1>5. Going(hdr, slots, s, rest)
  BY <1>3, <1>4 DEF Going
<1>6. CASE hdr[s].next = MBR
  <2>1. Stripping(hdr, slots, job')
    BY <1>2, <1>5, <1>6 DEF Stripping
  <2>2. TailUsed(hdr, job')
    BY <1>2, <1>6 DEF TailUsed
  <2> QED BY <2>1, <2>2, <1>1, <1>2 DEF TableInv, Table, JobTrue
<1>7. CASE hdr[s].next # MBR
  <2>1. Merging(hdr, slots, job')
    BY <1>2, <1>5, <1>7 DEF Merging
  <2>2. TailUsed(hdr, job')
    BY <1>1, <1>2 DEF TailUsed
  <2> QED BY <2>1, <2>2, <1>1, <1>2 DEF TableInv, Table, JobTrue
<1> QED BY <1>6, <1>7

(* What goes does no harm, and what is deleted next stays doomed. *)
LEMMA GoingCleared ==
  ASSUME NEW h, NEW g, NEW sl, NEW at, NEW todo, Tiles(h), Contents(h), SlotsTrue(h, sl),
         Going(h, sl, at, todo), Cleared(h, g, at)
  PROVE  Contents(g) /\ SlotsTrue(g, sl) /\ AllDoomed(g, sl, todo)
<1>1. Harmless(h, sl, at)
  BY DEF Going, Harmless
<1>2. AllDoomed(g, sl, todo)
  BY ClearedTodo DEF Going
<1> QED BY <1>1, <1>2, ClearedContents, ClearedSlots

(* The last header is off the chain. *)
CutOff(s) ==
  /\ DOMAIN hdr' = DOMAIN hdr \ {s}
  /\ \A t \in DOMAIN hdr' : SameFields(hdr[t], hdr'[t]) /\ hdr'[t].length = hdr[t].length

(* apaDelete takes the last header, and the empty ones before it, off the chain. *)
LEMMA StripStep ==
  ASSUME TableInv, Strip
  PROVE  TableInv' /\ CutOff(job.at)
<1> DEFINE s == job.at
           p == hdr[s].prev
           D == DOMAIN hdr
           E == D \ {s}
           k == [t \in E |-> hdr[t]]
           m == MBR
<1>1. Tiles(hdr) /\ Contents(hdr) /\ SlotsTrue(hdr, slots)
  BY DEF TableInv, Table
<1>2. /\ Stripping(hdr, slots, job) /\ job.step = "strip"
      /\ hdr' = Linked(k, p, m, m, p) /\ slots' = slots
      /\ job' = IF hdr[p].type = "free" THEN [job EXCEPT !.at = p] ELSE Todo(job.todo)
  BY JobKinds DEF TableInv, Table, Strip, Linked
<1>3. s \in DOMAIN hdr \ {MBR} /\ hdr[s].next = MBR /\ Going(hdr, slots, s, job.todo)
  BY <1>2 DEF Stripping, Going
<1>4. p \in DOMAIN hdr /\ hdr[p].next = s /\ p # s /\ p \in Nat /\ m \in Nat
  <2>1. p \in DOMAIN hdr /\ hdr[p].next = s
    BY <1>1, <1>3, PrevIs
  <2>2. p # s
    BY <2>1, <1>3
  <2> QED BY <2>1, <2>2, <1>1, FieldsOf DEF MBR
<1>5. D = DOMAIN hdr /\ hdr \in [D -> Header] /\ m \in D
  BY <1>1 DEF Tiles, Typed
<1> HIDE DEF D, p, s
<1>6. k \in [E -> Header] /\ \A t \in E : k[t] = hdr[t]
  BY <1>5
<1>7. p \in E /\ m \in E
  BY <1>3, <1>4, <1>5
<1> HIDE DEF k, E, m
<1>8. /\ hdr' \in [E -> Header]
      /\ \A t \in E : /\ SameFields(k[t], hdr'[t]) /\ hdr'[t].length = k[t].length
                      /\ hdr'[t].next = IF t = p THEN m ELSE k[t].next
                      /\ hdr'[t].prev = IF t = m THEN p ELSE k[t].prev
  <2> DEFINE x == m
             y == p
  <2>1. k \in [E -> Header] /\ hdr' = Linked(k, p, x, m, y)
    BY <1>2, <1>6
  <2>2. p \in E /\ m \in E
    BY <1>7
  <2>3. x \in Nat /\ y \in Nat
    BY <1>4
  <2> HIDE DEF x, y
  <2>4. /\ hdr' \in [E -> Header]
        /\ \A t \in E : /\ SameFields(k[t], hdr'[t]) /\ hdr'[t].length = k[t].length
                        /\ hdr'[t].next = IF t = p THEN x ELSE k[t].next
                        /\ hdr'[t].prev = IF t = m THEN y ELSE k[t].prev
    BY ONLY <2>1, <2>2, <2>3, Relinked
  <2> QED BY <2>4 DEF x, y
<1>9. DOMAIN hdr' = DOMAIN hdr \ {s} /\ hdr' \in [DOMAIN hdr' -> Header]
  BY <1>5, <1>8 DEF E
<1>10. ASSUME NEW t \in DOMAIN hdr'
       PROVE  /\ SameFields(hdr[t], hdr'[t]) /\ hdr'[t].length = hdr[t].length
              /\ hdr'[t].next = IF t = p THEN MBR ELSE hdr[t].next
              /\ hdr'[t].prev = IF t = MBR THEN p ELSE hdr[t].prev
  BY <1>6, <1>8 DEF m
<1>11. p \in DOMAIN hdr' /\ MBR \in DOMAIN hdr'
  BY <1>7, <1>8 DEF m
<1>12. Tiles(hdr')
  <2>1. hdr'[hdr[s].prev].next = MBR /\ hdr'[MBR].prev = hdr[s].prev
    BY <1>10, <1>11 DEF p
  <2>2. \A t \in DOMAIN hdr' :
           /\ hdr'[t].length = hdr[t].length
           /\ hdr'[t].type = "mbr" <=> hdr[t].type = "mbr"
           /\ t # hdr[s].prev => hdr'[t].next = hdr[t].next
           /\ t # MBR => hdr'[t].prev = hdr[t].prev
    BY <1>10 DEF p, SameFields
  <2> QED BY ONLY <2>1, <2>2, <1>1, <1>3, <1>9, CutIs
<1>13. Cleared(hdr, hdr', s)
  BY <1>9, <1>10 DEF Cleared
<1>14. Contents(hdr') /\ SlotsTrue(hdr', slots) /\ AllDoomed(hdr', slots, job.todo)
  BY <1>1, <1>3, <1>13, GoingCleared
<1>15. hdr'[p].next = MBR /\ hdr'[p].type = hdr[p].type
  BY <1>10, <1>11 DEF SameFields
<1>16. CutOff(job.at)
  BY <1>9, <1>10 DEF CutOff, s
<1>17. CASE hdr[p].type = "free"
  <2>1. p # MBR
    BY <1>1, <1>4, <1>17 DEF Tiles, Typed
  <2>2. \A i \in DOMAIN job.todo : job.todo[i] # p
    BY <1>3, <1>17 DEF Going, AllDoomed, Doomed
  <2>3. Going(hdr', slots, p, job.todo)
    BY <2>1, <2>2, <1>11, <1>14, <1>15, <1>17 DEF Going
  <2>4. job' = [step |-> "strip", at |-> p, todo |-> job.todo]
    BY <1>2, <1>17 DEF Stripping
  <2>5. Stripping(hdr', slots, job')
    BY <2>3, <2>4, <1>15 DEF Stripping
  <2>6. TailUsed(hdr', job')
    BY <2>4 DEF TailUsed
  <2> QED BY <2>5, <2>6, <1>2, <1>12, <1>14, <1>16 DEF TableInv, Table, JobTrue
<1>18. CASE hdr[p].type # "free"
  <2>1. job' = Todo(job.todo)
    BY <1>2, <1>18
  <2>2. JobTrue(hdr', slots, job')
    BY <2>1, <1>14, TodoTrue
  <2>3. TailUsed(hdr', job')
    <3> SUFFICES ASSUME NEW t \in DOMAIN hdr', hdr'[t].next = MBR PROVE hdr'[t].type # "free"
      BY DEF TailUsed
    <3>1. t = p
      BY <1>11, <1>12, <1>15, LastIs
    <3> QED BY <3>1, <1>15, <1>18
  <2> QED BY <2>2, <2>3, <1>2, <1>12, <1>14, <1>16 DEF TableInv, Table
<1> QED BY <1>17, <1>18

(* apaDelete leaves an empty block where nothing merges. *)
LEMMA EndMergeStep ==
  ASSUME TableInv, EndMerge
  PROVE  TableInv'
<1> DEFINE s == job.at
           h == hdr[s]
           v == Empty(h.length, h.next, h.prev)
           D == DOMAIN hdr
<1>1. Tiles(hdr) /\ Contents(hdr) /\ SlotsTrue(hdr, slots) /\ TailUsed(hdr, job)
  BY DEF TableInv, Table
<1>2. /\ Merging(hdr, slots, job) /\ job.step = "merge" /\ slots' = slots /\ job' = Todo(job.todo)
      /\ hdr' = [hdr EXCEPT ![s] = v] \/ hdr' = hdr
  BY JobKinds DEF TableInv, Table, EndMerge, apaMakeEmpty
<1>3. s \in DOMAIN hdr \ {MBR} /\ h.next # MBR /\ Going(hdr, slots, s, job.todo)
  BY <1>2 DEF Merging, Going
<1>4. CASE hdr' = hdr
  <2>1. JobTrue(hdr, slots, job') /\ job'.step \notin {"append", "strip"}
    BY <1>2, <1>3, TodoTrue DEF Going
  <2>2. TailUsed(hdr, job')
    BY <1>1, <1>2 DEF TailUsed
  <2> QED BY <2>1, <2>2, <1>1, <1>2, <1>4 DEF TableInv, Table
<1>5. CASE hdr' = [hdr EXCEPT ![s] = v]
  <2>1. /\ v \in Header /\ EmptyHeader(v) /\ v.next = h.next /\ v.prev = h.prev
        /\ v.length = h.length /\ v.type = "free"
    <3>1. h.length \in Nat \ {0} /\ h.next \in Nat /\ h.prev \in Nat
      BY <1>1, <1>3, FieldsOf
    <3> HIDE DEF h
    <3> QED BY <3>1, EmptyIs DEF EmptyHeader
  <2>2. D = DOMAIN hdr /\ hdr \in [D -> Header] /\ s \in D
    BY <1>1, <1>3 DEF Tiles, Typed
  <2> HIDE DEF D, v
  <2>3. hdr' \in [D -> Header] /\ hdr'[s] = v /\ \A t \in D : t # s => hdr'[t] = hdr[t]
    BY <2>1, <2>2, <1>5
  <2>4. DOMAIN hdr' = DOMAIN hdr /\ hdr' \in [DOMAIN hdr' -> Header]
    BY <2>2, <2>3
  <2>5. hdr[s].type # "mbr"
    BY <1>1, <1>3 DEF Tiles, Typed
  <2>6. SameLinks(hdr, hdr')
    BY <2>1, <2>2, <2>3, <2>4, <2>5 DEF SameLinks
  <2>7. Tiles(hdr')
    BY <2>6, <1>1, TilesSame
  <2>8. Cleared(hdr, hdr', s)
    BY <2>1, <2>2, <2>3, <2>4 DEF Cleared, SameFields
  <2>9. Contents(hdr') /\ SlotsTrue(hdr', slots) /\ AllDoomed(hdr', slots, job.todo)
    BY <2>8, <1>1, <1>3, GoingCleared
  <2>10. JobTrue(hdr', slots, job')
    BY <2>9, <1>2, TodoTrue
  <2>11. TailUsed(hdr', job')
    BY <2>1, <2>2, <2>3, <2>4, <1>1, <1>2, <1>3 DEF TailUsed
  <2> QED BY <2>7, <2>9, <2>10, <2>11, <1>2 DEF TableInv, Table
<1> QED BY <1>2, <1>4, <1>5

(* The block that a walk to the left or to the right finds has the header   *)
(* it started from and empty blocks in it, nothing else.                    *)
LEMMA LeftIs ==
  ASSUME Tiles(hdr), NEW s \in DOMAIN hdr \ {MBR}, hdr[s].next # MBR
  PROVE  /\ ToTheLeft(s)[1] \in DOMAIN hdr \ {MBR} /\ ToTheLeft(s)[1] <= s
         /\ ToTheLeft(s)[2] = hdr[s].next - ToTheLeft(s)[1]
         /\ \A t \in DOMAIN hdr : ToTheLeft(s)[1] <= t /\ t < s => hdr[t].type = "free"
<1> DEFINE end == s + hdr[s].length
           stops == {t \in DOMAIN hdr : t < s /\ ~Joins(t, end - t, t)}
           stop == Max(stops)
           b == hdr[stop].next
<1>1. s \in Nat /\ MBR \in DOMAIN hdr /\ MBR = 0 /\ s # MBR /\ hdr[MBR].type = "mbr"
  BY FieldsOf DEF Tiles, Typed, MBR
<1>2. MBR \in stops
  <2>1. ~Joins(MBR, end - MBR, MBR)
    BY <1>1 DEF Joins
  <2>2. MBR < s
    BY <1>1
  <2> HIDE DEF end
  <2> QED BY <2>1, <2>2, <1>1
<1>3. stops \in SUBSET Nat /\ \A t \in stops : t <= s
  <2>1. \A t \in stops : t \in DOMAIN hdr /\ t < s
    OBVIOUS
  <2>2. \A t \in DOMAIN hdr : t \in Nat
    BY FieldsOf
  <2> HIDE DEF stops
  <2> QED BY <2>1, <2>2, <1>1
<1>4. stop \in stops /\ \A t \in stops : stop >= t
  <2> HIDE DEF stops
  <2> QED BY <1>1, <1>2, <1>3, MaxIs
<1>5. stop \in DOMAIN hdr /\ stop < s /\ stop \in Nat
  BY <1>3, <1>4
<1>6. \A t \in DOMAIN hdr : t \in Nat /\ (stop < t /\ t < s => hdr[t].type = "free")
  <2> SUFFICES ASSUME NEW t \in DOMAIN hdr
               PROVE  t \in Nat /\ (stop < t /\ t < s => hdr[t].type = "free")
    OBVIOUS
  <2>1. t \in Nat
    BY FieldsOf
  <2>2. t < s /\ hdr[t].type # "free" => t \in stops
    BY DEF Joins
  <2> HIDE DEF stop, stops
  <2>3. t \in stops => stop >= t
    BY <1>4
  <2> QED BY <2>1, <2>2, <2>3, <1>5
<1>7. ToTheLeft(s)[1] = b /\ ToTheLeft(s)[2] = end - b
  BY DEF ToTheLeft
<1>8. end = hdr[s].next
  BY NextIs
<1> HIDE DEF stop, end
<1>9. b # MBR
  <2>1. hdr[stop].next = MBR => s <= stop
    BY <1>5 DEF Tiles, Ending
  <2> QED BY <2>1, <1>1, <1>5
<1>10. b \in DOMAIN hdr /\ b = stop + hdr[stop].length /\ stop < b
  BY <1>5, <1>9, NextIs
<1>11. b <= s
  BY <1>5, <1>10 DEF Tiles, Spaced
<1> HIDE DEF b
<1>12. \A t \in DOMAIN hdr : b <= t /\ t < s => hdr[t].type = "free"
  <2>1. b \in Nat
    BY <1>6, <1>10
  <2> QED BY <2>1, <1>5, <1>6, <1>10
<1> QED BY <1>7, <1>8, <1>9, <1>10, <1>11, <1>12

(* How far the empty blocks to the right that apaDeleteFixNext joins reach. *)
LEMMA RightIs ==
  ASSUME Tiles(hdr), NEW s \in DOMAIN hdr \ {MBR}, hdr[s].next # MBR,
         \A t \in DOMAIN hdr : hdr[t].next = MBR => hdr[t].type # "free"
  PROVE  /\ ToTheRight(s)[1] \in DOMAIN hdr /\ s < ToTheRight(s)[1]
         /\ ToTheRight(s)[2] = ToTheRight(s)[1] - s
         /\ \A t \in DOMAIN hdr : s < t /\ t < ToTheRight(s)[1] => hdr[t].type = "free"
<1> DEFINE stops == {t \in DOMAIN hdr : s < t /\ ~Joins(t, t + hdr[t].length - s, s)}
           n == Min(stops)
           L == hdr[MBR].prev
<1>1. L \in DOMAIN hdr /\ hdr[L].next = MBR
  BY LastIs
<1>2. s < L
  <2>1. s <= L
    BY <1>1 DEF Tiles, Ending
  <2>2. s # L
    BY <1>1
  <2>3. s \in Nat /\ L \in Nat
    BY <1>1, FieldsOf
  <2> HIDE DEF L
  <2> QED BY <2>1, <2>2, <2>3
<1>3. L \in stops
  BY <1>1, <1>2 DEF Joins
<1>4. stops \in SUBSET Nat
  BY FieldsOf
<1>5. n \in stops /\ \A t \in stops : n <= t
  <2> HIDE DEF stops
  <2> QED BY <1>3, <1>4, MinIs
<1>6. ToTheRight(s)[1] = n /\ ToTheRight(s)[2] = n - s
  BY <1>3 DEF ToTheRight
<1>7. n \in DOMAIN hdr /\ s < n /\ n \in Nat
  BY <1>4, <1>5
<1> HIDE DEF n
<1>8. ASSUME NEW t \in DOMAIN hdr, s < t, t < n PROVE hdr[t].type = "free"
  <2>1. t \in Nat
    BY FieldsOf
  <2>2. hdr[t].type # "free" => t \in stops
    BY <1>8 DEF Joins
  <2> HIDE DEF stops
  <2> QED BY <2>1, <2>2, <1>5, <1>7, <1>8
<1> QED BY <1>6, <1>7, <1>8

(* Empty blocks, and the header that goes, become one empty block.          *)
MergedAt(b, n) ==
  /\ b \in DOMAIN hdr \ {MBR} /\ n \in DOMAIN hdr /\ b <= job.at /\ job.at < n
  /\ \A t \in DOMAIN hdr : b <= t /\ t < n /\ t # job.at => hdr[t].type = "free"
  /\ hdr' \in [DOMAIN hdr' -> Header]
  /\ DOMAIN hdr' = {t \in DOMAIN hdr : t <= b \/ n <= t}
  /\ hdr'[b].next = n /\ hdr'[b].prev = hdr[b].prev /\ hdr'[b].length = n - b
  /\ hdr'[b].type = "free"
  /\ SameFields(hdr[b], hdr'[b]) \/ EmptyHeader(hdr'[b])
  /\ hdr'[n].prev = b
  /\ \A t \in DOMAIN hdr' : t # b =>
       /\ SameFields(hdr[t], hdr'[t])
       /\ hdr'[t].next = hdr[t].next /\ hdr'[t].length = hdr[t].length
       /\ t # n => hdr'[t].prev = hdr[t].prev

LEMMA MergedTable ==
  ASSUME TableInv, Merging(hdr, slots, job), NEW b, NEW n, MergedAt(b, n), slots' = slots,
         NEW r \in Nat, job' = [job EXCEPT !.round = r, !.at = b],
         \A t \in DOMAIN hdr : hdr[t].next = MBR => hdr[t].type # "free"
  PROVE  TableInv' /\ Cleared(hdr, hdr', job.at)
<1> USE DEF MergedAt
<1> DEFINE s == job.at
<1>1. Tiles(hdr) /\ Contents(hdr) /\ SlotsTrue(hdr, slots) /\ Going(hdr, slots, s, job.todo)
  BY DEF TableInv, Table, Merging
<1>2. s \in DOMAIN hdr
  BY <1>1 DEF Going
<1>3. /\ s \in Nat /\ b \in Nat /\ n \in Nat /\ MBR = 0 /\ b < n /\ n # b /\ n # MBR
      /\ \A t \in DOMAIN hdr : t \in Nat
  <2>1. \A t \in DOMAIN hdr : t \in Nat
    BY <1>1, FieldsOf
  <2>2. s \in Nat /\ b \in Nat /\ n \in Nat
    BY <2>1, <1>2
  <2> HIDE DEF s
  <2>3. b <= s /\ s < n
    BY DEF s
  <2> QED BY <2>1, <2>2, <2>3 DEF MBR
<1>4. b \in DOMAIN hdr' /\ n \in DOMAIN hdr'
  BY <1>3
<1>5. Tiles(hdr')
  <2>1. hdr[b].type # "mbr"
    BY <1>1 DEF Tiles, Typed
  <2>2. \A t \in DOMAIN hdr' : hdr'[t].type = "mbr" <=> hdr[t].type = "mbr"
    BY <2>1 DEF SameFields
  <2>3. hdr'[n].next = hdr[n].next /\ hdr'[n].length = hdr[n].length
    BY <1>3, <1>4
  <2>4. \A t \in DOMAIN hdr' : t # b /\ t # n =>
           hdr'[t].next = hdr[t].next /\ hdr'[t].prev = hdr[t].prev /\ hdr'[t].length = hdr[t].length
    OBVIOUS
  <2>5. b \in DOMAIN hdr /\ n \in DOMAIN hdr
    OBVIOUS
  <2>6. hdr' \in [DOMAIN hdr' -> Header] /\ DOMAIN hdr' = {t \in DOMAIN hdr : t <= b \/ n <= t}
        /\ hdr'[b].next = n /\ hdr'[b].prev = hdr[b].prev /\ hdr'[b].length = n - b /\ hdr'[n].prev = b
        /\ b < n
    BY <1>3
  <2> QED BY ONLY <2>2, <2>3, <2>4, <2>5, <2>6, <1>1, MergedIs
<1>6. Cleared(hdr, hdr', s)
  <2>1. ASSUME NEW t \in DOMAIN hdr, hdr[t].type = "pfs", t # s
        PROVE  t \in DOMAIN hdr' /\ SameFields(hdr[t], hdr'[t])
    <3>1. ~(b <= t /\ t < n)
      BY <2>1
    <3>2. t \in DOMAIN hdr' /\ t # b
      BY <3>1, <1>3
    <3> QED BY <3>2
  <2>2. \A t \in DOMAIN hdr' : (t \in DOMAIN hdr /\ SameFields(hdr[t], hdr'[t])) \/ EmptyHeader(hdr'[t])
    OBVIOUS
  <2> QED BY <2>1, <2>2 DEF Cleared
<1>7. Contents(hdr') /\ SlotsTrue(hdr', slots) /\ AllDoomed(hdr', slots, job.todo)
  BY <1>1, <1>6, GoingCleared
<1>8. \A i \in DOMAIN job.todo : job.todo[i] # b
  <2>1. CASE b = s
    BY <2>1, <1>1 DEF Going
  <2>2. CASE b # s
    <3>1. hdr[b].type = "free"
      BY <2>2, <1>3
    <3> QED BY <3>1, <1>1 DEF Going, AllDoomed, Doomed
  <2> QED BY <2>1, <2>2
<1>9. Going(hdr', slots, b, job.todo)
  BY <1>4, <1>7, <1>8 DEF Going
<1>10. job' = [step |-> "merge", at |-> b, round |-> r, start |-> job.start,
               length |-> job.length, todo |-> job.todo]
  BY DEF Merging
<1>11. Merging(hdr', slots, job')
  BY <1>3, <1>9, <1>10 DEF Merging
<1>12. TailUsed(hdr', job')
  <2> SUFFICES ASSUME NEW t \in DOMAIN hdr', hdr'[t].next = MBR PROVE hdr'[t].type # "free"
    BY DEF TailUsed
  <2>1. t # b
    BY <1>3
  <2>2. t \in DOMAIN hdr /\ hdr[t].next = MBR /\ hdr'[t].type = hdr[t].type
    BY <2>1 DEF SameFields
  <2> QED BY <2>2
<1>13. TableInv'
  BY <1>5, <1>7, <1>11, <1>12 DEF TableInv, Table, JobTrue
<1> QED BY <1>6, <1>13

(* The headers that are left when those between two others go. *)
LEMMA WithoutIs ==
  ASSUME NEW h, Tiles(h), NEW b \in DOMAIN h, NEW n \in DOMAIN h, b < n
  PROVE  /\ DOMAIN Without(h, b, n - b) = {t \in DOMAIN h : t <= b \/ n <= t}
         /\ \A t \in DOMAIN Without(h, b, n - b) : Without(h, b, n - b)[t] = h[t]
<1>1. b \in Nat /\ n \in Nat /\ \A t \in DOMAIN h : t \in Nat
  BY FieldsOf
<1>2. b + (n - b) - 1 = n - 1
  BY <1>1
<1>3. DOMAIN Without(h, b, n - b) = DOMAIN h \ (b + 1 .. n - 1)
  BY <1>2 DEF Without
<1>4. \A t \in DOMAIN h : t \in b + 1 .. n - 1 <=> ~(t <= b \/ n <= t)
  BY <1>1
<1>5. DOMAIN h \ (b + 1 .. n - 1) = {t \in DOMAIN h : t <= b \/ n <= t}
  BY <1>4
<1>6. \A t \in DOMAIN Without(h, b, n - b) : Without(h, b, n - b)[t] = h[t]
  BY DEF Without
<1> QED BY <1>3, <1>5, <1>6

(* apaDeleteFixPrev. *)
LEMMA MergeLeft ==
  ASSUME TableInv, Merging(hdr, slots, job), ToTheLeft(job.at)[1] # job.at,
         hdr' = apaDeleteFixPrev(job.at), slots' = slots, NEW r \in Nat,
         job' = [job EXCEPT !.round = r, !.at = ToTheLeft(job.at)[1]],
         \A t \in DOMAIN hdr : hdr[t].next = MBR => hdr[t].type # "free"
  PROVE  /\ TableInv' /\ Cleared(hdr, hdr', job.at)
         /\ MergedAt(ToTheLeft(job.at)[1], hdr[job.at].next)
<1> DEFINE s == job.at
           b == ToTheLeft(s)[1]
           n == hdr[s].next
           l == n - b
           k == Without(hdr, b, l)
           E == DOMAIN k
           x == b + l
           y == b
<1>1. Tiles(hdr) /\ s \in DOMAIN hdr \ {MBR} /\ n # MBR
  BY DEF TableInv, Table, Merging, Going
<1>2. /\ b \in DOMAIN hdr \ {MBR} /\ b <= s /\ ToTheLeft(s)[2] = l
      /\ \A t \in DOMAIN hdr : b <= t /\ t < s => hdr[t].type = "free"
  BY <1>1, LeftIs
<1>3. n \in DOMAIN hdr /\ n = s + hdr[s].length /\ s < n
  BY <1>1, NextIs
<1>4. s \in Nat /\ b \in Nat /\ n \in Nat /\ \A t \in DOMAIN hdr : t \in Nat
  BY <1>1, <1>2, <1>3, FieldsOf
<1>5. hdr' = Sized(k, b, l, x, n, y) /\ b # s
  BY <1>2 DEF apaDeleteFixPrev, Sized
<1> HIDE DEF s, b, n
<1>6. b < s /\ b < n /\ l \in Nat \ {0} /\ x = n /\ y = b /\ y \in Nat /\ x \in Nat
  BY <1>2, <1>3, <1>4, <1>5
<1>7. /\ E = {t \in DOMAIN hdr : t <= b \/ n <= t} /\ \A t \in E : k[t] = hdr[t]
  <2>1. Tiles(hdr) /\ b \in DOMAIN hdr /\ n \in DOMAIN hdr
    BY <1>1, <1>2, <1>3
  <2>2. b < n
    BY <1>6
  <2> QED BY ONLY <2>1, <2>2, WithoutIs
<1>8. b \in E /\ n \in E
  BY <1>2, <1>3, <1>7, <1>4
<1>9. k \in [E -> Header]
  <2>1. \A t \in E : k[t] \in Header
    BY <1>7, <1>1, FieldsOf
  <2>2. k = [t \in E |-> k[t]]
    BY DEF Without
  <2> HIDE DEF k, E
  <2> QED BY <2>1, <2>2
<1> HIDE DEF k, E, l, x, y
<1>10. /\ hdr' \in [E -> Header]
       /\ \A t \in E :
              /\ SameFields(k[t], hdr'[t])
              /\ hdr'[t].length = IF t = b THEN l ELSE k[t].length
              /\ hdr'[t].next = IF t = b THEN x ELSE k[t].next
              /\ hdr'[t].prev = IF t = n THEN y ELSE k[t].prev
  <2>1. hdr' = Sized(k, b, l, x, n, y)
    BY <1>5
  <2>2. k \in [E -> Header] /\ b \in E /\ n \in E
    BY <1>8, <1>9
  <2>3. l \in Nat \ {0} /\ x \in Nat /\ y \in Nat
    BY <1>6
  <2>4. hdr' \in [E -> Header] /\ SizedFields(E, k, hdr', b, l, x, n, y)
    BY ONLY <2>1, <2>2, <2>3, Resized
  <2> QED BY <2>4 DEF SizedFields
<1>11. DOMAIN hdr' = E /\ hdr' \in [DOMAIN hdr' -> Header]
  BY <1>10
<1>12. ASSUME NEW t \in DOMAIN hdr'
       PROVE  /\ SameFields(hdr[t], hdr'[t])
              /\ hdr'[t].length = IF t = b THEN n - b ELSE hdr[t].length
              /\ hdr'[t].next = IF t = b THEN n ELSE hdr[t].next
              /\ hdr'[t].prev = IF t = n THEN b ELSE hdr[t].prev
  BY <1>6, <1>7, <1>10, <1>11 DEF l
<1>13. b # n
  BY <1>6, <1>4
<1>14. /\ hdr'[b].next = n /\ hdr'[b].prev = hdr[b].prev /\ hdr'[b].length = n - b
       /\ SameFields(hdr[b], hdr'[b]) /\ hdr'[n].prev = b
  BY <1>8, <1>11, <1>12, <1>13
<1>15. hdr'[b].type = "free"
  BY <1>2, <1>6, <1>4, <1>14 DEF SameFields
<1>16. \A t \in DOMAIN hdr' : t # b =>
           /\ SameFields(hdr[t], hdr'[t])
           /\ hdr'[t].next = hdr[t].next /\ hdr'[t].length = hdr[t].length
           /\ t # n => hdr'[t].prev = hdr[t].prev
  BY <1>12
<1>17. ASSUME NEW t \in DOMAIN hdr, b <= t, t < n, t # s PROVE hdr[t].type = "free"
  <2>1. s < t => n <= t
    BY <1>1, <1>3 DEF Tiles, Spaced
  <2>2. t < s
    BY <2>1, <1>17, <1>4
  <2> QED BY <2>2, <1>2, <1>17
<1>18. b <= job.at /\ job.at < n /\ \A t \in DOMAIN hdr : b <= t /\ t < n /\ t # job.at => hdr[t].type = "free"
  BY <1>2, <1>3, <1>17 DEF s
<1>19. job' = [job EXCEPT !.round = r, !.at = b]
  BY DEF b, s
<1>20. DOMAIN hdr' = {t \in DOMAIN hdr : t <= b \/ n <= t}
  BY <1>7, <1>11
<1>21. b \in DOMAIN hdr \ {MBR} /\ n \in DOMAIN hdr
  BY <1>2, <1>3
<1>22. b <= job.at /\ job.at < n
  BY <1>18
<1>23. \A t \in DOMAIN hdr : b <= t /\ t < n /\ t # job.at => hdr[t].type = "free"
  BY <1>18
<1>24. /\ hdr'[b].next = n /\ hdr'[b].prev = hdr[b].prev /\ hdr'[b].length = n - b
       /\ hdr'[b].type = "free" /\ SameFields(hdr[b], hdr'[b]) /\ hdr'[n].prev = b
  BY <1>14, <1>15
<1> HIDE DEF E, k, l, x, y
<1>25. MergedAt(b, n)
  BY <1>11, <1>16, <1>20, <1>21, <1>22, <1>23, <1>24 DEF MergedAt
<1>26. b = ToTheLeft(job.at)[1] /\ n = hdr[job.at].next
  BY DEF b, n, s
<1>27. TableInv' /\ Cleared(hdr, hdr', job.at)
  BY <1>19, <1>25, MergedTable
<1> QED BY <1>25, <1>26, <1>27

(* apaDeleteFixNext. *)
LEMMA MergeRight ==
  ASSUME TableInv, Merging(hdr, slots, job), ToTheRight(job.at)[2] # hdr[job.at].length,
         hdr' = apaDeleteFixNext(job.at), slots' = slots, NEW r \in Nat,
         job' = [job EXCEPT !.round = r],
         \A t \in DOMAIN hdr : hdr[t].next = MBR => hdr[t].type # "free"
  PROVE  /\ TableInv' /\ Cleared(hdr, hdr', job.at)
         /\ MergedAt(job.at, ToTheRight(job.at)[1])
<1> DEFINE s == job.at
           n == ToTheRight(s)[1]
           l == n - s
           v == Empty(l, n, hdr[s].prev)
           k == Without(hdr, s, l)
           w == With(k, s, v)
           E == DOMAIN k
           y == s
<1>1. Tiles(hdr) /\ s \in DOMAIN hdr \ {MBR} /\ hdr[s].next # MBR
  BY DEF TableInv, Table, Merging, Going
<1>2. /\ n \in DOMAIN hdr /\ s < n /\ ToTheRight(s)[2] = l
      /\ \A t \in DOMAIN hdr : s < t /\ t < n => hdr[t].type = "free"
  BY <1>1, RightIs
<1>3. s \in Nat /\ n \in Nat /\ hdr[s].prev \in Nat /\ \A t \in DOMAIN hdr : t \in Nat
  BY <1>1, <1>2, FieldsOf
<1>4. hdr' = SetPrev(w, n, y)
  BY <1>2 DEF apaDeleteFixNext, SetPrev
<1>5. job' = [job EXCEPT !.round = r, !.at = s]
  BY DEF Merging
<1> HIDE DEF s, n
<1>6. l \in Nat \ {0} /\ y = s /\ y \in Nat /\ n # s
  BY <1>2, <1>3
<1>7. /\ v \in Header /\ EmptyHeader(v) /\ v.next = n /\ v.prev = hdr[s].prev
      /\ v.length = l /\ v.type = "free"
  <2> DEFINE p == hdr[s].prev
  <2>1. l \in Nat \ {0} /\ n \in Nat /\ p \in Nat /\ v = Empty(l, n, p)
    BY <1>3, <1>6
  <2> HIDE DEF l, p, v
  <2>2. /\ v \in Header /\ EmptyHeader(v) /\ v.next = n /\ v.prev = p
        /\ v.length = l /\ v.type = "free"
    BY <2>1, EmptyIs DEF EmptyHeader
  <2> QED BY <2>2 DEF p
<1>8. /\ E = {t \in DOMAIN hdr : t <= s \/ n <= t} /\ \A t \in E : k[t] = hdr[t]
  BY <1>1, <1>2, WithoutIs
<1>9. s \in E /\ n \in E
  BY <1>1, <1>2, <1>3, <1>8
<1>10. k \in [E -> Header]
  <2>1. \A t \in E : k[t] \in Header
    BY <1>8, <1>1, FieldsOf
  <2>2. k = [t \in E |-> k[t]]
    BY DEF Without
  <2> HIDE DEF k, E
  <2> QED BY <2>1, <2>2
<1> HIDE DEF k, l, y, v
<1>11. w \in [E -> Header] /\ w[s] = v /\ \A t \in E : t # s => w[t] = k[t]
  <2>1. E \cup {s} = E
    BY <1>9
  <2> HIDE DEF E
  <2>2. w \in [E \cup {s} -> Header]
    BY <1>7, <1>10, WithIs
  <2>3. w[s] = v
    BY DEF With
  <2>4. \A t \in E : t # s => w[t] = k[t]
    BY DEF With, E
  <2> QED BY <2>1, <2>2, <2>3, <2>4
<1> HIDE DEF E, w
<1>12. /\ hdr' \in [E -> Header]
       /\ \A t \in E : /\ SameFields(w[t], hdr'[t]) /\ hdr'[t].next = w[t].next
                       /\ hdr'[t].length = w[t].length
                       /\ hdr'[t].prev = IF t = n THEN y ELSE w[t].prev
  <2>1. hdr' = SetPrev(w, n, y) /\ w \in [E -> Header] /\ n \in E
    BY <1>4, <1>9, <1>11
  <2>2. y \in Nat
    BY <1>6
  <2> QED BY ONLY <2>1, <2>2, PrevSet
<1>13. DOMAIN hdr' = E /\ hdr' \in [DOMAIN hdr' -> Header]
  BY <1>12
<1>14. /\ SameFields(v, hdr'[s]) /\ hdr'[s].next = n /\ hdr'[s].prev = hdr[s].prev
       /\ hdr'[s].length = n - s
  BY <1>6, <1>7, <1>9, <1>11, <1>12 DEF l
<1>15. EmptyHeader(hdr'[s]) /\ hdr'[s].type = "free"
  BY <1>7, <1>14 DEF EmptyHeader, SameFields
<1>16. ASSUME NEW t \in DOMAIN hdr', t # s
       PROVE  /\ SameFields(hdr[t], hdr'[t])
              /\ hdr'[t].next = hdr[t].next /\ hdr'[t].length = hdr[t].length
              /\ hdr'[t].prev = IF t = n THEN s ELSE hdr[t].prev
  BY <1>6, <1>8, <1>11, <1>12, <1>13, <1>16
<1>17. hdr'[n].prev = s
  BY <1>6, <1>9, <1>13, <1>16
<1>18. \A t \in DOMAIN hdr : s <= t /\ t < n /\ t # s => hdr[t].type = "free"
  BY <1>2, <1>3
<1>19. s \in DOMAIN hdr \ {MBR} /\ s <= job.at /\ job.at < n
       /\ \A t \in DOMAIN hdr : s <= t /\ t < n /\ t # job.at => hdr[t].type = "free"
  BY <1>1, <1>2, <1>3, <1>18 DEF s
<1>20. DOMAIN hdr' = {t \in DOMAIN hdr : t <= s \/ n <= t}
  BY <1>8, <1>13
<1>21. \A t \in DOMAIN hdr' : t # s =>
           /\ SameFields(hdr[t], hdr'[t])
           /\ hdr'[t].next = hdr[t].next /\ hdr'[t].length = hdr[t].length
           /\ t # n => hdr'[t].prev = hdr[t].prev
  BY <1>16
<1>22. MergedAt(s, n)
  BY <1>2, <1>13, <1>14, <1>15, <1>17, <1>19, <1>20, <1>21 DEF MergedAt
<1>23. s = job.at /\ n = ToTheRight(job.at)[1]
  BY DEF s, n
<1>24. TableInv' /\ Cleared(hdr, hdr', job.at)
  BY <1>5, <1>22, MergedTable
<1> QED BY <1>22, <1>23, <1>24

(* One round of apaDelete, to the left or to the right. *)
LEMMA MergeStep ==
  ASSUME TableInv, Merge
  PROVE  TableInv'
<1> DEFINE r == Min(RoundsLeft)
<1>1. Merging(hdr, slots, job) /\ job.step = "merge" /\ RoundsLeft # {} /\ slots' = slots
  BY JobKinds DEF TableInv, Table, Merge
<1>2. \A t \in DOMAIN hdr : hdr[t].next = MBR => hdr[t].type # "free"
  BY <1>1 DEF TableInv, Table, TailUsed
<1>3. r \in RoundsLeft /\ r \in Nat
  <2>1. job.round \in Nat
    BY <1>1 DEF Merging
  <2>2. RoundsLeft \in SUBSET Nat
    BY <2>1 DEF RoundsLeft
  <2> QED BY <1>1, <2>2, MinIs
<1>4. r + 1 \in Nat
  BY <1>3
<1>5. CASE r % 2 = 1
  <2>1. /\ hdr' = apaDeleteFixPrev(job.at)
        /\ job' = [job EXCEPT !.round = r + 1, !.at = ToTheLeft(job.at)[1]]
    BY <1>5 DEF Merge
  <2>2. ToTheLeft(job.at)[1] # job.at
    BY <1>3, <1>5 DEF RoundsLeft
  <2> HIDE DEF r
  <2> QED BY <2>1, <2>2, <1>1, <1>2, <1>4, MergeLeft
<1>6. CASE r % 2 # 1
  <2>1. hdr' = apaDeleteFixNext(job.at) /\ job' = [job EXCEPT !.round = r + 1]
    BY <1>6 DEF Merge
  <2>2. ToTheRight(job.at)[2] # hdr[job.at].length
    BY <1>3, <1>6 DEF RoundsLeft
  <2> HIDE DEF r
  <2> QED BY <2>1, <2>2, <1>1, <1>2, <1>4, MergeRight
<1> QED BY <1>5, <1>6

-----------------------------------------------------------------------------
(***************************************************************************)
(* What cuts a job short, and the theorems.                                *)
(***************************************************************************)
LEMMA CrashStep ==
  ASSUME EndUncut, TableInv, Crash
  PROVE  TableInv'
<1>1. /\ job' = Idle /\ slots' = [x \in Slots |-> Closed] /\ hdr' = hdr
      /\ job = Idle \/ job.step \in FaultSteps
  BY DEF Crash, CutShort
<1>2. job.step \notin {"append", "strip"}
  BY <1>1 DEF EndUncut, Idle
<1>3. TailUsed(hdr, Idle)
  BY <1>2 DEF TableInv, Table, TailUsed
<1>4. SlotsTrue(hdr, slots')
  BY <1>1, ClosedIs DEF SlotsTrue
<1> QED BY <1>1, <1>3, <1>4 DEF TableInv, Table, JobTrue

(* A removal that meets a header it cannot read. *)
LEMMA ReadErrorStep ==
  ASSUME EndUncut, TableInv, ReadError
  PROVE  TableInv'
<1>1. hdr' = hdr /\ slots' = slots /\ job.step \in FaultSteps
  BY DEF ReadError, CutShort
<1>2. job.step \notin {"append", "strip"}
  BY <1>1 DEF EndUncut
<1>3. \A j : TailUsed(hdr, j)
  BY <1>2 DEF TableInv, Table, TailUsed
<1>4. JobTrue(hdr, slots, job')
  <2>1. CASE job' = Idle
    BY <2>1 DEF JobTrue
  <2>2. CASE job.step = "delete" /\ Len(job.todo) > 1
             /\ job' = Todo(IF Len(job.todo) = 2 THEN <<>> ELSE Tail(job.todo))
    <3>1. AllDoomed(hdr, slots, job.todo) /\ job.todo # <<>>
      BY <2>2, JobKinds DEF TableInv, Table, Deleting
    <3>2. AllDoomed(hdr, slots, Tail(job.todo))
      BY <3>1, TailDoomed
    <3>3. AllDoomed(hdr, slots, <<>>)
      BY DEF AllDoomed
    <3> QED BY <2>2, <3>2, <3>3, TodoTrue
  <2>3. CASE job.step = "merge" /\ job' = Todo(job.todo)
    <3>1. AllDoomed(hdr, slots, job.todo)
      BY <2>3, JobKinds DEF TableInv, Table, Merging, Going
    <3> QED BY <2>3, <3>1, TodoTrue
  <2> QED BY <1>2, <2>1, <2>2, <2>3 DEF ReadError
<1> QED BY <1>1, <1>3, <1>4 DEF TableInv, Table

(* Every step of every call, and what cuts it short, keeps the invariant, ... *)
LEMMA TableStep ==
  ASSUME EndUncut, TableInv, [Next]_vars
  PROVE  TableInv'
<1>1. CASE hddFormat
  BY <1>1, FormatStep
<1>2. CASE \E n \in Names \cup ToSet(SystemNames), x \in Slots : Open(n, x)
  BY <1>2, OpenStep
<1>3. CASE \E n \in Names, x \in Slots, size \in Sizes : Create(n, size, x)
  BY <1>3, CreateStep
<1>4. CASE \E x \in Slots : hddClose(x) \/ ioctl2DeleteLastSub(x)
  BY <1>4, CloseStep, DeleteLastStep
<1>5. CASE \E x \in Slots, size \in Sizes : ioctl2AddSub(x, size)
  BY <1>5, AddSubStep
<1>6. CASE \E n \in Names : apaRemove(n) \/ \E m \in Names : apaRename(n, m)
  BY <1>6, RemoveStep, RenameStep
<1>7. CASE Work
  BY <1>7, HalveStep, FillStep, PadStep, PlaceStep, LinkStep, DeleteNextStep, StripStep,
     MergeStep, EndMergeStep DEF Work
<1>8. CASE Crash
  BY <1>8, CrashStep
<1>9. CASE ReadError
  BY <1>9, ReadErrorStep
<1>10. CASE UNCHANGED vars
  BY <1>10 DEF vars, TableInv
<1> QED BY <1>1, <1>2, <1>3, <1>4, <1>5, <1>6, <1>7, <1>8, <1>9, <1>10 DEF Next

(* ... so it always holds. *)
LEMMA TableInvariant ==
  ASSUME EndUncut
  PROVE  Spec => []TableInv
<1>1. Init => TableInv
  BY InitTable
<1>2. TableInv /\ [Next]_vars => TableInv'
  BY TableStep
<1> QED BY <1>1, <1>2, PTL DEF Spec

(* The partitions tile the disk, linked both ways, after every flush of     *)
(* every call, format and deletion, whatever is cut short before the end of *)
(* the table is reached (apa.c apaInsertPartition, apaDelete; hdd_fio.c).   *)
THEOREM TilesAlways ==
  ASSUME EndUncut
  PROVE  Spec => []ChainTiles
<1>1. TableInv => ChainTiles
  <2> SUFFICES ASSUME TableInv PROVE ChainTiles
    OBVIOUS
  <2>1. Forth(hdr) /\ Ending(hdr)
    BY DEF TableInv, Table, Tiles
  <2> QED BY <2>1 DEF ChainTiles, Forth, Ending
<1> QED BY <1>1, TableInvariant, PTL

(* A partition lists living sub-partitions of its own only, under their     *)
(* numbers, wherever a removal, an addition or a crash stopped              *)
(* (hdd_fio.c apaRemove, ioctl2AddSub, ioctl2DeleteLastSub).                *)
THEOREM SubsAlways ==
  ASSUME EndUncut
  PROVE  Spec => []ListedSubsLive
<1>1. TableInv => ListedSubsLive
  BY DEF TableInv, Table, Contents, ListedSubsLive, Mains
<1> QED BY <1>1, TableInvariant, PTL

(* An open slot tells the truth about its partition (hdd_fio.c apaOpen,     *)
(* apaRemove, apaRename and the two ioctls).                                *)
THEOREM SlotsAlways ==
  ASSUME EndUncut
  PROVE  Spec => []SlotsAgree
<1>1. TableInv => SlotsAgree
  BY DEF TableInv, Table, SlotsTrue, SlotsAgree, Mains, IsMain, IsSub
<1> QED BY <1>1, TableInvariant, PTL

(* No two partitions have one name and no partition two slots (hdd_fio.c    *)
(* apaOpen, apaRename; hdd.c hddFormat).                                    *)
THEOREM NamesAlways ==
  ASSUME EndUncut
  PROVE  Spec => []OneOfAName
<1>1. TableInv => OneOfAName
  BY DEF TableInv, Table, Contents, SlotsTrue, OneOfAName, Mains, IsMain, IsSub
<1> QED BY <1>1, TableInvariant, PTL
-----------------------------------------------------------------------------
(***************************************************************************)
(* Proofs that a job of the APA driver that nothing cuts short leaves no   *)
(* partition that nobody lists, no empty block at the end of the table and *)
(* no two empty blocks that could be one, on any disk.                     *)
(*                                                                         *)
(* apaDelete tries twice on each side.  That is enough while the largest   *)
(* block it may build is below 2 GB (MergeMax < 16); its maxsize, 1 GB - 1 *)
(* sector, leaves it 512 MB (MergeMax = 4).                                *)
(***************************************************************************)
(* A block of l units may begin at s and be built by apaDelete. *)
Fits(l, s) == l \in Powers /\ l <= MergeMax /\ s % l = 0

(* Every block is as long as its place allows: a power of two it is a       *)
(* multiple of.                                                             *)
Buddies(h) == \A s \in DOMAIN h : h[s].length \in Powers /\ s % h[s].length = 0

(* Two empty blocks side by side that could be one. *)
Joinable(h, s, t) ==
  /\ s + h[s].length = t /\ h[s].type = "free" /\ h[t].type = "free"
  /\ Fits(h[s].length + h[t].length, s)

(* There are none, but next to those in A. *)
Apart(h, A) == \A s, t \in DOMAIN h : Joinable(h, s, t) => s \in A \/ t \in A

(* No empty block before s, or behind it, could be one with s. *)
LeftStuck(h, s) ==
  \A t \in DOMAIN h : h[t].type = "free" /\ t + h[t].length = s =>
    ~Fits(h[t].length + h[s].length, t)
RightStuck(h, s) ==
  \A t \in DOMAIN h : h[t].type = "free" /\ s + h[s].length = t =>
    ~Fits(h[s].length + h[t].length, s)

(* What the rounds of apaDelete have done: a round leaves nothing on its    *)
(* side, and each one that merges at least doubles the block.               *)
Rounds(h, j) ==
  /\ j.round \in 1 .. 5
  /\ j.round \in {2, 4} => LeftStuck(h, j.at)
  /\ j.round \in {3, 5} => RightStuck(h, j.at)
  /\ j.round >= 3 => h[j.at].length >= 2
  /\ j.round >= 4 => h[j.at].length >= 4
  /\ j.round = 5 => h[j.at].length >= 8
  /\ h[j.at].type = "free" \/ (j.at = j.start /\ h[j.at].length = j.length)

(* The next padding is larger than the last. *)
Turned(h) ==
  \A s \in DOMAIN h : h[s].next = MBR /\ h[s].type = "free" =>
    (s + h[s].length) % (2 * h[s].length) = 0

Spread(h, j) ==
  /\ j.step \notin {"insert", "merge"} => Apart(h, {})
  /\ j.step = "insert" => Apart(h, {j.at})
  /\ j.step = "append" => Turned(h)
  /\ j.step = "merge" => Apart(h, {j.at}) /\ Rounds(h, j)

(* The partition that s says it belongs to lists it. *)
InList(h, s) ==
  h[s].main \in DOMAIN h /\ \E i \in DOMAIN h[h[s].main].subs : h[h[s].main].subs[i] = s

(* The sub-partitions that are still to be listed, or that go. *)
Awaited(j, s) ==
  \/ j.step = "link" /\ s = j.sub
  \/ j.step \in {"strip", "merge"} /\ s = j.at
  \/ j.step \in {"delete", "strip", "merge"} /\ \E i \in DOMAIN j.todo : j.todo[i] = s

AllListed(h, j) == \A s \in DOMAIN h : h[s].main # MBR => InList(h, s) \/ Awaited(j, s)

Whole(h, j) == Spread(h, j) /\ AllListed(h, j)

KeptInv == faults \in Nat /\ Buddies(hdr) /\ (faults = 0 => Whole(hdr, job))

-----------------------------------------------------------------------------
(***************************************************************************)
(* Powers of two.                                                          *)
(***************************************************************************)

(* The next power is at least twice as large. *)
LEMMA Doubles ==
  ASSUME NEW p \in Powers, NEW q \in Powers, p < q
  PROVE  2 * p <= q
BY DEF Powers

(* Only equal powers add up to one. *)
LEMMA EqualParts ==
  ASSUME NEW p \in Powers, NEW q \in Powers, p + q \in Powers
  PROVE  p = q
BY DEF Powers

(* Of the halves of a block the second is at no place for a whole one. *)
LEMMA HalfPlace ==
  ASSUME NEW s \in Nat, NEW k \in Powers, s % (2 * k) = 0
  PROVE  s % k = 0 /\ (s + k) % k = 0 /\ (s + k) % (2 * k) # 0
BY SMTT(60) DEF Powers

(* A place for a block, but not for one twice as large, lies half-way. *)
LEMMA HalfWay ==
  ASSUME NEW e \in Nat, NEW t \in Powers, e % t = 0, e % (2 * t) # 0
  PROVE  (e + t) % (2 * t) = 0
BY SMTT(60) DEF Powers

(* The largest padding ends where a block twice as large may begin. *)
LEMMA PaddingTurns ==
  ASSUME NEW e \in Nat, NEW size \in Powers, e % size # 0, NEW t \in Powers, t < size,
         e % t = 0, \A u \in Powers : u < size /\ e % u = 0 => u <= t
  PROVE  (e + t) % (2 * t) = 0
<1>1. 2 * t \in Powers /\ 2 * t <= size
  BY DEF Powers
<1>2. t \in Nat \ {0} /\ size \in Nat
  BY PowersAreNat
<1>3. e % (2 * t) # 0
  <2>1. CASE 2 * t = size
    BY <2>1
  <2>2. CASE 2 * t # size
    BY <2>2, <1>1, <1>2
  <2> QED BY <2>1, <2>2
<1> QED BY <1>3, HalfWay

(* What lies at the end of a padding block is no place for it and another. *)
LEMMA TurnedPlace ==
  ASSUME NEW s \in Nat, NEW k \in Powers, (s + k) % (2 * k) = 0
  PROVE  s % (2 * k) # 0
BY SMTT(60) DEF Powers

-----------------------------------------------------------------------------
(***************************************************************************)
(* The walks of apaDelete.                                                 *)
(***************************************************************************)

(* The header behind s is the one that begins where s ends. *)
LEMMA BehindNext ==
  ASSUME NEW h, Tiles(h), NEW s \in DOMAIN h, NEW t \in DOMAIN h
  PROVE  s + h[s].length = t <=> h[s].next = t /\ t # MBR
<1>1. s \in Nat /\ t \in Nat /\ h[s].length \in Nat \ {0} /\ MBR = 0
  BY FieldsOf DEF MBR
<1>2. ASSUME s + h[s].length = t PROVE h[s].next = t /\ t # MBR
  <2>1. h[s].next # MBR
    BY <1>1, <1>2 DEF Tiles, Ending
  <2> QED BY <2>1, <1>1, <1>2, NextIs
<1>3. ASSUME h[s].next = t, t # MBR PROVE s + h[s].length = t
  BY <1>3, NextIs
<1> QED BY <1>2, <1>3

(* Where the walk to the left ends, and that it goes no further. *)
LEMMA LeftWalk ==
  ASSUME Tiles(hdr), NEW s \in DOMAIN hdr \ {MBR}, hdr[s].next # MBR,
         NEW b, b = ToTheLeft(s)[1], NEW e, e = hdr[s].next
  PROVE  /\ b # s => Fits(e - b, b)
         /\ \A t \in DOMAIN hdr : hdr[t].type = "free" /\ t + hdr[t].length = b =>
              ~Fits(e - t, t)
         /\ b # s => \E t \in DOMAIN hdr :
              hdr[t].type = "free" /\ t + hdr[t].length = s /\ Fits(hdr[t].length + hdr[s].length, t)
<1> DEFINE end == s + hdr[s].length
           stops == {t \in DOMAIN hdr : t < s /\ ~Joins(t, end - t, t)}
           stop == Max(stops)
<1>1. s \in Nat /\ MBR \in DOMAIN hdr /\ MBR = 0 /\ s # MBR /\ hdr[MBR].type = "mbr"
  BY FieldsOf DEF Tiles, Typed, MBR
<1>2. MBR \in stops
  <2>1. ~Joins(MBR, end - MBR, MBR)
    BY <1>1 DEF Joins
  <2>2. MBR < s
    BY <1>1
  <2> HIDE DEF end
  <2> QED BY <2>1, <2>2, <1>1
<1>3. stops \in SUBSET Nat /\ \A t \in stops : t <= s
  <2>1. \A t \in stops : t \in DOMAIN hdr /\ t < s
    OBVIOUS
  <2>2. \A t \in DOMAIN hdr : t \in Nat
    BY FieldsOf
  <2> HIDE DEF stops
  <2> QED BY <2>1, <2>2, <1>1
<1>4. stop \in stops /\ \A t \in stops : stop >= t
  <2> HIDE DEF stops
  <2> QED BY <1>1, <1>2, <1>3, MaxIs
<1>5. stop \in DOMAIN hdr /\ stop < s /\ stop \in Nat /\ ~Joins(stop, end - stop, stop)
  BY <1>3, <1>4
<1>6. b = hdr[stop].next
  BY DEF ToTheLeft
<1>7. end = e
  BY NextIs
<1>8. \A t \in DOMAIN hdr : t < s /\ ~Joins(t, e - t, t) => t \in stops
  BY <1>7
<1> HIDE DEF stop, stops, end
<1>9. b # MBR
  <2>1. hdr[stop].next = MBR => s <= stop
    BY <1>5 DEF Tiles, Ending
  <2> QED BY <2>1, <1>1, <1>5, <1>6
<1>10. b \in DOMAIN hdr /\ b = stop + hdr[stop].length /\ stop < b /\ b \in Nat
  BY <1>5, <1>6, <1>9, NextIs, FieldsOf
<1>11. b <= s
  BY <1>5, <1>10 DEF Tiles, Spaced
<1>12. \A t \in DOMAIN hdr : stop < t /\ t < s => Joins(t, e - t, t)
  <2> SUFFICES ASSUME NEW t \in DOMAIN hdr, stop < t, t < s PROVE Joins(t, e - t, t)
    OBVIOUS
  <2>1. t \in Nat
    BY FieldsOf
  <2>2. ~(stop >= t)
    BY <2>1, <1>5
  <2> QED BY <2>2, <1>4, <1>8
<1>13. ASSUME b # s
       PROVE  /\ Fits(e - b, b)
              /\ \E t \in DOMAIN hdr :
                   hdr[t].type = "free" /\ t + hdr[t].length = s /\ Fits(hdr[t].length + hdr[s].length, t)
  <2>1. Joins(b, e - b, b)
    BY <1>1, <1>10, <1>11, <1>12, <1>13
  <2> DEFINE p == hdr[s].prev
  <2>2. p \in DOMAIN hdr /\ hdr[p].next = s /\ s = p + hdr[p].length /\ p < s /\ p \in Nat
        /\ hdr[p].length \in Nat /\ hdr[s].length \in Nat
    BY PrevIs, FieldsOf
  <2> HIDE DEF p
  <2>3. b <= p
    <3>1. b < s
      BY <1>1, <1>10, <1>11, <1>13
    <3>2. p < b => s <= b
      BY <2>2, <1>10 DEF Tiles, Spaced
    <3> QED BY <3>1, <3>2, <2>2, <1>1, <1>10
  <2>4. Joins(p, e - p, p)
    BY <2>2, <2>3, <1>5, <1>10, <1>12
  <2>5. e - p = hdr[p].length + hdr[s].length
    <3>1. e = s + hdr[s].length
      BY <1>7 DEF end
    <3> QED BY <3>1, <2>2, <1>1
  <2>6. hdr[p].type = "free" /\ Fits(hdr[p].length + hdr[s].length, p)
    BY <2>4, <2>5 DEF Joins, Fits
  <2> QED BY <2>1, <2>2, <2>6 DEF Joins, Fits
<1>14. ASSUME NEW t \in DOMAIN hdr, hdr[t].type = "free", t + hdr[t].length = b
       PROVE  ~Fits(e - t, t)
  <2>1. hdr[t].next = b
    BY <1>10, <1>14, BehindNext
  <2>2. t = stop
    <3>1. hdr[b].prev = t /\ hdr[b].prev = stop
      BY <2>1, <1>5, <1>6, <1>9, NextIs
    <3> QED BY <3>1
  <2>3. ~Joins(t, e - t, t)
    BY <2>2, <1>5, <1>7
  <2> QED BY <2>3, <1>14 DEF Joins, Fits
<1> QED BY <1>13, <1>14

(* Where the walk to the right ends, and that it goes no further. *)
LEMMA RightWalk ==
  ASSUME Tiles(hdr), NEW s \in DOMAIN hdr \ {MBR}, hdr[s].next # MBR,
         \A t \in DOMAIN hdr : hdr[t].next = MBR => hdr[t].type # "free",
         NEW n, n = ToTheRight(s)[1]
  PROVE  /\ n \in DOMAIN hdr /\ s < n /\ ToTheRight(s)[2] = n - s
         /\ n # hdr[s].next => Fits(n - s, s)
         /\ hdr[n].type = "free" => ~Fits((n - s) + hdr[n].length, s)
         /\ n # hdr[s].next => ~RightStuck(hdr, s)
<1> DEFINE stops == {t \in DOMAIN hdr : s < t /\ ~Joins(t, t + hdr[t].length - s, s)}
           L == hdr[MBR].prev
           x == hdr[s].next
<1>1. L \in DOMAIN hdr /\ hdr[L].next = MBR /\ s \in Nat /\ L \in Nat
  BY LastIs, FieldsOf
<1>2. s < L
  <2>1. s <= L
    BY <1>1 DEF Tiles, Ending
  <2>2. s # L
    BY <1>1
  <2> HIDE DEF L
  <2> QED BY <2>1, <2>2, <1>1
<1>3. L \in stops
  BY <1>1, <1>2 DEF Joins
<1>4. stops \in SUBSET Nat
  BY FieldsOf
<1>5. Min(stops) \in stops /\ \A t \in stops : Min(stops) <= t
  <2> HIDE DEF stops
  <2> QED BY <1>3, <1>4, MinIs
<1>6. ToTheRight(s)[1] = Min(stops) /\ ToTheRight(s)[2] = Min(stops) - s
  BY <1>3 DEF ToTheRight
<1>7. n = Min(stops) /\ ToTheRight(s)[2] = n - s
  BY <1>6
<1>8. n \in DOMAIN hdr /\ s < n /\ n \in Nat /\ ~Joins(n, n + hdr[n].length - s, s)
  BY <1>4, <1>5, <1>7
<1>9. \A t \in DOMAIN hdr : s < t /\ ~Joins(t, t + hdr[t].length - s, s) => n <= t
  BY <1>5, <1>7
<1> HIDE DEF stops, L
<1>10. hdr[n].type = "free" => ~Fits((n - s) + hdr[n].length, s)
  <2>1. hdr[n].length \in Nat
    BY <1>8, FieldsOf
  <2>2. n + hdr[n].length - s = (n - s) + hdr[n].length
    BY <2>1, <1>1, <1>8
  <2> QED BY <2>2, <1>8 DEF Joins, Fits
<1>11. ASSUME n # x PROVE Fits(n - s, s) /\ ~RightStuck(hdr, s)
  <2>1. x \in DOMAIN hdr /\ x = s + hdr[s].length /\ hdr[x].prev = s /\ s < x /\ x \in Nat
        /\ hdr[x].length \in Nat /\ hdr[s].length \in Nat
    BY NextIs, FieldsOf
  <2>2. x < n
    <3>1. s + hdr[s].length <= n
      BY <1>8 DEF Tiles, Spaced
    <3> HIDE DEF x
    <3> QED BY <3>1, <2>1, <1>8, <1>11
  <2>3. ASSUME NEW t \in DOMAIN hdr, s < t, t < n PROVE Joins(t, t + hdr[t].length - s, s)
    <3>1. t \in Nat
      BY FieldsOf
    <3>2. ~(n <= t)
      BY <3>1, <2>3, <1>8
    <3> QED BY <3>2, <2>3, <1>9
  <2> DEFINE p == hdr[n].prev
  <2>4. n # MBR
    BY <1>1, <1>8 DEF MBR
  <2>5. p \in DOMAIN hdr /\ n = p + hdr[p].length /\ p < n /\ p \in Nat /\ hdr[p].next = n
        /\ hdr[p].length \in Nat
    BY <2>4, <1>8, PrevIs, FieldsOf
  <2> HIDE DEF p, x
  <2>6. s < p
    <3>1. p < x => n <= x
      <4>1. p < x => p + hdr[p].length <= x
        BY <2>1, <2>5 DEF Tiles, Spaced
      <4> QED BY <4>1, <2>5
    <3> QED BY <3>1, <2>1, <2>2, <2>5, <1>1, <1>8
  <2>7. Joins(p, p + hdr[p].length - s, s)
    BY <2>3, <2>5, <2>6
  <2>8. Fits(n - s, s)
    <3> DEFINE l == p + hdr[p].length - s
    <3>1. l = n - s
      BY <2>5, <1>1
    <3> HIDE DEF l
    <3>2. l \in Powers /\ l <= MergeMax /\ s % l = 0
      BY <2>7 DEF Joins, l
    <3> QED BY <3>1, <3>2 DEF Fits
  <2>9. Joins(x, x + hdr[x].length - s, s)
    BY <2>1, <2>2, <2>3
  <2>10. x + hdr[x].length - s = hdr[s].length + hdr[x].length
    BY <2>1, <1>1
  <2>11. ~RightStuck(hdr, s)
    BY <2>1, <2>9, <2>10 DEF Joins, Fits, RightStuck
  <2> QED BY <2>8, <2>11
<1> QED BY <1>7, <1>8, <1>10, <1>11

-----------------------------------------------------------------------------
(***************************************************************************)
(* What a change leaves.                                                   *)
(***************************************************************************)

(* Headers of the same lengths, and no new empty block. *)
LEMMA SameShape ==
  ASSUME NEW h, NEW g, DOMAIN g = DOMAIN h, NEW A, NEW B,
         \A t \in DOMAIN h : g[t].length = h[t].length,
         \A t \in DOMAIN h : g[t].type = "free" => h[t].type = "free",
         \A t \in A : t \in B \/ (t \in DOMAIN h => g[t].type # "free")
  PROVE  /\ Buddies(h) => Buddies(g)
         /\ Apart(h, A) => Apart(g, B)
<1>1. Buddies(h) => Buddies(g)
  BY DEF Buddies
<1>2. ASSUME Apart(h, A), NEW s \in DOMAIN g, NEW t \in DOMAIN g, Joinable(g, s, t)
      PROVE  s \in B \/ t \in B
  <2>1. Joinable(h, s, t)
    BY <1>2 DEF Joinable
  <2>2. s \in A \/ t \in A
    BY <2>1, <1>2 DEF Apart
  <2> QED BY <2>2, <1>2 DEF Joinable
<1> QED BY <1>1, <1>2 DEF Apart

(* A partition that is still there is listed as it was. *)
LEMMA ClearedListed ==
  ASSUME NEW h, NEW g, NEW sl, NEW d, Contents(h), Cleared(h, g, d), Harmless(h, sl, d),
         NEW s \in DOMAIN g, g[s].main # MBR
  PROVE  s \in DOMAIN h /\ h[s].main # MBR /\ (InList(h, s) => InList(g, s))
<1>1. s \in DOMAIN h /\ SameFields(h[s], g[s])
  BY DEF Cleared, EmptyHeader
<1>2. ASSUME InList(h, s) PROVE InList(g, s)
  <2> DEFINE m == h[s].main
  <2>1. m \in DOMAIN h /\ \E i \in DOMAIN h[m].subs : h[m].subs[i] = s
    BY <1>2 DEF InList
  <2> HIDE DEF m
  <2>2. PICK i \in DOMAIN h[m].subs : h[m].subs[i] = s
    BY <2>1
  <2>3. IsMain(h, m)
    BY <2>1, <2>2 DEF Contents
  <2>4. m # d
    <3>1. h[m].type = "pfs"
      BY <2>3 DEF IsMain
    <3>2. m = d => h[m].subs = <<>>
      BY <3>1, <2>1 DEF Harmless, Doomed
    <3> QED BY <3>2, <2>2
  <2>5. m \in DOMAIN g /\ SameFields(h[m], g[m])
    BY <2>1, <2>3, <2>4 DEF Cleared, IsMain
  <2>6. g[s].main = m /\ g[m].subs = h[m].subs
    BY <2>5, <1>1 DEF SameFields, m
  <2> QED BY <2>2, <2>5, <2>6 DEF InList
<1> QED BY <1>1, <1>2 DEF SameFields

(* A new sub-partition is still to be listed, the others are. *)
LEMMA MadeListed ==
  ASSUME NEW s, NEW p, NEW then, TableInv, Making(hdr, slots, p, then), NewAt(hdr, hdr', s, p),
         Made(hdr', s, then), AllListed(hdr, job), job.step \in {"insert", "append"}
  PROVE  AllListed(hdr', job')
<1>1. Contents(hdr)
  BY DEF TableInv, Table
<1> SUFFICES ASSUME NEW t \in DOMAIN hdr', hdr'[t].main # MBR
             PROVE  InList(hdr', t) \/ Awaited(job', t)
  BY DEF AllListed
<1>2. CASE t = s
  <2>1. p.main # MBR
    BY <1>2 DEF NewAt
  <2>2. then.for = "link"
    BY <2>1 DEF Making
  <2>3. job' = [step |-> "link", slot |-> then.slot, sub |-> s]
    BY <2>2 DEF Made
  <2> QED BY <2>3, <1>2 DEF Awaited
<1>3. CASE t # s
  <2>1. t \in DOMAIN hdr /\ SameFields(hdr[t], hdr'[t])
    BY <1>3 DEF NewAt
  <2>2. ~Awaited(job, t)
    BY DEF Awaited
  <2>3. InList(hdr, t)
    BY <2>1, <2>2 DEF AllListed, SameFields
  <2> DEFINE m == hdr[t].main
  <2>4. m \in DOMAIN hdr /\ \E i \in DOMAIN hdr[m].subs : hdr[m].subs[i] = t
    BY <2>3 DEF InList
  <2> HIDE DEF m
  <2>5. hdr[m].type = "pfs"
    BY <2>4, <1>1 DEF Contents, IsMain
  <2>6. m \in DOMAIN hdr' /\ SameFields(hdr[m], hdr'[m])
    BY <2>4, <2>5, NewKeeps
  <2>7. hdr'[t].main = m /\ hdr'[m].subs = hdr[m].subs
    BY <2>1, <2>6 DEF SameFields, m
  <2> QED BY <2>4, <2>6, <2>7 DEF InList
<1> QED BY <1>2, <1>3

(* What a new partition's caller does next. *)
LEMMA MadeNext ==
  ASSUME NEW h, NEW sl, NEW s, NEW p, NEW then, NEW g, Making(h, sl, p, then), Made(g, s, then)
  PROVE  job'.step \in {"idle", "link"} \/ (then.for = "format" /\ job'.step = "append")
<1>1. CASE then.for = "open"
  <2>1. job' = Idle
    BY <1>1 DEF Made
  <2> QED BY <2>1 DEF Idle
<1>2. CASE then.for = "link"
  <2>1. job' = [step |-> "link", slot |-> then.slot, sub |-> s]
    BY <1>2 DEF Made
  <2> QED BY <2>1
<1>3. CASE then.for = "format"
  <2> DEFINE size == Min({2 * g[s].length, PartMax})
             end == s + g[s].length
  <2>1. job' = FormatJob(then.next, size, end)
    BY <1>3 DEF Made
  <2> HIDE DEF size, end
  <2>2. job' = Idle \/ job'.step = "append"
    BY <2>1 DEF FormatJob
  <2> QED BY <2>2, <1>3 DEF Idle
<1> QED BY <1>1, <1>2, <1>3 DEF Making

-----------------------------------------------------------------------------
(***************************************************************************)
(* The steps of a new partition.                                           *)
(***************************************************************************)
LEMMA HalveKeeps ==
  ASSUME TableInv, KeptInv, Halve, faults' = faults
  PROVE  KeptInv'
<1> DEFINE s == job.at
           k == hdr[s].length \div 2
           m == s + k
<1>1. Tiles(hdr) /\ Contents(hdr) /\ Inserting(hdr, slots, job) /\ job.step = "insert" /\ job' = job
  BY JobKinds DEF TableInv, Table, Halve
<1>2. HalvedAt(s) /\ Tiles(hdr')
  BY HalveStep DEF TableInv, Table
<1>3. s \in DOMAIN hdr /\ s \in Nat
  BY <1>1, FieldsOf DEF Inserting
<1>4. /\ hdr[s].length = 2 * k /\ k \in Powers /\ DOMAIN hdr' = DOMAIN hdr \cup {m}
      /\ m \notin DOMAIN hdr /\ EmptyHeader(hdr'[m]) /\ hdr'[m].length = k
      /\ \A t \in DOMAIN hdr : /\ SameFields(hdr[t], hdr'[t])
                               /\ hdr'[t].length = IF t = s THEN k ELSE hdr[t].length
  BY <1>2 DEF HalvedAt
<1> HIDE DEF k, s
<1>5. k \in Nat \ {0} /\ s < m /\ m \in Nat
  BY <1>3, <1>4, PowersAreNat
<1>6. Buddies(hdr)
  BY DEF KeptInv
<1>7. s % k = 0 /\ m % k = 0 /\ m % (2 * k) # 0
  BY <1>3, <1>4, <1>6, HalfPlace DEF Buddies
<1>8. Buddies(hdr')
  BY <1>4, <1>6, <1>7 DEF Buddies
<1>9. ASSUME Apart(hdr, {s}), NEW t \in DOMAIN hdr', NEW u \in DOMAIN hdr',
             Joinable(hdr', t, u), t # s, u # s
      PROVE  FALSE
  <2>1. CASE t = m
    <3>1. u # m /\ u \in DOMAIN hdr /\ hdr'[u].length \in Powers
      BY <1>4, <1>5, <1>8, <1>9, <2>1 DEF Joinable, Buddies
    <3>2. k + hdr'[u].length \in Powers /\ m % (k + hdr'[u].length) = 0
      BY <1>4, <1>9, <2>1 DEF Joinable, Fits
    <3>3. hdr'[u].length = k
      BY <3>1, <3>2, <1>4, EqualParts
    <3>4. k + hdr'[u].length = 2 * k
      BY <3>3, <1>5
    <3> QED BY <3>2, <3>4, <1>7
  <2>2. CASE u = m
    <3>1. t \in DOMAIN hdr /\ t + hdr[t].length = m /\ t \in Nat /\ hdr[t].length \in Nat \ {0}
      <4>1. t # m
        <5>1. t = m => m + k = m
          BY <1>4, <1>9, <2>2 DEF Joinable
        <5> QED BY <5>1, <1>5
      <4>2. t \in DOMAIN hdr
        BY <4>1, <1>4
      <4> QED BY <4>2, <1>1, <1>4, <1>9, <2>2, FieldsOf DEF Joinable
    <3>2. t < s => m <= s
      BY <3>1, <1>1, <1>3 DEF Tiles, Spaced
    <3>3. s < t => s + 2 * k <= t
      BY <3>1, <1>1, <1>3, <1>4 DEF Tiles, Spaced
    <3>4. t < m
      BY <3>1
    <3> QED BY <3>1, <3>2, <3>3, <3>4, <1>3, <1>5, <1>9 DEF m
  <2>3. CASE t # m /\ u # m
    <3>1. t \in DOMAIN hdr /\ u \in DOMAIN hdr
      BY <2>3, <1>4
    <3>2. Joinable(hdr, t, u)
      BY <3>1, <1>4, <1>9 DEF Joinable, SameFields
    <3> QED BY <3>1, <3>2, <1>9 DEF Apart
  <2> QED BY <2>1, <2>2, <2>3
<1>10. Cleared(hdr, hdr', MBR)
  BY <1>4 DEF Cleared
<1>11. Harmless(hdr, slots, MBR)
  BY <1>1 DEF Harmless, Tiles, Typed
<1>12. ASSUME Whole(hdr, job) PROVE Whole(hdr', job)
  <2>1. Apart(hdr', {s})
    <3>1. Apart(hdr, {s})
      BY <1>1, <1>12 DEF Whole, Spread, s
    <3> QED BY <3>1, <1>9 DEF Apart
  <2>2. AllListed(hdr', job)
    BY <1>1, <1>10, <1>11, <1>12, ClearedListed DEF Whole, AllListed
  <2> QED BY <2>1, <2>2, <1>1 DEF Whole, Spread, s
<1> QED BY <1>1, <1>8, <1>12 DEF KeptInv

LEMMA FillKeeps ==
  ASSUME TableInv, KeptInv, Fill, faults' = faults
  PROVE  KeptInv'
<1> DEFINE s == job.at
           p == job.p
<1>1. Inserting(hdr, slots, job) /\ job.step = "insert"
  BY JobKinds DEF TableInv, Table, Fill
<1>2. NewAt(hdr, hdr', s, p) /\ SameLengths
  BY FillStep
<1>3. Made(hdr', s, job.then)
  BY DEF Fill, Made
<1>4. s \in DOMAIN hdr /\ Making(hdr, slots, p, job.then) /\ job.then.for # "format"
  BY <1>1 DEF Inserting
<1> HIDE DEF s, p
<1>5. DOMAIN hdr' = DOMAIN hdr
  BY <1>2, <1>4 DEF NewAt
<1>6. /\ \A t \in DOMAIN hdr : hdr'[t].length = hdr[t].length
      /\ \A t \in DOMAIN hdr : hdr'[t].type = "free" => hdr[t].type = "free"
      /\ hdr'[s].type # "free"
  BY <1>2, <1>5 DEF NewAt, SameLengths, SameFields
<1>7. Buddies(hdr) => Buddies(hdr')
  BY <1>5, <1>6, SameShape
<1>8. Apart(hdr, {s}) => Apart(hdr', {})
  BY <1>5, <1>6, SameShape
<1>9. job'.step \in {"idle", "link"}
  BY <1>3, <1>4, MadeNext
<1>10. AllListed(hdr, job) => AllListed(hdr', job')
  BY <1>1, <1>2, <1>3, <1>4, MadeListed
<1>11. Whole(hdr, job) => Whole(hdr', job')
  BY <1>1, <1>8, <1>9, <1>10 DEF Whole, Spread, s
<1> QED BY <1>7, <1>11 DEF KeptInv

LEMMA PadKeeps ==
  ASSUME TableInv, KeptInv, Pad, faults' = faults
  PROVE  KeptInv'
<1> DEFINE e == PartEnd
           size == job.p.size
<1>1. Tiles(hdr) /\ Contents(hdr) /\ Appending(hdr, slots, job) /\ job.step = "append" /\ job' = job
      /\ e % size # 0
  BY JobKinds DEF TableInv, Table, Pad
<1>2. Tiles(hdr')
  BY PadStep DEF TableInv, Table
<1>3. PICK t \in Powers : PaddedBy(t)
  BY PadStep
<1>4. /\ t < size /\ e % t = 0 /\ \A u \in Powers : u < size /\ e % u = 0 => u <= t
      /\ e \in Nat /\ e \notin DOMAIN hdr /\ DOMAIN hdr' = DOMAIN hdr \cup {e}
      /\ EmptyHeader(hdr'[e]) /\ hdr'[e].length = t /\ hdr'[MBR].prev = e
      /\ \A u \in DOMAIN hdr : SameFields(hdr[u], hdr'[u]) /\ hdr'[u].length = hdr[u].length
  BY <1>3 DEF PaddedBy, PadSizes
<1>5. size \in Powers
  BY <1>1 DEF Appending, Making
<1> HIDE DEF e, size
<1>6. Buddies(hdr) /\ t \in Nat \ {0}
  BY PowersAreNat DEF KeptInv
<1>7. Buddies(hdr')
  BY <1>4, <1>6 DEF Buddies
<1>8. \A u \in DOMAIN hdr' : hdr'[u].next = MBR <=> u = e
  BY <1>2, <1>4, LastIs
<1>9. Turned(hdr')
  <2>1. (e + t) % (2 * t) = 0
    BY <1>1, <1>4, <1>5, PaddingTurns
  <2> QED BY <2>1, <1>4, <1>8 DEF Turned
<1>10. ASSUME Apart(hdr, {}), Turned(hdr), NEW x \in DOMAIN hdr', NEW y \in DOMAIN hdr',
              Joinable(hdr', x, y)
       PROVE  FALSE
  <2>1. CASE x = e
    <3>1. y = e + t
      BY <2>1, <1>4, <1>10 DEF Joinable
    <3>2. y <= e
      BY <1>2, <1>4, <1>8 DEF Tiles, Ending
    <3> QED BY <3>1, <3>2, <1>4, <1>6
  <2>2. CASE y = e /\ x # e
    <3> DEFINE l == hdr[x].length
    <3>1. x \in DOMAIN hdr /\ x + l = e /\ hdr[x].type = "free" /\ hdr'[x].length = l
      BY <2>2, <1>4, <1>10 DEF Joinable, SameFields
    <3>2. hdr[x].next = MBR
      BY <3>1, <1>1, <1>4, NextIs
    <3>3. (x + l) % (2 * l) = 0 /\ l \in Powers /\ x \in Nat
      BY <3>1, <3>2, <1>1, <1>6, <1>10, FieldsOf DEF Turned, Buddies
    <3>4. l + t \in Powers /\ x % (l + t) = 0
      BY <2>2, <3>1, <1>4, <1>10 DEF Joinable, Fits
    <3> HIDE DEF l
    <3>5. l = t
      BY <3>3, <3>4, EqualParts
    <3>6. x % (2 * t) # 0
      BY <3>3, <3>5, TurnedPlace
    <3> QED BY <3>4, <3>5, <3>6, <1>6
  <2>3. CASE x # e /\ y # e
    <3>1. x \in DOMAIN hdr /\ y \in DOMAIN hdr
      BY <2>3, <1>4
    <3>2. Joinable(hdr, x, y)
      BY <3>1, <1>4, <1>10 DEF Joinable, SameFields
    <3> QED BY <3>1, <3>2, <1>10 DEF Apart
  <2> QED BY <2>1, <2>2, <2>3
<1>11. Cleared(hdr, hdr', MBR)
  BY <1>4 DEF Cleared
<1>12. Harmless(hdr, slots, MBR)
  BY <1>1 DEF Harmless, Tiles, Typed
<1>13. ASSUME Whole(hdr, job) PROVE Whole(hdr', job)
  <2>1. Apart(hdr', {})
    BY <1>1, <1>10, <1>13 DEF Whole, Spread, Apart
  <2>2. AllListed(hdr', job)
    BY <1>1, <1>11, <1>12, <1>13, ClearedListed DEF Whole, AllListed
  <2> QED BY <2>1, <2>2, <1>1, <1>9 DEF Whole, Spread
<1> QED BY <1>1, <1>7, <1>13 DEF KeptInv

LEMMA PlaceKeeps ==
  ASSUME TableInv, KeptInv, Place, faults' = faults
  PROVE  KeptInv'
<1> DEFINE e == PartEnd
           p == job.p
<1>1. Tiles(hdr) /\ Appending(hdr, slots, job) /\ job.step = "append" /\ e % p.size = 0
  BY JobKinds DEF TableInv, Table, Place
<1>2. /\ NewAt(hdr, hdr', e, p) /\ SameLengths /\ e \notin DOMAIN hdr /\ e \in Nat
      /\ hdr'[MBR].prev = e /\ Tiles(hdr')
  BY PlaceStep DEF TableInv, Table
<1>3. Made(hdr', e, job.then)
  BY DEF Place, Made
<1>4. Making(hdr, slots, p, job.then) /\ p.size \in Powers
  BY <1>1 DEF Appending, Making
<1> HIDE DEF e, p
<1>5. /\ DOMAIN hdr' = DOMAIN hdr \cup {e} /\ hdr'[e].type = "pfs" /\ hdr'[e].length = p.size
      /\ \A t \in DOMAIN hdr : SameFields(hdr[t], hdr'[t]) /\ hdr'[t].length = hdr[t].length
  BY <1>2 DEF NewAt, SameLengths
<1>6. Buddies(hdr')
  BY <1>1, <1>4, <1>5 DEF KeptInv, Buddies
<1>7. ASSUME Apart(hdr, {}) PROVE Apart(hdr', {})
  <2> SUFFICES ASSUME NEW x \in DOMAIN hdr', NEW y \in DOMAIN hdr', Joinable(hdr', x, y) PROVE FALSE
    BY DEF Apart
  <2>1. x \in DOMAIN hdr /\ y \in DOMAIN hdr
    BY <1>5 DEF Joinable
  <2>2. Joinable(hdr, x, y)
    BY <2>1, <1>5 DEF Joinable, SameFields
  <2> QED BY <2>1, <2>2, <1>7 DEF Apart
<1>8. Turned(hdr')
  <2>1. \A u \in DOMAIN hdr' : hdr'[u].next = MBR <=> u = e
    BY <1>2, LastIs
  <2> QED BY <2>1, <1>5 DEF Turned
<1>9. job'.step \in {"idle", "link", "append"}
  BY <1>3, <1>4, MadeNext
<1>10. AllListed(hdr, job) => AllListed(hdr', job')
  BY <1>1, <1>2, <1>3, <1>4, MadeListed
<1>11. Whole(hdr, job) => Whole(hdr', job')
  BY <1>1, <1>7, <1>8, <1>9, <1>10 DEF Whole, Spread
<1> QED BY <1>6, <1>11 DEF KeptInv

(* A partition is listed still when the list of one has changed, ... *)
LEMMA RelistedListed ==
  ASSUME NEW h, NEW g, NEW m, NEW q, Relisted(h, g, m, q), NEW s \in DOMAIN h, InList(h, s),
         h[s].main = m => \E i \in DOMAIN q : q[i] = s
  PROVE  InList(g, s)
<1> DEFINE u == h[s].main
<1>1. u \in DOMAIN h /\ \E i \in DOMAIN h[u].subs : h[u].subs[i] = s
  BY DEF InList
<1>2. g[s].main = u /\ DOMAIN g = DOMAIN h /\ g[m].subs = q /\ (u # m => g[u] = h[u])
  BY <1>1 DEF Relisted
<1>3. u = m => \E i \in DOMAIN q : q[i] = s
  OBVIOUS
<1> HIDE DEF u
<1> QED BY <1>1, <1>2, <1>3 DEF InList

(* ... and the blocks are as they were. *)
LEMMA RelistedShape ==
  ASSUME NEW h, NEW g, NEW m, NEW q, Relisted(h, g, m, q)
  PROVE  (Buddies(h) => Buddies(g)) /\ (Apart(h, {}) => Apart(g, {}))
<1>1. DOMAIN g = DOMAIN h /\ \A t \in DOMAIN h : g[t].length = h[t].length /\ g[t].type = h[t].type
  BY DEF Relisted
<1> QED BY <1>1, SameShape

(* ioctl2AddSub lists the sub-partition it has made. *)
LEMMA LinkKeeps ==
  ASSUME TableInv, KeptInv, Link, faults' = faults
  PROVE  KeptInv'
<1> DEFINE x == job.slot
           m == slots[x].start
           q == Append(hdr[m].subs, job.sub)
<1>1. Tiles(hdr) /\ SlotsTrue(hdr, slots) /\ Linking(hdr, slots, job) /\ job.step = "link"
      /\ job' = Idle /\ hdr' = SetSubs(hdr, m, q)
  BY JobKinds DEF TableInv, Table, Link, SetSubs
<1>2. m \in DOMAIN hdr /\ job.sub \in DOMAIN hdr /\ hdr[job.sub].main = m
  BY <1>1 DEF Linking, SlotsTrue
<1>3. hdr[m].subs \in Seq(Nat) /\ job.sub \in Nat
  BY <1>1, <1>2, FieldsOf
<1>4. /\ q \in Seq(Nat) /\ Len(hdr[m].subs) + 1 \in DOMAIN q /\ q[Len(hdr[m].subs) + 1] = job.sub
      /\ \A i \in DOMAIN hdr[m].subs : i \in DOMAIN q /\ q[i] = hdr[m].subs[i]
  <2> DEFINE r == hdr[m].subs
             b == job.sub
  <2>1. r \in Seq(Nat) /\ b \in Nat
    BY <1>3
  <2> HIDE DEF r, b
  <2>2. /\ Append(r, b) \in Seq(Nat) /\ Len(r) + 1 \in DOMAIN Append(r, b) /\ Append(r, b)[Len(r) + 1] = b
        /\ \A i \in DOMAIN r : i \in DOMAIN Append(r, b) /\ Append(r, b)[i] = r[i]
    BY <2>1
  <2> QED BY <2>2 DEF r, b
<1> HIDE DEF q, m
<1>5. Relisted(hdr, hdr', m, q)
  BY <1>1, <1>2, <1>4, RelistedIs
<1>6. (Buddies(hdr) => Buddies(hdr')) /\ (Apart(hdr, {}) => Apart(hdr', {}))
  BY <1>5, RelistedShape
<1>7. ASSUME AllListed(hdr, job), NEW s \in DOMAIN hdr', hdr'[s].main # MBR PROVE InList(hdr', s)
  <2>1. s \in DOMAIN hdr /\ hdr[s].main # MBR
    BY <1>5, <1>7 DEF Relisted
  <2>2. InList(hdr, s) \/ s = job.sub
    BY <2>1, <1>1, <1>7 DEF AllListed, Awaited
  <2>3. CASE s = job.sub
    <3>1. hdr'[s].main = m /\ hdr'[m].subs = q /\ m \in DOMAIN hdr'
      BY <2>1, <2>3, <1>2, <1>5 DEF Relisted
    <3> QED BY <2>3, <3>1, <1>4 DEF InList
  <2>4. CASE InList(hdr, s)
    <3>1. hdr[s].main = m => \E i \in DOMAIN q : q[i] = s
      BY <2>4, <1>4 DEF InList
    <3> QED BY <2>1, <2>4, <3>1, <1>5, RelistedListed
  <2> QED BY <2>2, <2>3, <2>4
<1>8. Whole(hdr, job) => Whole(hdr', job')
  BY <1>1, <1>6, <1>7 DEF Whole, Spread, AllListed, Idle
<1> QED BY <1>6, <1>8 DEF KeptInv

-----------------------------------------------------------------------------
(***************************************************************************)
(* The calls.                                                              *)
(***************************************************************************)

(* An empty table loses nothing, nor does the format that fills it. *)
LEMMA BlankKept == Buddies(Blank) /\ Whole(Blank, FormatJob(1, 1, 1))
<1>1. DOMAIN Blank = {MBR} /\ Blank[MBR].length = 1 /\ Blank[MBR].type = "mbr" /\ Blank[MBR].main = MBR
  BY BlankIs DEF Blank
<1>2. FormatJob(1, 1, 1) = Idle \/ FormatJob(1, 1, 1).step = "append"
  BY DEF FormatJob
<1>3. FormatJob(1, 1, 1).step \in {"idle", "append"}
  BY <1>2 DEF Idle
<1>4. Buddies(Blank)
  BY <1>1 DEF Buddies, Powers, MBR
<1>5. Apart(Blank, {}) /\ Turned(Blank) /\ \A j : AllListed(Blank, j)
  BY <1>1 DEF Apart, Joinable, Turned, AllListed
<1> QED BY <1>3, <1>4, <1>5 DEF Whole, Spread

LEMMA FormatKeeps ==
  ASSUME hddFormat
  PROVE  KeptInv'
BY BlankKept DEF hddFormat, KeptInv

(* A call that changes no header and leaves the driver idle. *)
LEMMA SlotKeeps ==
  ASSUME KeptInv, UNCHANGED <<hdr, job, faults>>
  PROVE  KeptInv'
BY DEF KeptInv

(* A call that makes a partition, up to its first change. *)
LEMMA AddKeeps ==
  ASSUME TableInv, KeptInv, job = Idle, NEW p, NEW then, NEW blocks,
         job' = hddAddPartitionHere(p, then, blocks), UNCHANGED <<hdr, faults>>
  PROVE  KeptInv'
<1>1. ASSUME Whole(hdr, job) PROVE Whole(hdr, job')
  <2>1. Apart(hdr, {})
    BY <1>1 DEF Whole, Spread, Idle
  <2>2. AllListed(hdr, job')
    BY <1>1 DEF Whole, AllListed, Awaited, Idle
  <2>3. CASE blocks # {}
    <3> DEFINE b == BestBlock(p.size)
    <3>1. job' = [step |-> "insert", at |-> b, p |-> p, then |-> then]
      BY <2>3 DEF hddAddPartitionHere
    <3> HIDE DEF b
    <3>2. job'.step = "insert"
      BY <3>1
    <3>3. Apart(hdr, {job'.at})
      BY <2>1 DEF Apart
    <3> QED BY <2>2, <3>2, <3>3 DEF Whole, Spread
  <2>4. CASE blocks = {}
    <3>1. job' = [step |-> "append", p |-> p, then |-> then]
      BY <2>4 DEF hddAddPartitionHere
    <3>2. job'.step = "append"
      BY <3>1
    <3>3. Turned(hdr)
      BY DEF TableInv, Table, TailUsed, Turned, Idle
    <3> QED BY <2>1, <2>2, <3>2, <3>3 DEF Whole, Spread
  <2> QED BY <2>3, <2>4
<1> QED BY <1>1 DEF KeptInv

LEMMA CreateKeeps ==
  ASSUME TableInv, KeptInv, NEW n, NEW x, NEW size, Create(n, size, x) \/ ioctl2AddSub(x, size)
  PROVE  KeptInv'
<1>1. CASE Create(n, size, x)
  <2> DEFINE p == [size |-> size, id |-> n, main |-> MBR, number |-> 0]
             then == [for |-> "open", slot |-> x]
  <2>1. /\ job = Idle /\ UNCHANGED <<hdr, faults>>
        /\ job' = hddAddPartitionHere(p, then, EmptyBlocks(size))
    BY <1>1 DEF Create
  <2> HIDE DEF p, then
  <2> QED BY <2>1, AddKeeps
<1>2. CASE ioctl2AddSub(x, size)
  <2> DEFINE p == [size |-> size, id |-> NoName, main |-> slots[x].start,
                   number |-> Len(slots[x].subs) + 1]
             then == [for |-> "link", slot |-> x]
  <2>1. /\ job = Idle /\ UNCHANGED <<hdr, faults>>
        /\ job' = hddAddPartitionHere(p, then, EmptyBlocks(size))
    BY <1>2 DEF ioctl2AddSub
  <2> HIDE DEF p, then
  <2> QED BY <2>1, AddKeeps
<1> QED BY <1>1, <1>2

(* What a list no longer has is still to go. *)
LEMMA DelistKeeps ==
  ASSUME TableInv, KeptInv, job = Idle, NEW m \in DOMAIN hdr, NEW q \in Seq(Nat),
         hdr' = SetSubs(hdr, m, q), faults' = faults, job'.step = "delete",
         \A i \in DOMAIN hdr[m].subs :
           \/ \E k \in DOMAIN q : q[k] = hdr[m].subs[i]
           \/ \E k \in DOMAIN job'.todo : job'.todo[k] = hdr[m].subs[i]
  PROVE  KeptInv'
<1>1. Relisted(hdr, hdr', m, q)
  BY RelistedIs DEF TableInv, Table
<1>2. (Buddies(hdr) => Buddies(hdr')) /\ (Apart(hdr, {}) => Apart(hdr', {}))
  BY <1>1, RelistedShape
<1>3. ASSUME AllListed(hdr, job), NEW s \in DOMAIN hdr', hdr'[s].main # MBR
      PROVE  InList(hdr', s) \/ Awaited(job', s)
  <2>1. s \in DOMAIN hdr /\ hdr[s].main # MBR
    BY <1>1, <1>3 DEF Relisted
  <2>2. InList(hdr, s)
    BY <2>1, <1>3 DEF AllListed, Awaited, Idle
  <2>3. CASE hdr[s].main # m
    BY <2>1, <2>2, <2>3, <1>1, RelistedListed
  <2>4. CASE hdr[s].main = m
    <3>1. PICK i \in DOMAIN hdr[m].subs : hdr[m].subs[i] = s
      BY <2>2, <2>4 DEF InList
    <3>2. CASE \E k \in DOMAIN q : q[k] = s
      BY <3>2, <2>1, <2>2, <1>1, RelistedListed
    <3>3. CASE \E k \in DOMAIN job'.todo : job'.todo[k] = s
      BY <3>3 DEF Awaited
    <3> QED BY <3>1, <3>2, <3>3
  <2> QED BY <2>3, <2>4
<1>4. Whole(hdr, job) => Whole(hdr', job')
  BY <1>2, <1>3 DEF Whole, Spread, AllListed, Idle
<1> QED BY <1>2, <1>4 DEF KeptInv

LEMMA DeleteLastKeeps ==
  ASSUME TableInv, KeptInv, NEW x \in Slots, ioctl2DeleteLastSub(x)
  PROVE  KeptInv'
<1> DEFINE m == slots[x].start
           r == hdr[m].subs
           q == Front(r)
           b == Last(r)
<1>1. Tiles(hdr) /\ SlotsTrue(hdr, slots)
  BY DEF TableInv, Table
<1>2. /\ job = Idle /\ slots[x] # Closed /\ slots[x].subs # <<>> /\ faults' = faults
      /\ hdr' = SetSubs(hdr, m, q) /\ job' = [step |-> "delete", todo |-> <<b>>]
  BY DEF ioctl2DeleteLastSub, SetSubs
<1>3. m \in DOMAIN hdr /\ r = slots[x].subs
  BY <1>1, <1>2 DEF SlotsTrue, OpenSlot
<1>4. r \in Seq(Nat) /\ r # <<>>
  BY <1>1, <1>2, <1>3, FieldsOf
<1>5. q \in Seq(Nat) /\ \A i \in DOMAIN r : r[i] = b \/ (i \in DOMAIN q /\ q[i] = r[i])
  <2> HIDE DEF r
  <2> QED BY <1>4 DEF Front, Last
<1> HIDE DEF b, q
<1>6. job'.step = "delete" /\ 1 \in DOMAIN job'.todo /\ job'.todo[1] = b
  BY <1>2
<1>7. ASSUME NEW i \in DOMAIN hdr[m].subs
      PROVE  \/ \E k \in DOMAIN q : q[k] = hdr[m].subs[i]
             \/ \E k \in DOMAIN job'.todo : job'.todo[k] = hdr[m].subs[i]
  BY <1>5, <1>6
<1> HIDE DEF m, r
<1> QED BY <1>2, <1>3, <1>5, <1>6, <1>7, DelistKeeps

LEMMA RemoveKeeps ==
  ASSUME TableInv, KeptInv, NEW n, apaRemove(n)
  PROVE  KeptInv'
<1> DEFINE m == Min(Named(n))
           r == hdr[m].subs
           todo == Reverse(r) \o <<m>>
           l == Len(r)
<1>1. /\ job = Idle /\ Named(n) # {} /\ hdr' = SetSubs(hdr, m, <<>>) /\ faults' = faults
      /\ job' = [step |-> "delete", todo |-> todo]
  BY DEF apaRemove, SetSubs
<1>2. m \in DOMAIN hdr
  BY <1>1, NamedIs
<1> HIDE DEF m
<1>3. m \in Nat /\ r \in Seq(Nat) /\ <<>> \in Seq(Nat)
  BY <1>2, FieldsOf DEF TableInv, Table
<1>4. /\ todo \in Seq(Nat) /\ Len(todo) = l + 1 /\ l \in Nat
      /\ \A i \in 1 .. l : l - i + 1 \in DOMAIN r /\ todo[i] = r[l - i + 1]
      /\ todo[l + 1] = m
  <2> HIDE DEF r
  <2> QED BY <1>3, ReversedAnd
<1>5. DOMAIN r = 1 .. l
  <2> HIDE DEF r
  <2> QED BY <1>3
<1> HIDE DEF todo, l
<1>6. ASSUME NEW i \in DOMAIN r PROVE \E k \in DOMAIN todo : todo[k] = r[i]
  <2> DEFINE k == l - i + 1
  <2>1. k \in 1 .. l /\ l - k + 1 = i /\ DOMAIN todo = 1 .. l + 1
    <3>1. i \in 1 .. l /\ l \in Nat /\ todo \in Seq(Nat) /\ Len(todo) = l + 1
      BY <1>4, <1>5
    <3> HIDE DEF r
    <3> QED BY <3>1
  <2>2. todo[k] = r[l - k + 1]
    BY <2>1, <1>4
  <2> HIDE DEF k, r
  <2>3. k \in DOMAIN todo
    BY <2>1, <1>4
  <2> QED BY <2>1, <2>2, <2>3
<1>7. job'.step = "delete" /\ job'.todo = todo
  BY <1>1
<1> HIDE DEF r
<1>8. \A i \in DOMAIN hdr[m].subs : \E k \in DOMAIN job'.todo : job'.todo[k] = hdr[m].subs[i]
  BY <1>6, <1>7 DEF r
<1> QED BY <1>1, <1>2, <1>3, <1>7, <1>8, DelistKeeps

LEMMA RenameKeeps ==
  ASSUME TableInv, KeptInv, NEW old, NEW new \in Names, apaRename(old, new)
  PROVE  KeptInv'
<1> DEFINE s == Min(Named(old))
           D == DOMAIN hdr
<1>1. Named(old) # {} /\ hdr' = SetId(hdr, s, new) /\ UNCHANGED <<job, faults>>
  BY DEF apaRename, SetId
<1>2. s \in DOMAIN hdr
  BY <1>1, NamedIs
<1> HIDE DEF s
<1>3. D = DOMAIN hdr /\ hdr \in [D -> Header] /\ s \in D /\ new \in Ids
  BY <1>2 DEF TableInv, Table, Tiles, Typed, Ids
<1> HIDE DEF D
<1>4. /\ hdr' \in [D -> Header]
      /\ \A t \in D : /\ hdr'[t].length = hdr[t].length /\ hdr'[t].type = hdr[t].type
                       /\ hdr'[t].next = hdr[t].next
                       /\ hdr'[t].main = hdr[t].main /\ hdr'[t].subs = hdr[t].subs
  BY <1>1, <1>3, IdSet
<1>5. /\ DOMAIN hdr' = DOMAIN hdr
      /\ \A t \in DOMAIN hdr : /\ hdr'[t].length = hdr[t].length /\ hdr'[t].type = hdr[t].type
                                /\ hdr'[t].main = hdr[t].main /\ hdr'[t].subs = hdr[t].subs
  BY <1>3, <1>4
<1>6. (Buddies(hdr) => Buddies(hdr')) /\ (Apart(hdr, {}) => Apart(hdr', {}))
  BY <1>5, SameShape
<1>7. job = Idle /\ job' = Idle
  BY <1>1 DEF apaRename
<1>8. AllListed(hdr, job) => AllListed(hdr', job')
  <2> SUFFICES ASSUME AllListed(hdr, job), NEW t \in DOMAIN hdr', hdr'[t].main # MBR
               PROVE  InList(hdr', t)
    BY DEF AllListed
  <2>1. InList(hdr, t)
    BY <1>5, <1>7 DEF AllListed, Awaited, Idle
  <2> QED BY <2>1, <1>5 DEF InList
<1>9. Whole(hdr, job) => Whole(hdr', job')
  BY <1>6, <1>7, <1>8 DEF Whole, Spread, Idle
<1> QED BY <1>1, <1>6, <1>9 DEF KeptInv

-----------------------------------------------------------------------------
(***************************************************************************)
(* The steps of a deletion.                                                *)
(***************************************************************************)

(* What is deleted next, and that it stays awaited. *)
LEMMA TodoAwaits ==
  ASSUME NEW rest
  PROVE  /\ Todo(rest).step \in {"idle", "delete"}
         /\ rest # <<>> => Todo(rest).todo = rest
         /\ \A s : (\E i \in DOMAIN rest : rest[i] = s) => Awaited(Todo(rest), s)
<1>1. CASE rest = <<>>
  BY <1>1 DEF Todo, Idle
<1>2. CASE rest # <<>>
  <2>1. Todo(rest) = [step |-> "delete", todo |-> rest]
    BY <1>2 DEF Todo
  <2>2. Todo(rest).step = "delete" /\ Todo(rest).todo = rest
    BY <2>1
  <2> QED BY <2>2 DEF Awaited
<1> QED BY <1>1, <1>2

(* The first of a list, or one of the rest. *)
LEMMA HeadOrTail ==
  ASSUME NEW q \in Seq(Nat), NEW i \in DOMAIN q
  PROVE  q[i] = Head(q) \/ \E k \in DOMAIN Tail(q) : Tail(q)[k] = q[i]
<1>1. CASE i = 1
  BY <1>1
<1>2. CASE i # 1
  <2>1. i - 1 \in DOMAIN Tail(q) /\ Tail(q)[i - 1] = q[i]
    BY <1>2
  <2> QED BY <2>1
<1> QED BY <1>1, <1>2

LEMMA DeleteNextKeeps ==
  ASSUME TableInv, KeptInv, DeleteNext, faults' = faults
  PROVE  KeptInv'
<1> DEFINE s == Head(job.todo)
           rest == Tail(job.todo)
<1>1. /\ Deleting(hdr, slots, job) /\ job.step = "delete" /\ hdr' = hdr
      /\ job' = IF hdr[s].next = MBR
                THEN [step |-> "strip", at |-> s, todo |-> rest]
                ELSE [step |-> "merge", at |-> s, round |-> 1, start |-> s,
                      length |-> hdr[s].length, todo |-> rest]
  BY JobKinds DEF TableInv, Table, DeleteNext
<1>2. job.todo \in Seq(Nat)
  BY <1>1 DEF Deleting, AllDoomed
<1>3. \A i \in DOMAIN job.todo : job.todo[i] = s \/ \E k \in DOMAIN rest : rest[k] = job.todo[i]
  BY <1>2, HeadOrTail
<1> HIDE DEF s, rest
<1>4. ASSUME Whole(hdr, job) PROVE Whole(hdr, job')
  <2>1. Apart(hdr, {}) /\ AllListed(hdr, job)
    BY <1>1, <1>4 DEF Whole, Spread
  <2>2. job'.step \in {"strip", "merge"} /\ job'.at = s /\ job'.todo = rest
    BY <1>1
  <2>3. AllListed(hdr, job')
    <3> SUFFICES ASSUME NEW t \in DOMAIN hdr, hdr[t].main # MBR
                 PROVE  InList(hdr, t) \/ Awaited(job', t)
      BY DEF AllListed
    <3>1. InList(hdr, t) \/ \E i \in DOMAIN job.todo : job.todo[i] = t
      BY <2>1, <1>1 DEF AllListed, Awaited
    <3> QED BY <3>1, <2>2, <1>3 DEF Awaited
  <2>4. CASE hdr[s].next = MBR
    <3>1. job'.step = "strip"
      BY <2>4, <1>1
    <3> QED BY <3>1, <2>1, <2>3 DEF Whole, Spread
  <2>5. CASE hdr[s].next # MBR
    <3> DEFINE j == [step |-> "merge", at |-> s, round |-> 1, start |-> s,
                     length |-> hdr[s].length, todo |-> rest]
    <3>1. job' = j
      BY <2>5, <1>1
    <3>2. j.step = "merge" /\ j.at = s /\ j.round = 1 /\ j.start = s /\ j.length = hdr[s].length
      OBVIOUS
    <3> HIDE DEF j
    <3>3. Apart(hdr, {s}) /\ Rounds(hdr, j)
      BY <3>2, <2>1 DEF Rounds, Apart
    <3> QED BY <3>1, <3>2, <3>3, <2>3 DEF Whole, Spread
  <2> QED BY <2>4, <2>5
<1> QED BY <1>1, <1>4 DEF KeptInv

LEMMA StripKeeps ==
  ASSUME TableInv, KeptInv, Strip, faults' = faults
  PROVE  KeptInv'
<1> DEFINE s == job.at
           p == hdr[s].prev
<1>1. /\ Contents(hdr) /\ Stripping(hdr, slots, job) /\ job.step = "strip"
      /\ job' = IF hdr[p].type = "free" THEN [job EXCEPT !.at = p] ELSE Todo(job.todo)
  BY JobKinds DEF TableInv, Table, Strip
<1>2. /\ DOMAIN hdr' = DOMAIN hdr \ {s}
      /\ \A t \in DOMAIN hdr' : SameFields(hdr[t], hdr'[t]) /\ hdr'[t].length = hdr[t].length
  BY StripStep DEF CutOff
<1>3. Going(hdr, slots, s, job.todo)
  BY <1>1 DEF Stripping
<1> HIDE DEF s, p
<1>4. Cleared(hdr, hdr', s) /\ Harmless(hdr, slots, s)
  BY <1>2, <1>3 DEF Cleared, Going, Harmless
<1>5. \A t \in DOMAIN hdr' : /\ t \in DOMAIN hdr /\ hdr'[t].length = hdr[t].length
                             /\ hdr'[t].type = hdr[t].type
  BY <1>2 DEF SameFields
<1>6. (Buddies(hdr) => Buddies(hdr')) /\ (Apart(hdr, {}) => Apart(hdr', {}))
  BY <1>5 DEF Buddies, Apart, Joinable
<1>7. /\ job'.step \in {"idle", "delete", "strip"}
      /\ \A t : (\E i \in DOMAIN job.todo : job.todo[i] = t) => Awaited(job', t)
  <2>1. CASE hdr[p].type = "free"
    <3>1. job' = [step |-> "strip", at |-> p, todo |-> job.todo]
      BY <2>1, <1>1 DEF Stripping
    <3>2. job'.step = "strip" /\ job'.todo = job.todo
      BY <3>1
    <3> QED BY <3>2 DEF Awaited
  <2>2. CASE hdr[p].type # "free"
    BY <2>2, <1>1, TodoAwaits
  <2> QED BY <2>1, <2>2
<1>8. AllListed(hdr, job) => AllListed(hdr', job')
  <2> SUFFICES ASSUME AllListed(hdr, job), NEW t \in DOMAIN hdr', hdr'[t].main # MBR
               PROVE  InList(hdr', t) \/ Awaited(job', t)
    BY DEF AllListed
  <2>1. t \in DOMAIN hdr /\ hdr[t].main # MBR /\ (InList(hdr, t) => InList(hdr', t))
    BY <1>1, <1>4, ClearedListed
  <2>2. InList(hdr, t) \/ \E i \in DOMAIN job.todo : job.todo[i] = t
    BY <2>1, <1>1, <1>2 DEF AllListed, Awaited, s
  <2> QED BY <2>1, <2>2, <1>7
<1>9. Whole(hdr, job) => Whole(hdr', job')
  BY <1>1, <1>6, <1>7, <1>8 DEF Whole, Spread
<1> QED BY <1>6, <1>9 DEF KeptInv

(* The block that a round of apaDelete makes. *)
LEMMA MergedSpread ==
  ASSUME NEW b, NEW n, MergedAt(b, n), Tiles(hdr), job.at \in DOMAIN hdr
  PROVE  /\ Apart(hdr, {job.at}) => Apart(hdr', {b})
         /\ Buddies(hdr) /\ Fits(n - b, b) => Buddies(hdr')
<1>1. /\ DOMAIN hdr' = {t \in DOMAIN hdr : t <= b \/ n <= t} /\ hdr'[b].length = n - b
      /\ \A t \in DOMAIN hdr' : t # b => SameFields(hdr[t], hdr'[t]) /\ hdr'[t].length = hdr[t].length
      /\ b <= job.at /\ job.at < n /\ b \in DOMAIN hdr /\ n \in DOMAIN hdr
  BY DEF MergedAt
<1>2. job.at \in Nat /\ b \in Nat /\ n \in Nat
  BY <1>1, FieldsOf
<1>3. \A t \in DOMAIN hdr' : t # b => t \in DOMAIN hdr /\ t # job.at
  BY <1>1, <1>2
<1>4. ASSUME Apart(hdr, {job.at}), NEW s \in DOMAIN hdr', NEW t \in DOMAIN hdr',
             Joinable(hdr', s, t), s # b, t # b
      PROVE  FALSE
  <2>1. s \in DOMAIN hdr /\ t \in DOMAIN hdr /\ s # job.at /\ t # job.at
    BY <1>3, <1>4
  <2>2. Joinable(hdr, s, t)
    BY <2>1, <1>1, <1>4 DEF Joinable, SameFields
  <2> QED BY <2>1, <2>2, <1>4 DEF Apart
<1>5. Apart(hdr, {job.at}) => Apart(hdr', {b})
  BY <1>4 DEF Apart
<1>6. Buddies(hdr) /\ Fits(n - b, b) => Buddies(hdr')
  <2> SUFFICES ASSUME Buddies(hdr), Fits(n - b, b), NEW t \in DOMAIN hdr'
               PROVE  hdr'[t].length \in Powers /\ t % hdr'[t].length = 0
    BY DEF Buddies
  <2>1. CASE t = b
    BY <2>1, <1>1 DEF Fits
  <2>2. CASE t # b
    BY <2>2, <1>1, <1>3 DEF Buddies
  <2> QED BY <2>1, <2>2
<1> QED BY <1>5, <1>6

(* A partition that is not merged is listed or awaited as it was. *)
LEMMA MergedListed ==
  ASSUME NEW b, NEW n, MergedAt(b, n), Tiles(hdr), Contents(hdr), Merging(hdr, slots, job),
         Cleared(hdr, hdr', job.at), job'.step = "merge", job'.at = b, job'.todo = job.todo,
         AllListed(hdr, job)
  PROVE  AllListed(hdr', job')
<1> SUFFICES ASSUME NEW t \in DOMAIN hdr', hdr'[t].main # MBR
             PROVE  InList(hdr', t) \/ Awaited(job', t)
  BY DEF AllListed
<1>1. Harmless(hdr, slots, job.at) /\ job.at \in DOMAIN hdr /\ job.step = "merge"
  BY DEF Merging, Going, Harmless
<1>2. t \in DOMAIN hdr /\ hdr[t].main # MBR /\ (InList(hdr, t) => InList(hdr', t))
  BY <1>1, ClearedListed
<1>3. InList(hdr, t) \/ Awaited(job, t)
  BY <1>2 DEF AllListed
<1>4. t = job.at => t = b
  <2>1. t <= b \/ n <= t
    BY DEF MergedAt
  <2>2. b <= job.at /\ job.at < n /\ b \in DOMAIN hdr /\ n \in DOMAIN hdr
    BY DEF MergedAt
  <2>3. b \in Nat /\ n \in Nat /\ job.at \in Nat
    BY <1>1, <2>2, FieldsOf
  <2> QED BY <2>1, <2>2, <2>3
<1>5. CASE t = job.at
  BY <1>4, <1>5 DEF Awaited
<1>6. CASE t # job.at
  BY <1>1, <1>2, <1>3, <1>6 DEF Awaited
<1> QED BY <1>5, <1>6

(* A block that holds another one is at least twice as long. *)
LEMMA MergedTwice ==
  ASSUME NEW b, NEW n, MergedAt(b, n), Tiles(hdr), Buddies(hdr), Fits(n - b, b),
         job.at \in DOMAIN hdr, NEW l, l = hdr[job.at].length, n - b # l
  PROVE  l \in Powers /\ l \in Nat \ {0} /\ 2 * l <= n - b
<1>1. /\ b <= job.at /\ job.at < n /\ b \in DOMAIN hdr /\ n \in DOMAIN hdr
  BY DEF MergedAt
<1>2. job.at \in Nat /\ b \in Nat /\ n \in Nat /\ l \in Nat \ {0}
  BY <1>1, FieldsOf
<1>3. job.at + l <= n
  BY <1>1 DEF Tiles, Spaced
<1>4. l \in Powers /\ n - b \in Powers
  BY DEF Buddies, Fits
<1>5. l < n - b
  BY <1>1, <1>2, <1>3
<1> QED BY <1>2, <1>4, <1>5, Doubles

(* The rounds that are left have something to merge, ... *)
LEMMA RoundLeft ==
  ASSUME TableInv, Merge, NEW r, r = Min(RoundsLeft)
  PROVE  /\ r \in job.round .. 4
         /\ r % 2 = 1 => ToTheLeft(job.at)[1] # job.at
         /\ r % 2 # 1 => ToTheRight(job.at)[2] # hdr[job.at].length
         /\ \A k \in RoundsLeft : r <= k
<1>1. job.round \in Nat
  BY JobKinds DEF TableInv, Table, Merge, Merging
<1>2. RoundsLeft \in SUBSET Nat
  BY <1>1 DEF RoundsLeft
<1>3. RoundsLeft # {}
  BY DEF Merge
<1>4. r \in RoundsLeft /\ \A k \in RoundsLeft : r <= k
  BY <1>2, <1>3, MinIs
<1> QED BY <1>4 DEF RoundsLeft

(* ... and the block they make is as the rounds before have left it.        *)
LEMMA LeftRound ==
  ASSUME TableInv, Merge, NEW r, r = Min(RoundsLeft), r % 2 = 1,
         NEW b, b = ToTheLeft(job.at)[1], NEW n, n = hdr[job.at].next
  PROVE  /\ MergedAt(b, n) /\ Fits(n - b, b) /\ Cleared(hdr, hdr', job.at)
         /\ job' = [job EXCEPT !.round = r + 1, !.at = b]
         /\ Buddies(hdr) /\ Rounds(hdr, job) => Rounds(hdr', job')
<1>1. Merging(hdr, slots, job) /\ job.step = "merge" /\ slots' = slots /\ Tiles(hdr)
  BY JobKinds DEF TableInv, Table, Merge
<1>2. \A t \in DOMAIN hdr : hdr[t].next = MBR => hdr[t].type # "free"
  BY <1>1 DEF TableInv, Table, TailUsed
<1>3. /\ r \in job.round .. 4 /\ b # job.at /\ \A k \in RoundsLeft : r <= k
  BY RoundLeft
<1>4. job.round \in Nat /\ job.at \in DOMAIN hdr \ {MBR} /\ hdr[job.at].next # MBR
  BY <1>1 DEF Merging, Going
<1>5. /\ hdr' = apaDeleteFixPrev(job.at)
      /\ job' = [job EXCEPT !.round = r + 1, !.at = ToTheLeft(job.at)[1]]
  BY DEF Merge
<1>6. r \in Nat /\ r + 1 \in Nat
  BY <1>3, <1>4
<1>7. MergedAt(ToTheLeft(job.at)[1], hdr[job.at].next) /\ Cleared(hdr, hdr', job.at)
  BY <1>1, <1>2, <1>3, <1>5, <1>6, MergeLeft
<1>8. MergedAt(b, n)
  BY <1>7
<1>9. /\ Fits(n - b, b)
      /\ \A t \in DOMAIN hdr : hdr[t].type = "free" /\ t + hdr[t].length = b => ~Fits(n - t, t)
      /\ ~LeftStuck(hdr, job.at)
  BY <1>1, <1>3, <1>4, LeftWalk DEF LeftStuck
<1>10. job' = [job EXCEPT !.round = r + 1, !.at = b]
  BY <1>5
<1>11. job'.round = r + 1 /\ job'.at = b
  BY <1>1, <1>10 DEF Merging
<1>12. ASSUME Buddies(hdr), Rounds(hdr, job) PROVE Rounds(hdr', job')
  <2> DEFINE l == hdr[job.at].length
  <2>1. /\ b \in DOMAIN hdr /\ hdr'[b].length = n - b /\ hdr'[b].type = "free" /\ job.at < n /\ b <= job.at
        /\ DOMAIN hdr' = {t \in DOMAIN hdr : t <= b \/ n <= t}
        /\ \A t \in DOMAIN hdr' : t # b => SameFields(hdr[t], hdr'[t]) /\ hdr'[t].length = hdr[t].length
        /\ n \in DOMAIN hdr
    BY <1>8 DEF MergedAt
  <2>2. b \in Nat /\ n \in Nat /\ job.at \in Nat
    BY <2>1, <1>1, <1>4, FieldsOf
  <2>3. n - b # l
    <3>1. n = job.at + l /\ l \in Nat
      BY <1>1, <1>4, NextIs, FieldsOf
    <3> HIDE DEF l
    <3> QED BY <3>1, <2>1, <2>2, <1>3
  <2>4. l \in Nat \ {0} /\ 2 * l <= n - b
    BY <2>3, <1>1, <1>4, <1>8, <1>9, <1>12, MergedTwice
  <2>5. LeftStuck(hdr', b)
    <3> SUFFICES ASSUME NEW t \in DOMAIN hdr', hdr'[t].type = "free", t + hdr'[t].length = b,
                        Fits(hdr'[t].length + hdr'[b].length, t)
                 PROVE  FALSE
      BY DEF LeftStuck
    <3>1. t # b
      BY <2>1, <2>2, <2>4
    <3>2. t \in DOMAIN hdr /\ hdr[t].type = "free" /\ hdr'[t].length = hdr[t].length
      BY <3>1, <2>1 DEF SameFields
    <3>3. t \in Nat /\ hdr[t].length \in Nat
      BY <3>2, <1>1, FieldsOf
    <3>4. hdr'[t].length + hdr'[b].length = n - t
      BY <3>2, <3>3, <2>1, <2>2
    <3> QED BY <3>2, <3>4, <1>9
  <2>6. r = 1 \/ (r = 3 /\ job.round = 3)
    <3>1. job.round # 2
      BY <1>9, <1>12 DEF Rounds
    <3>2. job.round = 1 => 1 \in RoundsLeft
      BY <1>3 DEF RoundsLeft
    <3> QED BY <3>1, <3>2, <1>3, <1>4, <1>12 DEF Rounds
  <2>7. CASE r = 1
    BY <2>1, <2>5, <2>7, <1>11 DEF Rounds
  <2>8. CASE r = 3 /\ job.round = 3
    <3>1. l >= 2
      BY <2>8, <1>12 DEF Rounds
    <3>2. hdr'[b].length >= 4
      BY <3>1, <2>1, <2>2, <2>4
    <3>3. job'.round = 4 /\ hdr'[b].length \in Nat
      BY <2>1, <2>2, <2>8, <1>11
    <3> QED BY <3>2, <3>3, <2>1, <2>5, <1>11 DEF Rounds
  <2> QED BY <2>6, <2>7, <2>8
<1> QED BY <1>7, <1>8, <1>9, <1>10, <1>12

LEMMA RightRound ==
  ASSUME TableInv, Merge, NEW r, r = Min(RoundsLeft), r % 2 # 1,
         NEW b, b = job.at, NEW n, n = ToTheRight(job.at)[1]
  PROVE  /\ MergedAt(b, n) /\ Fits(n - b, b) /\ Cleared(hdr, hdr', job.at)
         /\ job' = [job EXCEPT !.round = r + 1, !.at = b]
         /\ Buddies(hdr) /\ Rounds(hdr, job) => Rounds(hdr', job')
<1>1. Merging(hdr, slots, job) /\ job.step = "merge" /\ slots' = slots /\ Tiles(hdr)
  BY JobKinds DEF TableInv, Table, Merge
<1>2. \A t \in DOMAIN hdr : hdr[t].next = MBR => hdr[t].type # "free"
  BY <1>1 DEF TableInv, Table, TailUsed
<1>3. /\ r \in job.round .. 4 /\ ToTheRight(job.at)[2] # hdr[job.at].length
      /\ \A k \in RoundsLeft : r <= k
  BY RoundLeft
<1>4. job.round \in Nat /\ job.at \in DOMAIN hdr \ {MBR} /\ hdr[job.at].next # MBR
  BY <1>1 DEF Merging, Going
<1>5. hdr' = apaDeleteFixNext(job.at) /\ job' = [job EXCEPT !.round = r + 1]
  BY DEF Merge
<1>6. r \in Nat /\ r + 1 \in Nat
  BY <1>3, <1>4
<1>7. MergedAt(job.at, ToTheRight(job.at)[1]) /\ Cleared(hdr, hdr', job.at)
  BY <1>1, <1>2, <1>3, <1>5, <1>6, MergeRight
<1>8. MergedAt(b, n)
  BY <1>7
<1>9. /\ n \in DOMAIN hdr /\ b < n /\ ToTheRight(job.at)[2] = n - b
      /\ n # hdr[b].next => Fits(n - b, b)
      /\ hdr[n].type = "free" => ~Fits((n - b) + hdr[n].length, b)
      /\ n # hdr[b].next => ~RightStuck(hdr, b)
  BY <1>1, <1>2, <1>4, RightWalk
<1>10. b \in Nat /\ n \in Nat /\ hdr[b].length \in Nat \ {0} /\ hdr[b].next = b + hdr[b].length
       /\ hdr[n].length \in Nat
  BY <1>1, <1>4, <1>9, NextIs, FieldsOf
<1>11. n - b # hdr[b].length /\ n # hdr[b].next
  BY <1>3, <1>9, <1>10
<1>12. Fits(n - b, b) /\ ~RightStuck(hdr, b)
  BY <1>9, <1>11
<1>13. job' = [job EXCEPT !.round = r + 1, !.at = b] /\ job'.round = r + 1 /\ job'.at = b
  BY <1>1, <1>5 DEF Merging
<1>14. ASSUME Buddies(hdr), Rounds(hdr, job) PROVE Rounds(hdr', job')
  <2> DEFINE l == hdr[job.at].length
  <2>1. /\ hdr'[b].length = n - b /\ hdr'[b].type = "free"
        /\ \A t \in DOMAIN hdr' : t # b => SameFields(hdr[t], hdr'[t]) /\ hdr'[t].length = hdr[t].length
    BY <1>8 DEF MergedAt
  <2>2. l \in Nat \ {0} /\ 2 * l <= n - b
    BY <1>1, <1>4, <1>8, <1>11, <1>12, <1>14, MergedTwice
  <2>3. RightStuck(hdr', b)
    <3> SUFFICES ASSUME NEW t \in DOMAIN hdr', hdr'[t].type = "free", b + hdr'[b].length = t,
                        Fits(hdr'[b].length + hdr'[t].length, b)
                 PROVE  FALSE
      BY DEF RightStuck
    <3>1. t = n /\ t # b
      BY <2>1, <1>9, <1>10
    <3>2. hdr[n].type = "free" /\ hdr'[n].length = hdr[n].length
      BY <3>1, <2>1 DEF SameFields
    <3> QED BY <3>1, <3>2, <2>1, <1>9
  <2>4. (r = 2 /\ job.round \in {1, 2}) \/ (r = 4 /\ job.round = 4)
    <3>1. job.round # 3
      BY <1>12, <1>14 DEF Rounds
    <3>2. job.round \in {1, 2} => 2 \in RoundsLeft
      BY <1>3 DEF RoundsLeft
    <3>3. r = 2 \/ r = 4
      <4>1. r \in 1 .. 4
        BY <1>3, <1>14 DEF Rounds
      <4> QED BY <4>1
    <3>4. job.round \in 1 .. 5 /\ job.round <= r
      BY <1>3, <1>4, <1>14 DEF Rounds
    <3> QED BY <3>1, <3>2, <3>3, <3>4, <1>3
  <2>5. CASE r = 2
    <3>1. hdr'[b].length >= 2 /\ hdr'[b].length \in Nat /\ job'.round = 3
      BY <2>1, <2>2, <2>5, <1>9, <1>10, <1>13
    <3> QED BY <3>1, <2>1, <2>3, <1>13 DEF Rounds
  <2>6. CASE r = 4 /\ job.round = 4
    <3>1. l >= 4
      BY <2>6, <1>14 DEF Rounds
    <3>2. hdr'[b].length >= 8 /\ hdr'[b].length \in Nat /\ job'.round = 5
      BY <3>1, <2>1, <2>2, <2>6, <1>9, <1>10, <1>13
    <3> QED BY <3>2, <2>1, <2>3, <1>13 DEF Rounds
  <2> QED BY <2>4, <2>5, <2>6
<1> QED BY <1>7, <1>8, <1>12, <1>13, <1>14

(* One round of apaDelete. *)
LEMMA MergeKeeps ==
  ASSUME TableInv, KeptInv, Merge, faults' = faults
  PROVE  KeptInv'
<1>1. /\ Tiles(hdr) /\ Contents(hdr) /\ Merging(hdr, slots, job) /\ job.step = "merge"
      /\ job.at \in DOMAIN hdr
  BY JobKinds DEF TableInv, Table, Merge, Merging, Going
<1>2. PICK b, n, r :
        /\ MergedAt(b, n) /\ Fits(n - b, b) /\ Cleared(hdr, hdr', job.at)
        /\ job' = [job EXCEPT !.round = r, !.at = b]
        /\ Buddies(hdr) /\ Rounds(hdr, job) => Rounds(hdr', job')
  <2>1. CASE Min(RoundsLeft) % 2 = 1
    BY <2>1, LeftRound
  <2>2. CASE Min(RoundsLeft) % 2 # 1
    BY <2>2, RightRound
  <2> QED BY <2>1, <2>2
<1>3. /\ Apart(hdr, {job.at}) => Apart(hdr', {b})
      /\ Buddies(hdr) => Buddies(hdr')
  BY <1>1, <1>2, MergedSpread
<1>4. job'.step = "merge" /\ job'.at = b /\ job'.todo = job.todo
  BY <1>1, <1>2 DEF Merging
<1>5. AllListed(hdr, job) => AllListed(hdr', job')
  BY <1>1, <1>2, <1>4, MergedListed
<1>6. Whole(hdr, job) /\ Buddies(hdr) => Whole(hdr', job')
  BY <1>1, <1>2, <1>3, <1>4, <1>5 DEF Whole, Spread
<1> QED BY <1>3, <1>6 DEF KeptInv

(* Where no round is left, nothing on either side could be one with the     *)
(* block: after four rounds that merged it is as long as it may be.         *)
LEMMA BothStuck ==
  ASSUME MergeMax < 16, TableInv, Buddies(hdr), job.step = "merge", RoundsLeft = {}, Rounds(hdr, job)
  PROVE  LeftStuck(hdr, job.at) /\ RightStuck(hdr, job.at)
<1> DEFINE s == job.at
           l == hdr[s].length
<1>1. Merging(hdr, slots, job) /\ Tiles(hdr)
  BY JobKinds DEF TableInv, Table
<1>2. s \in DOMAIN hdr \ {MBR} /\ hdr[s].next # MBR
  BY <1>1 DEF Merging, Going
<1>3. \A t \in DOMAIN hdr : hdr[t].next = MBR => hdr[t].type # "free"
  BY DEF TableInv, Table, TailUsed
<1>4. s \in Nat /\ l \in Nat \ {0} /\ hdr[s].next = s + l
  BY <1>1, <1>2, NextIs, FieldsOf
<1>5. ASSUME ToTheLeft(s)[1] = s PROVE LeftStuck(hdr, s)
  <2> SUFFICES ASSUME NEW t \in DOMAIN hdr, hdr[t].type = "free", t + hdr[t].length = s
               PROVE  ~Fits(hdr[t].length + l, t)
    BY DEF LeftStuck
  <2>1. ~Fits(hdr[s].next - t, t)
    BY <1>1, <1>2, <1>5, LeftWalk
  <2>2. t \in Nat /\ hdr[t].length \in Nat
    BY <1>1, FieldsOf
  <2>3. hdr[s].next - t = hdr[t].length + l
    BY <2>2, <1>4
  <2> QED BY <2>1, <2>3
<1>6. ASSUME ToTheRight(s)[2] = l PROVE RightStuck(hdr, s)
  <2> DEFINE n == ToTheRight(s)[1]
  <2>1. /\ n \in DOMAIN hdr /\ s < n /\ l = n - s
        /\ hdr[n].type = "free" => ~Fits((n - s) + hdr[n].length, s)
    BY <1>1, <1>2, <1>3, <1>6, RightWalk
  <2>2. n \in Nat
    BY <2>1, <1>1, FieldsOf
  <2> HIDE DEF n
  <2>3. ASSUME NEW t \in DOMAIN hdr, hdr[t].type = "free", s + l = t
        PROVE  ~Fits(l + hdr[t].length, s)
    <3>1. t = n
      BY <2>1, <2>2, <2>3, <1>4
    <3> QED BY <3>1, <2>1, <2>3
  <2> QED BY <2>3 DEF RightStuck
<1>7. job.round \in 1 .. 5
  BY DEF Rounds
<1>8. job.round <= 3 => ToTheLeft(s)[1] = s
  <2>1. job.round <= 3 => 3 \in job.round .. 4
    BY <1>7
  <2> QED BY <2>1 DEF RoundsLeft
<1>9. job.round <= 4 => ToTheRight(s)[2] = l
  <2>1. job.round <= 4 => 4 \in job.round .. 4
    BY <1>7
  <2> QED BY <2>1 DEF RoundsLeft
<1>10. RightStuck(hdr, s)
  BY <1>6, <1>7, <1>9 DEF Rounds
<1>11. LeftStuck(hdr, s)
  <2>1. CASE job.round <= 3
    BY <2>1, <1>5, <1>8
  <2>2. CASE job.round = 4
    BY <2>2 DEF Rounds
  <2>3. CASE job.round = 5
    <3> SUFFICES ASSUME NEW t \in DOMAIN hdr, Fits(hdr[t].length + l, t) PROVE FALSE
      BY DEF LeftStuck
    <3>1. l >= 8 /\ l \in Powers
      BY <2>3, <1>2 DEF Rounds, Buddies
    <3>2. hdr[t].length \in Powers /\ hdr[t].length + l \in Powers /\ hdr[t].length + l <= MergeMax
      BY DEF Buddies, Fits
    <3>3. hdr[t].length = l
      BY <3>1, <3>2, EqualParts
    <3>4. MergeMax \in Nat
      BY TableAssumption
    <3> QED BY <3>1, <3>2, <3>3, <3>4, <1>4
  <2> QED BY <2>1, <2>2, <2>3, <1>7
<1> QED BY <1>10, <1>11

(* The end of apaDelete. *)
LEMMA EndMergeKeeps ==
  ASSUME MergeMax < 16, TableInv, KeptInv, EndMerge, faults' = faults
  PROVE  KeptInv'
<1> DEFINE s == job.at
           h == hdr[s]
           v == Empty(h.length, h.next, h.prev)
           D == DOMAIN hdr
<1>1. /\ Tiles(hdr) /\ Contents(hdr) /\ Merging(hdr, slots, job) /\ job.step = "merge"
      /\ job' = Todo(job.todo) /\ RoundsLeft = {}
      /\ hdr' = IF s = job.start /\ h.length = job.length THEN [hdr EXCEPT ![s] = v] ELSE hdr
  BY JobKinds DEF TableInv, Table, EndMerge, apaMakeEmpty
<1>2. s \in DOMAIN hdr \ {MBR} /\ Going(hdr, slots, s, job.todo)
  BY <1>1 DEF Merging, Going
<1>3. EmptyHeader(v) /\ v.length = h.length /\ v.type = "free"
  <2>1. h.length \in Nat \ {0} /\ h.next \in Nat /\ h.prev \in Nat
    BY <1>1, <1>2, FieldsOf
  <2> HIDE DEF h
  <2> QED BY <2>1, EmptyIs DEF EmptyHeader
<1>4. D = DOMAIN hdr /\ hdr = [t \in D |-> hdr[t]] /\ s \in D
  BY <1>1, <1>2 DEF Tiles, Typed
<1> HIDE DEF D, v
<1>5. /\ DOMAIN hdr' = DOMAIN hdr /\ \A t \in DOMAIN hdr : t # s => hdr'[t] = hdr[t]
      /\ hdr'[s] = hdr[s] \/ hdr'[s] = v
      /\ s = job.start /\ hdr[s].length = job.length => hdr'[s] = v
  <2>1. CASE hdr' = hdr /\ ~(s = job.start /\ h.length = job.length)
    BY <2>1
  <2>2. CASE hdr' = [hdr EXCEPT ![s] = v]
    BY <2>2, <1>4
  <2> QED BY <2>1, <2>2, <1>1
<1>6. \A t \in DOMAIN hdr : hdr'[t].length = hdr[t].length
  BY <1>3, <1>5
<1>7. Cleared(hdr, hdr', s) /\ Harmless(hdr, slots, s)
  BY <1>2, <1>3, <1>5 DEF Cleared, SameFields, Going, Harmless
<1>8. Buddies(hdr')
  BY <1>5, <1>6 DEF KeptInv, Buddies
<1>9. ASSUME Whole(hdr, job) PROVE Whole(hdr', job')
  <2>1. Apart(hdr, {s}) /\ Rounds(hdr, job) /\ AllListed(hdr, job)
    BY <1>1, <1>9 DEF Whole, Spread
  <2>2. LeftStuck(hdr, s) /\ RightStuck(hdr, s)
    BY <2>1, <1>1, BothStuck DEF KeptInv
  <2>3. hdr'[s].type = "free"
    BY <2>1, <1>3, <1>5 DEF Rounds
  <2>4. Apart(hdr', {})
    <3> SUFFICES ASSUME NEW t \in DOMAIN hdr', NEW u \in DOMAIN hdr', Joinable(hdr', t, u) PROVE FALSE
      BY DEF Apart
    <3>0. t # u
      <4>1. t \in Nat /\ hdr[t].length \in Nat \ {0}
        BY <1>1, <1>5, FieldsOf
      <4> QED BY <4>1, <1>5, <1>6 DEF Joinable
    <3>1. CASE t # s /\ u # s
      <4>1. t \in DOMAIN hdr /\ u \in DOMAIN hdr /\ Joinable(hdr, t, u)
        BY <3>1, <1>5 DEF Joinable
      <4> QED BY <3>1, <4>1, <2>1 DEF Apart
    <3>2. CASE u = s
      <4>1. t \in DOMAIN hdr /\ hdr[t].type = "free" /\ t + hdr[t].length = s
            /\ Fits(hdr[t].length + hdr[s].length, t)
        BY <3>0, <3>2, <1>5, <1>6 DEF Joinable
      <4> QED BY <4>1, <2>2 DEF LeftStuck
    <3>3. CASE t = s
      <4>1. u \in DOMAIN hdr /\ hdr[u].type = "free" /\ s + hdr[s].length = u
            /\ Fits(hdr[s].length + hdr[u].length, s)
        BY <3>0, <3>3, <1>5, <1>6 DEF Joinable
      <4> QED BY <4>1, <2>2 DEF RightStuck
    <3> QED BY <3>1, <3>2, <3>3
  <2>5. AllListed(hdr', job')
    <3> SUFFICES ASSUME NEW t \in DOMAIN hdr', hdr'[t].main # MBR
                 PROVE  InList(hdr', t) \/ Awaited(job', t)
      BY DEF AllListed
    <3>1. t \in DOMAIN hdr /\ hdr[t].main # MBR /\ (InList(hdr, t) => InList(hdr', t))
      BY <1>1, <1>7, ClearedListed
    <3>2. t # s
      <4>1. hdr[s].type = "free" => hdr[s].main = MBR
        BY <1>1, <1>2 DEF Contents
      <4>2. hdr'[s] = v => hdr'[s].main = MBR
        BY <1>3 DEF EmptyHeader
      <4> QED BY <4>1, <4>2, <3>1, <2>3, <1>5
    <3>3. InList(hdr, t) \/ \E i \in DOMAIN job.todo : job.todo[i] = t
      BY <3>1, <3>2, <2>1, <1>1 DEF AllListed, Awaited
    <3> QED BY <3>1, <3>3, <1>1, TodoAwaits
  <2>6. job'.step \in {"idle", "delete"}
    BY <1>1, TodoAwaits
  <2> QED BY <2>4, <2>5, <2>6 DEF Whole, Spread
<1> QED BY <1>8, <1>9 DEF KeptInv

-----------------------------------------------------------------------------
(***************************************************************************)
(* What cuts a job short, and the theorem.                                 *)
(***************************************************************************)
LEMMA CutKeeps ==
  ASSUME KeptInv, Crash \/ ReadError
  PROVE  KeptInv'
<1>1. hdr' = hdr
  BY DEF Crash, ReadError
<1>2. (faults' = faults /\ job' = job) \/ faults' = faults + 1
  BY DEF Crash, ReadError, CutShort
<1>3. CASE faults' = faults /\ job' = job
  BY <1>1, <1>3 DEF KeptInv
<1>4. CASE faults' = faults + 1
  <2>1. faults' \in Nat /\ faults' # 0
    BY <1>4 DEF KeptInv
  <2> QED BY <1>1, <2>1 DEF KeptInv
<1> QED BY <1>2, <1>3, <1>4

(* Every step keeps the table whole while nothing has been cut short, ... *)
LEMMA KeptStep ==
  ASSUME MergeMax < 16, TableInv, KeptInv, [Next]_vars
  PROVE  KeptInv'
<1>1. CASE hddFormat
  BY <1>1, FormatKeeps
<1>2. CASE \E n \in Names \cup ToSet(SystemNames), x \in Slots : Open(n, x)
  BY <1>2, SlotKeeps DEF Open
<1>3. CASE \E n \in Names, x \in Slots, size \in Sizes : Create(n, size, x)
  BY <1>3, CreateKeeps
<1>4. CASE \E x \in Slots : hddClose(x) \/ ioctl2DeleteLastSub(x)
  BY <1>4, SlotKeeps, DeleteLastKeeps DEF hddClose
<1>5. CASE \E x \in Slots, size \in Sizes : ioctl2AddSub(x, size)
  BY <1>5, CreateKeeps
<1>6. CASE \E n \in Names : apaRemove(n) \/ \E m \in Names : apaRename(n, m)
  BY <1>6, RemoveKeeps, RenameKeeps
<1>7. CASE Work
  BY <1>7, HalveKeeps, FillKeeps, PadKeeps, PlaceKeeps, LinkKeeps, DeleteNextKeeps, StripKeeps,
     MergeKeeps, EndMergeKeeps DEF Work
<1>8. CASE Crash \/ ReadError
  BY <1>8, CutKeeps
<1>9. CASE UNCHANGED vars
  BY <1>9, SlotKeeps DEF vars
<1> QED BY <1>1, <1>2, <1>3, <1>4, <1>5, <1>6, <1>7, <1>8, <1>9 DEF Next

(* ... and a whole table has lost nothing. *)
LEMMA WholeLostNothing ==
  ASSUME TableInv, KeptInv
  PROVE  NothingLost
<1> SUFFICES ASSUME job = Idle, faults = 0, NEW s \in DOMAIN hdr
             PROVE  /\ IsSub(hdr[s]) => Contains(hdr[hdr[s].main].subs, s)
                    /\ hdr[s].type = "free" =>
                         /\ hdr[s].next # MBR
                         /\ ToTheRight(s)[2] = hdr[s].length /\ ToTheLeft(s)[1] = s
  BY DEF NothingLost
<1>1. Tiles(hdr) /\ \A t \in DOMAIN hdr : hdr[t].next = MBR => hdr[t].type # "free"
  BY DEF TableInv, Table, TailUsed, Idle
<1>2. Apart(hdr, {}) /\ AllListed(hdr, Idle)
  BY DEF KeptInv, Whole, Spread, Idle
<1>3. ASSUME IsSub(hdr[s]) PROVE Contains(hdr[hdr[s].main].subs, s)
  <2>1. InList(hdr, s)
    BY <1>2, <1>3 DEF AllListed, Awaited, IsSub, Idle
  <2>2. PICK i \in DOMAIN hdr[hdr[s].main].subs : hdr[hdr[s].main].subs[i] = s
    BY <2>1 DEF InList
  <2>3. hdr[hdr[s].main].subs \in Seq(Nat)
    BY <2>1, <1>1, FieldsOf DEF InList
  <2>4. i \in 1 .. Len(hdr[hdr[s].main].subs)
    BY <2>2, <2>3
  <2> QED BY <2>2, <2>4 DEF Contains
<1>4. ASSUME hdr[s].type = "free"
      PROVE  hdr[s].next # MBR /\ ToTheRight(s)[2] = hdr[s].length /\ ToTheLeft(s)[1] = s
  <2>1. s \in DOMAIN hdr \ {MBR} /\ hdr[s].next # MBR
    BY <1>1, <1>4 DEF Tiles, Typed
  <2>2. LeftStuck(hdr, s) /\ RightStuck(hdr, s)
    BY <1>2, <1>4 DEF Apart, Joinable, LeftStuck, RightStuck
  <2>3. ToTheLeft(s)[1] = s
    BY <2>1, <2>2, <1>1, LeftWalk DEF LeftStuck
  <2>4. ToTheRight(s)[1] = hdr[s].next /\ ToTheRight(s)[2] = ToTheRight(s)[1] - s
    BY <2>1, <2>2, <1>1, RightWalk
  <2>5. hdr[s].next - s = hdr[s].length
    <3>1. s \in Nat /\ hdr[s].length \in Nat /\ hdr[s].next = s + hdr[s].length
      BY <2>1, <1>1, NextIs, FieldsOf
    <3> QED BY <3>1
  <2> QED BY <2>1, <2>3, <2>4, <2>5
<1> QED BY <1>3, <1>4

(* Calls that nothing cuts short leave every sub-partition listed, no empty *)
(* block at the end and none that could be merged with a neighbour, whatever*)
(* was created, added and removed before in whatever order (apa.c apaDelete,*)
(* apaInsertPartition; hdd_fio.c apaRemove, ioctl2AddSub).                  *)
THEOREM NothingIsLost ==
  ASSUME EndUncut, MergeMax < 16
  PROVE  Spec => []NothingLost
<1>1. Init => TableInv /\ KeptInv
  BY InitTable, BlankKept DEF Init, KeptInv
<1>2. TableInv /\ KeptInv /\ [Next]_vars => TableInv' /\ KeptInv'
  BY TableStep, KeptStep
<1>3. TableInv /\ KeptInv => NothingLost
  BY WholeLostNothing
<1> QED BY <1>1, <1>2, <1>3, PTL DEF Spec
=============================================================================
