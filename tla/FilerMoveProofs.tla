-------------------------- MODULE FilerMoveProofs --------------------------
(***************************************************************************)
(* Proofs about FilerCopy for any trees, names, failures and number of     *)
(* operations: the recursion of copy() stays within PM_flag and PM_file,   *)
(* which files a copy, a move or a delete may leave behind, and, on        *)
(* devices that keep two names apart, that none of them loses a file.      *)
(***************************************************************************)
EXTENDS FilerCopy, SequenceTheorems, TLAPS

-----------------------------------------------------------------------------
(***************************************************************************)
(* The depth of the recursion.                                             *)
(***************************************************************************)
(* A frame has the fields of a call. *)
Frame(f) == f = [op |-> f.op, in |-> f.in, to |-> f.to,
                 dir |-> f.dir, pc |-> f.pc, left |-> f.left]

(* A call at depth i that has passed the limit is below it. *)
Below(f, i) == f.op = "copy" /\ f.pc # "enter" => i < MAX_RECURSE

(* FlagsInBounds alone does not say that the stack is a sequence of frames, *)
(* without which a step that changes one field could change another.        *)
Calls(s) ==
  /\ \E S : s \in Seq(S)
  /\ \A i \in 1 .. Len(s) : Frame(s[i]) /\ Below(s[i], i)

-----------------------------------------------------------------------------
LEMMA Limit == MAX_RECURSE \in Nat
BY CopyAssumption

(* A new call has not passed the limit yet, at whatever depth it is made. *)
LEMMA Pushed ==
  ASSUME NEW s, Calls(s), NEW f, Frame(f), f.pc = "enter"
  PROVE  Calls(Append(s, f))
<1>1. PICK S : s \in Seq(S)
  BY DEF Calls
<1>2. s \in Seq(S \cup {f}) /\ f \in S \cup {f}
  BY <1>1
<1>3. Append(s, f) \in Seq(S \cup {f})
  BY <1>2
<1>4. ASSUME NEW i \in 1 .. Len(Append(s, f))
      PROVE  Frame(Append(s, f)[i]) /\ Below(Append(s, f)[i], i)
  <2>1. CASE i \in 1 .. Len(s)
    <3>1. Append(s, f)[i] = s[i]
      BY <1>2, <2>1
    <3> QED BY <3>1, <2>1 DEF Calls
  <2>2. CASE i = Len(s) + 1
    <3>1. Append(s, f)[i] = f
      BY <1>2, <2>2
    <3> QED BY <3>1 DEF Below
  <2>3. i \in 1 .. Len(s) \/ i = Len(s) + 1
    BY <1>2
  <2> QED BY <2>1, <2>2, <2>3
<1> QED BY <1>3, <1>4 DEF Calls

(* A call that returns leaves its callers as they are. *)
LEMMA Popped ==
  ASSUME NEW s, Calls(s), s # <<>>
  PROVE  Calls(Front(s))
<1>1. PICK S : s \in Seq(S)
  BY DEF Calls
<1>2. Len(s) \in Nat /\ Len(s) >= 1
  BY <1>1
<1>3. /\ Front(s) \in Seq(S)
      /\ Len(Front(s)) = Len(s) - 1
      /\ \A i \in 1 .. Len(s) - 1 : Front(s)[i] = s[i]
  <2>1. 1 \in Int /\ Len(s) - 1 \in Int /\ \A i \in 1 .. Len(s) - 1 : s[i] \in S
    BY <1>1, <1>2
  <2>2. /\ SubSeq(s, 1, Len(s) - 1) \in Seq(S)
        /\ Len(SubSeq(s, 1, Len(s) - 1)) =
             IF 1 <= Len(s) - 1 THEN Len(s) - 1 - 1 + 1 ELSE 0
        /\ \A i \in 1 .. Len(s) - 1 - 1 + 1 :
             SubSeq(s, 1, Len(s) - 1)[i] = s[1 + i - 1]
    BY <2>1, SubSeqProperties
  <2>3. Len(SubSeq(s, 1, Len(s) - 1)) = Len(s) - 1
    <3>1. \A n \in Nat : (IF 1 <= n THEN n - 1 + 1 ELSE 0) = n
      OBVIOUS
    <3>2. Len(s) - 1 \in Nat
      BY <1>2
    <3> QED BY <3>1, <3>2, <2>2, Zenon
  <2>4. \A i \in 1 .. Len(s) - 1 : SubSeq(s, 1, Len(s) - 1)[i] = s[i]
    BY <1>2, <2>2
  <2> QED BY <2>2, <2>3, <2>4 DEF Front
<1>4. \A i \in 1 .. Len(Front(s)) : i \in 1 .. Len(s) /\ Front(s)[i] = s[i]
  BY <1>2, <1>3
<1>5. \A i \in 1 .. Len(Front(s)) : Frame(Front(s)[i]) /\ Below(Front(s)[i], i)
  BY <1>4 DEF Calls
<1> QED BY <1>3, <1>5 DEF Calls

(* The call on top moves on. *)
LEMMA Moved ==
  ASSUME NEW s, Calls(s), s # <<>>, NEW f, Frame(f), Below(f, Len(s))
  PROVE  Calls([s EXCEPT ![Len(s)] = f])
<1> DEFINE t == [s EXCEPT ![Len(s)] = f]
<1>1. PICK S : s \in Seq(S)
  BY DEF Calls
<1>2. Len(s) \in Nat /\ Len(s) >= 1 /\ s \in Seq(S \cup {f})
  BY <1>1
<1>3. t \in Seq(S \cup {f}) /\ Len(t) = Len(s)
  BY <1>2
<1>4. \A i \in 1 .. Len(s) : t[i] = IF i = Len(s) THEN f ELSE s[i]
  BY <1>2
<1>5. \A i \in 1 .. Len(t) : Frame(t[i]) /\ Below(t[i], i)
  BY <1>3, <1>4 DEF Calls
<1> HIDE DEF t
<1>6. Calls(t)
  BY <1>3, <1>5 DEF Calls
<1> QED BY <1>6 DEF t

LEMMA MovedOn ==
  ASSUME NEW s, Calls(s), s # <<>>, NEW p, NEW l,
         s[Len(s)].op = "copy" => Len(s) < MAX_RECURSE
  PROVE  Calls([s EXCEPT ![Len(s)].pc = p, ![Len(s)].left = l])
<1> DEFINE c == s[Len(s)]
           f == [op |-> c.op, in |-> c.in, to |-> c.to, dir |-> c.dir,
                 pc |-> p, left |-> l]
<1>1. PICK S : s \in Seq(S)
  BY DEF Calls
<1>2. Len(s) \in 1 .. Len(s)
  BY <1>1
<1>3. Frame(c)
  BY <1>2 DEF Calls
<1>4. [[c EXCEPT !.pc = p] EXCEPT !.left = l] = f
  <2> DEFINE g == [op |-> c.op, in |-> c.in, to |-> c.to, dir |-> c.dir,
                   pc |-> p, left |-> c.left]
  <2>1. [c EXCEPT !.pc = p] = g
    BY <1>3 DEF Frame
  <2>2. [g EXCEPT !.left = l] = f
    OBVIOUS
  <2> HIDE DEF g
  <2> QED BY <2>1, <2>2
<1>5. [s EXCEPT ![Len(s)].pc = p, ![Len(s)].left = l] = [s EXCEPT ![Len(s)] = f]
  BY <1>1, <1>2, <1>4
<1>6. Frame(f) /\ Below(f, Len(s))
  BY DEF Frame, Below
<1> HIDE DEF f
<1>7. Calls([s EXCEPT ![Len(s)] = f])
  BY <1>6, Moved
<1> QED BY <1>5, <1>7

LEMMA DataNext ==
  ASSUME NEW s, Calls(s), s # <<>>, NEW p,
         s[Len(s)].op = "copy" => Len(s) < MAX_RECURSE
  PROVE  Calls([s EXCEPT ![Len(s)].pc = p])
<1> DEFINE c == s[Len(s)]
           f == [op |-> c.op, in |-> c.in, to |-> c.to, dir |-> c.dir,
                 pc |-> p, left |-> c.left]
<1>1. PICK S : s \in Seq(S)
  BY DEF Calls
<1>2. Len(s) \in 1 .. Len(s)
  BY <1>1
<1>3. Frame(c)
  BY <1>2 DEF Calls
<1>4. [c EXCEPT !.pc = p] = f
  BY <1>3 DEF Frame
<1>5. [s EXCEPT ![Len(s)].pc = p] = [s EXCEPT ![Len(s)] = f]
  BY <1>1, <1>2, <1>4
<1>6. Frame(f) /\ Below(f, Len(s))
  BY DEF Frame, Below
<1> HIDE DEF f
<1>7. Calls([s EXCEPT ![Len(s)] = f])
  BY <1>6, Moved
<1> QED BY <1>5, <1>7

LEMMA CallFrame ==
  ASSUME NEW op, NEW in, NEW out, NEW e
  PROVE  Frame(Call(op, in, out, e)) /\ Call(op, in, out, e).pc = "enter"
BY DEF Call, Frame

LEMMA NoCalls == Calls(<<>>)
<1>1. <<>> \in Seq({}) /\ Len(<<>>) = 0
  OBVIOUS
<1> QED BY <1>1 DEF Calls

LEMMA PassedLimit ==
  ASSUME Calls(stack), stack # <<>>, Top.pc # "enter"
  PROVE  Top.op = "copy" => Len(stack) < MAX_RECURSE
<1>1. PICK S : stack \in Seq(S)
  BY DEF Calls
<1>2. Len(stack) \in 1 .. Len(stack)
  BY <1>1
<1> QED BY <1>2 DEF Calls, Below, Top

LEMMA ChildCalled ==
  ASSUME Calls(stack), stack # <<>>, NEW p, NEW l, NEW op, NEW in, NEW out, NEW e,
         Top.pc # "enter",
         stack' = Append([stack EXCEPT ![Len(stack)].pc = p, ![Len(stack)].left = l],
                         Call(op, in, out, e))
  PROVE  Calls(stack')
<1>1. Top.op = "copy" => Len(stack) < MAX_RECURSE
  BY PassedLimit
<1>2. Calls([stack EXCEPT ![Len(stack)].pc = p, ![Len(stack)].left = l])
  BY <1>1, MovedOn DEF Top
<1> QED BY <1>2, CallFrame, Pushed

LEMMA FolderListed ==
  ASSUME Calls(stack), stack # <<>>, NEW l, Listed(l), 
         Top.op = "copy" => Len(stack) < MAX_RECURSE
  PROVE  Calls(stack')
BY MovedOn DEF Listed, Top

LEMMA CallReturned ==
  ASSUME Calls(stack), stack # <<>>, NEW r, Return(r)
  PROVE  Calls(stack')
BY Popped DEF Return

LEMMA FilerCalled ==
  ASSUME Calls(stack), NEW op, NEW out, Next1(op, out)
  PROVE  Calls(stack')
BY CallFrame, Pushed DEF Next1, Push
-----------------------------------------------------------------------------
LEMMA CopyCalls ==
  ASSUME Calls(stack), CopyStep
  PROVE  Calls(stack')
<1>1. CASE CopyRefused
  BY <1>1, CallReturned DEF CopyRefused, Running, Fails
<1>2. CASE CopyNewFolder
  <2>1. stack # <<>> /\ Len(stack) < MAX_RECURSE
    BY <1>2 DEF CopyNewFolder, Entered, Running, CanEnter
  <2>2. PICK l : Listed(l)
    BY <1>2 DEF CopyNewFolder
  <2> QED BY <2>1, <2>2, FolderListed
<1>3. CASE CopyIntoFolder
  <2>1. stack # <<>> /\ Len(stack) < MAX_RECURSE
    BY <1>3 DEF CopyIntoFolder, Entered, Running, CanEnter
  <2>2. CASE Return(-1)
    BY <2>1, <2>2, CallReturned
  <2>3. CASE \E l \in SUBSET Entries(fs, Top.in) : Listed(l)
    BY <2>1, <2>3, FolderListed
  <2> QED BY <1>3, <2>2, <2>3 DEF CopyIntoFolder
<1>4. CASE CopyNoFolder
  BY <1>4, CallReturned DEF CopyNoFolder, Entered, Running, Fails
<1>5. CASE CopyOpen
  <2>1. stack # <<>> /\ Len(stack) < MAX_RECURSE
    BY <1>5 DEF CopyOpen, Entered, Running, CanEnter
  <2>2. \/ Return(-1)
        \/ stack' = [stack EXCEPT ![Len(stack)].pc = "data"]
    BY <1>5 DEF CopyOpen, Fails
  <2>3. CASE Return(-1)
    BY <2>1, <2>3, CallReturned
  <2>4. Calls([stack EXCEPT ![Len(stack)].pc = "data"])
    BY <2>1, DataNext
  <2> QED BY <2>2, <2>3, <2>4
<1>6. CASE CopyData
  <2>1. stack # <<>> /\ (Return(0) \/ Return(-1))
    BY <1>6 DEF CopyData, Running, Fails
  <2> QED BY <2>1, CallReturned
<1>7. CASE CopyChild
  <2>1. stack # <<>> /\ Top.pc # "enter"
    BY <1>7 DEF CopyChild, Running
  <2>2. PICK e \in Top.left :
          stack' = Append([stack EXCEPT ![Len(stack)].pc = "loop",
                                        ![Len(stack)].left = @ \ {e}],
                          Call("copy", Top.in, Out, e))
    BY <1>7 DEF CopyChild
  <2> QED BY <2>1, <2>2, ChildCalled
<1>8. CASE CopyFolderDone
  BY <1>8, CallReturned DEF CopyFolderDone, Running
<1> QED BY <1>1, <1>2, <1>3, <1>4, <1>5, <1>6, <1>7, <1>8 DEF CopyStep

LEMMA DeleteCalls ==
  ASSUME Calls(stack), DeleteStep
  PROVE  Calls(stack')
<1>1. CASE DeleteFile
  BY <1>1, CallReturned DEF DeleteFile, Running, Fails
<1>2. CASE DeleteFolder
  <2>1. stack # <<>> /\ Top.op # "copy"
    BY <1>2 DEF DeleteFolder, Running
  <2>2. Return(-1) \/ \E l \in SUBSET Entries(fs, Top.in) : Listed(l)
    BY <1>2 DEF DeleteFolder, Fails
  <2> QED BY <2>1, <2>2, CallReturned, FolderListed
<1>3. CASE DeleteChild
  <2>1. stack # <<>> /\ Top.pc # "enter"
    BY <1>3 DEF DeleteChild, Running
  <2>2. PICK e \in Top.left :
          stack' = Append([stack EXCEPT ![Len(stack)].pc = "loop",
                                        ![Len(stack)].left = @ \ {e}],
                          Call("delete", Top.in, <<>>, e))
    BY <1>3 DEF DeleteChild
  <2> QED BY <2>1, <2>2, ChildCalled
<1>4. CASE DeleteFolderDone
  <2>1. stack # <<>> /\ (Return(0) \/ Return(-1))
    BY <1>4 DEF DeleteFolderDone, Running, Fails
  <2> QED BY <2>1, CallReturned
<1> QED BY <1>1, <1>2, <1>3, <1>4 DEF DeleteStep

LEMMA LoopCalls ==
  ASSUME Calls(stack), PasteLoop \/ PurgeLoop \/ DeleteLoop
  PROVE  Calls(stack')
<1>1. \/ stack' = stack
      \/ Next1("copy", target)
      \/ Next1("delete", <<>>)
  BY DEF PasteLoop, PurgeLoop, DeleteLoop, Finish
<1> QED BY <1>1, FilerCalled

LEMMA StepCalls ==
  ASSUME Calls(stack), [Next]_vars
  PROVE  Calls(stack')
<1>1. CASE Work
  BY <1>1, CopyCalls, DeleteCalls, LoopCalls DEF Work
<1>2. CASE CopyOrCut \/ Paste \/ Delete \/ NewDir \/ Rename
  <2>1. stack' = stack
    BY <1>2 DEF CopyOrCut, Paste, Delete, NewDir, Rename
  <2> QED BY <2>1
<1>3. CASE PowerCycle
  BY <1>3, NoCalls DEF PowerCycle
<1>4. CASE UNCHANGED vars
  BY <1>4 DEF vars
<1> QED BY <1>1, <1>2, <1>3, <1>4 DEF Next

(* Whatever is pasted wherever, a folder into itself included, and whatever *)
(* fails on the way, every write to PM_flag[recurses + 1] and               *)
(* PM_file[recurses + 1] is within the MAX_RECURSE elements of the arrays   *)
(* (src/filer_copy.c:396 and :412).                                         *)
THEOREM RecursionBounded == Spec => []FlagsInBounds
<1>1. Init => Calls(stack)
  BY NoCalls DEF Init
<1>2. Calls(stack) /\ [Next]_vars => Calls(stack)'
  <2>1. ASSUME Calls(stack), [Next]_vars PROVE Calls(stack')
    BY <2>1, StepCalls
  <2>2. Calls(stack') => Calls(stack)'
    BY DEF Calls
  <2> QED BY <2>1, <2>2
<1>3. Calls(stack) => FlagsInBounds
  BY DEF Calls, Below, FlagsInBounds
<1> QED BY <1>1, <1>2, <1>3, PTL DEF Spec

-----------------------------------------------------------------------------
(***************************************************************************)
(* Paths, element by element.                                              *)
(***************************************************************************)
Parts == Devices \union AllNames

LEMMA PathIsSeq ==
  ASSUME NEW p, IsPath(p)
  PROVE  /\ p \in Seq(Parts) /\ Len(p) \in Nat /\ Len(p) >= 1
         /\ p[1] \in Devices
         /\ \A i \in 1 .. Len(p) : p[i] \in Parts
         /\ \A i \in 2 .. Len(p) : p[i] \in AllNames
BY DEF IsPath, Parts

LEMMA PathOf ==
  ASSUME NEW p \in Seq(Parts), Len(p) >= 1, p[1] \in Devices,
         \A i \in 2 .. Len(p) : p[i] \in AllNames
  PROVE  IsPath(p)
BY DEF IsPath, Parts

LEMMA SamePath ==
  ASSUME NEW p, IsPath(p), NEW q, IsPath(q), Len(p) = Len(q),
         \A i \in 1 .. Len(p) : p[i] = q[i]
  PROVE  p = q
<1>1. p \in Seq(Parts) /\ q \in Seq(Parts)
  BY PathIsSeq
<1> QED BY <1>1, SeqEqual

(* The first n names of a path. *)
LEMMA Ancestor ==
  ASSUME NEW p, IsPath(p), NEW n \in 1 .. Len(p)
  PROVE  /\ IsPath(SubSeq(p, 1, n)) /\ Len(SubSeq(p, 1, n)) = n
         /\ \A i \in 1 .. n : SubSeq(p, 1, n)[i] = p[i]
<1> DEFINE a == SubSeq(p, 1, n)
<1>1. /\ p \in Seq(Parts) /\ Len(p) \in Nat /\ p[1] \in Devices
      /\ \A i \in 1 .. Len(p) : p[i] \in Parts
      /\ \A i \in 2 .. Len(p) : p[i] \in AllNames
  BY PathIsSeq
<1>2. \A i \in 1 .. n : p[i] \in Parts
  BY <1>1
<1>3. /\ a \in Seq(Parts) /\ Len(a) = IF 1 <= n THEN n - 1 + 1 ELSE 0
      /\ \A i \in 1 .. n - 1 + 1 : a[i] = p[1 + i - 1]
  BY <1>2, SubSeqProperties
<1> HIDE DEF a
<1>4. Len(a) = n /\ \A i \in 1 .. n : a[i] = p[i]
  BY <1>1, <1>3
<1>5. a[1] \in Devices /\ \A i \in 2 .. Len(a) : a[i] \in AllNames
  BY <1>1, <1>4
<1>6. IsPath(a)
  BY <1>3, <1>4, <1>5, PathOf
<1> QED BY <1>4, <1>6 DEF a

LEMMA InsideMeans ==
  ASSUME NEW p, IsPath(p), NEW q, IsPath(q)
  PROVE  Inside(q, p) <=> /\ Len(p) <= Len(q)
                          /\ \A i \in 1 .. Len(p) : q[i] = p[i]
<1>1. Len(p) \in Nat /\ Len(p) >= 1 /\ Len(q) \in Nat
  BY PathIsSeq
<1>2. /\ IsPath(SubSeq(p, 1, Len(p))) /\ Len(SubSeq(p, 1, Len(p))) = Len(p)
      /\ \A i \in 1 .. Len(p) : SubSeq(p, 1, Len(p))[i] = p[i]
  BY <1>1, Ancestor
<1>3. CASE Len(p) <= Len(q)
  <2>1. /\ IsPath(SubSeq(q, 1, Len(p))) /\ Len(SubSeq(q, 1, Len(p))) = Len(p)
        /\ \A i \in 1 .. Len(p) : SubSeq(q, 1, Len(p))[i] = q[i]
    BY <1>1, <1>3, Ancestor
  <2>2. (\A i \in 1 .. Len(p) : q[i] = p[i]) =>
           SubSeq(p, 1, Len(p)) = SubSeq(q, 1, Len(p))
    <3>1. SUFFICES ASSUME \A i \in 1 .. Len(p) : q[i] = p[i]
                   PROVE  SubSeq(p, 1, Len(p)) = SubSeq(q, 1, Len(p))
      OBVIOUS
    <3>2. \A i \in 1 .. Len(p) : SubSeq(p, 1, Len(p))[i] = SubSeq(q, 1, Len(p))[i]
      BY <1>2, <2>1, <3>1
    <3> QED BY <1>2, <2>1, <3>2, SamePath
  <2>3. SubSeq(p, 1, Len(p)) = SubSeq(q, 1, Len(p)) =>
          \A i \in 1 .. Len(p) : q[i] = p[i]
    BY <1>2, <2>1
  <2> QED BY <1>3, <2>2, <2>3 DEF Inside, IsPrefix
<1>4. CASE ~(Len(p) <= Len(q))
  BY <1>4 DEF Inside, IsPrefix
<1> QED BY <1>3, <1>4

LEMMA AncestorOf ==
  ASSUME NEW p, IsPath(p), NEW q, IsPath(q), Inside(q, p)
  PROVE  p = SubSeq(q, 1, Len(p)) /\ Len(p) \in 1 .. Len(q) /\ (p # q => Len(p) < Len(q))
<1>1. Len(p) \in Nat /\ Len(p) >= 1 /\ Len(q) \in Nat
  BY PathIsSeq
<1>2. Len(p) <= Len(q) /\ \A i \in 1 .. Len(p) : q[i] = p[i]
  BY InsideMeans
<1>3. Len(p) \in 1 .. Len(q)
  BY <1>1, <1>2
<1>4. /\ IsPath(SubSeq(q, 1, Len(p))) /\ Len(SubSeq(q, 1, Len(p))) = Len(p)
      /\ \A i \in 1 .. Len(p) : SubSeq(q, 1, Len(p))[i] = q[i]
  BY <1>3, Ancestor
<1>5. \A i \in 1 .. Len(p) : p[i] = SubSeq(q, 1, Len(p))[i]
  BY <1>2, <1>4
<1>6. p = SubSeq(q, 1, Len(p))
  BY <1>4, <1>5, SamePath
<1>7. Len(p) = Len(q) => p = q
  BY <1>2, SamePath
<1> QED BY <1>1, <1>2, <1>3, <1>6, <1>7

LEMMA InsideItself ==
  ASSUME NEW p, IsPath(p)
  PROVE  Inside(p, p)
<1>1. Len(p) \in Nat
  BY PathIsSeq
<1> QED BY <1>1, InsideMeans

LEMMA InsideInside ==
  ASSUME NEW p, IsPath(p), NEW q, IsPath(q), NEW r, IsPath(r), Inside(r, q), Inside(q, p)
  PROVE  Inside(r, p)
<1>1. Len(p) \in Nat /\ Len(q) \in Nat /\ Len(r) \in Nat
  BY PathIsSeq
<1>2. /\ Len(p) <= Len(q) /\ \A i \in 1 .. Len(p) : q[i] = p[i]
      /\ Len(q) <= Len(r) /\ \A i \in 1 .. Len(q) : r[i] = q[i]
  BY InsideMeans
<1>3. Len(p) <= Len(r) /\ \A i \in 1 .. Len(p) : r[i] = p[i]
  BY <1>1, <1>2
<1> QED BY <1>3, InsideMeans

(* Two paths that lead to a third lie one inside the other. *)
LEMMA Comparable ==
  ASSUME NEW p, IsPath(p), NEW q, IsPath(q), NEW r, IsPath(r), Inside(r, p), Inside(r, q)
  PROVE  Inside(p, q) \/ Inside(q, p)
<1>1. Len(p) \in Nat /\ Len(q) \in Nat
  BY PathIsSeq
<1>2. /\ \A i \in 1 .. Len(p) : r[i] = p[i]
      /\ \A i \in 1 .. Len(q) : r[i] = q[i]
  BY InsideMeans
<1>3. CASE Len(p) <= Len(q)
  <2>1. \A i \in 1 .. Len(p) : q[i] = p[i]
    BY <1>1, <1>2, <1>3
  <2> QED BY <1>3, <2>1, InsideMeans
<1>4. CASE Len(q) <= Len(p)
  <2>1. \A i \in 1 .. Len(q) : p[i] = q[i]
    BY <1>1, <1>2, <1>4
  <2> QED BY <1>4, <2>1, InsideMeans
<1> QED BY <1>1, <1>3, <1>4

(* An entry of a folder. *)
LEMMA Kid ==
  ASSUME NEW p, IsPath(p), NEW n \in AllNames
  PROVE  /\ IsPath(p \o <<n>>) /\ Len(p \o <<n>>) = Len(p) + 1
         /\ \A i \in 1 .. Len(p) : (p \o <<n>>)[i] = p[i]
         /\ (p \o <<n>>)[Len(p) + 1] = n
         /\ Inside(p \o <<n>>, p)
<1> DEFINE k == p \o <<n>>
<1>1. /\ p \in Seq(Parts) /\ Len(p) \in Nat /\ Len(p) >= 1 /\ p[1] \in Devices
      /\ \A i \in 2 .. Len(p) : p[i] \in AllNames
  BY PathIsSeq
<1>2. <<n>> \in Seq(Parts) /\ Len(<<n>>) = 1 /\ <<n>>[1] = n
  BY DEF Parts
<1>3. /\ k \in Seq(Parts) /\ Len(k) = Len(p) + 1
      /\ \A i \in 1 .. Len(p) + 1 : k[i] = IF i <= Len(p) THEN p[i] ELSE <<n>>[i - Len(p)]
  BY <1>1, <1>2, ConcatProperties
<1> HIDE DEF k
<1>4. (\A i \in 1 .. Len(p) : k[i] = p[i]) /\ k[Len(p) + 1] = n
  BY <1>1, <1>2, <1>3
<1>5. k[1] \in Devices /\ \A i \in 2 .. Len(k) : k[i] \in AllNames
  BY <1>1, <1>3, <1>4
<1>6. IsPath(k)
  BY <1>1, <1>3, <1>5, PathOf
<1>7. Inside(k, p)
  BY <1>1, <1>3, <1>4, <1>6, InsideMeans
<1> QED BY <1>3, <1>4, <1>6, <1>7 DEF k

(* An entry is its folder and its name. *)
LEMMA KidIs ==
  ASSUME NEW p, IsPath(p), NEW q, IsPath(q), Len(q) = Len(p) + 1, Inside(q, p)
  PROVE  q[Len(q)] \in AllNames /\ q = p \o <<q[Len(q)]>>
<1>1. Len(p) \in Nat /\ Len(p) >= 1 /\ \A i \in 2 .. Len(q) : q[i] \in AllNames
  BY PathIsSeq
<1>2. q[Len(q)] \in AllNames
  BY <1>1
<1> DEFINE k == p \o <<q[Len(q)]>>
<1>3. /\ IsPath(k) /\ Len(k) = Len(p) + 1
      /\ \A i \in 1 .. Len(p) : k[i] = p[i]
      /\ k[Len(p) + 1] = q[Len(q)]
  BY <1>2, Kid
<1>4. \A i \in 1 .. Len(p) : q[i] = p[i]
  BY InsideMeans
<1> HIDE DEF k
<1>5. \A i \in 1 .. Len(q) : q[i] = k[i]
  BY <1>1, <1>3, <1>4
<1>6. q = k
  BY <1>3, <1>5, SamePath
<1> QED BY <1>2, <1>6 DEF k

(* The step from a folder towards something below it. *)
LEMMA Towards ==
  ASSUME NEW p, IsPath(p), NEW q, IsPath(q), Inside(q, p), q # p
  PROVE  LET k == SubSeq(q, 1, Len(p) + 1)
         IN /\ IsPath(k) /\ Len(k) = Len(p) + 1 /\ Len(p) + 1 \in 1 .. Len(q)
            /\ Inside(k, p) /\ Inside(q, k)
            /\ Len(p) + 1 = Len(q) => k = q
<1> DEFINE k == SubSeq(q, 1, Len(p) + 1)
<1>1. Len(p) \in Nat /\ Len(p) >= 1 /\ Len(q) \in Nat
  BY PathIsSeq
<1>2. Len(p) < Len(q)
  BY AncestorOf
<1>3. Len(p) + 1 \in 1 .. Len(q)
  BY <1>1, <1>2
<1>4. IsPath(k) /\ Len(k) = Len(p) + 1 /\ \A i \in 1 .. Len(p) + 1 : k[i] = q[i]
  BY <1>3, Ancestor
<1>5. \A i \in 1 .. Len(p) : q[i] = p[i]
  BY InsideMeans
<1> HIDE DEF k
<1>6. Inside(k, p)
  BY <1>1, <1>4, <1>5, InsideMeans
<1>7. Inside(q, k)
  BY <1>1, <1>3, <1>4, InsideMeans
<1>8. Len(p) + 1 = Len(q) => k = q
  BY <1>4, SamePath
<1> QED BY <1>3, <1>4, <1>6, <1>7, <1>8 DEF k

(* The folder of an entry. *)
LEMMA FolderOf ==
  ASSUME NEW q, IsPath(q), Len(q) > 1
  PROVE  /\ IsPath(Front(q)) /\ Len(Front(q)) = Len(q) - 1
         /\ \A i \in 1 .. Len(q) - 1 : Front(q)[i] = q[i]
         /\ Inside(q, Front(q)) /\ Front(q) # q
<1>1. Len(q) \in Nat /\ Len(q) - 1 \in 1 .. Len(q)
  BY PathIsSeq
<1>2. /\ IsPath(Front(q)) /\ Len(Front(q)) = Len(q) - 1
      /\ \A i \in 1 .. Len(q) - 1 : Front(q)[i] = q[i]
  BY <1>1, Ancestor DEF Front
<1>3. Inside(q, Front(q))
  BY <1>1, <1>2, InsideMeans
<1> QED BY <1>1, <1>2, <1>3

(* The name limit changes the last name and nothing else. *)
LEMMA LimitedPath ==
  ASSUME NEW p, IsPath(p), Len(p) > 1
  PROVE  LET o == genLimObjName(p)
         IN /\ IsPath(o) /\ Len(o) = Len(p)
            /\ \A i \in 1 .. Len(p) - 1 : o[i] = p[i]
            /\ o[Len(p)] = Limited[p[1]][p[Len(p)]]
<1> DEFINE n == Limited[p[1]][p[Len(p)]]
           o == genLimObjName(p)
<1>1. /\ p \in Seq(Parts) /\ Len(p) \in Nat /\ p[1] \in Devices
      /\ p[Len(p)] \in AllNames
      /\ \A i \in 2 .. Len(p) : p[i] \in AllNames
  BY PathIsSeq
<1>2. n \in AllNames
  BY <1>1, TreeAssumption
<1> HIDE DEF n
<1>3. n \in Parts /\ Len(p) \in 1 .. Len(p)
  BY <1>1, <1>2 DEF Parts
<1>4. o = [p EXCEPT ![Len(p)] = n]
  BY DEF n, genLimObjName
<1>5. /\ o \in Seq(Parts) /\ Len(o) = Len(p)
      /\ \A j \in 1 .. Len(p) : o[j] = IF j = Len(p) THEN n ELSE p[j]
  BY <1>1, <1>3, <1>4, ExceptSeq
<1> HIDE DEF o
<1>6. o[1] \in Devices /\ \A i \in 2 .. Len(o) : o[i] \in AllNames
  BY <1>1, <1>2, <1>5
<1>7. IsPath(o)
  BY <1>1, <1>5, <1>6, PathOf
<1>8. (\A i \in 1 .. Len(p) - 1 : o[i] = p[i]) /\ o[Len(p)] = n
  BY <1>1, <1>5
<1> QED BY <1>5, <1>7, <1>8 DEF o, n
-----------------------------------------------------------------------------
(***************************************************************************)
(* Trees: what stays a tree.                                               *)
(***************************************************************************)
LEMMA TreePath ==
  ASSUME NEW f, IsTree(f), NEW q \in DOMAIN f
  PROVE  IsPath(q) /\ (f[q] \in Bytes \/ f[q] = Folder)
BY DEF IsTree

(* What contains an entry is a folder. *)
LEMMA TreeUp ==
  ASSUME NEW f, IsTree(f), NEW q \in DOMAIN f, NEW p, IsPath(p), Inside(q, p), p # q
  PROVE  IsDir(f, p)
<1>1. IsPath(q)
  BY TreePath
<1>2. p = SubSeq(q, 1, Len(p)) /\ Len(p) \in Nat /\ Len(q) \in Nat /\ Len(p) >= 1
      /\ Len(p) < Len(q)
  BY <1>1, AncestorOf, PathIsSeq
<1>3. Len(p) \in 1 .. Len(q) - 1
  BY <1>2
<1> QED BY <1>2, <1>3 DEF IsTree

LEMMA TreeFrom ==
  ASSUME NEW f,
         \A q \in DOMAIN f :
           /\ IsPath(q)
           /\ f[q] \in Bytes \/ f[q] = Folder
           /\ \A p : IsPath(p) /\ Inside(q, p) /\ p # q => IsDir(f, p)
  PROVE  IsTree(f)
<1>1. SUFFICES ASSUME NEW q \in DOMAIN f, NEW n \in 1 .. Len(q) - 1
               PROVE  IsDir(f, SubSeq(q, 1, n))
  BY DEF IsTree
<1>2. IsPath(q) /\ Len(q) \in Nat /\ n \in 1 .. Len(q) /\ n < Len(q)
  BY PathIsSeq
<1> DEFINE a == SubSeq(q, 1, n)
<1>3. IsPath(a) /\ Len(a) = n /\ \A i \in 1 .. n : a[i] = q[i]
  BY <1>2, Ancestor
<1> HIDE DEF a
<1>4. Inside(q, a) /\ a # q
  BY <1>2, <1>3, InsideMeans
<1>5. IsDir(f, a)
  BY <1>3, <1>4
<1> QED BY <1>5 DEF a

LEMMA FileOrFolder ==
  ASSUME NEW f, IsTree(f), NEW q \in DOMAIN f
  PROVE  /\ IsFile(f, q) \/ IsDir(f, q)
         /\ IsFile(f, q) => f[q] \in Bytes
         /\ IsDir(f, q) => f[q] = Folder
BY TreePath, CopyAssumption DEF IsFile, IsDir, Bytes, Folder

LEMMA BytesAreFiles ==
  ASSUME NEW e \in Bytes
  PROVE  e.of # NoFile /\ e.of \in Files /\ e.whole \in BOOLEAN
         /\ e = [of |-> e.of, whole |-> e.whole]
BY CopyAssumption DEF Bytes

(* A new entry in a folder, or a file in the place of a file. *)
LEMMA TreeWith ==
  ASSUME NEW f, IsTree(f), NEW w, IsPath(w), Room(f, w), ~IsDir(f, w),
         NEW e, e \in Bytes \/ e = Folder
  PROVE  IsTree(With(f, w, e))
<1> DEFINE g == With(f, w, e)
<1>1. DOMAIN g = DOMAIN f \union {w}
      /\ g[w] = e /\ \A q \in DOMAIN f : q # w => g[q] = f[q]
  BY DEF With
<1> HIDE DEF g
<1>2. Len(w) > 1 /\ IsDir(f, Front(w))
  BY DEF Room
<1>3. IsPath(Front(w)) /\ Len(Front(w)) = Len(w) - 1 /\ Inside(w, Front(w))
      /\ Len(w) \in Nat /\ \A i \in 1 .. Len(w) - 1 : Front(w)[i] = w[i]
  BY <1>2, FolderOf, PathIsSeq
<1>4. \A p : IsDir(f, p) => IsDir(g, p)
  BY <1>1 DEF IsDir
<1>5. ASSUME NEW q \in DOMAIN g, NEW p, IsPath(p), Inside(q, p), p # q
      PROVE  IsDir(g, p)
  <2>1. CASE q \in DOMAIN f
    <3>1. IsDir(f, p)
      BY <2>1, <1>5, TreeUp
    <3> QED BY <3>1, <1>4
  <2>2. CASE q = w
    <3>1. Len(p) \in Nat /\ Len(p) < Len(w) /\ \A i \in 1 .. Len(p) : w[i] = p[i]
      BY <2>2, <1>5, AncestorOf, InsideMeans, PathIsSeq
    <3>2. CASE p = Front(w)
      BY <3>2, <1>2, <1>4
    <3>3. CASE p # Front(w)
      <4>1. Len(p) <= Len(Front(w)) /\ \A i \in 1 .. Len(p) : Front(w)[i] = p[i]
        BY <3>1, <1>3
      <4>2. Inside(Front(w), p)
        BY <4>1, <1>3, <1>5, InsideMeans
      <4>3. Front(w) \in DOMAIN f
        BY <1>2 DEF IsDir
      <4>4. IsDir(f, p)
        BY <4>2, <4>3, <3>3, <1>5, TreeUp
      <4> QED BY <4>4, <1>4
    <3> QED BY <3>2, <3>3
  <2> QED BY <1>1, <2>1, <2>2
<1>6. \A q \in DOMAIN g : IsPath(q) /\ (g[q] \in Bytes \/ g[q] = Folder)
  BY <1>1, TreePath
<1>7. IsTree(g)
  BY <1>5, <1>6, TreeFrom
<1> QED BY <1>7 DEF g

(* What is removed is a file, or a folder that lists nothing. *)
LEMMA TreeWithout ==
  ASSUME NEW f, IsTree(f), NEW w, IsPath(w), ~IsDir(f, w) \/ Entries(f, w) = {}
  PROVE  IsTree(Without(f, w))
<1> DEFINE g == Without(f, w)
<1>1. DOMAIN g = DOMAIN f \ {w} /\ \A q \in DOMAIN g : g[q] = f[q]
  BY DEF Without
<1> HIDE DEF g
<1>2. ASSUME NEW q \in DOMAIN g, NEW p, IsPath(p), Inside(q, p), p # q
      PROVE  IsDir(g, p)
  <2>1. q \in DOMAIN f /\ IsPath(q) /\ IsDir(f, p)
    BY <1>1, <1>2, TreeUp, TreePath
  <2>2. ASSUME p = w PROVE FALSE
    <3> DEFINE k == SubSeq(q, 1, Len(w) + 1)
    <3>1. /\ IsPath(k) /\ Len(k) = Len(w) + 1 /\ Inside(k, w) /\ Inside(q, k)
          /\ Len(w) + 1 \in 1 .. Len(q)
          /\ Len(w) + 1 = Len(q) => k = q
      BY <2>1, <2>2, <1>2, Towards
    <3> HIDE DEF k
    <3>2. k \in DOMAIN f
      BY <2>1, <3>1, TreeUp DEF IsDir
    <3>3. Entries(f, w) # {}
      BY <3>1, <3>2 DEF Entries
    <3> QED BY <3>3, <2>1, <2>2
  <2> QED BY <2>1, <2>2, <1>1 DEF IsDir
<1>3. \A q \in DOMAIN g : IsPath(q) /\ (g[q] \in Bytes \/ g[q] = Folder)
  BY <1>1, TreePath
<1>4. IsTree(g)
  BY <1>2, <1>3, TreeFrom
<1> QED BY <1>4 DEF g

(* What a folder lists: the entries right below it. *)
Entry(e) == e.name \in AllNames /\ e.dir \in BOOLEAN

LEMMA EntryMeans ==
  ASSUME NEW f, IsTree(f), NEW p, IsPath(p), NEW e \in Entries(f, p)
  PROVE  /\ Entry(e)
         /\ p \o <<e.name>> \in DOMAIN f /\ e.dir = IsDir(f, p \o <<e.name>>)
<1>1. PICK q \in DOMAIN f : /\ Len(q) = Len(p) + 1 /\ Inside(q, p)
                            /\ e = [name |-> Last(q), dir |-> IsDir(f, q)]
  BY DEF Entries
<1>2. IsPath(q)
  BY TreePath
<1>3. q[Len(q)] \in AllNames /\ q = p \o <<q[Len(q)]>>
  BY <1>1, <1>2, KidIs
<1>4. e.name = q[Len(q)] /\ e.dir = IsDir(f, q)
  BY <1>1 DEF Last
<1>5. IsDir(f, q) \in BOOLEAN
  BY DEF IsDir
<1> QED BY <1>3, <1>4, <1>5 DEF Entry

LEMMA EntryListed ==
  ASSUME NEW f, IsTree(f), NEW p, IsPath(p), NEW q \in DOMAIN f, Inside(q, p), q # p
  PROVE  \E e \in Entries(f, p) : Inside(q, p \o <<e.name>>)
<1> DEFINE k == SubSeq(q, 1, Len(p) + 1)
           e == [name |-> Last(k), dir |-> IsDir(f, k)]
<1>1. IsPath(q)
  BY TreePath
<1>2. /\ IsPath(k) /\ Len(k) = Len(p) + 1 /\ Inside(k, p) /\ Inside(q, k)
      /\ Len(p) + 1 = Len(q) => k = q
  BY <1>1, Towards
<1> HIDE DEF k
<1>3. k \in DOMAIN f
  BY <1>2, TreeUp DEF IsDir
<1>4. e \in Entries(f, p)
  BY <1>2, <1>3 DEF Entries
<1>5. k = p \o <<k[Len(k)]>>
  BY <1>2, KidIs
<1>6. e.name = k[Len(k)]
  BY DEF Last
<1>7. Inside(q, p \o <<e.name>>)
  BY <1>2, <1>5, <1>6
<1> QED BY <1>4, <1>7
(***************************************************************************)
(* Rename.                                                                 *)
(***************************************************************************)
Splice(q, r, k) == q \o SubSeq(r, k + 1, Len(r))

LEMMA Spliced ==
  ASSUME NEW q, IsPath(q), NEW r, IsPath(r), Len(r) >= Len(q)
  PROVE  LET s == Splice(q, r, Len(q))
         IN /\ IsPath(s) /\ Len(s) = Len(r)
            /\ \A i \in 1 .. Len(q) : s[i] = q[i]
            /\ \A i \in 1 .. Len(r) : i > Len(q) => s[i] = r[i]
            /\ Inside(s, q)
<1> DEFINE u == SubSeq(r, Len(q) + 1, Len(r))
           s == q \o u
<1>1. /\ q \in Seq(Parts) /\ Len(q) \in Nat /\ Len(q) >= 1 /\ q[1] \in Devices
      /\ \A i \in 2 .. Len(q) : q[i] \in AllNames
  BY PathIsSeq
<1>2. /\ r \in Seq(Parts) /\ Len(r) \in Nat
      /\ \A i \in 1 .. Len(r) : r[i] \in Parts
      /\ \A i \in 2 .. Len(r) : r[i] \in AllNames
  BY PathIsSeq
<1>3. /\ u \in Seq(Parts)
      /\ Len(u) = IF Len(q) + 1 <= Len(r) THEN Len(r) - (Len(q) + 1) + 1 ELSE 0
      /\ \A i \in 1 .. Len(r) - (Len(q) + 1) + 1 : u[i] = r[Len(q) + 1 + i - 1]
  <2>1. \A i \in Len(q) + 1 .. Len(r) : r[i] \in Parts
    BY <1>1, <1>2
  <2>2. Len(q) + 1 \in Int /\ Len(r) \in Int
    BY <1>1, <1>2
  <2> QED BY <2>1, <2>2, SubSeqProperties
<1> HIDE DEF u
<1>4. Len(u) = Len(r) - Len(q) /\ \A i \in 1 .. Len(r) - Len(q) : u[i] = r[Len(q) + i]
  BY <1>1, <1>2, <1>3
<1>5. /\ s \in Seq(Parts) /\ Len(s) = Len(q) + Len(u)
      /\ \A i \in 1 .. Len(q) + Len(u) : s[i] = IF i <= Len(q) THEN q[i] ELSE u[i - Len(q)]
  BY <1>1, <1>3, ConcatProperties
<1> HIDE DEF s
<1>6. /\ Len(s) = Len(r)
      /\ \A i \in 1 .. Len(q) : s[i] = q[i]
      /\ \A i \in 1 .. Len(r) : i > Len(q) => s[i] = r[i]
  <2>1. Len(s) = Len(r)
    BY <1>1, <1>2, <1>4, <1>5
  <2>2. \A i \in 1 .. Len(q) : s[i] = q[i]
    BY <1>1, <1>2, <1>4, <1>5
  <2>3. ASSUME NEW i \in 1 .. Len(r), i > Len(q) PROVE s[i] = r[i]
    <3>1. i - Len(q) \in 1 .. Len(r) - Len(q) /\ i \in 1 .. Len(q) + Len(u)
      BY <1>1, <1>2, <1>4, <2>3
    <3>2. s[i] = u[i - Len(q)]
      BY <1>1, <1>5, <2>3, <3>1
    <3>3. u[i - Len(q)] = r[Len(q) + (i - Len(q))]
      BY <1>4, <3>1
    <3>4. Len(q) + (i - Len(q)) = i
      BY <1>1
    <3> QED BY <3>2, <3>3, <3>4
  <2> QED BY <2>1, <2>2, <2>3
<1>7. s[1] \in Devices /\ \A i \in 2 .. Len(s) : s[i] \in AllNames
  BY <1>1, <1>2, <1>6
<1>8. IsPath(s)
  BY <1>1, <1>2, <1>5, <1>6, <1>7, PathOf
<1>9. Inside(s, q)
  BY <1>1, <1>6, <1>8, InsideMeans
<1> QED BY <1>6, <1>8, <1>9 DEF Splice, s, u

(* Splicing the old folder back gives the old path. *)
LEMMA SplicedBack ==
  ASSUME NEW p, IsPath(p), NEW q, IsPath(q), Len(q) = Len(p),
         NEW m, IsPath(m), Inside(m, p)
  PROVE  Splice(p, Splice(q, m, Len(q)), Len(q)) = m
<1> DEFINE s == Splice(q, m, Len(q))
           b == Splice(p, s, Len(p))
<1>1. Len(p) \in Nat /\ Len(m) \in Nat /\ Len(m) >= Len(p) /\ \A i \in 1 .. Len(p) : m[i] = p[i]
  BY InsideMeans, PathIsSeq
<1>2. /\ IsPath(s) /\ Len(s) = Len(m)
      /\ \A i \in 1 .. Len(m) : i > Len(q) => s[i] = m[i]
  BY <1>1, Spliced
<1> HIDE DEF s
<1>3. /\ IsPath(b) /\ Len(b) = Len(s)
      /\ \A i \in 1 .. Len(p) : b[i] = p[i]
      /\ \A i \in 1 .. Len(s) : i > Len(p) => b[i] = s[i]
  BY <1>1, <1>2, Spliced
<1> HIDE DEF b
<1>4. \A i \in 1 .. Len(m) : b[i] = m[i]
  BY <1>1, <1>2, <1>3
<1>5. b = m
  BY <1>2, <1>3, <1>4, SamePath
<1> QED BY <1>5 DEF b, s

Renamed(f, p, q) ==
  [r \in (DOMAIN f \ Under(f, {p})) \union {Splice(q, m, Len(q)) : m \in Under(f, {p})} |->
     IF Inside(r, q) THEN f[Splice(p, r, Len(q))] ELSE f[r]]

LEMMA TreeRenamed ==
  ASSUME NEW f, IsTree(f), NEW p \in DOMAIN f, Len(p) > 1, NEW q, IsPath(q),
         Len(q) = Len(p), \A i \in 1 .. Len(p) - 1 : q[i] = p[i], q \notin DOMAIN f
  PROVE  /\ IsTree(Renamed(f, p, q))
         /\ \A x \in DOMAIN Renamed(f, p, q) : \E y \in DOMAIN f : Renamed(f, p, q)[x] = f[y]
<1> DEFINE moved == Under(f, {p})
           New(m) == Splice(q, m, Len(q))
           g == [r \in (DOMAIN f \ moved) \union {New(m) : m \in moved} |->
                     IF Inside(r, q) THEN f[Splice(p, r, Len(q))] ELSE f[r]]
<1>1. IsPath(p) /\ Len(p) \in Nat
  BY TreePath, PathIsSeq
<1>2. \A m : m \in moved <=> m \in DOMAIN f /\ Inside(m, p)
  BY DEF Under
<1>3. DOMAIN g = (DOMAIN f \ moved) \union {New(m) : m \in moved}
  OBVIOUS
<1>4. ASSUME NEW x \in DOMAIN f, x \notin moved
      PROVE  x \in DOMAIN g /\ g[x] = f[x] /\ ~Inside(x, q) /\ IsPath(x)
  <2>1. ~Inside(x, q)
    BY <1>4, TreeUp, TreePath DEF IsDir
  <2> QED BY <2>1, <1>4, TreePath
<1>5. ASSUME NEW m \in moved
      PROVE  /\ New(m) \in DOMAIN g /\ g[New(m)] = f[m] /\ IsPath(New(m)) /\ IsPath(m)
             /\ Len(New(m)) = Len(m) /\ Len(m) >= Len(p)
             /\ \A i \in 1 .. Len(p) : New(m)[i] = q[i]
             /\ \A i \in 1 .. Len(m) : i > Len(p) => New(m)[i] = m[i]
  <2>1. IsPath(m) /\ Inside(m, p) /\ Len(m) >= Len(p)
    BY <1>1, <1>2, TreePath, InsideMeans
  <2>2. /\ IsPath(New(m)) /\ Len(New(m)) = Len(m) /\ Inside(New(m), q)
        /\ \A i \in 1 .. Len(q) : New(m)[i] = q[i]
        /\ \A i \in 1 .. Len(m) : i > Len(q) => New(m)[i] = m[i]
    BY <2>1, Spliced
  <2>3. Splice(p, New(m), Len(q)) = m
    BY <1>1, <2>1, SplicedBack
  <2>4. New(m) \in DOMAIN g
    OBVIOUS
  <2>5. g[New(m)] = IF Inside(New(m), q) THEN f[Splice(p, New(m), Len(q))] ELSE f[New(m)]
    BY <2>4
  <2>6. g[New(m)] = f[m]
    BY <2>2, <2>3, <2>5
  <2> QED BY <2>1, <2>2, <2>4, <2>6
<1> HIDE DEF New, g, moved
<1>6. \A x \in DOMAIN g : (x \in DOMAIN f /\ x \notin moved) \/ \E m \in moved : x = New(m)
  BY <1>3
<1>7. ASSUME NEW x \in DOMAIN g
      PROVE  IsPath(x) /\ \E y \in DOMAIN f : g[x] = f[y]
  <2>1. CASE x \in DOMAIN f /\ x \notin moved
    BY <2>1, <1>4
  <2>2. CASE \E m \in moved : x = New(m)
    BY <2>2, <1>5, <1>2
  <2> QED BY <1>6, <2>1, <2>2
<1>8. ASSUME NEW x \in DOMAIN g, NEW a, IsPath(a), Inside(x, a), a # x
      PROVE  IsDir(g, a)
  <2>1. CASE x \in DOMAIN f /\ x \notin moved
    <3>1. IsDir(f, a)
      BY <2>1, <1>8, TreeUp
    <3>2. a \notin moved
      BY <2>1, <1>1, <1>2, <1>4, <1>8, InsideInside
    <3> QED BY <3>1, <3>2, <1>4 DEF IsDir
  <2>2. ASSUME NEW m \in moved, x = New(m) PROVE IsDir(g, a)
    <3>1. /\ IsPath(x) /\ IsPath(m) /\ Len(x) = Len(m) /\ Len(m) >= Len(p)
          /\ \A i \in 1 .. Len(p) : x[i] = q[i]
          /\ \A i \in 1 .. Len(m) : i > Len(p) => x[i] = m[i]
      BY <2>2, <1>5
    <3>2. /\ Len(a) \in Nat /\ Len(m) \in Nat /\ Len(a) >= 1
          /\ Len(a) < Len(x) /\ \A i \in 1 .. Len(a) : x[i] = a[i]
      BY <3>1, <1>8, AncestorOf, InsideMeans, PathIsSeq
    <3>3. m \in DOMAIN f /\ Inside(m, p) /\ \A i \in 1 .. Len(p) : m[i] = p[i]
      BY <3>1, <1>1, <1>2, InsideMeans
    <3>4. CASE Len(a) < Len(p)
      <4>1. \A i \in 1 .. Len(a) : p[i] = a[i]
        BY <3>1, <3>2, <3>4, <1>1
      <4>2. Inside(p, a) /\ p # a
        BY <4>1, <3>4, <1>1, <1>8, <3>2, InsideMeans
      <4>3. IsDir(f, a)
        BY <4>2, <1>8, TreeUp
      <4>4. a \notin moved
        BY <1>1, <1>2, <1>8, <3>4, <3>2, InsideMeans
      <4> QED BY <4>3, <4>4, <1>4 DEF IsDir
    <3>5. CASE Len(a) >= Len(p)
      <4> DEFINE b == SubSeq(m, 1, Len(a))
      <4>1. Len(a) \in 1 .. Len(m)
        BY <3>1, <3>2
      <4>2. IsPath(b) /\ Len(b) = Len(a) /\ \A i \in 1 .. Len(a) : b[i] = m[i]
        BY <4>1, <3>1, Ancestor
      <4> HIDE DEF b
      <4>3. Inside(m, b) /\ b # m
        <5>1. Len(b) = Len(a) /\ Len(b) < Len(m) /\ \A i \in 1 .. Len(a) : b[i] = m[i]
          BY <4>2, <3>1, <3>2
        <5>2. Len(b) <= Len(m) /\ \A i \in 1 .. Len(b) : m[i] = b[i]
          BY <5>1, <3>2
        <5>3. Inside(m, b)
          BY <5>2, <4>2, <3>1, InsideMeans
        <5>4. b # m
          BY <5>1, <3>2
        <5> QED BY <5>3, <5>4
      <4>4. IsDir(f, b)
        BY <4>2, <4>3, <3>3, TreeUp
      <4>5. Inside(b, p)
        BY <4>2, <3>3, <3>5, <3>2, <1>1, InsideMeans
      <4>6. b \in moved
        BY <4>4, <4>5, <1>2 DEF IsDir
      <4>7. /\ New(b) \in DOMAIN g /\ g[New(b)] = f[b] /\ IsPath(New(b))
            /\ Len(New(b)) = Len(b)
            /\ \A i \in 1 .. Len(p) : New(b)[i] = q[i]
            /\ \A i \in 1 .. Len(b) : i > Len(p) => New(b)[i] = b[i]
        BY <4>6, <1>5
      <4>8. \A i \in 1 .. Len(a) : New(b)[i] = a[i]
        <5>1. ASSUME NEW i \in 1 .. Len(a) PROVE New(b)[i] = a[i]
          <6>1. CASE i <= Len(p)
            BY <6>1, <4>7, <3>1, <3>2, <3>5, <1>1
          <6>2. CASE i > Len(p)
            BY <6>2, <4>7, <4>2, <3>1, <3>2
          <6> QED BY <6>1, <6>2, <1>1
        <5> QED BY <5>1
      <4>9. New(b) = a
        BY <4>2, <4>7, <4>8, <1>8, SamePath
      <4> QED BY <4>4, <4>7, <4>9 DEF IsDir
    <3> QED BY <3>4, <3>5, <3>2, <1>1
  <2> QED BY <2>1, <2>2, <1>6
<1>9. \A x \in DOMAIN g : IsPath(x) /\ (g[x] \in Bytes \/ g[x] = Folder)
  BY <1>7, TreePath
<1>10. IsTree(g)
  BY <1>8, <1>9, TreeFrom
<1>11. \A x \in DOMAIN g : \E y \in DOMAIN f : g[x] = f[y]
  BY <1>7
<1>12. g = Renamed(f, p, q)
  BY DEF g, New, moved, Renamed
<1> QED BY <1>10, <1>11, <1>12
-----------------------------------------------------------------------------
(***************************************************************************)
(* The stack, call by call.                                                *)
(***************************************************************************)
LEMMA StackIsSeq ==
  ASSUME NEW s, Calls(s)
  PROVE  /\ Len(s) \in Nat /\ (s # <<>> <=> Len(s) >= 1)
         /\ \A i \in 1 .. Len(s) : Frame(s[i])
<1>1. PICK S : s \in Seq(S)
  BY DEF Calls
<1>2. Len(s) \in Nat /\ (s # <<>> <=> Len(s) >= 1)
  BY <1>1
<1> QED BY <1>2 DEF Calls

LEMMA PushedIs ==
  ASSUME NEW s, Calls(s), NEW f
  PROVE  /\ Len(Append(s, f)) = Len(s) + 1 /\ Append(s, f) # <<>>
         /\ \A i \in 1 .. Len(s) : Append(s, f)[i] = s[i]
         /\ Append(s, f)[Len(s) + 1] = f
<1>1. PICK S : s \in Seq(S)
  BY DEF Calls
<1>2. s \in Seq(S \cup {f}) /\ f \in S \cup {f}
  BY <1>1
<1> QED BY <1>2

LEMMA PoppedIs ==
  ASSUME NEW s, Calls(s), s # <<>>
  PROVE  /\ Len(Front(s)) = Len(s) - 1 /\ Len(s) \in Nat /\ Len(s) >= 1
         /\ \A i \in 1 .. Len(s) - 1 : Front(s)[i] = s[i]
         /\ Front(s) = <<>> <=> Len(s) = 1
<1>1. PICK S : s \in Seq(S)
  BY DEF Calls
<1>2. Len(s) \in Nat /\ Len(s) >= 1
  BY <1>1
<1>3. Len(s) - 1 \in Int /\ 1 \in Int /\ \A i \in 1 .. Len(s) - 1 : s[i] \in S
  BY <1>1, <1>2
<1>4. /\ Front(s) \in Seq(S)
      /\ Len(Front(s)) = IF 1 <= Len(s) - 1 THEN Len(s) - 1 - 1 + 1 ELSE 0
      /\ \A i \in 1 .. Len(s) - 1 - 1 + 1 : Front(s)[i] = s[1 + i - 1]
  BY <1>3, SubSeqProperties DEF Front
<1>5. Len(Front(s)) = Len(s) - 1
  <2>1. \A n \in Nat : (IF 1 <= n THEN n - 1 + 1 ELSE 0) = n
    OBVIOUS
  <2>2. Len(s) - 1 \in Nat
    BY <1>2
  <2> QED BY <2>1, <2>2, <1>4, Zenon
<1>6. \A i \in 1 .. Len(s) - 1 : Front(s)[i] = s[i]
  BY <1>2, <1>4
<1>7. Front(s) = <<>> <=> Len(s) = 1
  BY <1>2, <1>4, <1>5
<1> QED BY <1>2, <1>5, <1>6, <1>7

(* The call on top moves to pc p with the entries l left. *)
At(f, p, l) == [op |-> f.op, in |-> f.in, to |-> f.to, dir |-> f.dir, pc |-> p, left |-> l]

Turned(s, p, l) == [s EXCEPT ![Len(s)].pc = p, ![Len(s)].left = l]
Opened(s)       == [s EXCEPT ![Len(s)].pc = "data"]

LEMMA MovedIs ==
  ASSUME NEW s, Calls(s), s # <<>>, NEW p, NEW l
  PROVE  /\ Len(Turned(s, p, l)) = Len(s) /\ Turned(s, p, l) # <<>>
         /\ \A i \in 1 .. Len(s) - 1 : Turned(s, p, l)[i] = s[i]
         /\ Turned(s, p, l)[Len(s)] = At(s[Len(s)], p, l)
<1> DEFINE c == s[Len(s)]
           f == At(c, p, l)
           t == Turned(s, p, l)
<1>1. PICK S : s \in Seq(S)
  BY DEF Calls
<1>2. Len(s) \in 1 .. Len(s)
  BY <1>1
<1>3. Frame(c)
  BY <1>2 DEF Calls
<1>4. [[c EXCEPT !.pc = p] EXCEPT !.left = l] = f
  <2>1. [c EXCEPT !.pc = p] = At(c, p, c.left)
    BY <1>3 DEF Frame, At
  <2>2. [At(c, p, c.left) EXCEPT !.left = l] = f
    BY DEF At
  <2> QED BY <2>1, <2>2
<1>5. t = [s EXCEPT ![Len(s)] = f]
  BY <1>1, <1>2, <1>4 DEF Turned
<1> HIDE DEF f, t
<1>6. s \in Seq(S \cup {f})
  BY <1>1
<1>7. /\ Len(t) = Len(s) /\ t # <<>>
      /\ \A i \in 1 .. Len(s) - 1 : t[i] = s[i]
      /\ t[Len(s)] = f
  BY <1>2, <1>5, <1>6
<1> QED BY <1>7 DEF t, f

LEMMA DataIs ==
  ASSUME NEW s, Calls(s), s # <<>>
  PROVE  /\ Len(Opened(s)) = Len(s) /\ Opened(s) # <<>>
         /\ \A i \in 1 .. Len(s) - 1 : Opened(s)[i] = s[i]
         /\ Opened(s)[Len(s)] = At(s[Len(s)], "data", s[Len(s)].left)
<1> DEFINE c == s[Len(s)]
           f == At(c, "data", c.left)
           t == Opened(s)
<1>1. PICK S : s \in Seq(S)
  BY DEF Calls
<1>2. Len(s) \in 1 .. Len(s)
  BY <1>1
<1>3. Frame(c)
  BY <1>2 DEF Calls
<1>4. [c EXCEPT !.pc = "data"] = f
  BY <1>3 DEF Frame, At
<1>5. t = [s EXCEPT ![Len(s)] = f]
  BY <1>1, <1>2, <1>4 DEF Opened
<1> HIDE DEF f, t
<1>6. s \in Seq(S \cup {f})
  BY <1>1
<1>7. /\ Len(t) = Len(s) /\ t # <<>>
      /\ \A i \in 1 .. Len(s) - 1 : t[i] = s[i]
      /\ t[Len(s)] = f
  BY <1>2, <1>5, <1>6
<1> QED BY <1>7 DEF t, f
-----------------------------------------------------------------------------
(***************************************************************************)
(* Where the copy of a path goes: below the target t as the path lies      *)
(* below the folder c of the clipboard, every name limited as the device   *)
(* of t asks.                                                              *)
(***************************************************************************)
Twin(c, t, q, r) ==
  /\ IsPath(q) /\ IsPath(r) /\ Inside(q, c) /\ Len(q) > Len(c)
  /\ Len(r) = Len(t) + (Len(q) - Len(c))
  /\ \A i \in 1 .. Len(t) : r[i] = t[i]
  /\ \A i \in 1 .. Len(q) - Len(c) : r[Len(t) + i] = Limited[t[1]][q[Len(c) + i]]

LEMMA TwinTop ==
  ASSUME NEW c, IsPath(c), NEW t, IsPath(t), NEW n \in AllNames
  PROVE  Twin(c, t, c \o <<n>>, genLimObjName(t \o <<n>>))
<1> DEFINE q == c \o <<n>>
           k == t \o <<n>>
           r == genLimObjName(k)
<1>1. /\ IsPath(q) /\ Len(q) = Len(c) + 1 /\ Inside(q, c) /\ q[Len(c) + 1] = n
      /\ IsPath(k) /\ Len(k) = Len(t) + 1
      /\ \A i \in 1 .. Len(t) : k[i] = t[i]
      /\ k[Len(t) + 1] = n
  BY Kid
<1>2. Len(c) \in Nat /\ Len(t) \in Nat /\ Len(t) >= 1
  BY PathIsSeq
<1> HIDE DEF q, k
<1>3. /\ IsPath(r) /\ Len(r) = Len(k)
      /\ \A i \in 1 .. Len(k) - 1 : r[i] = k[i]
      /\ r[Len(k)] = Limited[k[1]][k[Len(k)]]
  <2>1. IsPath(k) /\ Len(k) > 1
    BY <1>1, <1>2
  <2> QED BY <2>1, LimitedPath
<1> HIDE DEF r
<1>4. k[1] = t[1]
  BY <1>1, <1>2
<1>5. \A i \in 1 .. Len(t) : r[i] = t[i]
  BY <1>1, <1>2, <1>3
<1>6. \A i \in 1 .. Len(q) - Len(c) : r[Len(t) + i] = Limited[t[1]][q[Len(c) + i]]
  <2>1. Len(q) - Len(c) = 1
    BY <1>1, <1>2
  <2>2. r[Len(t) + 1] = Limited[t[1]][q[Len(c) + 1]]
    BY <1>1, <1>3, <1>4
  <2>3. \A i \in 1 .. 1 : i = 1
    OBVIOUS
  <2> QED BY <2>1, <2>2, <2>3
<1>7. Len(q) > Len(c) /\ Len(r) = Len(t) + (Len(q) - Len(c))
  BY <1>1, <1>2, <1>3
<1>8. Twin(c, t, q, r)
  BY <1>1, <1>3, <1>5, <1>6, <1>7 DEF Twin
<1> QED BY <1>8 DEF q, r, k

LEMMA TwinKid ==
  ASSUME NEW c, IsPath(c), NEW t, IsPath(t), NEW p, NEW o, Twin(c, t, p, o),
         NEW n \in AllNames
  PROVE  Twin(c, t, p \o <<n>>, genLimObjName(o \o <<n>>))
<1> DEFINE q == p \o <<n>>
           k == o \o <<n>>
           r == genLimObjName(k)
<1>1. /\ IsPath(p) /\ IsPath(o) /\ Inside(p, c) /\ Len(p) > Len(c)
      /\ Len(o) = Len(t) + (Len(p) - Len(c))
      /\ \A i \in 1 .. Len(t) : o[i] = t[i]
      /\ \A i \in 1 .. Len(p) - Len(c) : o[Len(t) + i] = Limited[t[1]][p[Len(c) + i]]
  BY DEF Twin
<1>2. /\ IsPath(q) /\ Len(q) = Len(p) + 1 /\ Inside(q, p) /\ q[Len(p) + 1] = n
      /\ \A i \in 1 .. Len(p) : q[i] = p[i]
      /\ IsPath(k) /\ Len(k) = Len(o) + 1
      /\ \A i \in 1 .. Len(o) : k[i] = o[i]
      /\ k[Len(o) + 1] = n
  BY <1>1, Kid
<1>3. Len(c) \in Nat /\ Len(t) \in Nat /\ Len(t) >= 1 /\ Len(p) \in Nat /\ Len(o) \in Nat
      /\ Len(o) >= 1
  BY <1>1, PathIsSeq
<1> HIDE DEF q, k
<1>4. /\ IsPath(r) /\ Len(r) = Len(k)
      /\ \A i \in 1 .. Len(k) - 1 : r[i] = k[i]
      /\ r[Len(k)] = Limited[k[1]][k[Len(k)]]
  <2>1. IsPath(k) /\ Len(k) > 1
    BY <1>2, <1>3
  <2> QED BY <2>1, LimitedPath
<1> HIDE DEF r
<1>5. k[1] = t[1]
  BY <1>1, <1>2, <1>3
<1>6. \A i \in 1 .. Len(o) : r[i] = o[i]
  BY <1>2, <1>3, <1>4
<1>7. \A i \in 1 .. Len(t) : r[i] = t[i]
  BY <1>1, <1>3, <1>6
<1>8. ASSUME NEW i \in 1 .. Len(q) - Len(c)
      PROVE  r[Len(t) + i] = Limited[t[1]][q[Len(c) + i]]
  <2>1. CASE i <= Len(p) - Len(c)
    <3>1. i \in 1 .. Len(p) - Len(c) /\ Len(t) + i \in 1 .. Len(o) /\ Len(c) + i \in 1 .. Len(p)
      BY <2>1, <1>1, <1>3
    <3> QED BY <3>1, <1>1, <1>2, <1>6
  <2>2. CASE i = Len(p) - Len(c) + 1
    <3>1. Len(t) + i = Len(k) /\ Len(c) + i = Len(p) + 1
      BY <2>2, <1>1, <1>2, <1>3
    <3>2. k[Len(k)] = n /\ q[Len(p) + 1] = n
      BY <1>2
    <3> QED BY <3>1, <3>2, <1>4, <1>5
  <2>3. i <= Len(p) - Len(c) \/ i = Len(p) - Len(c) + 1
    BY <1>2, <1>3
  <2> QED BY <2>1, <2>2, <2>3
<1>9. Len(q) > Len(c) /\ Len(r) = Len(t) + (Len(q) - Len(c))
  BY <1>1, <1>2, <1>3, <1>4
<1>10. Inside(q, c)
  BY <1>1, <1>2, InsideInside
<1>11. Twin(c, t, q, r)
  BY <1>2, <1>4, <1>7, <1>8, <1>9, <1>10 DEF Twin
<1> QED BY <1>11 DEF q, r, k

LEMMA TwinOnly ==
  ASSUME NEW c, IsPath(c), NEW t, IsPath(t), NEW q, NEW r, NEW s,
         Twin(c, t, q, r), Twin(c, t, q, s)
  PROVE  r = s
<1>1. Len(c) \in Nat /\ Len(t) \in Nat /\ Len(q) \in Nat /\ IsPath(r) /\ IsPath(s)
  BY PathIsSeq DEF Twin
<1>2. Len(r) = Len(t) + (Len(q) - Len(c)) /\ Len(s) = Len(r) /\ Len(q) > Len(c)
  BY DEF Twin
<1>3. ASSUME NEW i \in 1 .. Len(r) PROVE r[i] = s[i]
  <2>1. CASE i <= Len(t)
    BY <2>1, <1>1 DEF Twin
  <2>2. CASE i > Len(t)
    <3>1. i - Len(t) \in 1 .. Len(q) - Len(c) /\ Len(t) + (i - Len(t)) = i
      BY <2>2, <1>1, <1>2
    <3>2. /\ r[Len(t) + (i - Len(t))] = Limited[t[1]][q[Len(c) + (i - Len(t))]]
          /\ s[Len(t) + (i - Len(t))] = Limited[t[1]][q[Len(c) + (i - Len(t))]]
      BY <3>1 DEF Twin
    <3> QED BY <3>1, <3>2
  <2> QED BY <2>1, <2>2, <1>1
<1> QED BY <1>1, <1>2, <1>3, SamePath

(* Two names of a folder stay two on every device. *)
NamesApart ==
  \A d \in Devices : \A m, n \in AllNames : Limited[d][m] = Limited[d][n] => m = n

LEMMA TwinBack ==
  ASSUME NamesApart, NEW c, IsPath(c), NEW t, IsPath(t), NEW p, NEW q, NEW r,
         Twin(c, t, p, r), Twin(c, t, q, r)
  PROVE  p = q
<1>1. /\ Len(c) \in Nat /\ Len(t) \in Nat /\ Len(q) \in Nat /\ Len(p) \in Nat
      /\ IsPath(p) /\ IsPath(q) /\ t[1] \in Devices /\ Len(c) >= 1
      /\ \A i \in 2 .. Len(p) : p[i] \in AllNames
      /\ \A i \in 2 .. Len(q) : q[i] \in AllNames
  BY PathIsSeq DEF Twin
<1>2. Len(p) = Len(q)
  BY <1>1 DEF Twin
<1>3. /\ \A i \in 1 .. Len(c) : p[i] = c[i]
      /\ \A i \in 1 .. Len(c) : q[i] = c[i]
  BY <1>1, InsideMeans DEF Twin
<1>4. ASSUME NEW i \in 1 .. Len(p) PROVE p[i] = q[i]
  <2>1. CASE i <= Len(c)
    BY <2>1, <1>1, <1>3
  <2>2. CASE i > Len(c)
    <3> DEFINE j == i - Len(c)
    <3>1. j \in 1 .. Len(p) - Len(c) /\ j \in 1 .. Len(q) - Len(c) /\ Len(c) + j = i
      BY <2>2, <1>1, <1>2
    <3>2. Limited[t[1]][p[Len(c) + j]] = Limited[t[1]][q[Len(c) + j]]
      BY <3>1 DEF Twin
    <3>3. p[i] \in AllNames /\ q[i] \in AllNames
      BY <2>2, <1>1, <1>2
    <3> QED BY <3>1, <3>2, <3>3, <1>1 DEF NamesApart
  <2> QED BY <2>1, <2>2, <1>1
<1> QED BY <1>1, <1>2, <1>4, SamePath

(* What lies below a source goes below the copy of that source. *)
LEMMA TwinInside ==
  ASSUME NEW c, IsPath(c), NEW t, IsPath(t), NEW q, NEW r, Twin(c, t, q, r),
         NEW p, NEW o, Twin(c, t, p, o), Inside(q, p)
  PROVE  Inside(r, o)
<1>1. /\ Len(c) \in Nat /\ Len(t) \in Nat /\ Len(q) \in Nat /\ Len(p) \in Nat
      /\ IsPath(p) /\ IsPath(q) /\ IsPath(r) /\ IsPath(o)
      /\ Len(o) \in Nat
  BY PathIsSeq DEF Twin
<1>2. /\ Len(r) = Len(t) + (Len(q) - Len(c))
      /\ Len(o) = Len(t) + (Len(p) - Len(c)) /\ Len(p) > Len(c)
  BY DEF Twin
<1>3. Len(p) <= Len(q) /\ \A i \in 1 .. Len(p) : q[i] = p[i]
  BY <1>1, InsideMeans
<1>4. ASSUME NEW i \in 1 .. Len(o) PROVE r[i] = o[i]
  <2>1. CASE i <= Len(t)
    BY <2>1, <1>1 DEF Twin
  <2>2. CASE i > Len(t)
    <3> DEFINE j == i - Len(t)
    <3>1. /\ j \in 1 .. Len(p) - Len(c) /\ j \in 1 .. Len(q) - Len(c)
          /\ Len(t) + j = i /\ Len(c) + j \in 1 .. Len(p)
      BY <2>2, <1>1, <1>2, <1>3
    <3>2. /\ r[Len(t) + j] = Limited[t[1]][q[Len(c) + j]]
          /\ o[Len(t) + j] = Limited[t[1]][p[Len(c) + j]]
      BY <3>1 DEF Twin
    <3> QED BY <3>1, <3>2, <1>3
  <2> QED BY <2>1, <2>2, <1>1
<1>5. Len(o) <= Len(r)
  BY <1>1, <1>2, <1>3
<1> QED BY <1>1, <1>4, <1>5, InsideMeans

LEMMA TwinExists ==
  ASSUME NEW c, IsPath(c), NEW t, IsPath(t), NEW q, IsPath(q), Inside(q, c),
         Len(q) > Len(c)
  PROVE  \E r : Twin(c, t, q, r)
<1> DEFINE n == Len(t) + (Len(q) - Len(c))
           v(i) == IF i <= Len(t) THEN t[i] ELSE Limited[t[1]][q[Len(c) + (i - Len(t))]]
           r == [i \in 1 .. n |-> v(i)]
<1>1. /\ Len(c) \in Nat /\ Len(t) \in Nat /\ Len(q) \in Nat /\ Len(t) >= 1 /\ Len(c) >= 1
      /\ t[1] \in Devices /\ \A i \in 2 .. Len(t) : t[i] \in AllNames
      /\ \A i \in 2 .. Len(q) : q[i] \in AllNames
  BY PathIsSeq
<1>2. n \in Nat /\ n >= Len(t)
  BY <1>1
<1>3. ASSUME NEW i \in 1 .. n, i > Len(t)
      PROVE  v(i) = Limited[t[1]][q[Len(c) + (i - Len(t))]] /\ v(i) \in AllNames
  <2>1. Len(c) + (i - Len(t)) \in 2 .. Len(q)
    BY <1>1, <1>3
  <2>2. q[Len(c) + (i - Len(t))] \in AllNames
    BY <2>1, <1>1
  <2>3. Limited[t[1]][q[Len(c) + (i - Len(t))]] \in AllNames
    BY <2>2, <1>1, TreeAssumption
  <2>4. ~(i <= Len(t))
    BY <1>1, <1>3
  <2> QED BY <2>3, <2>4
<1>4. \A i \in 1 .. n : i <= Len(t) => v(i) = t[i]
  OBVIOUS
<1> HIDE DEF v
<1>5. \A i \in 1 .. n : v(i) \in Parts
  <2>1. ASSUME NEW i \in 1 .. n PROVE v(i) \in Parts
    <3>1. CASE i <= Len(t)
      <4>1. i = 1 \/ i \in 2 .. Len(t)
        BY <3>1, <1>1
      <4> QED BY <4>1, <3>1, <1>1, <1>4 DEF Parts
    <3>2. CASE i > Len(t)
      BY <3>2, <1>3 DEF Parts
    <3> QED BY <3>1, <3>2, <1>1, <1>2
  <2> QED BY <2>1
<1>6. r \in Seq(Parts) /\ Len(r) = n
  BY <1>2, <1>5
<1>7. \A i \in 1 .. n : r[i] = v(i)
  OBVIOUS
<1> HIDE DEF r
<1>8. r[1] \in Devices
  BY <1>1, <1>2, <1>4, <1>7
<1>9. ASSUME NEW i \in 2 .. n PROVE r[i] \in AllNames
  <2>1. CASE i <= Len(t)
    BY <2>1, <1>1, <1>2, <1>4, <1>7
  <2>2. CASE i > Len(t)
    BY <2>2, <1>2, <1>3, <1>7
  <2> QED BY <2>1, <2>2, <1>1, <1>2
<1>10. IsPath(r)
  BY <1>1, <1>2, <1>6, <1>8, <1>9, PathOf
<1>11. \A i \in 1 .. Len(t) : r[i] = t[i]
  BY <1>1, <1>2, <1>4, <1>7
<1>12. ASSUME NEW i \in 1 .. Len(q) - Len(c)
       PROVE  r[Len(t) + i] = Limited[t[1]][q[Len(c) + i]]
  <2>1. Len(t) + i \in 1 .. n /\ Len(t) + i > Len(t) /\ (Len(t) + i) - Len(t) = i
    BY <1>1, <1>2
  <2> QED BY <2>1, <1>3, <1>7
<1>13. Len(r) = Len(t) + (Len(q) - Len(c))
  BY <1>6
<1>14. Twin(c, t, q, r)
  BY <1>10, <1>11, <1>12, <1>13 DEF Twin
<1> QED BY <1>14
-----------------------------------------------------------------------------
(***************************************************************************)
(* The shape of a state.  The calls under way were made by the loops of    *)
(* the browser and by one another, so where each of them reads and writes  *)
(* is known from the clipboard, the target and the names on the way.       *)
(***************************************************************************)
Source(cl, e) == cl.path \o <<e.name>>
Marked(cl, q) == IsPath(q) /\ \E e \in cl.items : Inside(q, Source(cl, e))

ClipOf(cl) ==
  /\ cl = [path |-> cl.path, items |-> cl.items, cut |-> cl.cut] /\ cl.cut \in BOOLEAN
  /\ \A e \in cl.items : Entry(e)
  /\ cl.items # {} => IsPath(cl.path)

CopyCall(cl, t, f) ==
  /\ f.op = "copy"
  /\ Len(f.in) > 1 /\ IsPath(f.to) /\ Len(f.to) > 1 /\ f.to[Len(f.to)] = f.in[Len(f.in)]
  /\ Twin(cl.path, t, f.in, genLimObjName(f.to))

CallOf(ph, cl, t, f) ==
  /\ IsPath(f.in)
  /\ f.pc \in {"enter", "data", "list", "loop"}
  /\ f.pc \in {"enter", "data"} => f.left = {}
  /\ \A e \in f.left : Entry(e)
  /\ ph = "copy" => CopyCall(cl, t, f)
  /\ ph # "copy" => f.op = "delete"
  /\ ph \in {"copy", "purge"} => Marked(cl, f.in)

\* Every call but the last one waits for one of its children.
Stacked(ph, cl, t, s) ==
  \A i \in 1 .. Len(s) : CallOf(ph, cl, t, s[i]) /\ (i < Len(s) => s[i].pc = "loop")

Control ==
  /\ phase \in {"idle", "copy", "purge", "delete"} /\ ret \in {0, -1}
  /\ ClipOf(clip)
  /\ \A e \in todo : Entry(e)
  /\ phase # "idle" => IsPath(target)
  /\ phase = "idle" => stack = <<>>
  /\ phase \in {"copy", "purge"} => clip.items # {} /\ todo \subseteq clip.items

Shape ==
  /\ IsTree(fs) /\ Calls(stack)
  /\ Stacked(phase, clip, target, stack)
  /\ Control

LEMMA SourcePath ==
  ASSUME NEW cl, ClipOf(cl), NEW e \in cl.items
  PROVE  IsPath(Source(cl, e)) /\ Marked(cl, Source(cl, e)) /\ IsPath(cl.path)
<1>1. IsPath(cl.path) /\ e.name \in AllNames
  BY DEF ClipOf, Entry
<1>2. IsPath(Source(cl, e))
  BY <1>1, Kid DEF Source
<1> QED BY <1>1, <1>2, InsideItself DEF Marked

LEMMA MarkedBelow ==
  ASSUME NEW cl, ClipOf(cl), NEW p, Marked(cl, p), NEW q, IsPath(q), Inside(q, p)
  PROVE  Marked(cl, q)
<1>1. PICK e \in cl.items : Inside(p, Source(cl, e))
  BY DEF Marked
<1>2. IsPath(p) /\ IsPath(Source(cl, e))
  BY SourcePath DEF Marked
<1>3. Inside(q, Source(cl, e))
  BY <1>1, <1>2, InsideInside
<1> QED BY <1>3 DEF Marked

LEMMA FirstCopy ==
  ASSUME NEW cl, ClipOf(cl), NEW e \in cl.items, NEW t, IsPath(t)
  PROVE  CallOf("copy", cl, t, Call("copy", cl.path, t, e))
<1> DEFINE f == Call("copy", cl.path, t, e)
           c == cl.path
           n == e.name
<1>1. IsPath(c) /\ n \in AllNames /\ Marked(cl, c \o <<n>>)
  BY SourcePath DEF ClipOf, Entry, Source
<1>2. /\ f.op = "copy" /\ f.in = c \o <<n>> /\ f.to = t \o <<n>>
      /\ f.pc = "enter" /\ f.left = {}
  BY DEF Call
<1> HIDE DEF f
<1>kid. /\ IsPath(c \o <<n>>) /\ Len(c \o <<n>>) = Len(c) + 1 /\ (c \o <<n>>)[Len(c) + 1] = n
      /\ IsPath(t \o <<n>>) /\ Len(t \o <<n>>) = Len(t) + 1 /\ (t \o <<n>>)[Len(t) + 1] = n
  BY <1>1, Kid
<1>3. /\ IsPath(f.in) /\ Len(f.in) = Len(c) + 1 /\ f.in[Len(c) + 1] = n
      /\ IsPath(f.to) /\ Len(f.to) = Len(t) + 1 /\ f.to[Len(t) + 1] = n
  BY <1>2, <1>kid
<1>4. Len(f.in) > 1 /\ Len(f.to) > 1
  BY <1>1, <1>3, PathIsSeq
<1>5. Twin(c, t, f.in, genLimObjName(f.to))
  BY <1>1, <1>2, TwinTop
<1>6. CopyCall(cl, t, f)
  BY <1>2, <1>3, <1>4, <1>5 DEF CopyCall
<1>7. CallOf("copy", cl, t, f)
  BY <1>1, <1>2, <1>3, <1>6 DEF CallOf
<1> QED BY <1>7 DEF f

LEMMA KidCopy ==
  ASSUME NEW cl, ClipOf(cl), cl.items # {}, NEW t, IsPath(t),
         NEW g, CallOf("copy", cl, t, g), NEW e, Entry(e)
  PROVE  CallOf("copy", cl, t, Call("copy", g.in, genLimObjName(g.to), e))
<1> DEFINE f == Call("copy", g.in, genLimObjName(g.to), e)
           o == genLimObjName(g.to)
           n == e.name
<1>1. IsPath(g.in) /\ n \in AllNames /\ Twin(cl.path, t, g.in, o) /\ IsPath(cl.path)
      /\ Marked(cl, g.in)
  BY DEF ClipOf, Entry, CallOf, CopyCall
<1>2. /\ f.op = "copy" /\ f.in = g.in \o <<n>> /\ f.to = o \o <<n>>
      /\ f.pc = "enter" /\ f.left = {}
  BY DEF Call
<1>3. IsPath(o)
  BY <1>1 DEF Twin
<1> HIDE DEF o, f
<1>kid. /\ IsPath(g.in \o <<n>>) /\ Len(g.in \o <<n>>) = Len(g.in) + 1
       /\ (g.in \o <<n>>)[Len(g.in) + 1] = n /\ Inside(g.in \o <<n>>, g.in)
       /\ IsPath(o \o <<n>>) /\ Len(o \o <<n>>) = Len(o) + 1 /\ (o \o <<n>>)[Len(o) + 1] = n
  BY <1>1, <1>3, Kid
<1>4. /\ IsPath(f.in) /\ Len(f.in) = Len(g.in) + 1 /\ f.in[Len(g.in) + 1] = n
      /\ IsPath(f.to) /\ Len(f.to) = Len(o) + 1 /\ f.to[Len(o) + 1] = n
      /\ Inside(f.in, g.in)
  BY <1>2, <1>kid
<1>5. Len(f.in) > 1 /\ Len(f.to) > 1
  BY <1>1, <1>3, <1>4, PathIsSeq
<1>6. Twin(cl.path, t, f.in, genLimObjName(f.to))
  BY <1>1, <1>2, TwinKid
<1>7. CopyCall(cl, t, f)
  BY <1>2, <1>4, <1>5, <1>6 DEF CopyCall
<1>8. Marked(cl, f.in)
  BY <1>1, <1>4, MarkedBelow
<1>9. CallOf("copy", cl, t, f)
  BY <1>2, <1>4, <1>7, <1>8 DEF CallOf
<1> QED BY <1>9 DEF o, f

LEMMA FirstDelete ==
  ASSUME NEW cl, ClipOf(cl), NEW t, NEW b, IsPath(b), NEW e, Entry(e),
         NEW ph \in {"purge", "delete"},
         ph = "purge" => b = cl.path /\ e \in cl.items
  PROVE  CallOf(ph, cl, t, Call("delete", b, <<>>, e))
<1> DEFINE f == Call("delete", b, <<>>, e)
<1>1. f.op = "delete" /\ f.in = b \o <<e.name>> /\ f.pc = "enter" /\ f.left = {}
  BY DEF Call
<1>2. IsPath(b \o <<e.name>>)
  BY Kid DEF Entry
<1> HIDE DEF f
<1>3. ph = "purge" => Marked(cl, f.in)
  BY <1>1, SourcePath DEF Source
<1>4. CallOf(ph, cl, t, f)
  BY <1>1, <1>2, <1>3 DEF CallOf
<1> QED BY <1>4 DEF f

LEMMA KidDelete ==
  ASSUME NEW cl, ClipOf(cl), NEW t, NEW ph \in {"purge", "delete"},
         NEW g, CallOf(ph, cl, t, g), NEW e, Entry(e)
  PROVE  CallOf(ph, cl, t, Call("delete", g.in, <<>>, e))
<1> DEFINE f == Call("delete", g.in, <<>>, e)
<1>1. f.op = "delete" /\ f.in = g.in \o <<e.name>> /\ f.pc = "enter" /\ f.left = {}
  BY DEF Call
<1>2. IsPath(g.in) /\ e.name \in AllNames
  BY DEF CallOf, Entry
<1> HIDE DEF f
<1>kid. IsPath(g.in \o <<e.name>>) /\ Inside(g.in \o <<e.name>>, g.in)
  BY <1>2, Kid
<1>3. IsPath(f.in) /\ Inside(f.in, g.in)
  BY <1>1, <1>kid
<1>4. ph = "purge" => Marked(cl, f.in)
  BY <1>3, MarkedBelow DEF CallOf
<1>5. CallOf(ph, cl, t, f)
  BY <1>1, <1>3, <1>4 DEF CallOf
<1> QED BY <1>5 DEF f

(* A copy onto itself has been refused before the destination is written. *)
LEMMA NotItself ==
  ASSUME NEW cl, NEW t, NEW f, IsPath(f.in), CopyCall(cl, t, f), f.in # f.to
  PROVE  f.in # genLimObjName(f.to)
<1> DEFINE o == genLimObjName(f.to)
<1>1. /\ IsPath(o) /\ Len(o) = Len(f.to)
      /\ \A i \in 1 .. Len(f.to) - 1 : o[i] = f.to[i]
  BY LimitedPath DEF CopyCall
<1> HIDE DEF o
<1>2. SUFFICES ASSUME f.in = o PROVE FALSE
  BY DEF o
<1>3. IsPath(f.to) /\ Len(f.to) \in Nat /\ f.to[Len(f.to)] = f.in[Len(f.in)]
  BY PathIsSeq DEF CopyCall
<1>4. \A i \in 1 .. Len(f.to) : f.in[i] = f.to[i]
  BY <1>1, <1>2, <1>3
<1>5. f.in = f.to
  BY <1>1, <1>2, <1>3, <1>4, SamePath
<1> QED BY <1>5

-----------------------------------------------------------------------------
LEMMA StackedPush ==
  ASSUME NEW ph, NEW cl, NEW t, NEW s, Calls(s), Stacked(ph, cl, t, s),
         s # <<>> => s[Len(s)].pc = "loop", NEW f, CallOf(ph, cl, t, f)
  PROVE  Stacked(ph, cl, t, Append(s, f))
<1> DEFINE u == Append(s, f)
<1>1. /\ Len(u) = Len(s) + 1 /\ \A i \in 1 .. Len(s) : u[i] = s[i]
      /\ u[Len(s) + 1] = f
  BY PushedIs
<1>2. Len(s) \in Nat /\ (s # <<>> <=> Len(s) >= 1)
  BY StackIsSeq
<1> HIDE DEF u
<1>3. ASSUME NEW i \in 1 .. Len(u)
      PROVE  CallOf(ph, cl, t, u[i]) /\ (i < Len(u) => u[i].pc = "loop")
  <2>1. CASE i = Len(s) + 1
    BY <2>1, <1>1, <1>2
  <2>2. CASE i \in 1 .. Len(s)
    <3>1. i = Len(s) \/ i < Len(s)
      BY <2>2, <1>2
    <3> QED BY <2>2, <3>1, <1>1, <1>2 DEF Stacked
  <2> QED BY <2>1, <2>2, <1>1, <1>2
<1>4. Stacked(ph, cl, t, u)
  BY <1>3 DEF Stacked
<1> QED BY <1>4 DEF u

LEMMA StackedPop ==
  ASSUME NEW ph, NEW cl, NEW t, NEW s, Calls(s), Stacked(ph, cl, t, s), s # <<>>
  PROVE  /\ Stacked(ph, cl, t, Front(s))
         /\ Front(s) # <<>> => Front(s)[Len(Front(s))].pc = "loop"
<1> DEFINE u == Front(s)
<1>1. /\ Len(u) = Len(s) - 1 /\ Len(s) \in Nat /\ Len(s) >= 1
      /\ \A i \in 1 .. Len(s) - 1 : u[i] = s[i]
      /\ u = <<>> <=> Len(s) = 1
  BY PoppedIs
<1> HIDE DEF u
<1>2. \A i \in 1 .. Len(u) : CallOf(ph, cl, t, u[i]) /\ u[i].pc = "loop"
  BY <1>1 DEF Stacked
<1>3. u # <<>> => u[Len(u)].pc = "loop"
  BY <1>1, <1>2
<1>4. Stacked(ph, cl, t, u)
  BY <1>2 DEF Stacked
<1> QED BY <1>3, <1>4 DEF u

LEMMA StackedTop ==
  ASSUME NEW ph, NEW cl, NEW t, NEW s, Calls(s), Stacked(ph, cl, t, s), s # <<>>,
         NEW u, Len(u) = Len(s), \A i \in 1 .. Len(s) - 1 : u[i] = s[i],
         CallOf(ph, cl, t, u[Len(s)])
  PROVE  Stacked(ph, cl, t, u)
<1>1. Len(s) \in Nat /\ Len(s) >= 1
  BY StackIsSeq
<1>2. ASSUME NEW i \in 1 .. Len(u)
      PROVE  CallOf(ph, cl, t, u[i]) /\ (i < Len(u) => u[i].pc = "loop")
  <2>1. CASE i = Len(s)
    BY <2>1, <1>1
  <2>2. CASE i \in 1 .. Len(s) - 1
    BY <2>2, <1>1 DEF Stacked
  <2> QED BY <2>1, <2>2, <1>1
<1> QED BY <1>2 DEF Stacked

LEMMA MovedCall ==
  ASSUME NEW ph, NEW cl, NEW t, NEW f, CallOf(ph, cl, t, f), NEW p, NEW l,
         p \in {"enter", "data", "list", "loop"},
         p \in {"enter", "data"} => l = {}, \A e \in l : Entry(e)
  PROVE  CallOf(ph, cl, t, At(f, p, l))
<1>1. /\ At(f, p, l).op = f.op /\ At(f, p, l).in = f.in /\ At(f, p, l).to = f.to
      /\ At(f, p, l).pc = p /\ At(f, p, l).left = l
  BY DEF At
<1> HIDE DEF At
<1>2. ph = "copy" => CopyCall(cl, t, At(f, p, l))
  BY <1>1 DEF CallOf, CopyCall
<1>3. ph # "copy" => At(f, p, l).op = "delete"
  BY <1>1 DEF CallOf
<1>4. IsPath(At(f, p, l).in) /\ (ph \in {"copy", "purge"} => Marked(cl, At(f, p, l).in))
  BY <1>1 DEF CallOf
<1> QED BY <1>1, <1>2, <1>3, <1>4 DEF CallOf
-----------------------------------------------------------------------------
(***************************************************************************)
(* The shape is kept, action by action.                                    *)
(***************************************************************************)
\* A file is being written: its source and itself are there, and are two.
Writing(s) == s # <<>> /\ s[Len(s)].op = "copy" /\ s[Len(s)].pc = "data"
OutOf(f)   == genLimObjName(f.to)
Written(f, s) ==
  Writing(s) => LET c == s[Len(s)]
                IN IsFile(f, c.in) /\ IsFile(f, OutOf(c)) /\ c.in # OutOf(c)

LEMMA TopCall ==
  ASSUME Shape, stack # <<>>
  PROVE  /\ CallOf(phase, clip, target, Top) /\ Frame(Top)
         /\ Len(stack) \in Nat /\ Len(stack) >= 1 /\ Len(stack) \in 1 .. Len(stack)
         /\ phase # "idle"
<1>1. Len(stack) \in Nat /\ Len(stack) >= 1
  BY StackIsSeq DEF Shape
<1>2. Len(stack) \in 1 .. Len(stack)
  BY <1>1
<1> QED BY <1>1, <1>2, StackIsSeq DEF Shape, Stacked, Control, Top

LEMMA CopyPhase ==
  ASSUME Shape, stack # <<>>, Top.op = "copy"
  PROVE  /\ phase = "copy" /\ CopyCall(clip, target, Top) /\ Out = OutOf(Top)
         /\ IsPath(Top.in) /\ IsPath(Out) /\ Len(Out) > 1
         /\ Twin(clip.path, target, Top.in, Out) /\ Marked(clip, Top.in)
         /\ clip.items # {} /\ IsPath(clip.path) /\ IsPath(target)
<1>1. phase = "copy"
  BY TopCall DEF CallOf
<1>2. CopyCall(clip, target, Top) /\ IsPath(Top.in) /\ Marked(clip, Top.in)
  BY <1>1, TopCall DEF CallOf
<1>3. IsPath(Out) /\ Len(Out) = Len(Top.to)
  BY <1>2, LimitedPath DEF CopyCall, Out
<1>4. clip.items # {} /\ IsPath(clip.path) /\ IsPath(target)
  BY <1>1 DEF Shape, Control, ClipOf
<1> QED BY <1>1, <1>2, <1>3, <1>4 DEF CopyCall, Out, OutOf

LEMMA DeletePhase ==
  ASSUME Shape, stack # <<>>, Top.op = "delete"
  PROVE  phase \in {"purge", "delete"} /\ IsPath(Top.in)
<1>1. phase # "copy"
  BY TopCall DEF CallOf, CopyCall
<1> QED BY <1>1, TopCall DEF CallOf, Shape, Control

LEMMA AfterReturn ==
  ASSUME Shape, stack # <<>>, NEW r \in {0, -1}, Return(r), Outside
  PROVE  /\ Stacked(phase', clip', target', stack') /\ Control' /\ ~Writing(stack')
         /\ stack' # <<>> => stack'[Len(stack')].pc = "loop"
<1>1. stack' = Front(stack) /\ ret' = r
  BY DEF Return
<1>2. /\ Stacked(phase, clip, target, stack')
      /\ stack' # <<>> => stack'[Len(stack')].pc = "loop"
  BY <1>1, StackedPop DEF Shape
<1>3. UNCHANGED <<clip, phase, target, todo>>
  BY DEF Outside
<1>4. Control'
  BY <1>1, <1>3, TopCall DEF Shape, Control
<1> QED BY <1>2, <1>3, <1>4 DEF Writing

LEMMA AfterListed ==
  ASSUME Shape, stack # <<>>, NEW l, \A e \in l : Entry(e), Listed(l), Outside,
         ret' \in {0, -1}
  PROVE  Stacked(phase', clip', target', stack') /\ Control' /\ ~Writing(stack')
<1>1. /\ Len(stack') = Len(stack) /\ stack' # <<>>
      /\ \A i \in 1 .. Len(stack) - 1 : stack'[i] = stack[i]
      /\ stack'[Len(stack)] = At(Top, "list", l)
  <2>1. stack' = Turned(stack, "list", l)
    BY DEF Listed, Turned
  <2> QED BY <2>1, MovedIs DEF Shape, Top
<1>2. CallOf(phase, clip, target, At(Top, "list", l))
  BY TopCall, MovedCall
<1>3. Stacked(phase, clip, target, stack')
  BY <1>1, <1>2, StackedTop DEF Shape
<1>4. UNCHANGED <<clip, phase, target, todo>>
  BY DEF Outside
<1>5. Control'
  BY <1>4, TopCall DEF Shape, Control
<1> QED BY <1>1, <1>3, <1>4, <1>5 DEF Writing, At

\* The next child of the call on top, taken off its list.
Descend(s, l, f) == Append(Turned(s, "loop", l), f)

LEMMA AfterChild ==
  ASSUME Shape, stack # <<>>, Top.pc # "enter", NEW l, \A e \in l : Entry(e),
         NEW f, CallOf(phase, clip, target, f), f.pc = "enter",
         stack' = Descend(stack, l, f), Outside, UNCHANGED ret
  PROVE  /\ Stacked(phase', clip', target', stack') /\ Control' /\ ~Writing(stack')
         /\ Len(stack') = Len(stack) + 1
         /\ \A i \in 1 .. Len(stack) - 1 : stack'[i] = stack[i]
         /\ stack'[Len(stack)] = At(Top, "loop", l)
         /\ stack'[Len(stack) + 1] = f
<1> DEFINE u == Turned(stack, "loop", l)
<1>1. /\ Len(u) = Len(stack) /\ u # <<>>
      /\ \A i \in 1 .. Len(stack) - 1 : u[i] = stack[i]
      /\ u[Len(stack)] = At(Top, "loop", l)
  BY MovedIs DEF Shape, Top
<1>2. Calls(u)
  <2>1. Top.op = "copy" => Len(stack) < MAX_RECURSE
    BY PassedLimit DEF Shape
  <2> QED BY <2>1, MovedOn DEF Shape, Top, Turned
<1> HIDE DEF u
<1>3. stack' = Append(u, f)
  BY DEF u, Descend
<1>4. CallOf(phase, clip, target, At(Top, "loop", l))
  BY TopCall, MovedCall
<1>5. Stacked(phase, clip, target, u)
  BY <1>1, <1>4, StackedTop DEF Shape
<1>6. u[Len(u)].pc = "loop"
  BY <1>1 DEF At
<1>7. Stacked(phase, clip, target, stack')
  BY <1>2, <1>3, <1>5, <1>6, StackedPush
<1>8. /\ Len(stack') = Len(u) + 1 /\ stack' # <<>>
      /\ \A i \in 1 .. Len(u) : stack'[i] = u[i]
      /\ stack'[Len(u) + 1] = f
  BY <1>2, <1>3, PushedIs
<1>9. UNCHANGED <<clip, phase, target, todo>>
  BY DEF Outside
<1>10. Control'
  BY <1>9, TopCall DEF Shape, Control
<1>11. ~Writing(stack')
  BY <1>1, <1>8 DEF Writing
<1>12. /\ \A i \in 1 .. Len(stack) - 1 : stack'[i] = stack[i]
       /\ stack'[Len(stack)] = At(Top, "loop", l)
  BY <1>1, <1>8, TopCall
<1> QED BY <1>1, <1>7, <1>8, <1>9, <1>10, <1>11, <1>12

LEMMA AfterOpen ==
  ASSUME Shape, stack # <<>>, Top.left = {},
         stack' = Opened(stack), Outside, UNCHANGED ret
  PROVE  /\ Stacked(phase', clip', target', stack') /\ Control'
         /\ Len(stack') = Len(stack)
         /\ \A i \in 1 .. Len(stack) - 1 : stack'[i] = stack[i]
         /\ stack'[Len(stack)] = At(Top, "data", {})
<1>1. /\ Len(stack') = Len(stack) /\ stack' # <<>>
      /\ \A i \in 1 .. Len(stack) - 1 : stack'[i] = stack[i]
      /\ stack'[Len(stack)] = At(Top, "data", {})
  BY DataIs DEF Shape, Top
<1>2. CallOf(phase, clip, target, At(Top, "data", {}))
  BY TopCall, MovedCall
<1>3. Stacked(phase, clip, target, stack')
  BY <1>1, <1>2, StackedTop DEF Shape
<1>4. UNCHANGED <<clip, phase, target, todo>>
  BY DEF Outside
<1>5. Control'
  BY <1>4, TopCall DEF Shape, Control
<1> QED BY <1>1, <1>3, <1>4, <1>5

LEMMA ListingKnown ==
  ASSUME NEW g, IsTree(g), NEW p, IsPath(p), NEW l \in SUBSET Entries(g, p)
  PROVE  \A e \in l : Entry(e)
BY EntryMeans
-----------------------------------------------------------------------------
\* The file being written is the only one that may be partial.
Partials(f, s, m) ==
  \/ "partial file" \in m
  \/ \A p \in DOMAIN f : f[p].whole \/ (Writing(s) /\ p = OutOf(s[Len(s)]))

Sound == Shape /\ Written(fs, stack) /\ Partials(fs, stack, mishaps)

SoundNext ==
  /\ IsTree(fs') /\ Stacked(phase', clip', target', stack') /\ Control'
  /\ Written(fs', stack') /\ Partials(fs', stack', mishaps')

Grows == mishaps \subseteq mishaps'

LEMMA SeenGrows ==
  ASSUME NEW k, Seen(k) \/ Quiet
  PROVE  Grows
BY DEF Seen, Quiet, Grows

LEMMA QuietReturn ==
  ASSUME Sound, stack # <<>>, ~Writing(stack), NEW r \in {0, -1}, Return(r), Outside,
         UNCHANGED fs, Grows
  PROVE  SoundNext
<1>1. /\ Stacked(phase', clip', target', stack') /\ Control' /\ ~Writing(stack')
  BY AfterReturn DEF Sound
<1>2. Partials(fs', stack', mishaps')
  BY DEF Sound, Partials, Grows
<1> QED BY <1>1, <1>2 DEF SoundNext, Sound, Shape, Written

(* A call that returns having written or removed what it does not read. *)
LEMMA WroteReturn ==
  ASSUME Sound, stack # <<>>, NEW r \in {0, -1}, Return(r), Outside, IsTree(fs'), Grows,
         \/ "partial file" \in mishaps'
         \/ "partial file" \in mishaps
         \/ \A p \in DOMAIN fs' : fs'[p].whole
  PROVE  SoundNext
<1>1. /\ Stacked(phase', clip', target', stack') /\ Control' /\ ~Writing(stack')
  BY AfterReturn DEF Sound
<1>2. Partials(fs', stack', mishaps')
  BY DEF Partials, Grows
<1> QED BY <1>1, <1>2 DEF SoundNext, Written

LEMMA CopyRefusedSound ==
  ASSUME Sound, CopyRefused
  PROVE  SoundNext
<1>1. stack # <<>> /\ ~Writing(stack) /\ Outside /\ UNCHANGED fs
  BY DEF CopyRefused, Running, Writing, Top
<1>2. CASE Return(-1) /\ Quiet
  BY <1>1, <1>2, QuietReturn, SeenGrows
<1>3. CASE Fails("stack")
  BY <1>1, <1>3, QuietReturn, SeenGrows DEF Fails
<1>4. CASE Return(0) /\ Quiet
  BY <1>1, <1>4, QuietReturn, SeenGrows
<1> QED BY <1>2, <1>3, <1>4 DEF CopyRefused

LEMMA EnteredIs ==
  ASSUME Sound, Entered
  PROVE  /\ stack # <<>> /\ Top.op = "copy" /\ Top.pc = "enter" /\ ~Writing(stack)
         /\ Top.left = {} /\ Top.in # Out /\ CopyCall(clip, target, Top)
         /\ IsPath(Top.in) /\ IsPath(Out) /\ Len(Out) > 1 /\ phase = "copy"
<1>1. stack # <<>> /\ Top.op = "copy" /\ Top.pc = "enter" /\ Top.in # Top.to
  BY DEF Entered, Running
<1>2. CopyCall(clip, target, Top) /\ IsPath(Top.in) /\ IsPath(Out) /\ Len(Out) > 1
      /\ Out = OutOf(Top) /\ phase = "copy"
  BY <1>1, CopyPhase DEF Sound
<1>3. Top.in # Out
  BY <1>1, <1>2, NotItself DEF OutOf
<1>4. Top.left = {}
  BY <1>1, TopCall DEF Sound, CallOf
<1> QED BY <1>1, <1>2, <1>3, <1>4 DEF Writing, Top

LEMMA CopyNewFolderSound ==
  ASSUME Sound, CopyNewFolder
  PROVE  SoundNext
<1>1. Entered /\ Out \notin DOMAIN fs /\ Room(fs, Out) /\ fs' = With(fs, Out, Folder)
      /\ ret' = 0 /\ Outside
  BY DEF CopyNewFolder
<1>2. stack # <<>> /\ ~Writing(stack) /\ IsPath(Out) /\ IsPath(Top.in)
  BY <1>1, EnteredIs
<1>3. IsTree(fs')
  <2>1. IsTree(fs) /\ ~IsDir(fs, Out)
    BY <1>1 DEF Sound, Shape, IsDir
  <2> QED BY <2>1, <1>1, <1>2, TreeWith
<1>4. PICK l \in SUBSET Entries(fs', Top.in) : Listing(fs', Top.in, l) /\ Listed(l)
  BY DEF CopyNewFolder
<1>5. Grows
  BY <1>4, SeenGrows DEF Listing
<1>6. Stacked(phase', clip', target', stack') /\ Control' /\ ~Writing(stack')
  <2>1. \A e \in l : Entry(e)
    BY <1>2, <1>3, ListingKnown
  <2>2. ret' \in {0, -1}
    BY <1>1
  <2> QED BY <1>1, <1>2, <1>4, <2>1, <2>2, AfterListed DEF Sound
<1>7. Partials(fs', stack', mishaps')
  <2>1. \A p \in DOMAIN fs' : fs'[p] = Folder \/ (p \in DOMAIN fs /\ fs'[p] = fs[p])
    BY <1>1 DEF With
  <2>2. "partial file" \in mishaps \/ \A p \in DOMAIN fs : fs[p].whole
    BY <1>2 DEF Sound, Partials
  <2>3. Folder.whole
    BY DEF Folder
  <2>4. "partial file" \in mishaps \/ \A p \in DOMAIN fs' : fs'[p].whole
    BY <2>1, <2>2, <2>3, Zenon
  <2> QED BY <1>5, <2>4 DEF Partials, Grows
<1> QED BY <1>3, <1>6, <1>7 DEF SoundNext, Written

LEMMA CopyIntoFolderSound ==
  ASSUME Sound, CopyIntoFolder
  PROVE  SoundNext
<1>1. Entered /\ Outside /\ UNCHANGED fs
  BY DEF CopyIntoFolder
<1>2. stack # <<>> /\ ~Writing(stack) /\ IsPath(Top.in)
  BY <1>1, EnteredIs
<1>3. CASE Return(-1) /\ Seen("refused")
  BY <1>1, <1>2, <1>3, QuietReturn, SeenGrows
<1>4. ASSUME NEW l \in SUBSET Entries(fs, Top.in), Listing(fs, Top.in, l), Listed(l),
             ret' \in {0, -1}
      PROVE  SoundNext
  <2>1. \A e \in l : Entry(e)
    BY <1>2, ListingKnown DEF Sound, Shape
  <2>2. Stacked(phase', clip', target', stack') /\ Control' /\ ~Writing(stack')
    BY <1>1, <1>2, <1>4, <2>1, AfterListed DEF Sound
  <2>3. Grows
    BY <1>4, SeenGrows DEF Listing
  <2>4. Partials(fs', stack', mishaps')
    BY <1>1, <1>2, <2>3 DEF Sound, Partials, Grows
  <2> QED BY <1>1, <2>2, <2>4 DEF SoundNext, Written, Sound, Shape
<1> QED BY <1>3, <1>4 DEF CopyIntoFolder

LEMMA CopyNoFolderSound ==
  ASSUME Sound, CopyNoFolder
  PROVE  SoundNext
<1>1. Entered /\ Outside /\ UNCHANGED fs
  BY DEF CopyNoFolder
<1>2. stack # <<>> /\ ~Writing(stack)
  BY <1>1, EnteredIs
<1>3. CASE Fails("mkdir")
  BY <1>1, <1>2, <1>3, QuietReturn, SeenGrows DEF Fails
<1>4. CASE Return(-1) /\ Quiet
  BY <1>1, <1>2, <1>4, QuietReturn, SeenGrows
<1> QED BY <1>3, <1>4 DEF CopyNoFolder

LEMMA CopyOpenSound ==
  ASSUME Sound, CopyOpen
  PROVE  SoundNext
<1>1. Entered /\ Outside
  BY DEF CopyOpen
<1>2. /\ stack # <<>> /\ ~Writing(stack) /\ IsPath(Out) /\ Top.left = {} /\ Top.in # Out
      /\ IsTree(fs) /\ Top.op = "copy"
  BY <1>1, EnteredIs DEF Sound, Shape
<1>3. CASE Return(-1) /\ Quiet /\ UNCHANGED fs
  BY <1>1, <1>2, <1>3, QuietReturn, SeenGrows
<1>4. CASE Fails("open") /\ UNCHANGED fs
  BY <1>1, <1>2, <1>4, QuietReturn, SeenGrows DEF Fails
<1>5. CASE /\ Room(fs, Out) /\ ~IsDir(fs, Out) /\ Fails("create")
           /\ fs' = Without(fs, Out)
  <2>1. IsTree(fs')
    BY <1>2, <1>5, TreeWithout
  <2>2. \A p \in DOMAIN fs' : p \in DOMAIN fs /\ fs'[p] = fs[p]
    BY <1>5 DEF Without
  <2>3. Grows
    BY <1>5, SeenGrows DEF Fails
  <2>4. Return(-1)
    BY <1>5 DEF Fails
  <2>5. "partial file" \in mishaps \/ \A p \in DOMAIN fs' : fs'[p].whole
    BY <1>2, <2>2 DEF Sound, Partials
  <2> QED BY <1>1, <1>2, <2>1, <2>3, <2>4, <2>5, WroteReturn
<1>6. CASE /\ IsFile(fs, Top.in) /\ Room(fs, Out) /\ ~IsDir(fs, Out)
           /\ fs' = With(fs, Out, [of |-> fs[Top.in].of, whole |-> FALSE])
           /\ stack' = [stack EXCEPT ![Len(stack)].pc = "data"]
           /\ Quiet /\ UNCHANGED ret
  <2> DEFINE new == [of |-> fs[Top.in].of, whole |-> FALSE]
  <2>1. Top.in \in DOMAIN fs /\ fs[Top.in] \in Bytes
    BY <1>2, <1>6, FileOrFolder DEF IsFile
  <2>2. new \in Bytes /\ new.of # NoFile
    BY <2>1, CopyAssumption DEF Bytes
  <2> HIDE DEF new
  <2>3. fs' = With(fs, Out, new)
    BY <1>6 DEF new
  <2>4. IsTree(fs')
    BY <1>2, <1>6, <2>2, <2>3, TreeWith
  <2>5. /\ Stacked(phase', clip', target', stack') /\ Control'
        /\ Len(stack') = Len(stack) /\ stack'[Len(stack)] = At(Top, "data", {})
    <3>1. stack' = Opened(stack)
      BY <1>6 DEF Opened
    <3> QED BY <1>1, <1>2, <1>6, <3>1, AfterOpen DEF Sound
  <2>6. /\ stack'[Len(stack')].in = Top.in /\ stack'[Len(stack')].op = "copy"
        /\ stack'[Len(stack')].pc = "data" /\ OutOf(stack'[Len(stack')]) = Out
    BY <1>2, <2>5 DEF At, OutOf, Out
  <2>7. /\ DOMAIN fs' = DOMAIN fs \union {Out} /\ fs'[Out] = new
        /\ \A p \in DOMAIN fs : p # Out => fs'[p] = fs[p]
    BY <2>3 DEF With
  <2>8. Written(fs', stack')
    BY <1>2, <1>6, <2>1, <2>2, <2>6, <2>7 DEF Written, IsFile
  <2>9. Writing(stack')
    <3>1. stack' # <<>>
      BY <1>2, <1>6 DEF Sound, Shape, Calls
    <3> QED BY <2>6, <3>1 DEF Writing
  <2>10. Partials(fs', stack', mishaps')
    BY <1>2, <1>6, <2>6, <2>7, <2>9 DEF Sound, Partials, Quiet
  <2> QED BY <2>4, <2>5, <2>8, <2>10 DEF SoundNext
<1> QED BY <1>3, <1>4, <1>5, <1>6 DEF CopyOpen

LEMMA CopyDataSound ==
  ASSUME Sound, CopyData
  PROVE  SoundNext
<1>1. stack # <<>> /\ Top.op = "copy" /\ Writing(stack) /\ Outside
  BY DEF CopyData, Running, Writing, Top
<1>2. /\ IsTree(fs) /\ IsPath(Top.in) /\ IsPath(Out) /\ Len(Out) > 1 /\ Out = OutOf(Top)
  BY <1>1, CopyPhase DEF Sound, Shape
<1>3. IsFile(fs, Top.in) /\ IsFile(fs, Out) /\ Top.in # Out
  BY <1>1, <1>2 DEF Sound, Written, Top
<1>4. Room(fs, Out) /\ ~IsDir(fs, Out)
  <2>1. IsDir(fs, Front(Out))
    BY <1>2, <1>3, FolderOf, TreeUp DEF IsFile
  <2> QED BY <2>1, <1>2, <1>3 DEF Room, IsDir, IsFile
<1>5. Top.in \in DOMAIN fs /\ fs[Top.in] \in Bytes
  BY <1>2, <1>3, FileOrFolder DEF IsFile
<1>6. \/ "partial file" \in mishaps
      \/ \A p \in DOMAIN fs : p # Out => fs[p].whole
  BY <1>2 DEF Sound, Partials, Top
<1>7. CASE fs' = With(fs, Out, fs[Top.in]) /\ Return(0) /\ Quiet
  <2>1. IsTree(fs')
    BY <1>2, <1>4, <1>5, <1>7, TreeWith
  <2>2. \/ "partial file" \in mishaps
        \/ \A p \in DOMAIN fs' : fs'[p].whole
    BY <1>3, <1>5, <1>6, <1>7 DEF With
  <2> QED BY <1>1, <1>7, <2>1, <2>2, WroteReturn, SeenGrows
<1>8. CASE Fails("data") /\ fs' = Without(fs, Out)
  <2>1. IsTree(fs')
    BY <1>2, <1>4, <1>8, TreeWithout
  <2>2. \/ "partial file" \in mishaps
        \/ \A p \in DOMAIN fs' : fs'[p].whole
    BY <1>6, <1>8 DEF Without
  <2> QED BY <1>1, <1>8, <2>1, <2>2, WroteReturn, SeenGrows DEF Fails
<1>9. CASE Fails("clean") /\ UNCHANGED fs
  <2>1. "partial file" \in mishaps'
    BY <1>9 DEF Fails, Seen
  <2> QED BY <1>1, <1>2, <1>9, <2>1, WroteReturn, SeenGrows DEF Fails
<1>10. ASSUME Fails("close"), NEW w \in BOOLEAN,
              fs' = With(fs, Out, [fs[Top.in] EXCEPT !.whole = w /\ @])
       PROVE  SoundNext
  <2>1. "partial file" \in mishaps'
    BY <1>10 DEF Fails, Seen
  <2> DEFINE new == [fs[Top.in] EXCEPT !.whole = w /\ @]
  <2>2. new \in Bytes
    BY <1>5 DEF Bytes
  <2> HIDE DEF new
  <2>3. IsTree(fs')
    <3>1. fs' = With(fs, Out, new)
      BY <1>10 DEF new
    <3> QED BY <1>2, <1>4, <2>2, <3>1, TreeWith
  <2> QED BY <1>1, <1>10, <2>1, <2>3, WroteReturn, SeenGrows DEF Fails
<1> QED BY <1>7, <1>8, <1>9, <1>10 DEF CopyData

LEMMA CopyChildSound ==
  ASSUME Sound, CopyChild
  PROVE  SoundNext
<1>1. /\ stack # <<>> /\ Top.op = "copy" /\ Top.pc \in {"list", "loop"}
      /\ Outside /\ UNCHANGED <<fs, ret>> /\ Grows
  BY SeenGrows DEF CopyChild, Running
<1>2. PICK e \in Top.left :
        stack' = Append([stack EXCEPT ![Len(stack)].pc = "loop",
                                      ![Len(stack)].left = @ \ {e}],
                        Call("copy", Top.in, Out, e))
  BY DEF CopyChild
<1> DEFINE f == Call("copy", Top.in, Out, e)
           l == Top.left \ {e}
<1>3. CallOf(phase, clip, target, Top) /\ phase = "copy" /\ clip.items # {}
      /\ IsPath(target) /\ ClipOf(clip) /\ Out = genLimObjName(Top.to)
  BY <1>1, TopCall, CopyPhase DEF Sound, Shape, Control, Out
<1>4. Entry(e) /\ \A x \in l : Entry(x)
  BY <1>2, <1>3 DEF CallOf
<1>5. CallOf(phase, clip, target, f)
  BY <1>3, <1>4, KidCopy
<1>6. f.pc = "enter"
  BY DEF Call
<1>7. stack' = Descend(stack, l, f)
  BY <1>2 DEF Descend, Turned, Top
<1> HIDE DEF f, l
<1>8. Stacked(phase', clip', target', stack') /\ Control' /\ ~Writing(stack')
  BY <1>1, <1>4, <1>5, <1>6, <1>7, AfterChild DEF Sound
<1>9. Partials(fs', stack', mishaps')
  BY <1>1 DEF Sound, Partials, Grows, Writing, Top
<1> QED BY <1>1, <1>8, <1>9 DEF SoundNext, Written, Sound, Shape

LEMMA CopyFolderDoneSound ==
  ASSUME Sound, CopyFolderDone
  PROVE  SoundNext
<1>1. stack # <<>> /\ ~Writing(stack) /\ Outside /\ UNCHANGED fs /\ Grows /\ Return(ret)
  BY SeenGrows DEF CopyFolderDone, Running, Writing, Top
<1>2. ret \in {0, -1}
  BY DEF Sound, Shape, Control
<1> QED BY <1>1, <1>2, QuietReturn

LEMMA CopySound ==
  ASSUME Sound, CopyStep
  PROVE  SoundNext
BY CopyRefusedSound, CopyNewFolderSound, CopyIntoFolderSound, CopyNoFolderSound,
   CopyOpenSound, CopyDataSound, CopyChildSound, CopyFolderDoneSound DEF CopyStep

-----------------------------------------------------------------------------
LEMMA NothingWritten ==
  ASSUME Sound, ~Writing(stack)
  PROVE  "partial file" \in mishaps \/ \A p \in DOMAIN fs : fs[p].whole
BY DEF Sound, Partials

(* The removal of a file or of an empty folder. *)
LEMMA RemovedSound ==
  ASSUME Sound, stack # <<>>, ~Writing(stack), Return(0), Outside, Quiet, IsPath(Top.in),
         ~IsDir(fs, Top.in) \/ Entries(fs, Top.in) = {}, fs' = Without(fs, Top.in)
  PROVE  SoundNext
<1>1. IsTree(fs')
  BY TreeWithout DEF Sound, Shape
<1>2. \A p \in DOMAIN fs' : p \in DOMAIN fs /\ fs'[p] = fs[p]
  BY DEF Without
<1>3. "partial file" \in mishaps \/ \A p \in DOMAIN fs' : fs'[p].whole
  BY <1>2, NothingWritten
<1> QED BY <1>1, <1>3, WroteReturn, SeenGrows

LEMMA DeleteFileSound ==
  ASSUME Sound, DeleteFile
  PROVE  SoundNext
<1>1. stack # <<>> /\ ~Writing(stack) /\ Outside /\ IsPath(Top.in)
  <2>1. stack # <<>> /\ Top.op = "delete"
    BY DEF DeleteFile, Running
  <2> QED BY <2>1, DeletePhase DEF DeleteFile, Writing, Top, Sound
<1>2. CASE Fails("stack") /\ UNCHANGED fs
  BY <1>1, <1>2, QuietReturn, SeenGrows DEF Fails
<1>3. CASE Return(-1) /\ Quiet /\ UNCHANGED fs
  BY <1>1, <1>3, QuietReturn, SeenGrows
<1>4. CASE IsFile(fs, Top.in) /\ fs' = Without(fs, Top.in) /\ Return(0) /\ Quiet
  BY <1>1, <1>4, RemovedSound DEF IsFile, IsDir
<1> QED BY <1>2, <1>3, <1>4 DEF DeleteFile

LEMMA DeleteFolderSound ==
  ASSUME Sound, DeleteFolder
  PROVE  SoundNext
<1>1. stack # <<>> /\ ~Writing(stack) /\ Outside /\ IsPath(Top.in) /\ UNCHANGED fs
  <2>1. stack # <<>> /\ Top.op = "delete"
    BY DEF DeleteFolder, Running
  <2> QED BY <2>1, DeletePhase DEF DeleteFolder, Writing, Top, Sound
<1>2. CASE Fails("stack")
  BY <1>1, <1>2, QuietReturn, SeenGrows DEF Fails
<1>3. ASSUME NEW l \in SUBSET Entries(fs, Top.in), Listing(fs, Top.in, l), Listed(l),
             UNCHANGED ret
      PROVE  SoundNext
  <2>1. \A e \in l : Entry(e)
    BY <1>1, ListingKnown DEF Sound, Shape
  <2>2. ret' \in {0, -1}
    BY <1>3 DEF Sound, Shape, Control
  <2>3. Stacked(phase', clip', target', stack') /\ Control' /\ ~Writing(stack')
    BY <1>1, <1>3, <2>1, <2>2, AfterListed DEF Sound
  <2>4. Grows
    BY <1>3, SeenGrows DEF Listing
  <2>5. Partials(fs', stack', mishaps')
    BY <1>1, <2>4 DEF Sound, Partials, Grows
  <2> QED BY <1>1, <2>3, <2>5 DEF SoundNext, Written, Sound, Shape
<1> QED BY <1>2, <1>3 DEF DeleteFolder

LEMMA DeleteChildSound ==
  ASSUME Sound, DeleteChild
  PROVE  SoundNext
<1>1. /\ stack # <<>> /\ Top.op = "delete" /\ Top.pc \in {"list", "loop"}
      /\ Outside /\ UNCHANGED <<fs, ret>> /\ Grows
  BY SeenGrows DEF DeleteChild, Running
<1>2. PICK e \in Top.left :
        stack' = Append([stack EXCEPT ![Len(stack)].pc = "loop",
                                      ![Len(stack)].left = @ \ {e}],
                        Call("delete", Top.in, <<>>, e))
  BY DEF DeleteChild
<1> DEFINE f == Call("delete", Top.in, <<>>, e)
           l == Top.left \ {e}
<1>3. CallOf(phase, clip, target, Top) /\ phase \in {"purge", "delete"} /\ ClipOf(clip)
  BY <1>1, TopCall, DeletePhase DEF Sound, Shape, Control
<1>4. Entry(e) /\ \A x \in l : Entry(x)
  BY <1>2, <1>3 DEF CallOf
<1>5. CallOf(phase, clip, target, f)
  BY <1>3, <1>4, KidDelete
<1>6. f.pc = "enter"
  BY DEF Call
<1>7. stack' = Descend(stack, l, f)
  BY <1>2 DEF Descend, Turned, Top
<1> HIDE DEF f, l
<1>8. Stacked(phase', clip', target', stack') /\ Control' /\ ~Writing(stack')
  BY <1>1, <1>4, <1>5, <1>6, <1>7, AfterChild DEF Sound
<1>9. Partials(fs', stack', mishaps')
  BY <1>1 DEF Sound, Partials, Grows, Writing, Top
<1> QED BY <1>1, <1>8, <1>9 DEF SoundNext, Written, Sound, Shape

LEMMA DeleteFolderDoneSound ==
  ASSUME Sound, DeleteFolderDone
  PROVE  SoundNext
<1>1. stack # <<>> /\ ~Writing(stack) /\ Outside /\ IsPath(Top.in)
  <2>1. stack # <<>> /\ Top.op = "delete"
    BY DEF DeleteFolderDone, Running
  <2> QED BY <2>1, DeletePhase DEF DeleteFolderDone, Writing, Top, Sound
<1>2. CASE Return(-1) /\ Quiet /\ UNCHANGED fs
  BY <1>1, <1>2, QuietReturn, SeenGrows
<1>3. CASE Fails("remove") /\ UNCHANGED fs
  BY <1>1, <1>3, QuietReturn, SeenGrows DEF Fails
<1>4. CASE IsDir(fs, Top.in) /\ Entries(fs, Top.in) = {}
           /\ fs' = Without(fs, Top.in) /\ Return(0) /\ Quiet
  BY <1>1, <1>4, RemovedSound
<1> QED BY <1>2, <1>3, <1>4 DEF DeleteFolderDone

LEMMA DeleteSound ==
  ASSUME Sound, DeleteStep
  PROVE  SoundNext
BY DeleteFileSound, DeleteFolderSound, DeleteChildSound, DeleteFolderDoneSound
   DEF DeleteStep

-----------------------------------------------------------------------------
(* Between the calls of the browser's loops nothing is being written. *)
LEMMA NoCallSound ==
  ASSUME Sound, stack = <<>>, stack' = <<>>, UNCHANGED <<fs, mishaps>>, Control'
  PROVE  SoundNext
<1>1. Stacked(phase', clip', target', stack')
  <2>1. Len(stack') = 0
    OBVIOUS
  <2> QED BY <2>1 DEF Stacked
<1>2. Partials(fs', stack', mishaps')
  BY DEF Sound, Partials, Writing
<1> QED BY <1>1, <1>2 DEF SoundNext, Written, Writing, Sound, Shape

LEMMA LoopSound ==
  ASSUME Sound, stack = <<>>, UNCHANGED <<fs, clip, target, mishaps>>,
         NEW op, NEW out, Next1(op, out),
         \A e \in todo : CallOf(phase, clip, target,
            Call(op, IF phase = "delete" THEN target ELSE clip.path, out, e)),
         phase # "idle"
  PROVE  SoundNext
<1>1. PICK e \in todo :
        /\ todo' = todo \ {e}
        /\ Push(Call(op, IF phase = "delete" THEN target ELSE clip.path, out, e))
        /\ UNCHANGED <<phase, ret>>
  BY DEF Next1
<1> DEFINE f == Call(op, IF phase = "delete" THEN target ELSE clip.path, out, e)
<1>2. CallOf(phase, clip, target, f) /\ f.pc = "enter" /\ stack' = Append(stack, f)
  BY <1>1 DEF Push, Call
<1> HIDE DEF f
<1>3. Stacked(phase, clip, target, stack')
  BY <1>2, StackedPush DEF Sound, Shape
<1>4. Len(stack') = Len(stack) + 1 /\ stack'[Len(stack) + 1] = f
  BY <1>2, PushedIs DEF Sound, Shape
<1>5. ~Writing(stack')
  BY <1>2, <1>4 DEF Writing
<1>6. Control'
  BY <1>1 DEF Sound, Shape, Control
<1>7. Partials(fs', stack', mishaps')
  BY DEF Sound, Partials, Writing
<1> QED BY <1>1, <1>3, <1>5, <1>6, <1>7 DEF SoundNext, Written, Sound, Shape

LEMMA FinishSound ==
  ASSUME Sound, stack = <<>>, Finish, UNCHANGED <<fs, target, mishaps>>, ClipOf(clip')
  PROVE  SoundNext
<1>1. Control'
  BY DEF Finish, Sound, Shape, Control
<1> QED BY <1>1, NoCallSound DEF Finish

LEMMA PasteLoopSound ==
  ASSUME Sound, PasteLoop
  PROVE  SoundNext
<1>1. /\ phase = "copy" /\ stack = <<>> /\ UNCHANGED <<fs, clip, target, mishaps>>
      /\ ClipOf(clip) /\ clip.items # {} /\ todo \subseteq clip.items /\ IsPath(target)
  BY DEF PasteLoop, Sound, Shape, Control
<1>2. CASE Finish
  BY <1>1, <1>2, FinishSound
<1>3. CASE Next1("copy", target)
  <2>1. \A e \in todo : CallOf("copy", clip, target, Call("copy", clip.path, target, e))
    BY <1>1, FirstCopy
  <2> QED BY <1>1, <1>3, <2>1, LoopSound
<1>4. CASE phase' = "purge" /\ todo' = clip.items /\ UNCHANGED <<stack, ret>>
  <2>1. Control'
    BY <1>1, <1>4 DEF Sound, Shape, Control, ClipOf
  <2> QED BY <1>1, <1>4, <2>1, NoCallSound
<1> QED BY <1>2, <1>3, <1>4 DEF PasteLoop

LEMMA PurgeLoopSound ==
  ASSUME Sound, PurgeLoop
  PROVE  SoundNext
<1>1. /\ phase = "purge" /\ stack = <<>> /\ UNCHANGED <<fs, target, mishaps>>
      /\ ClipOf(clip) /\ clip.items # {} /\ todo \subseteq clip.items
      /\ IsPath(clip.path) /\ \A e \in todo : Entry(e)
  BY DEF PurgeLoop, Sound, Shape, Control, ClipOf
<1>2. CASE Finish /\ UNCHANGED clip
  BY <1>1, <1>2, FinishSound
<1>3. CASE Finish /\ clip' = [clip EXCEPT !.items = {}]
  <2>1. clip' = [path |-> clip.path, items |-> {}, cut |-> clip.cut]
    BY <1>1, <1>3 DEF ClipOf
  <2>2. ClipOf(clip')
    BY <1>1, <2>1 DEF ClipOf
  <2> QED BY <1>1, <1>3, <2>2, FinishSound
<1>4. CASE Next1("delete", <<>>) /\ UNCHANGED clip
  <2>1. \A e \in todo : CallOf("purge", clip, target, Call("delete", clip.path, <<>>, e))
    BY <1>1, FirstDelete
  <2> QED BY <1>1, <1>4, <2>1, LoopSound
<1> QED BY <1>2, <1>3, <1>4 DEF PurgeLoop

LEMMA DeleteLoopSound ==
  ASSUME Sound, DeleteLoop
  PROVE  SoundNext
<1>1. /\ phase = "delete" /\ stack = <<>> /\ UNCHANGED <<fs, clip, target, mishaps>>
      /\ ClipOf(clip) /\ IsPath(target) /\ \A e \in todo : Entry(e)
  BY DEF DeleteLoop, Sound, Shape, Control
<1>2. CASE Finish
  BY <1>1, <1>2, FinishSound
<1>3. CASE Next1("delete", <<>>)
  <2>1. \A e \in todo : CallOf("delete", clip, target, Call("delete", target, <<>>, e))
    BY <1>1, FirstDelete
  <2> QED BY <1>1, <1>3, <2>1, LoopSound
<1>4. CASE \E e \in todo : todo' = todo \ {e} /\ UNCHANGED <<phase, stack, ret>>
  <2>1. Control'
    BY <1>1, <1>4 DEF Sound, Shape, Control
  <2> QED BY <1>1, <1>4, <2>1, NoCallSound
<1> QED BY <1>2, <1>3, <1>4 DEF DeleteLoop

-----------------------------------------------------------------------------
(* What the user does between the operations. *)
LEMMA IdleIs ==
  ASSUME Sound, Another
  PROVE  /\ phase = "idle" /\ stack = <<>> /\ IsTree(fs) /\ ClipOf(clip)
         /\ "partial file" \in mishaps \/ \A p \in DOMAIN fs : fs[p].whole
<1>1. phase = "idle" /\ stack = <<>>
  BY DEF Another, Idle, Sound, Shape, Control
<1> QED BY <1>1, NothingWritten DEF Writing, Sound, Shape, Control

LEMMA NoneStacked ==
  ASSUME NEW ph, NEW cl, NEW t
  PROVE  Stacked(ph, cl, t, <<>>)
<1>1. Len(<<>>) = 0
  OBVIOUS
<1>2. 1 .. Len(<<>>) = {}
  BY <1>1
<1> QED BY <1>2, Zenon DEF Stacked

(* No call is under way, and the files are as whole as they were. *)
LEMMA IdleSound ==
  ASSUME stack' = <<>>, IsTree(fs'), Control',
         "partial file" \in mishaps' \/ \A p \in DOMAIN fs' : fs'[p].whole
  PROVE  SoundNext
<1>1. Stacked(phase', clip', target', stack') /\ ~Writing(stack')
  <2>1. Len(<<>>) = 0
    OBVIOUS
  <2>2. stack' = <<>>
    BY Zenon
  <2>3. Len(stack') = 0
    BY <2>1, <2>2, Zenon
  <2>4. Stacked(phase', clip', target', <<>>)
    BY NoneStacked
  <2>5. ~Writing(stack')
    BY <2>2, Zenon DEF Writing
  <2> QED BY <2>2, <2>4, <2>5, Zenon
<1> QED BY <1>1 DEF SoundNext, Written, Partials

LEMMA FolderIs ==
  ASSUME Sound, NEW p \in Folders
  PROVE  IsPath(p) /\ IsDir(fs, p)
BY TreePath DEF Folders, Sound, Shape

LEMMA CopyOrCutSound ==
  ASSUME Sound, CopyOrCut
  PROVE  SoundNext
<1>1. Another /\ UNCHANGED <<fs, phase, target, todo, stack, ret, mishaps>>
  BY DEF CopyOrCut
<1>2. PICK p \in Folders, cut \in BOOLEAN : \E I \in Chosen(p) :
        clip' = [path |-> p, items |-> I, cut |-> cut]
  BY DEF CopyOrCut
<1>3. PICK I \in Chosen(p) : clip' = [path |-> p, items |-> I, cut |-> cut]
  BY <1>2
<1>4. IsPath(p) /\ \A e \in I : Entry(e)
  BY FolderIs, EntryMeans DEF Chosen, Sound, Shape
<1>5. ClipOf(clip')
  BY <1>3, <1>4 DEF ClipOf
<1>6. Control'
  BY <1>1, <1>5, IdleIs DEF Sound, Shape, Control
<1> QED BY <1>1, <1>6, IdleIs, IdleSound

LEMMA PasteSound ==
  ASSUME Sound, Paste
  PROVE  SoundNext
<1>1. /\ Another /\ UNCHANGED <<fs, clip, stack, mishaps>>
      /\ clip.items # {} /\ target' \in Folders
      /\ phase' = "copy" /\ todo' = clip.items /\ ret' = 0
  BY DEF Paste
<1>2. IsPath(target')
  BY <1>1, FolderIs
<1>3. Control'
  BY <1>1, <1>2, IdleIs DEF Control, ClipOf
<1> QED BY <1>1, <1>3, IdleIs, IdleSound

LEMMA DeleteMarkedSound ==
  ASSUME Sound, Delete
  PROVE  SoundNext
<1>1. /\ Another /\ UNCHANGED <<fs, clip, stack, mishaps>>
      /\ phase' = "delete" /\ ret' = 0
  BY DEF Delete
<1>2. PICK p \in Folders : target' = p /\ todo' \in Chosen(p)
  BY DEF Delete
<1>3. IsPath(target') /\ \A e \in todo' : Entry(e)
  BY <1>2, FolderIs, EntryMeans DEF Chosen, Sound, Shape
<1>4. Control'
  BY <1>1, <1>3, IdleIs DEF Control
<1> QED BY <1>1, <1>4, IdleIs, IdleSound

LEMMA NewDirSound ==
  ASSUME Sound, NewDir
  PROVE  SoundNext
<1>1. Another /\ UNCHANGED <<clip, phase, target, todo, stack, ret, mishaps>>
  BY DEF NewDir
<1>2. PICK p \in Folders, n \in Names :
        /\ genLimObjName(p \o <<n>>) \notin DOMAIN fs
        /\ fs' = With(fs, genLimObjName(p \o <<n>>), Folder)
  BY DEF NewDir
<1> DEFINE k == p \o <<n>>
           q == genLimObjName(k)
<1>3. IsPath(p) /\ IsDir(fs, p) /\ n \in AllNames
  BY FolderIs, TreeAssumption
<1>4. /\ IsPath(k) /\ Len(k) = Len(p) + 1 /\ Len(p) \in Nat /\ Len(p) >= 1
      /\ \A i \in 1 .. Len(p) : k[i] = p[i]
  BY <1>3, Kid, PathIsSeq
<1> HIDE DEF k
<1>5. /\ IsPath(q) /\ Len(q) = Len(k)
      /\ \A i \in 1 .. Len(k) - 1 : q[i] = k[i]
  <2>1. Len(k) > 1
    BY <1>4
  <2> QED BY <1>4, <2>1, LimitedPath
<1>6. q \notin DOMAIN fs /\ fs' = With(fs, q, Folder)
  BY <1>2 DEF k
<1> HIDE DEF q
<1>7. Len(q) > 1 /\ Front(q) = p
  <2>1. Len(q) > 1
    BY <1>4, <1>5
  <2>2. /\ IsPath(Front(q)) /\ Len(Front(q)) = Len(q) - 1
        /\ \A i \in 1 .. Len(q) - 1 : Front(q)[i] = q[i]
    BY <1>5, <2>1, FolderOf
  <2>3. Len(Front(q)) = Len(p) /\ \A i \in 1 .. Len(p) : Front(q)[i] = p[i]
    BY <1>4, <1>5, <2>2
  <2> QED BY <1>3, <2>1, <2>2, <2>3, SamePath
<1>8. IsTree(fs')
  <2>1. Room(fs, q) /\ ~IsDir(fs, q)
    BY <1>3, <1>6, <1>7 DEF Room, IsDir
  <2> QED BY <1>5, <1>6, <2>1, TreeWith DEF Sound, Shape
<1>9. "partial file" \in mishaps' \/ \A r \in DOMAIN fs' : fs'[r].whole
  <2>1. \A r \in DOMAIN fs' : fs'[r] = Folder \/ (r \in DOMAIN fs /\ fs'[r] = fs[r])
    BY <1>6 DEF With
  <2>2. Folder.whole
    BY DEF Folder
  <2> QED BY <1>1, <2>1, <2>2, IdleIs, Zenon
<1>10. Control'
  BY <1>1 DEF Sound, Shape, Control
<1> QED BY <1>1, <1>8, <1>9, <1>10, IdleIs, IdleSound

LEMMA RenameSound ==
  ASSUME Sound, Rename
  PROVE  SoundNext
<1>1. Another /\ UNCHANGED <<clip, phase, target, todo, stack, ret, mishaps>>
  BY DEF Rename
<1>2. PICK p \in DOMAIN fs, n \in Names :
        LET q == Front(p) \o <<n>>
        IN /\ Len(p) > 1 /\ q \notin DOMAIN fs
           /\ fs' = [r \in (DOMAIN fs \ Under(fs, {p}))
                              \union {Splice(q, m, Len(q)) : m \in Under(fs, {p})} |->
                       IF Inside(r, q) THEN fs[Splice(p, r, Len(q))] ELSE fs[r]]
  BY DEF Rename, Splice
<1> DEFINE q == Front(p) \o <<n>>
<1>3. IsPath(p) /\ Len(p) \in Nat /\ n \in AllNames /\ IsTree(fs)
  BY TreePath, PathIsSeq, TreeAssumption DEF Sound, Shape
<1>4. /\ IsPath(Front(p)) /\ Len(Front(p)) = Len(p) - 1
      /\ \A i \in 1 .. Len(p) - 1 : Front(p)[i] = p[i]
  BY <1>2, <1>3, FolderOf
<1>5. /\ IsPath(q) /\ Len(q) = Len(Front(p)) + 1
      /\ \A i \in 1 .. Len(Front(p)) : q[i] = Front(p)[i]
  BY <1>3, <1>4, Kid
<1>6. /\ Len(p) > 1 /\ q \notin DOMAIN fs
      /\ fs' = [r \in (DOMAIN fs \ Under(fs, {p}))
                         \union {Splice(q, m, Len(q)) : m \in Under(fs, {p})} |->
                  IF Inside(r, q) THEN fs[Splice(p, r, Len(q))] ELSE fs[r]]
  BY <1>2
<1> HIDE DEF q
<1>7. Len(q) = Len(p) /\ \A i \in 1 .. Len(p) - 1 : q[i] = p[i]
  BY <1>3, <1>4, <1>5
<1>8. IsTree(fs') /\ \A x \in DOMAIN fs' : \E y \in DOMAIN fs : fs'[x] = fs[y]
  <2>1. p \in DOMAIN fs
    OBVIOUS
  <2>2. fs' = Renamed(fs, p, q)
    BY <1>6 DEF Renamed
  <2>3. /\ IsTree(fs) /\ Len(p) > 1 /\ IsPath(q) /\ q \notin DOMAIN fs
        /\ Len(q) = Len(p) /\ \A i \in 1 .. Len(p) - 1 : q[i] = p[i]
    BY <1>3, <1>5, <1>6, <1>7, Zenon
  <2>4. /\ IsTree(Renamed(fs, p, q))
        /\ \A x \in DOMAIN Renamed(fs, p, q) :
              \E y \in DOMAIN fs : Renamed(fs, p, q)[x] = fs[y]
    BY <2>1, <2>3, TreeRenamed
  <2> QED BY <2>2, <2>4
<1>9. "partial file" \in mishaps' \/ \A r \in DOMAIN fs' : fs'[r].whole
  BY <1>1, <1>8, IdleIs, Zenon
<1>10. Control'
  BY <1>1 DEF Sound, Shape, Control
<1> QED BY <1>1, <1>8, <1>9, <1>10, IdleIs, IdleSound

LEMMA PowerCycleSound ==
  ASSUME Sound, PowerCycle
  PROVE  SoundNext
<1>1. /\ clip' = NoClip /\ phase' = "idle" /\ target' = <<>> /\ todo' = {}
      /\ stack' = <<>> /\ ret' = 0 /\ UNCHANGED fs
      /\ IF Idle THEN Quiet ELSE Seen("power")
  BY DEF PowerCycle
<1>2. ClipOf(clip')
  BY <1>1 DEF ClipOf, NoClip
<1>3. Control'
  BY <1>1, <1>2 DEF Control
<1>4. "partial file" \in mishaps' \/ \A p \in DOMAIN fs' : fs'[p].whole
  <2>1. CASE Idle
    <3>1. ~Writing(stack)
      BY <2>1 DEF Idle, Sound, Shape, Control, Writing
    <3> QED BY <1>1, <2>1, <3>1, NothingWritten DEF Quiet
  <2>2. CASE ~Idle
    BY <1>1, <2>2 DEF Seen
  <2> QED BY <2>1, <2>2
<1> QED BY <1>1, <1>3, <1>4, IdleSound DEF Sound, Shape

LEMMA StepSound ==
  ASSUME Sound, [Next]_vars
  PROVE  Sound'
<1>1. Calls(stack')
  BY StepCalls DEF Sound, Shape
<1>2. CASE Next
  <2>1. SoundNext
    BY <1>2, CopySound, DeleteSound, PasteLoopSound, PurgeLoopSound, DeleteLoopSound,
       CopyOrCutSound, PasteSound, DeleteMarkedSound, NewDirSound, RenameSound,
       PowerCycleSound DEF Next, Work
  <2> QED BY <1>1, <2>1 DEF SoundNext, Sound, Shape
<1>3. CASE UNCHANGED vars
  BY <1>3 DEF vars, Sound, Shape, Control
<1> QED BY <1>2, <1>3

LEMMA InitSound ==
  ASSUME Init
  PROVE  Sound
<1>1. /\ fs \in Trees /\ clip = NoClip /\ phase = "idle" /\ todo = {}
      /\ stack = <<>> /\ ret = 0
  BY DEF Init
<1>2. IsTree(fs) /\ \A p \in DOMAIN fs : fs[p].whole
  BY <1>1, TreeAssumption
<1>3. Control
  BY <1>1 DEF Control, ClipOf, NoClip
<1>4. Calls(stack) /\ Stacked(phase, clip, target, stack)
  <2>1. Len(stack) = 0
    BY <1>1
  <2> QED BY <1>1, <2>1, NoCalls DEF Stacked
<1> QED BY <1>1, <1>2, <1>3, <1>4 DEF Sound, Shape, Written, Writing, Partials

(* Where every call reads and writes, and that the file being written is   *)
(* the only one in parts (src/filer_copy.c:655, :813, :1025).              *)
THEOREM CallsSound == Spec => []Sound
<1>1. Init => Sound
  BY InitSound
<1>2. Sound /\ [Next]_vars => Sound'
  BY StepSound
<1> QED BY <1>1, <1>2, PTL DEF Spec

(* Whatever is copied, moved or deleted and whatever fails, between the    *)
(* operations no file is there in part, unless closing or removing it      *)
(* failed or the power went (src/filer_copy.c:1025).                       *)
THEOREM NothingPartial == Spec => []NoPartialLeft
<1>1. Sound => NoPartialLeft
  <2>1. SUFFICES ASSUME Sound, Idle, "partial file" \notin mishaps
                 PROVE  \A p \in DOMAIN fs : fs[p].whole
    BY DEF NoPartialLeft
  <2>2. ~Writing(stack)
    BY <2>1 DEF Idle, Sound, Shape, Control, Writing
  <2> QED BY <2>1, <2>2, NothingWritten
<1> QED BY <1>1, CallsSound, PTL
-----------------------------------------------------------------------------
(***************************************************************************)
(* Proofs about FilerCopy for any trees, failures and number of operations *)
(* on devices that keep two names apart: no copy or move loses a file, and *)
(* the sources of a move go only while all they held is in the target.     *)
(***************************************************************************)
(***************************************************************************)
(* What a paste that overlaps nothing writes: copies outside its sources.  *)
(***************************************************************************)
Lap(cl, t) ==
  \E d, e \in cl.items :
    LET o == genLimObjName(t \o <<d.name>>)
    IN Inside(o, Source(cl, e)) \/ Inside(Source(cl, e), o)

LEMMA OverlapIs ==
  ASSUME NEW t
  PROVE  Overlap(t) <=> Lap(clip, t)
BY Zenon DEF Overlap, Lap, Sources, Source

(* The copy of a marked path is not marked itself. *)
LEMMA TwinUnmarked ==
  ASSUME NEW cl, ClipOf(cl), NEW t, IsPath(t), ~Lap(cl, t),
         NEW q, Marked(cl, q), NEW r, Twin(cl.path, t, q, r)
  PROVE  ~Marked(cl, r)
<1>1. PICK d \in cl.items : Inside(q, Source(cl, d))
  BY DEF Marked
<1>2. PICK o : o = genLimObjName(t \o <<d.name>>)
  OBVIOUS
<1>3. IsPath(cl.path) /\ d.name \in AllNames
  BY <1>1, SourcePath DEF ClipOf, Entry
<1>4. Twin(cl.path, t, Source(cl, d), o)
  BY <1>2, <1>3, TwinTop DEF Source
<1>5. Inside(r, o) /\ IsPath(r) /\ IsPath(o)
  BY <1>1, <1>3, <1>4, TwinInside DEF Twin
<1>6. SUFFICES ASSUME NEW e \in cl.items, Inside(r, Source(cl, e)) PROVE FALSE
  BY DEF Marked
<1>7. Inside(o, Source(cl, e)) \/ Inside(Source(cl, e), o)
  BY <1>5, <1>6, SourcePath, Comparable
<1> QED BY <1>1, <1>2, <1>7 DEF Lap

(* A call that copies onto itself is one that overlaps. *)
LEMMA TwinElsewhere ==
  ASSUME NEW cl, ClipOf(cl), NEW t, IsPath(t), ~Lap(cl, t), t # cl.path,
         NEW f, IsPath(f.in), CopyCall(cl, t, f), Marked(cl, f.in)
  PROVE  f.in # f.to
<1> DEFINE o == genLimObjName(f.to)
           c == cl.path
<1>1. SUFFICES ASSUME f.in = f.to PROVE FALSE
  OBVIOUS
<1>2. IsPath(f.to) /\ Len(f.to) > 1 /\ Twin(c, t, f.in, o)
  BY DEF CopyCall
<1>3. /\ IsPath(o) /\ Len(o) = Len(f.to)
      /\ \A i \in 1 .. Len(f.to) - 1 : o[i] = f.to[i]
  BY <1>2, LimitedPath
<1> HIDE DEF o
<1>4. PICK e \in cl.items : Inside(f.in, Source(cl, e))
  BY DEF Marked
<1> DEFINE s == Source(cl, e)
<1>5. IsPath(c) /\ IsPath(s) /\ Marked(cl, s) /\ Len(s) = Len(c) + 1
      /\ \A i \in 1 .. Len(c) : s[i] = c[i]
  BY SourcePath, Kid DEF Source, ClipOf, Entry
<1> HIDE DEF s
<1>6. /\ Len(s) \in Nat /\ Len(c) \in Nat /\ Len(f.in) \in Nat /\ Len(t) \in Nat
      /\ Len(s) <= Len(f.in) /\ \A i \in 1 .. Len(s) : f.in[i] = s[i]
  BY <1>2, <1>4, <1>5, PathIsSeq, InsideMeans DEF s
<1>7. CASE Len(s) < Len(f.in)
  <2>1. \A i \in 1 .. Len(s) : o[i] = s[i]
    BY <1>1, <1>3, <1>6, <1>7
  <2>2. Inside(o, s)
    BY <2>1, <1>1, <1>3, <1>5, <1>6, InsideMeans
  <2>3. Marked(cl, o)
    BY <2>2, <1>3, <1>5, MarkedBelow
  <2> QED BY <2>3, <1>2, TwinUnmarked
<1>8. CASE Len(s) = Len(f.in)
  <2>1. Len(o) = Len(t) + (Len(f.in) - Len(c)) /\ \A i \in 1 .. Len(t) : o[i] = t[i]
    BY <1>2 DEF Twin
  <2>2. Len(t) = Len(c)
    BY <2>1, <1>1, <1>3, <1>5, <1>6, <1>8
  <2>3. \A i \in 1 .. Len(t) : t[i] = c[i]
    BY <2>1, <2>2, <1>1, <1>3, <1>5, <1>6, <1>8
  <2> QED BY <2>2, <2>3, <1>5, SamePath
<1> QED BY <1>6, <1>7, <1>8

-----------------------------------------------------------------------------
(***************************************************************************)
(* One path is written.                                                    *)
(***************************************************************************)
SameBut(f, g, w) ==
  \A p : p # w => /\ p \in DOMAIN g <=> p \in DOMAIN f
                  /\ p \in DOMAIN f => g[p] = f[p]

LEMMA SameWith ==
  ASSUME NEW f, NEW w, NEW e
  PROVE  SameBut(f, With(f, w, e), w) /\ w \in DOMAIN With(f, w, e) /\ With(f, w, e)[w] = e
BY DEF SameBut, With

LEMMA SameWithout ==
  ASSUME NEW f, NEW w
  PROVE  SameBut(f, Without(f, w), w)
BY DEF SameBut, Without

LEMMA SameSelf ==
  ASSUME NEW f, NEW w
  PROVE  SameBut(f, f, w)
BY DEF SameBut

\* All of x is at p.
HeldAt(f, x, p) == IsFile(f, p) /\ f[p] = [of |-> x, whole |-> TRUE]

\* x is at its source; or its source is gone, or is about to go, and x is
\* in the target.
Kept(f, cl, t, ph, x) ==
  \E q : /\ Marked(cl, q)
         /\ \/ HeldAt(f, x, q) /\ ph # "purge"
            \/ /\ ~IsFile(f, q) \/ (ph = "purge" /\ HeldAt(f, x, q))
               /\ \E r : Twin(cl.path, t, q, r) /\ HeldAt(f, x, r)

\* Nothing that is already a copy of something else is written.
Fresh(f, cl, t, w) == w \in DOMAIN f => \A q : Twin(cl.path, t, q, w) => IsFile(f, q)

LEMMA KeptHeld ==
  ASSUME NEW f, NEW cl, NEW t, NEW ph, NEW x, Kept(f, cl, t, ph, x)
  PROVE  \E p \in DOMAIN f : HeldAt(f, x, p)
BY DEF Kept, HeldAt, IsFile

LEMMA KeptWritten ==
  ASSUME NEW f, NEW g, NEW cl, NEW t, NEW w, NEW x, Kept(f, cl, t, "copy", x),
         SameBut(f, g, w), ~Marked(cl, w), Fresh(f, cl, t, w)
  PROVE  Kept(g, cl, t, "copy", x)
<1>1. PICK q : /\ Marked(cl, q)
               /\ \/ HeldAt(f, x, q)
                  \/ ~IsFile(f, q) /\ \E r : Twin(cl.path, t, q, r) /\ HeldAt(f, x, r)
  BY DEF Kept
<1>2. q # w
  BY <1>1
<1>3. CASE HeldAt(f, x, q)
  <2>1. HeldAt(g, x, q)
    BY <1>2, <1>3 DEF SameBut, HeldAt, IsFile
  <2> QED BY <2>1, <1>1 DEF Kept
<1>4. CASE ~IsFile(f, q) /\ \E r : Twin(cl.path, t, q, r) /\ HeldAt(f, x, r)
  <2>1. PICK r : Twin(cl.path, t, q, r) /\ HeldAt(f, x, r)
    BY <1>4
  <2>2. r # w
    BY <2>1, <1>4 DEF Fresh, HeldAt, IsFile
  <2>3. HeldAt(g, x, r)
    BY <2>1, <2>2 DEF SameBut, HeldAt, IsFile
  <2>4. ~IsFile(g, q)
    BY <1>2, <1>4 DEF SameBut, IsFile
  <2> QED BY <2>1, <2>3, <2>4, <1>1 DEF Kept
<1> QED BY <1>1, <1>3, <1>4
-----------------------------------------------------------------------------
(***************************************************************************)
(* The kinds the calls go by are those of the entries they name.           *)
(***************************************************************************)
Fits(f, p, d)  == p \in DOMAIN f => d = IsDir(f, p)
FitsCall(f, c) == /\ Fits(f, c.in, c.dir)
                  /\ \A e \in c.left : Fits(f, c.in \o <<e.name>>, e.dir)
FitsClip(f, cl) == \A e \in cl.items : Fits(f, Source(cl, e), e.dir)
FitsAll(f, s)   == \A i \in 1 .. Len(s) : FitsCall(f, s[i])

LEMMA FitsWritten ==
  ASSUME NEW f, NEW g, NEW w, SameBut(f, g, w), NEW p, p # w, NEW d, Fits(f, p, d)
  PROVE  Fits(g, p, d)
BY DEF Fits, SameBut, IsDir

LEMMA KidMarked ==
  ASSUME NEW cl, ClipOf(cl), NEW p, Marked(cl, p), NEW e, Entry(e)
  PROVE  Marked(cl, p \o <<e.name>>)
<1>1. IsPath(p) /\ e.name \in AllNames
  BY DEF Marked, Entry
<1>2. IsPath(p \o <<e.name>>) /\ Inside(p \o <<e.name>>, p)
  BY <1>1, Kid
<1> QED BY <1>2, MarkedBelow

LEMMA FitsAllWritten ==
  ASSUME NEW f, NEW g, NEW w, SameBut(f, g, w), NEW cl, ClipOf(cl), ~Marked(cl, w),
         NEW t, NEW s, Stacked("copy", cl, t, s), FitsAll(f, s)
  PROVE  FitsAll(g, s)
<1>1. SUFFICES ASSUME NEW i \in 1 .. Len(s) PROVE FitsCall(g, s[i])
  BY DEF FitsAll
<1> DEFINE c == s[i]
<1>2. FitsCall(f, c) /\ Marked(cl, c.in) /\ \A e \in c.left : Entry(e)
  BY DEF FitsAll, Stacked, CallOf
<1> HIDE DEF c
<1>3. Fits(g, c.in, c.dir)
  BY <1>2, FitsWritten DEF FitsCall
<1>4. ASSUME NEW e \in c.left PROVE Fits(g, c.in \o <<e.name>>, e.dir)
  <2>1. Marked(cl, c.in \o <<e.name>>)
    BY <1>2, KidMarked
  <2>2. Fits(f, c.in \o <<e.name>>, e.dir)
    BY <1>2 DEF FitsCall
  <2> QED BY <2>1, <2>2, FitsWritten
<1> QED BY <1>3, <1>4 DEF FitsCall, c

LEMMA FitsClipWritten ==
  ASSUME NEW f, NEW g, NEW w, SameBut(f, g, w), NEW cl, ClipOf(cl), ~Marked(cl, w),
         FitsClip(f, cl)
  PROVE  FitsClip(g, cl)
<1>1. SUFFICES ASSUME NEW e \in cl.items PROVE Fits(g, Source(cl, e), e.dir)
  BY DEF FitsClip
<1>2. Source(cl, e) # w /\ Fits(f, Source(cl, e), e.dir)
  BY SourcePath DEF FitsClip
<1> QED BY <1>2, FitsWritten

\* The calls below the one on top stay, the one on top may change or go,
\* and one more may be made.
LEMMA FitsBelow ==
  ASSUME NEW f, NEW s, NEW u, Len(s) \in Nat, Len(u) \in Nat, FitsAll(f, s),
         \A i \in 1 .. Len(u) : (i < Len(s) /\ u[i] = s[i]) \/ FitsCall(f, u[i])
  PROVE  FitsAll(f, u)
<1>1. ASSUME NEW i \in 1 .. Len(u) PROVE FitsCall(f, u[i])
  <2>1. CASE i < Len(s) /\ u[i] = s[i]
    BY <2>1 DEF FitsAll
  <2> QED BY <2>1
<1> QED BY <1>1 DEF FitsAll

LEMMA FitsListed ==
  ASSUME NEW f, IsTree(f), NEW p, IsPath(p), NEW l \in SUBSET Entries(f, p), NEW e \in l
  PROVE  Fits(f, p \o <<e.name>>, e.dir)
BY EntryMeans DEF Fits

-----------------------------------------------------------------------------
(***************************************************************************)
(* What the calls and the loop still have to copy.                         *)
(***************************************************************************)
DueIn(c, q) ==
  \/ \E e \in c.left : Inside(q, c.in \o <<e.name>>)
  \/ c.pc \in {"enter", "data"} /\ Inside(q, c.in)

Due(cl, td, s, q) ==
  \/ \E e \in td : Inside(q, Source(cl, e))
  \/ \E i \in 1 .. Len(s) : \E e \in s[i].left : Inside(q, s[i].in \o <<e.name>>)
  \/ s # <<>> /\ DueIn(s[Len(s)], q)

Going(s, r) == r = 0 \/ (s # <<>> /\ s[Len(s)].pc # "loop")

\* The marked files that are not due are in the target.
Copied(f, cl, t, td, s) ==
  \A q, r : /\ Marked(cl, q) /\ IsFile(f, q) /\ ~Due(cl, td, s, q)
            /\ Twin(cl.path, t, q, r)
            => r \in DOMAIN f /\ f[r] = f[q]

(* Whatever happens to the call on top, only what it had to do is done. *)
LEMMA DueBelow ==
  ASSUME NEW cl, NEW td, NEW s, Calls(s), s # <<>>, NEW u, Len(u) \in Nat,
         Len(u) >= Len(s) - 1, \A i \in 1 .. Len(s) - 1 : u[i] = s[i],
         NEW q, Due(cl, td, s, q), ~Due(cl, td, u, q)
  PROVE  DueIn(s[Len(s)], q)
<1>1. Len(s) \in Nat /\ Len(s) >= 1
  BY StackIsSeq
<1>2. CASE \E e \in td : Inside(q, Source(cl, e))
  BY <1>2 DEF Due
<1>3. ASSUME NEW i \in 1 .. Len(s), NEW e \in s[i].left, Inside(q, s[i].in \o <<e.name>>)
      PROVE  DueIn(s[Len(s)], q)
  <2>1. CASE i = Len(s)
    BY <2>1, <1>3 DEF DueIn
  <2>2. CASE i # Len(s)
    <3>1. i \in 1 .. Len(u) /\ u[i] = s[i]
      BY <2>2, <1>1
    <3> QED BY <3>1, <1>3 DEF Due
  <2> QED BY <2>1, <2>2
<1> QED BY <1>2, <1>3 DEF Due

LEMMA DueTop ==
  ASSUME NEW cl, NEW td, NEW s, s # <<>>, NEW q, DueIn(s[Len(s)], q)
  PROVE  Due(cl, td, s, q)
BY DEF Due
-----------------------------------------------------------------------------
(***************************************************************************)
(* The invariant.                                                          *)
(***************************************************************************)
Good == cargo # {} /\ "short listing" \notin mishaps /\ clip.items # {}

\* What holds of the copying under way.
OnCourse ==
  /\ FitsClip(fs, clip) /\ FitsAll(fs, stack)
  /\ Going(stack, ret) => Copied(fs, clip, target, todo, stack)

Promise ==
  Good =>
    /\ IsPath(target) /\ target # clip.path /\ ~Lap(clip, target) /\ phase # "delete"
    /\ \A x \in cargo : Kept(fs, clip, target, phase, x)
    /\ phase = "copy" => OnCourse

\* When the clip is gone nothing is written over what it brought.
Rest ==
  /\ phase = "delete" => cargo = {}
  /\ "short listing" \notin mishaps /\ clip.items = {} =>
       \A x \in cargo : \E p \in DOMAIN fs : HeldAt(fs, x, p)

Safe == Sound /\ Promise /\ Rest

(* What a step of a copy starts from. *)
LEMMA CopyGood ==
  ASSUME Safe, stack # <<>>, Top.op = "copy", Outside, Grows, Good'
  PROVE  /\ Good /\ phase = "copy" /\ OnCourse /\ IsTree(fs) /\ Calls(stack)
         /\ \A x \in cargo : Kept(fs, clip, target, "copy", x)
         /\ IsPath(target) /\ target # clip.path /\ ~Lap(clip, target)
         /\ ClipOf(clip) /\ IsPath(clip.path) /\ IsPath(Top.in) /\ IsPath(Out)
         /\ CopyCall(clip, target, Top) /\ CallOf("copy", clip, target, Top)
         /\ Twin(clip.path, target, Top.in, Out)
         /\ Marked(clip, Top.in) /\ ~Marked(clip, Out)
         /\ Stacked("copy", clip, target, stack)
         /\ UNCHANGED <<clip, phase, target, todo, cargo>>
<1>1. UNCHANGED <<clip, phase, target, todo, cargo>>
  BY DEF Outside
<1>2. Good
  BY <1>1 DEF Good, Grows
<1>3. /\ phase = "copy" /\ IsPath(clip.path) /\ IsPath(target) /\ IsPath(Top.in)
      /\ IsPath(Out) /\ CopyCall(clip, target, Top)
      /\ Twin(clip.path, target, Top.in, Out) /\ Marked(clip, Top.in)
  BY CopyPhase DEF Safe, Sound
<1>4. ClipOf(clip) /\ IsTree(fs) /\ Calls(stack) /\ Stacked("copy", clip, target, stack)
      /\ CallOf("copy", clip, target, Top)
  BY <1>3, TopCall DEF Safe, Sound, Shape, Control
<1>5. /\ target # clip.path /\ ~Lap(clip, target) /\ OnCourse
      /\ \A x \in cargo : Kept(fs, clip, target, "copy", x)
  BY <1>2, <1>3 DEF Safe, Promise
<1>6. ~Marked(clip, Out)
  BY <1>3, <1>4, <1>5, TwinUnmarked
<1> QED BY <1>1, <1>2, <1>3, <1>4, <1>5, <1>6

(* What its write leaves. *)
LEMMA CopyWrote ==
  ASSUME NamesApart, Safe, stack # <<>>, Top.op = "copy", Outside, Grows, Good',
         SameBut(fs, fs', Out), Out \notin DOMAIN fs \/ IsFile(fs, Top.in)
  PROVE  /\ \A x \in cargo' : Kept(fs', clip', target', "copy", x)
         /\ FitsClip(fs', clip') /\ FitsAll(fs', stack)
         /\ \A q : Marked(clip, q) => /\ q # Out /\ (IsFile(fs', q) <=> IsFile(fs, q))
                                      /\ IsFile(fs, q) => fs'[q] = fs[q]
<1>1. /\ OnCourse /\ \A x \in cargo : Kept(fs, clip, target, "copy", x)
      /\ ClipOf(clip) /\ IsPath(clip.path) /\ IsPath(target)
      /\ Twin(clip.path, target, Top.in, Out) /\ ~Marked(clip, Out)
      /\ Stacked("copy", clip, target, stack)
      /\ UNCHANGED <<clip, target, cargo>>
  BY CopyGood
<1>2. Fresh(fs, clip, target, Out)
  <2>1. SUFFICES ASSUME Out \in DOMAIN fs, NEW q, Twin(clip.path, target, q, Out)
                 PROVE  IsFile(fs, q)
    BY DEF Fresh
  <2>2. q = Top.in
    BY <1>1, <2>1, TwinBack
  <2> QED BY <2>1, <2>2
<1>3. \A x \in cargo : Kept(fs', clip, target, "copy", x)
  BY <1>1, <1>2, KeptWritten
<1>4. FitsClip(fs', clip)
  BY <1>1, FitsClipWritten DEF OnCourse
<1>5. FitsAll(fs', stack)
  BY <1>1, FitsAllWritten DEF OnCourse
<1>6. ASSUME NEW q, Marked(clip, q)
      PROVE  /\ q # Out /\ (IsFile(fs', q) <=> IsFile(fs, q))
             /\ IsFile(fs, q) => fs'[q] = fs[q]
  <2>1. q # Out
    BY <1>1, <1>6
  <2> QED BY <2>1 DEF SameBut, IsFile
<1> QED BY <1>1, <1>3, <1>4, <1>5, <1>6

(* When nothing was written, the same. *)
LEMMA CopyStill ==
  ASSUME Safe, stack # <<>>, Top.op = "copy", Outside, Grows, Good', UNCHANGED fs
  PROVE  /\ \A x \in cargo' : Kept(fs', clip', target', "copy", x)
         /\ FitsClip(fs', clip') /\ FitsAll(fs', stack)
BY CopyGood DEF OnCourse

(* A call that has returned. *)
LEMMA CopyReturned ==
  ASSUME Safe, stack # <<>>, Top.op = "copy", Outside, Grows, Good', NEW r \in {0, -1},
         Return(r), \A x \in cargo' : Kept(fs', clip', target', "copy", x),
         FitsClip(fs', clip'), FitsAll(fs', stack),
         r = 0 => Copied(fs', clip, target, todo, Front(stack))
  PROVE  Promise'
<1>1. /\ phase = "copy" /\ UNCHANGED <<clip, phase, target, todo>> /\ Calls(stack)
      /\ IsPath(target) /\ target # clip.path /\ ~Lap(clip, target)
  BY CopyGood
<1>2. stack' = Front(stack) /\ ret' = r
  BY DEF Return
<1>3. stack' # <<>> => stack'[Len(stack')].pc = "loop"
  BY AfterReturn DEF Safe, Sound
<1>4. FitsAll(fs', stack')
  <2>1. /\ Len(stack') = Len(stack) - 1 /\ Len(stack) \in Nat /\ Len(stack) >= 1
        /\ \A i \in 1 .. Len(stack) - 1 : stack'[i] = stack[i]
    BY <1>1, <1>2, PoppedIs
  <2>2. Len(stack') \in Nat
        /\ \A i \in 1 .. Len(stack') : i < Len(stack) /\ stack'[i] = stack[i]
    BY <2>1
  <2> QED BY <2>1, <2>2, FitsBelow
<1>5. Going(stack', ret') => r = 0
  BY <1>2, <1>3 DEF Going
<1>6. OnCourse'
  BY <1>1, <1>2, <1>4, <1>5 DEF OnCourse
<1> QED BY <1>1, <1>6 DEF Promise
-----------------------------------------------------------------------------
(***************************************************************************)
(* The steps of a copy.                                                    *)
(***************************************************************************)
LEMMA StillReturned ==
  ASSUME Safe, stack # <<>>, Top.op = "copy", Outside, Grows, UNCHANGED fs, Return(-1)
  PROVE  Promise'
<1>1. SUFFICES ASSUME Good' PROVE Promise'
  BY DEF Promise
<1> QED BY <1>1, CopyStill, CopyReturned

LEMMA CopyRefusedKeeps ==
  ASSUME Safe, CopyRefused
  PROVE  Promise'
<1>1. stack # <<>> /\ Top.op = "copy" /\ Outside /\ UNCHANGED fs /\ Grows
  BY SeenGrows DEF CopyRefused, Running, Fails
<1>2. CASE Return(-1)
  BY <1>1, <1>2, StillReturned
<1>3. CASE Top.in = Top.to
  <2>1. ~Good'
    BY <1>1, <1>3, CopyGood, TwinElsewhere
  <2> QED BY <2>1 DEF Promise
<1> QED BY <1>2, <1>3 DEF CopyRefused, Fails

LEMMA CopyNoFolderKeeps ==
  ASSUME Safe, CopyNoFolder
  PROVE  Promise'
<1>1. stack # <<>> /\ Top.op = "copy" /\ Outside /\ UNCHANGED fs /\ Grows /\ Return(-1)
  BY SeenGrows DEF CopyNoFolder, Entered, Running, Fails
<1> QED BY <1>1, StillReturned

(* A listing: what was due in the folder is due in its entries. *)
LEMMA CopyListed ==
  ASSUME Safe, stack # <<>>, Top.op = "copy", Top.pc = "enter", Top.dir, Outside, Grows,
         Good', IsTree(fs'), Listed(Entries(fs', Top.in)),
         \A x \in cargo' : Kept(fs', clip', target', "copy", x),
         FitsClip(fs', clip'), FitsAll(fs', stack),
         NEW w, SameBut(fs, fs', w), w \notin DOMAIN fs \/ UNCHANGED fs,
         \A q : Marked(clip, q) => /\ IsFile(fs', q) <=> IsFile(fs, q)
                                   /\ IsFile(fs, q) => fs'[q] = fs[q]
  PROVE  Promise'
<1> DEFINE l == Entries(fs', Top.in)
           n == Len(stack)
<1>1. /\ phase = "copy" /\ UNCHANGED <<clip, phase, target, todo>> /\ Calls(stack)
      /\ IsPath(target) /\ target # clip.path /\ ~Lap(clip, target) /\ OnCourse
      /\ IsPath(Top.in) /\ CallOf("copy", clip, target, Top)
  BY CopyGood
<1>2. /\ Len(stack') = n /\ stack' # <<>>
      /\ \A i \in 1 .. n - 1 : stack'[i] = stack[i]
      /\ stack'[n] = At(Top, "list", l)
  <2>1. stack' = Turned(stack, "list", l)
    BY DEF Listed, Turned
  <2> QED BY <2>1, <1>1, MovedIs DEF Top
<1>3. n \in Nat /\ n >= 1 /\ n \in 1 .. n
  BY <1>1, StackIsSeq
<1>4. /\ stack'[n].in = Top.in /\ stack'[n].dir = Top.dir
      /\ stack'[n].pc = "list" /\ stack'[n].left = l
  BY <1>2 DEF At
<1>5. Fits(fs', Top.in, Top.dir)
  BY <1>3 DEF FitsAll, FitsCall, Top
<1>6. \A e \in l : Fits(fs', Top.in \o <<e.name>>, e.dir)
  BY <1>1, FitsListed
<1> HIDE DEF l, n
<1>7. FitsAll(fs', stack')
  <2>1. FitsCall(fs', stack'[n])
    BY <1>4, <1>5, <1>6 DEF FitsCall
  <2>2. \A i \in 1 .. Len(stack') : (i < n /\ stack'[i] = stack[i]) \/ FitsCall(fs', stack'[i])
    <3>1. \A i \in 1 .. Len(stack') : i = n \/ (i < n /\ i \in 1 .. n - 1)
      BY <1>2, <1>3
    <3> QED BY <3>1, <2>1, <1>2
  <2> QED BY <2>2, <1>2, <1>3, FitsBelow DEF n
<1>8. Copied(fs', clip, target, todo, stack')
  <2>1. SUFFICES ASSUME NEW q, NEW r, Marked(clip, q), IsFile(fs', q),
                        ~Due(clip, todo, stack', q), Twin(clip.path, target, q, r)
                 PROVE  r \in DOMAIN fs' /\ fs'[r] = fs'[q]
    BY DEF Copied
  <2>2. IsFile(fs, q) /\ fs'[q] = fs[q]
    BY <2>1
  <2>3. ~Due(clip, todo, stack, q)
    <3>1. SUFFICES ASSUME Due(clip, todo, stack, q) PROVE FALSE
      OBVIOUS
    <3>2. DueIn(Top, q)
      BY <3>1, <2>1, <1>1, <1>2, <1>3, DueBelow DEF Top, n
    <3>3. Inside(q, Top.in)
      BY <3>2, <1>1 DEF DueIn, CallOf
    <3>4. q # Top.in
      BY <2>1, <1>5 DEF Fits, IsFile, IsDir
    <3>5. PICK e \in l : Inside(q, Top.in \o <<e.name>>)
      BY <3>3, <3>4, <2>1, <1>1, EntryListed DEF IsFile, l
    <3>6. DueIn(stack'[n], q)
      BY <3>5, <1>4 DEF DueIn
    <3>7. Due(clip, todo, stack', q)
      BY <3>6, <1>2, DueTop
    <3> QED BY <3>7, <2>1
  <2>4. r \in DOMAIN fs /\ fs[r] = fs[q]
    <3>1. Going(stack, ret)
      BY DEF Going, Top
    <3> QED BY <3>1, <2>1, <2>2, <2>3, <1>1 DEF OnCourse, Copied
  <2>5. r \in DOMAIN fs' /\ fs'[r] = fs[r]
    BY <2>4 DEF SameBut
  <2> QED BY <2>2, <2>4, <2>5
<1>9. OnCourse'
  BY <1>1, <1>7, <1>8 DEF OnCourse
<1> QED BY <1>1, <1>9 DEF Promise

LEMMA FullListing ==
  ASSUME NEW f, NEW p, NEW l, Listing(f, p, l), Good'
  PROVE  l = Entries(f, p)
<1>1. CASE Seen("list")
  BY <1>1 DEF Seen, Good
<1> QED BY <1>1 DEF Listing

LEMMA CopyNewFolderKeeps ==
  ASSUME NamesApart, Safe, CopyNewFolder
  PROVE  Promise'
<1>1. SUFFICES ASSUME Good' PROVE Promise'
  BY DEF Promise
<1>2. Entered /\ Top.dir /\ Out \notin DOMAIN fs /\ fs' = With(fs, Out, Folder) /\ Outside
  BY DEF CopyNewFolder
<1>3. PICK l \in SUBSET Entries(fs', Top.in) : Listing(fs', Top.in, l) /\ Listed(l)
  BY DEF CopyNewFolder
<1>4. Grows
  BY <1>3, SeenGrows DEF Listing
<1>5. stack # <<>> /\ Top.op = "copy" /\ Top.pc = "enter"
  BY <1>2 DEF Entered, Running
<1>6. IsTree(fs')
  BY CopyNewFolderSound DEF Safe, SoundNext
<1>7. Listed(Entries(fs', Top.in))
  BY <1>1, <1>3, FullListing
<1>8. SameBut(fs, fs', Out)
  BY <1>2, SameWith
<1>9. /\ \A x \in cargo' : Kept(fs', clip', target', "copy", x)
      /\ FitsClip(fs', clip') /\ FitsAll(fs', stack)
      /\ \A q : Marked(clip, q) => /\ q # Out /\ (IsFile(fs', q) <=> IsFile(fs, q))
                                   /\ IsFile(fs, q) => fs'[q] = fs[q]
  BY <1>1, <1>2, <1>4, <1>5, <1>8, CopyWrote
<1> QED BY <1>1, <1>2, <1>4, <1>5, <1>6, <1>7, <1>8, <1>9, CopyListed

LEMMA CopyIntoFolderKeeps ==
  ASSUME Safe, CopyIntoFolder
  PROVE  Promise'
<1>1. Entered /\ Top.dir /\ Outside /\ UNCHANGED fs
  BY DEF CopyIntoFolder
<1>2. stack # <<>> /\ Top.op = "copy" /\ Top.pc = "enter"
  BY <1>1 DEF Entered, Running
<1>3. CASE Return(-1) /\ Seen("refused")
  BY <1>1, <1>2, <1>3, StillReturned, SeenGrows
<1>4. ASSUME NEW l \in SUBSET Entries(fs, Top.in), Listing(fs, Top.in, l), Listed(l), Good'
      PROVE  Promise'
  <2>1. Grows
    BY <1>4, SeenGrows DEF Listing
  <2>2. Listed(Entries(fs', Top.in))
    BY <1>1, <1>4, FullListing
  <2>3. IsTree(fs')
    BY <1>1 DEF Safe, Sound, Shape
  <2>4. SameBut(fs, fs', Out)
    BY <1>1, SameSelf
  <2>5. /\ \A x \in cargo' : Kept(fs', clip', target', "copy", x)
        /\ FitsClip(fs', clip') /\ FitsAll(fs', stack)
    BY <1>1, <1>2, <1>4, <2>1, CopyStill
  <2>6. \A q : Marked(clip, q) => /\ IsFile(fs', q) <=> IsFile(fs, q)
                                  /\ IsFile(fs, q) => fs'[q] = fs[q]
    BY <1>1
  <2> QED BY <1>1, <1>2, <1>4, <2>1, <2>2, <2>3, <2>4, <2>5, <2>6, CopyListed
<1> QED BY <1>3, <1>4 DEF CopyIntoFolder, Promise

(* The file that stands in for the copy is not one that is done already. *)
LEMMA CopyOpened ==
  ASSUME NamesApart, Safe, stack # <<>>, Top.op = "copy", Top.pc = "enter", Outside,
         Grows, Good', IsFile(fs, Top.in), NEW e, fs' = With(fs, Out, e),
         stack' = Opened(stack)
  PROVE  Promise'
<1> DEFINE n == Len(stack)
<1>1. /\ phase = "copy" /\ UNCHANGED <<clip, phase, target, todo>> /\ Calls(stack)
      /\ IsPath(target) /\ target # clip.path /\ ~Lap(clip, target) /\ OnCourse
      /\ IsPath(clip.path) /\ CallOf("copy", clip, target, Top)
      /\ IsPath(Top.in) /\ Twin(clip.path, target, Top.in, Out)
  BY CopyGood
<1>2. SameBut(fs, fs', Out)
  BY SameWith
<1>3. /\ \A x \in cargo' : Kept(fs', clip', target', "copy", x)
      /\ FitsClip(fs', clip') /\ FitsAll(fs', stack)
      /\ \A q : Marked(clip, q) => /\ q # Out /\ (IsFile(fs', q) <=> IsFile(fs, q))
                                   /\ IsFile(fs, q) => fs'[q] = fs[q]
  BY <1>2, CopyWrote
<1>4. /\ Len(stack') = n /\ stack' # <<>>
      /\ \A i \in 1 .. n - 1 : stack'[i] = stack[i]
      /\ stack'[n] = At(Top, "data", Top.left)
  BY <1>1, DataIs DEF Top
<1>5. n \in Nat /\ n >= 1 /\ n \in 1 .. n
  BY <1>1, StackIsSeq
<1>6. /\ stack'[n].in = Top.in /\ stack'[n].dir = Top.dir
      /\ stack'[n].pc = "data" /\ stack'[n].left = Top.left
  BY <1>4 DEF At
<1> HIDE DEF n
<1>7. FitsAll(fs', stack')
  <2>1. FitsCall(fs', stack'[n])
    BY <1>3, <1>5, <1>6 DEF FitsCall, FitsAll, Top, n
  <2>2. \A i \in 1 .. Len(stack') : (i < n /\ stack'[i] = stack[i]) \/ FitsCall(fs', stack'[i])
    <3>1. \A i \in 1 .. Len(stack') : i = n \/ (i < n /\ i \in 1 .. n - 1)
      BY <1>4, <1>5
    <3> QED BY <3>1, <2>1, <1>4
  <2> QED BY <2>2, <1>3, <1>4, <1>5, FitsBelow DEF n
<1>8. Copied(fs', clip, target, todo, stack')
  <2>1. SUFFICES ASSUME NEW q, NEW r, Marked(clip, q), IsFile(fs', q),
                        ~Due(clip, todo, stack', q), Twin(clip.path, target, q, r)
                 PROVE  r \in DOMAIN fs' /\ fs'[r] = fs'[q]
    BY DEF Copied
  <2>2. IsFile(fs, q) /\ fs'[q] = fs[q]
    BY <2>1, <1>3
  <2>3. DueIn(Top, q) => DueIn(stack'[n], q)
    BY <1>6 DEF DueIn
  <2>4. ~DueIn(stack'[n], q)
    BY <2>1, <1>4, DueTop
  <2>5. ~Due(clip, todo, stack, q)
    BY <2>1, <2>3, <2>4, <1>1, <1>4, <1>5, DueBelow DEF Top, n
  <2>6. q # Top.in
    BY <2>4, <1>1, <1>6, InsideItself DEF DueIn
  <2>7. r # Out
    BY <2>1, <2>6, <1>1, TwinBack
  <2>8. r \in DOMAIN fs /\ fs[r] = fs[q]
    <3>1. Going(stack, ret)
      BY DEF Going, Top
    <3> QED BY <3>1, <2>1, <2>2, <2>5, <1>1 DEF OnCourse, Copied
  <2> QED BY <2>2, <2>7, <2>8, <1>2 DEF SameBut
<1>9. OnCourse'
  BY <1>1, <1>3, <1>7, <1>8 DEF OnCourse
<1> QED BY <1>1, <1>3, <1>9 DEF Promise

LEMMA CopyOpenKeeps ==
  ASSUME NamesApart, Safe, CopyOpen
  PROVE  Promise'
<1>1. Entered /\ Outside
  BY DEF CopyOpen
<1>2. stack # <<>> /\ Top.op = "copy" /\ Top.pc = "enter"
  BY <1>1 DEF Entered, Running
<1>3. CASE Return(-1) /\ Quiet /\ UNCHANGED fs
  BY <1>1, <1>2, <1>3, StillReturned, SeenGrows
<1>4. CASE Fails("open") /\ UNCHANGED fs
  BY <1>1, <1>2, <1>4, StillReturned, SeenGrows DEF Fails
<1>5. CASE IsFile(fs, Top.in) /\ Fails("create") /\ fs' = Without(fs, Out)
  <2>1. SUFFICES ASSUME Good' PROVE Promise'
    BY DEF Promise
  <2>2. Grows /\ Return(-1) /\ SameBut(fs, fs', Out)
    BY <1>5, SeenGrows, SameWithout DEF Fails
  <2>3. /\ \A x \in cargo' : Kept(fs', clip', target', "copy", x)
        /\ FitsClip(fs', clip') /\ FitsAll(fs', stack)
    BY <1>1, <1>2, <1>5, <2>1, <2>2, CopyWrote
  <2> QED BY <1>1, <1>2, <2>1, <2>2, <2>3, CopyReturned
<1>6. CASE /\ IsFile(fs, Top.in)
           /\ fs' = With(fs, Out, [of |-> fs[Top.in].of, whole |-> FALSE])
           /\ stack' = [stack EXCEPT ![Len(stack)].pc = "data"]
           /\ Quiet
  <2>1. SUFFICES ASSUME Good' PROVE Promise'
    BY DEF Promise
  <2>2. Grows /\ stack' = Opened(stack)
    BY <1>6, SeenGrows DEF Opened
  <2> QED BY <1>1, <1>2, <1>6, <2>1, <2>2, CopyOpened
<1> QED BY <1>3, <1>4, <1>5, <1>6 DEF CopyOpen

(* The call that returns well has copied its file. *)
LEMMA CopyWhole ==
  ASSUME NamesApart, Safe, stack # <<>>, Top.op = "copy", Top.pc = "data", Outside,
         Grows, Good', fs' = With(fs, Out, fs[Top.in]), Return(0)
  PROVE  Promise'
<1> DEFINE n == Len(stack)
           u == Front(stack)
<1>1. /\ OnCourse /\ Calls(stack) /\ IsTree(fs) /\ UNCHANGED clip
      /\ IsPath(clip.path) /\ IsPath(target) /\ CallOf("copy", clip, target, Top)
      /\ IsPath(Top.in) /\ Twin(clip.path, target, Top.in, Out)
  BY CopyGood
<1>2. IsFile(fs, Top.in) /\ Top.in # Out
  <2>1. Writing(stack) /\ Out = OutOf(Top)
    BY DEF Writing, Top, Out, OutOf
  <2> QED BY <2>1 DEF Safe, Sound, Written, Top
<1>3. SameBut(fs, fs', Out) /\ Out \in DOMAIN fs' /\ fs'[Out] = fs[Top.in]
  BY SameWith
<1>4. /\ \A x \in cargo' : Kept(fs', clip', target', "copy", x)
      /\ FitsClip(fs', clip') /\ FitsAll(fs', stack)
      /\ \A q : Marked(clip, q) => /\ q # Out /\ (IsFile(fs', q) <=> IsFile(fs, q))
                                   /\ IsFile(fs, q) => fs'[q] = fs[q]
  BY <1>2, <1>3, CopyWrote
<1>5. /\ Len(u) = n - 1 /\ n \in Nat /\ n >= 1 /\ \A i \in 1 .. n - 1 : u[i] = stack[i]
  BY <1>1, PoppedIs
<1> HIDE DEF u
<1>6. Copied(fs', clip, target, todo, u)
  <2>1. SUFFICES ASSUME NEW q, NEW r, Marked(clip, q), IsFile(fs', q),
                        ~Due(clip, todo, u, q), Twin(clip.path, target, q, r)
                 PROVE  r \in DOMAIN fs' /\ fs'[r] = fs'[q]
    BY DEF Copied
  <2>2. IsFile(fs, q) /\ fs'[q] = fs[q]
    BY <2>1, <1>4
  <2>3. CASE q = Top.in
    <3>1. r = Out
      BY <2>1, <2>3, <1>1, TwinOnly
    <3> QED BY <3>1, <2>2, <2>3, <1>3
  <2>4. CASE q # Top.in
    <3>1. ~Inside(q, Top.in)
      BY <2>2, <2>4, <1>1, <1>2, TreeUp DEF IsFile, IsDir
    <3>2. ~DueIn(Top, q)
      BY <3>1, <1>1 DEF DueIn, CallOf
    <3>3. Len(u) \in Nat /\ Len(u) >= n - 1
      BY <1>5
    <3>4. ~Due(clip, todo, stack, q)
      BY <2>1, <3>2, <3>3, <1>1, <1>5, DueBelow DEF Top
    <3>5. Going(stack, ret)
      BY DEF Going, Top
    <3>6. r \in DOMAIN fs /\ fs[r] = fs[q]
      BY <3>4, <3>5, <2>1, <2>2, <1>1 DEF OnCourse, Copied
    <3>7. r # Out
      BY <2>1, <2>4, <1>1, TwinBack
    <3> QED BY <3>6, <3>7, <2>2, <1>3 DEF SameBut
  <2> QED BY <2>3, <2>4
<1>7. 0 \in {0, -1}
  OBVIOUS
<1> QED BY <1>1, <1>4, <1>6, <1>7, CopyReturned DEF u

LEMMA CopyDataKeeps ==
  ASSUME NamesApart, Safe, CopyData
  PROVE  Promise'
<1>1. stack # <<>> /\ Top.op = "copy" /\ Top.pc = "data" /\ Outside
  BY DEF CopyData, Running
<1>2. SUFFICES ASSUME Good' PROVE Promise'
  BY DEF Promise
<1>3. IsFile(fs, Top.in)
  <2>1. Writing(stack)
    BY <1>1 DEF Writing, Top
  <2> QED BY <2>1 DEF Safe, Sound, Written, Top
<1>4. CASE fs' = With(fs, Out, fs[Top.in]) /\ Return(0) /\ Quiet
  BY <1>1, <1>2, <1>4, CopyWhole, SeenGrows
<1>5. ASSUME NEW k, Fails(k), SameBut(fs, fs', Out)
      PROVE  Promise'
  <2>1. Grows /\ Return(-1)
    BY <1>5, SeenGrows DEF Fails
  <2>2. /\ \A x \in cargo' : Kept(fs', clip', target', "copy", x)
        /\ FitsClip(fs', clip') /\ FitsAll(fs', stack)
    BY <1>1, <1>2, <1>3, <1>5, <2>1, CopyWrote
  <2> QED BY <1>1, <1>2, <2>1, <2>2, CopyReturned
<1>6. CASE Fails("data") /\ fs' = Without(fs, Out)
  BY <1>5, <1>6, SameWithout
<1>7. CASE Fails("clean") /\ UNCHANGED fs
  BY <1>5, <1>7, SameSelf
<1>8. CASE /\ Fails("close")
           /\ \E w \in BOOLEAN : fs' = With(fs, Out, [fs[Top.in] EXCEPT !.whole = w /\ @])
  <2>1. PICK w \in BOOLEAN : fs' = With(fs, Out, [fs[Top.in] EXCEPT !.whole = w /\ @])
    BY <1>8
  <2>2. SameBut(fs, fs', Out)
    BY <2>1, SameWith
  <2> QED BY <1>5, <1>8, <2>2
<1> QED BY <1>4, <1>6, <1>7, <1>8 DEF CopyData

LEMMA CopyChildKeeps ==
  ASSUME Safe, CopyChild
  PROVE  Promise'
<1>1. SUFFICES ASSUME Good' PROVE Promise'
  BY DEF Promise
<1>2. /\ stack # <<>> /\ Top.op = "copy" /\ Outside /\ UNCHANGED <<fs, ret>> /\ Grows
      /\ Top.pc = "list" \/ (Top.pc = "loop" /\ ret = 0)
  BY SeenGrows DEF CopyChild, Running
<1>3. PICK e \in Top.left :
        stack' = Append([stack EXCEPT ![Len(stack)].pc = "loop",
                                      ![Len(stack)].left = @ \ {e}],
                        Call("copy", Top.in, Out, e))
  BY DEF CopyChild
<1> DEFINE f == Call("copy", Top.in, Out, e)
           l == Top.left \ {e}
           n == Len(stack)
<1>4. /\ phase = "copy" /\ UNCHANGED <<clip, phase, target, todo>> /\ Calls(stack)
      /\ IsPath(target) /\ target # clip.path /\ ~Lap(clip, target) /\ OnCourse
      /\ CallOf("copy", clip, target, Top) /\ clip.items # {} /\ ClipOf(clip)
      /\ \A x \in cargo' : Kept(fs', clip', target', "copy", x)
      /\ FitsClip(fs', clip')
  BY <1>1, <1>2, CopyGood, CopyStill DEF Good
<1>5. Entry(e) /\ \A x \in l : Entry(x)
  BY <1>3, <1>4 DEF CallOf
<1>6. CallOf(phase, clip, target, f) /\ f.pc = "enter" /\ stack' = Descend(stack, l, f)
  <2>1. CallOf("copy", clip, target, Call("copy", Top.in, genLimObjName(Top.to), e))
    BY <1>4, <1>5, KidCopy
  <2>2. stack' = Descend(stack, l, f)
    BY <1>3 DEF Descend, Turned, Top
  <2>3. f.pc = "enter"
    BY DEF Call
  <2> QED BY <1>4, <2>1, <2>2, <2>3 DEF Out
<1>7. f.in = Top.in \o <<e.name>> /\ f.dir = e.dir /\ f.left = {}
  BY DEF Call
<1> HIDE DEF f
<1>8. /\ Len(stack') = n + 1
      /\ \A i \in 1 .. n - 1 : stack'[i] = stack[i]
      /\ stack'[n] = At(Top, "loop", l)
      /\ stack'[n + 1] = f
  BY <1>2, <1>5, <1>6, AfterChild DEF Safe, Sound
<1>9. /\ stack'[n].in = Top.in /\ stack'[n].dir = Top.dir /\ stack'[n].left = l
      /\ n \in Nat /\ n >= 1 /\ n \in 1 .. n
  <2>1. n \in Nat /\ n >= 1
    BY <1>2, <1>4, StackIsSeq
  <2>2. n \in 1 .. n
    BY <2>1
  <2>3. stack'[n] = At(Top, "loop", l)
    BY <1>8
  <2> HIDE DEF n, l
  <2>4. stack'[n].in = Top.in /\ stack'[n].dir = Top.dir /\ stack'[n].left = l
    BY <2>3 DEF At
  <2> QED BY <2>1, <2>2, <2>4
<1>10. FitsCall(fs, Top)
  BY <1>4, <1>9 DEF OnCourse, FitsAll, Top
<1>11. \A x \in Top.left : Fits(fs, Top.in \o <<x.name>>, x.dir)
  BY <1>10 DEF FitsCall
<1>12. FitsCall(fs, stack'[n]) /\ FitsCall(fs, stack'[n + 1])
  BY <1>3, <1>7, <1>8, <1>9, <1>10, <1>11 DEF FitsCall
<1> HIDE DEF n
<1>13. FitsAll(fs', stack')
  <2>1. \A i \in 1 .. Len(stack') : (i < n /\ stack'[i] = stack[i]) \/ FitsCall(fs, stack'[i])
    <3>1. \A i \in 1 .. Len(stack') : i = n \/ i = n + 1 \/ (i < n /\ i \in 1 .. n - 1)
      BY <1>8, <1>9
    <3> QED BY <3>1, <1>8, <1>12
  <2>2. Len(stack') \in Nat
    BY <1>8, <1>9
  <2> QED BY <2>1, <2>2, <1>2, <1>4, <1>9, FitsBelow DEF n, OnCourse
<1>14. Copied(fs', clip, target, todo, stack')
  <2>1. SUFFICES ASSUME NEW q, NEW r, Marked(clip, q), IsFile(fs, q),
                        ~Due(clip, todo, stack', q), Twin(clip.path, target, q, r)
                 PROVE  r \in DOMAIN fs /\ fs[r] = fs[q]
    BY <1>2 DEF Copied
  <2>2. ~Due(clip, todo, stack, q)
    <3>1. SUFFICES ASSUME Due(clip, todo, stack, q) PROVE FALSE
      OBVIOUS
    <3>2. Len(stack') \in Nat /\ Len(stack') >= n - 1
      BY <1>8, <1>9
    <3>3. DueIn(Top, q)
      BY <3>1, <3>2, <2>1, <1>2, <1>4, <1>8, DueBelow DEF Top, n
    <3>4. PICK x \in Top.left : Inside(q, Top.in \o <<x.name>>)
      BY <3>3, <1>2 DEF DueIn
    <3>5. CASE x = e
      <4>1. DueIn(stack'[n + 1], q)
        BY <3>4, <3>5, <1>6, <1>7, <1>8 DEF DueIn
      <4>2. stack' # <<>> /\ Len(stack') = n + 1
        BY <1>8, <1>9
      <4>3. Due(clip, todo, stack', q)
        BY <4>1, <4>2, DueTop
      <4> QED BY <4>3, <2>1
    <3>6. CASE x # e
      <4>1. x \in stack'[n].left
        BY <3>4, <3>6, <1>9
      <4>2. n \in 1 .. Len(stack')
        BY <1>8, <1>9
      <4>3. Inside(q, stack'[n].in \o <<x.name>>)
        BY <3>4, <1>9
      <4>4. Due(clip, todo, stack', q)
        BY <4>1, <4>2, <4>3 DEF Due
      <4> QED BY <4>4, <2>1
    <3> QED BY <3>5, <3>6
  <2>3. Going(stack, ret)
    BY <1>2 DEF Going, Top
  <2> QED BY <2>1, <2>2, <2>3, <1>4 DEF OnCourse, Copied
<1>15. OnCourse'
  BY <1>4, <1>13, <1>14 DEF OnCourse
<1> QED BY <1>4, <1>15 DEF Promise

LEMMA CopyFolderDoneKeeps ==
  ASSUME Safe, CopyFolderDone
  PROVE  Promise'
<1>1. SUFFICES ASSUME Good' PROVE Promise'
  BY DEF Promise
<1>2. /\ stack # <<>> /\ Top.op = "copy" /\ Outside /\ UNCHANGED fs /\ Grows /\ Return(ret)
      /\ Top.pc \in {"list", "loop"} /\ (Top.left = {} \/ ret < 0)
  BY SeenGrows DEF CopyFolderDone, Running
<1>3. ret \in {0, -1}
  BY DEF Safe, Sound, Shape, Control
<1>4. /\ OnCourse /\ Calls(stack) /\ UNCHANGED clip
      /\ \A x \in cargo' : Kept(fs', clip', target', "copy", x)
      /\ FitsClip(fs', clip') /\ FitsAll(fs', stack)
  BY <1>1, <1>2, CopyGood, CopyStill
<1>5. ASSUME ret = 0 PROVE Copied(fs', clip, target, todo, Front(stack))
  <2>1. SUFFICES ASSUME NEW q, NEW r, Marked(clip, q), IsFile(fs, q),
                        ~Due(clip, todo, Front(stack), q), Twin(clip.path, target, q, r)
                 PROVE  r \in DOMAIN fs /\ fs[r] = fs[q]
    BY <1>2 DEF Copied
  <2>2. /\ Len(Front(stack)) \in Nat /\ Len(Front(stack)) >= Len(stack) - 1
        /\ \A i \in 1 .. Len(stack) - 1 : Front(stack)[i] = stack[i]
    BY <1>2, <1>4, PoppedIs
  <2>3. ~DueIn(Top, q)
    <3>1. Top.left = {}
      BY <1>2, <1>5
    <3>2. Top.pc \notin {"enter", "data"}
      BY <1>2
    <3> QED BY <3>1, <3>2, Zenon DEF DueIn
  <2>4. ~Due(clip, todo, stack, q)
    BY <2>1, <2>2, <2>3, <1>2, <1>4, DueBelow DEF Top
  <2>5. Going(stack, ret)
    BY <1>5 DEF Going
  <2> QED BY <2>1, <2>4, <2>5, <1>4 DEF OnCourse, Copied
<1> QED BY <1>1, <1>2, <1>3, <1>4, <1>5, CopyReturned

LEMMA CopyKeeps ==
  ASSUME NamesApart, Safe, CopyStep
  PROVE  Promise'
BY CopyRefusedKeeps, CopyNewFolderKeeps, CopyIntoFolderKeeps, CopyNoFolderKeeps,
   CopyOpenKeeps, CopyDataKeeps, CopyChildKeeps, CopyFolderDoneKeeps DEF CopyStep

-----------------------------------------------------------------------------
(***************************************************************************)
(* The steps of a delete.                                                  *)
(***************************************************************************)
LEMMA KeptPurged ==
  ASSUME NEW f, NEW cl, ClipOf(cl), NEW t, IsPath(t), ~Lap(cl, t), NEW w, Marked(cl, w),
         NEW x, Kept(f, cl, t, "purge", x)
  PROVE  Kept(Without(f, w), cl, t, "purge", x)
<1> DEFINE g == Without(f, w)
<1>1. SameBut(f, g, w) /\ w \notin DOMAIN g
  BY SameWithout DEF Without
<1> HIDE DEF g
<1>2. PICK q : /\ Marked(cl, q) /\ (~IsFile(f, q) \/ HeldAt(f, x, q))
               /\ \E r : Twin(cl.path, t, q, r) /\ HeldAt(f, x, r)
  BY DEF Kept
<1>3. PICK r : Twin(cl.path, t, q, r) /\ HeldAt(f, x, r)
  BY <1>2
<1>4. r # w
  BY <1>2, <1>3, TwinUnmarked
<1>5. HeldAt(g, x, r)
  BY <1>1, <1>3, <1>4 DEF SameBut, HeldAt, IsFile
<1>6. ~IsFile(g, q) \/ HeldAt(g, x, q)
  BY <1>1, <1>2 DEF SameBut, HeldAt, IsFile
<1>7. Kept(g, cl, t, "purge", x)
  BY <1>2, <1>3, <1>5, <1>6 DEF Kept
<1> QED BY <1>7 DEF g

LEMMA DeleteWrites ==
  ASSUME DeleteStep
  PROVE  /\ stack # <<>> /\ Top.op = "delete" /\ Outside /\ Grows
         /\ UNCHANGED fs \/ fs' = Without(fs, Top.in)
<1>1. CASE DeleteFile
  BY <1>1, SeenGrows DEF DeleteFile, Running, Fails
<1>2. CASE DeleteFolder
  BY <1>2, SeenGrows DEF DeleteFolder, Running, Fails, Listing
<1>3. CASE DeleteChild
  BY <1>3, SeenGrows DEF DeleteChild, Running
<1>4. CASE DeleteFolderDone
  BY <1>4, SeenGrows DEF DeleteFolderDone, Running, Fails
<1> QED BY <1>1, <1>2, <1>3, <1>4 DEF DeleteStep

LEMMA DeleteKeeps ==
  ASSUME Safe, DeleteStep
  PROVE  Promise' /\ Rest'
<1>1. /\ stack # <<>> /\ Top.op = "delete" /\ Grows
      /\ UNCHANGED <<clip, phase, target, cargo>>
      /\ UNCHANGED fs \/ fs' = Without(fs, Top.in)
  BY DeleteWrites DEF Outside
<1>2. phase \in {"purge", "delete"}
  BY <1>1, DeletePhase DEF Safe, Sound
<1>3. CASE phase = "delete"
  <2>1. cargo' = {}
    BY <1>1, <1>3 DEF Safe, Rest
  <2> QED BY <2>1 DEF Promise, Rest, Good
<1>4. CASE phase = "purge"
  <2>1. clip.items # {} /\ ClipOf(clip) /\ Marked(clip, Top.in)
    BY <1>1, <1>4, TopCall DEF Safe, Sound, Shape, Control, CallOf
  <2>2. ASSUME Good'
        PROVE  /\ IsPath(target) /\ target # clip.path /\ ~Lap(clip, target)
               /\ \A x \in cargo : Kept(fs', clip, target, "purge", x)
    <3>1. Good
      BY <1>1, <2>2 DEF Good, Grows
    <3>2. /\ IsPath(target) /\ target # clip.path /\ ~Lap(clip, target)
          /\ \A x \in cargo : Kept(fs, clip, target, "purge", x)
      BY <1>4, <3>1 DEF Safe, Promise
    <3> QED BY <1>1, <2>1, <3>2, KeptPurged
  <2>3. Promise'
    BY <1>1, <1>4, <2>2 DEF Promise
  <2>4. Rest'
    BY <1>1, <1>4, <2>1 DEF Rest
  <2> QED BY <2>3, <2>4
<1> QED BY <1>2, <1>3, <1>4

-----------------------------------------------------------------------------
(***************************************************************************)
(* The loops of the browser.                                               *)
(***************************************************************************)
LEMMA EmptyStack ==
  ASSUME NEW s, s = <<>>
  PROVE  Len(s) = 0
OBVIOUS

(* Every file that is to be brought is somewhere. *)
LEMMA AllHeld ==
  ASSUME Safe, "short listing" \notin mishaps
  PROVE  \A x \in cargo : \E p \in DOMAIN fs : HeldAt(fs, x, p)
<1>1. CASE clip.items = {}
  BY <1>1 DEF Safe, Rest
<1>2. ASSUME clip.items # {}, NEW x \in cargo
      PROVE  \E p \in DOMAIN fs : HeldAt(fs, x, p)
  <2>1. Good
    BY <1>2 DEF Good
  <2>2. Kept(fs, clip, target, phase, x)
    BY <1>2, <2>1 DEF Safe, Promise
  <2> QED BY <2>2, KeptHeld
<1> QED BY <1>1, <1>2

\* A paste begins or stops, or a purge stops.
LEMMA KeptNow ==
  ASSUME NEW f, NEW cl, NEW t, NEW a, NEW b, b # "purge", NEW x, Kept(f, cl, t, a, x)
  PROVE  Kept(f, cl, t, b, x)
<1>1. PICK q : /\ Marked(cl, q)
               /\ \/ HeldAt(f, x, q)
                  \/ ~IsFile(f, q) /\ \E r : Twin(cl.path, t, q, r) /\ HeldAt(f, x, r)
  BY DEF Kept
<1> QED BY <1>1 DEF Kept

\* The purge begins: with nothing left to copy, all of it is copied.
LEMMA KeptPurge ==
  ASSUME NEW f, NEW cl, ClipOf(cl), cl.items # {}, NEW t, IsPath(t),
         Copied(f, cl, t, {}, <<>>), NEW x, Kept(f, cl, t, "copy", x)
  PROVE  Kept(f, cl, t, "purge", x)
<1>1. PICK q : /\ Marked(cl, q)
               /\ \/ HeldAt(f, x, q)
                  \/ ~IsFile(f, q) /\ \E r : Twin(cl.path, t, q, r) /\ HeldAt(f, x, r)
  BY DEF Kept
<1>2. CASE HeldAt(f, x, q)
  <2>1. IsPath(cl.path)
    BY DEF ClipOf
  <2>2. PICK e \in cl.items : Inside(q, Source(cl, e))
    BY <1>1 DEF Marked
  <2>3. /\ IsPath(q) /\ IsPath(Source(cl, e)) /\ Inside(Source(cl, e), cl.path)
        /\ Len(Source(cl, e)) = Len(cl.path) + 1
    BY <1>1, <2>1, Kid DEF ClipOf, Entry, Source, Marked
  <2>4. Inside(q, cl.path)
    BY <2>1, <2>2, <2>3, InsideInside
  <2>5. Len(q) > Len(cl.path)
    BY <2>1, <2>2, <2>3, InsideMeans, PathIsSeq
  <2>6. PICK r : Twin(cl.path, t, q, r)
    BY <2>1, <2>3, <2>4, <2>5, TwinExists
  <2>7. ~Due(cl, {}, <<>>, q)
    <3>1. Len(<<>>) = 0
      OBVIOUS
    <3>2. 1 .. Len(<<>>) = {}
      BY <3>1
    <3> QED BY <3>2, Zenon DEF Due
  <2>8. r \in DOMAIN f /\ f[r] = f[q]
    BY <1>1, <1>2, <2>6, <2>7 DEF Copied, HeldAt
  <2>9. HeldAt(f, x, r)
    BY <1>2, <2>8 DEF HeldAt, IsFile
  <2> QED BY <1>1, <1>2, <2>6, <2>9 DEF Kept
<1>3. CASE ~IsFile(f, q) /\ \E r : Twin(cl.path, t, q, r) /\ HeldAt(f, x, r)
  BY <1>1, <1>3 DEF Kept
<1> QED BY <1>1, <1>2, <1>3

LEMMA FirstKeeps ==
  ASSUME Safe, phase = "copy", stack = <<>>, ret = 0, Next1("copy", target),
         UNCHANGED <<fs, clip, target, cargo, mishaps>>
  PROVE  Promise'
<1>1. PICK e \in todo : /\ todo' = todo \ {e}
                        /\ Push(Call("copy", clip.path, target, e))
                        /\ UNCHANGED <<phase, ret>>
  BY DEF Next1
<1>2. e \in clip.items /\ ClipOf(clip) /\ Calls(stack)
  BY <1>1 DEF Safe, Sound, Shape, Control
<1> DEFINE f == Call("copy", clip.path, target, e)
<1>3. f.in = Source(clip, e) /\ f.dir = e.dir /\ f.left = {} /\ f.pc = "enter"
  BY DEF Call, Source
<1>4. stack' = Append(stack, f)
  BY <1>1 DEF Push
<1> HIDE DEF f
<1>5. Len(stack) = 0 /\ Len(stack') = 1 /\ stack' # <<>> /\ stack'[1] = f
  <2>1. Len(stack) = 0
    BY Zenon, EmptyStack
  <2>2. /\ Len(stack') = Len(stack) + 1 /\ stack' # <<>> /\ stack'[Len(stack) + 1] = f
    BY <1>2, <1>4, PushedIs
  <2> QED BY <2>1, <2>2
<1>6. SUFFICES ASSUME Good' PROVE Promise'
  BY DEF Promise
<1>7. /\ IsPath(target) /\ target # clip.path /\ ~Lap(clip, target) /\ OnCourse
      /\ \A x \in cargo : Kept(fs, clip, target, "copy", x)
  <2>1. Good
    BY <1>6 DEF Good
  <2> QED BY <2>1 DEF Safe, Promise
<1>8. FitsAll(fs, stack')
  <2>1. FitsCall(fs, f)
    BY <1>2, <1>3, <1>7 DEF FitsCall, OnCourse, FitsClip
  <2> QED BY <2>1, <1>5 DEF FitsAll
<1>9. Copied(fs, clip, target, todo', stack')
  <2>1. SUFFICES ASSUME NEW q, NEW r, Marked(clip, q), IsFile(fs, q),
                        ~Due(clip, todo', stack', q), Twin(clip.path, target, q, r)
                 PROVE  r \in DOMAIN fs /\ fs[r] = fs[q]
    BY DEF Copied
  <2>2. ~Due(clip, todo, stack, q)
    <3>1. SUFFICES ASSUME NEW d \in todo, Inside(q, Source(clip, d)) PROVE FALSE
      BY <1>5 DEF Due
    <3>2. CASE d = e
      <4>1. DueIn(stack'[Len(stack')], q)
        BY <3>1, <3>2, <1>3, <1>5 DEF DueIn
      <4>2. Due(clip, todo', stack', q)
        BY <4>1, <1>5, DueTop
      <4> QED BY <4>2, <2>1
    <3>3. CASE d # e
      BY <3>1, <3>3, <2>1, <1>1 DEF Due
    <3> QED BY <3>2, <3>3
  <2>3. Going(stack, ret)
    BY DEF Going
  <2> QED BY <2>1, <2>2, <2>3, <1>7 DEF OnCourse, Copied
<1>10. OnCourse'
  BY <1>7, <1>8, <1>9 DEF OnCourse
<1> QED BY <1>1, <1>7, <1>10 DEF Promise

LEMMA FinishKeeps ==
  ASSUME Safe, phase \in {"copy", "purge"}, Finish,
         UNCHANGED <<fs, clip, target, cargo, mishaps>>
  PROVE  Promise' /\ Rest'
<1>1. phase' = "idle"
  BY DEF Finish
<1>2. clip.items # {}
  BY DEF Safe, Sound, Shape, Control
<1>3. Good => /\ IsPath(target) /\ target # clip.path /\ ~Lap(clip, target)
              /\ \A x \in cargo : Kept(fs, clip, target, "idle", x)
  BY KeptNow DEF Safe, Promise
<1>4. Promise'
  BY <1>1, <1>3 DEF Promise, Good
<1> QED BY <1>1, <1>2, <1>4 DEF Rest

LEMMA PasteLoopKeeps ==
  ASSUME Safe, PasteLoop
  PROVE  Promise' /\ Rest'
<1>1. /\ phase = "copy" /\ stack = <<>> /\ UNCHANGED <<fs, clip, target, cargo, mishaps>>
      /\ clip.items # {} /\ ClipOf(clip) /\ IsPath(target)
  BY DEF PasteLoop, Safe, Sound, Shape, Control
<1>2. CASE Finish
  BY <1>1, <1>2, FinishKeeps
<1>3. CASE ret = 0 /\ Next1("copy", target)
  <2>1. phase' = "copy"
    BY <1>1, <1>3 DEF Next1
  <2> QED BY <1>1, <1>3, <2>1, FirstKeeps DEF Rest
<1>4. CASE ret = 0 /\ todo = {} /\ phase' = "purge"
  <2>1. ASSUME Good
        PROVE  /\ IsPath(target) /\ target # clip.path /\ ~Lap(clip, target)
               /\ \A x \in cargo : Kept(fs, clip, target, "purge", x)
    <3>1. /\ target # clip.path /\ ~Lap(clip, target) /\ OnCourse
          /\ \A x \in cargo : Kept(fs, clip, target, "copy", x)
      BY <1>1, <2>1 DEF Safe, Promise
    <3>2. Copied(fs, clip, target, {}, <<>>)
      BY <1>1, <1>4, <3>1 DEF OnCourse, Going
    <3> QED BY <1>1, <3>1, <3>2, KeptPurge
  <2>2. Promise'
    BY <1>1, <1>4, <2>1 DEF Promise, Good
  <2> QED BY <1>1, <1>4, <2>2 DEF Rest
<1> QED BY <1>2, <1>3, <1>4 DEF PasteLoop

LEMMA PurgeLoopKeeps ==
  ASSUME Safe, PurgeLoop
  PROVE  Promise' /\ Rest'
<1>1. /\ phase = "purge" /\ stack = <<>> /\ UNCHANGED <<fs, target, cargo, mishaps>>
      /\ clip.items # {}
  BY DEF PurgeLoop, Safe, Sound, Shape, Control
<1>2. CASE Finish /\ UNCHANGED clip
  BY <1>1, <1>2, FinishKeeps
<1>3. CASE Next1("delete", <<>>) /\ UNCHANGED clip
  <2>1. phase' = "purge"
    BY <1>1, <1>3 DEF Next1
  <2>2. Promise'
    BY <1>1, <1>3, <2>1 DEF Safe, Promise, Good
  <2> QED BY <1>1, <1>3, <2>1, <2>2 DEF Rest
<1>4. CASE Finish /\ clip' = [clip EXCEPT !.items = {}]
  <2>1. clip'.items = {} /\ phase' = "idle"
    BY <1>4 DEF Finish, Safe, Sound, Shape, Control, ClipOf
  <2>2. Promise'
    BY <2>1 DEF Promise, Good
  <2>3. Rest'
    BY <1>1, <2>1, AllHeld DEF Rest
  <2> QED BY <2>2, <2>3
<1> QED BY <1>2, <1>3, <1>4 DEF PurgeLoop

-----------------------------------------------------------------------------
(***************************************************************************)
(* What the user does.                                                     *)
(***************************************************************************)
LEMMA NoCargo ==
  ASSUME cargo' = {}
  PROVE  Promise' /\ Rest'
BY DEF Promise, Rest, Good

LEMMA HeldGrown ==
  ASSUME NEW f, NEW w, w \notin DOMAIN f, NEW x, NEW p, HeldAt(f, x, p)
  PROVE  HeldAt(With(f, w, Folder), x, p)
BY DEF HeldAt, IsFile, With

LEMMA KeptGrown ==
  ASSUME NEW f, NEW w, w \notin DOMAIN f, NEW cl, NEW t, NEW ph, ph # "purge", NEW x,
         Kept(f, cl, t, ph, x)
  PROVE  Kept(With(f, w, Folder), cl, t, ph, x)
<1> DEFINE g == With(f, w, Folder)
<1>1. PICK q : /\ Marked(cl, q)
               /\ \/ HeldAt(f, x, q)
                  \/ ~IsFile(f, q) /\ \E r : Twin(cl.path, t, q, r) /\ HeldAt(f, x, r)
  BY DEF Kept
<1>2. ~IsFile(f, q) => ~IsFile(g, q)
  BY DEF IsFile, With, Folder
<1>3. \A p : HeldAt(f, x, p) => HeldAt(g, x, p)
  BY HeldGrown
<1> HIDE DEF g
<1>4. Kept(g, cl, t, ph, x)
  BY <1>1, <1>2, <1>3 DEF Kept
<1> QED BY <1>4 DEF g

LEMMA NewDirKeeps ==
  ASSUME Safe, NewDir
  PROVE  Promise' /\ Rest'
<1>1. phase = "idle" /\ UNCHANGED <<clip, phase, target, cargo, mishaps>>
  BY DEF NewDir, Another, Idle
<1>2. PICK w : w \notin DOMAIN fs /\ fs' = With(fs, w, Folder)
  BY DEF NewDir
<1>3. Good => /\ IsPath(target) /\ target # clip.path /\ ~Lap(clip, target)
              /\ \A x \in cargo : Kept(fs', clip, target, "idle", x)
  BY <1>1, <1>2, KeptGrown DEF Safe, Promise
<1>4. Promise'
  BY <1>1, <1>3 DEF Promise, Good
<1>5. ASSUME "short listing" \notin mishaps, NEW x \in cargo
      PROVE  \E p \in DOMAIN fs' : HeldAt(fs', x, p)
  <2>1. PICK p \in DOMAIN fs : HeldAt(fs, x, p)
    BY <1>5, AllHeld
  <2>2. HeldAt(fs', x, p)
    BY <1>2, <2>1, HeldGrown
  <2> QED BY <2>2 DEF HeldAt, IsFile
<1>6. Rest'
  BY <1>1, <1>5 DEF Rest
<1> QED BY <1>4, <1>6

\* The files a paste sets out from are at their sources.
LEMMA FirstKept ==
  ASSUME NEW cl, ClipOf(cl), IsTree(fs), NEW t, NEW x \in Cargo(Sources(cl.path, cl.items))
  PROVE  Kept(fs, cl, t, "copy", x)
<1>1. PICK q \in Under(fs, Sources(cl.path, cl.items)) :
        IsFile(fs, q) /\ fs[q].whole /\ x = fs[q].of
  BY DEF Cargo
<1>2. q \in DOMAIN fs /\ \E e \in cl.items : Inside(q, Source(cl, e))
  BY <1>1 DEF Under, Sources, Source
<1>3. Marked(cl, q)
  BY <1>2, TreePath DEF Marked
<1>4. fs[q] \in Bytes
  BY <1>1, <1>2, FileOrFolder
<1>5. fs[q].whole = TRUE
  BY <1>1, <1>4, BytesAreFiles, Zenon
<1>6. fs[q] = [of |-> fs[q].of, whole |-> fs[q].whole]
  BY <1>4, BytesAreFiles
<1>7. HeldAt(fs, x, q)
  BY <1>1, <1>5, <1>6, Zenon DEF HeldAt
<1> QED BY <1>3, <1>7 DEF Kept

LEMMA PasteKeeps ==
  ASSUME Safe, Paste
  PROVE  Promise' /\ Rest'
<1>1. /\ phase = "idle" /\ stack = <<>> /\ IsTree(fs) /\ ClipOf(clip) /\ clip.items # {}
      /\ UNCHANGED <<fs, clip, stack, mishaps>> /\ phase' = "copy" /\ todo' = clip.items
      /\ target' \in Folders /\ target' # clip.path
      /\ cargo' = IF Overlap(target') \/ \E e \in clip.items : Stale(e) THEN {}
                  ELSE Cargo(Sources(clip.path, clip.items))
                         \union (IF target' = target THEN cargo ELSE {})
  BY IdleIs DEF Paste, Safe, Sound, Shape, Control
<1>2. CASE Overlap(target') \/ \E e \in clip.items : Stale(e)
  BY <1>1, <1>2, NoCargo
<1>3. CASE ~Overlap(target') /\ ~\E e \in clip.items : Stale(e)
  <2>1. IsPath(target') /\ ~Lap(clip, target')
    BY <1>1, <1>3, FolderIs, OverlapIs DEF Safe
  <2>2. ASSUME Good', NEW x \in cargo'
        PROVE  Kept(fs, clip, target', "copy", x)
    <3>1. CASE x \in Cargo(Sources(clip.path, clip.items))
      BY <1>1, <3>1, FirstKept
    <3>2. CASE target' = target /\ x \in cargo
      <4>1. Good
        BY <1>1, <2>2, <3>2 DEF Good
      <4>2. Kept(fs, clip, target, "idle", x)
        BY <1>1, <3>2, <4>1 DEF Safe, Promise
      <4> QED BY <3>2, <4>2, KeptNow
    <3> QED BY <1>1, <1>3, <2>2, <3>1, <3>2
  <2>3. FitsClip(fs, clip)
    BY <1>3 DEF FitsClip, Fits, Stale, Source
  <2>4. FitsAll(fs, stack')
    BY <1>1, EmptyStack DEF FitsAll
  <2>5. Copied(fs, clip, target', clip.items, stack')
    BY DEF Copied, Due, Marked
  <2>6. Promise'
    BY <1>1, <2>1, <2>2, <2>3, <2>4, <2>5 DEF Promise, OnCourse
  <2>7. Rest'
    BY <1>1 DEF Rest
  <2> QED BY <2>6, <2>7
<1> QED BY <1>2, <1>3

LEMMA PowerCycleKeeps ==
  ASSUME Safe, PowerCycle
  PROVE  Promise' /\ Rest'
<1>1. clip'.items = {} /\ phase' = "idle" /\ UNCHANGED <<fs, cargo>> /\ Grows
  BY SeenGrows DEF PowerCycle, NoClip
<1>2. Promise'
  BY <1>1 DEF Promise, Good
<1>3. Rest'
  BY <1>1, AllHeld DEF Rest, Grows
<1> QED BY <1>2, <1>3

-----------------------------------------------------------------------------
LEMMA StepKeeps ==
  ASSUME NamesApart, Safe, [Next]_vars
  PROVE  Promise' /\ Rest'
<1>1. CASE CopyStep
  <2>1. stack # <<>> /\ Top.op = "copy" /\ Outside
    BY <1>1 DEF CopyStep, CopyRefused, CopyNewFolder, CopyIntoFolder, CopyNoFolder,
                CopyOpen, CopyData, CopyChild, CopyFolderDone, Entered, Running
  <2>2. phase = "copy" /\ clip.items # {} /\ UNCHANGED <<clip, phase>>
    BY <2>1, CopyPhase DEF Outside, Safe, Sound
  <2> QED BY <1>1, <2>2, CopyKeeps DEF Rest
<1>2. CASE DeleteStep
  BY <1>2, DeleteKeeps
<1>3. CASE PasteLoop \/ PurgeLoop \/ Paste \/ NewDir \/ PowerCycle
  BY <1>3, PasteLoopKeeps, PurgeLoopKeeps, PasteKeeps, NewDirKeeps, PowerCycleKeeps
<1>4. CASE CopyOrCut \/ Delete \/ Rename
  BY <1>4, NoCargo DEF CopyOrCut, Delete, Rename
<1>5. CASE DeleteLoop
  BY <1>5, NoCargo DEF DeleteLoop, Safe, Rest
<1>6. CASE UNCHANGED vars
  BY <1>6 DEF vars, Safe, Promise, Rest, Good, OnCourse
<1> QED BY <1>1, <1>2, <1>3, <1>4, <1>5, <1>6 DEF Next, Work

(* What a paste set out to bring is at its source or in the target, all of *)
(* it: whatever fails, is refused, is tried again or is cut short by the   *)
(* power (src/filer_copy.c:774, :815, src/filer_browser.c:2171).           *)
THEOREM MovesSafe ==
  ASSUME NamesApart
  PROVE  Spec => []Safe
<1>1. Init => Safe
  BY InitSound DEF Init, Safe, Promise, Rest, Good
<1>2. Safe /\ [Next]_vars => Safe'
  BY StepKeeps, StepSound DEF Safe
<1> QED BY <1>1, <1>2, PTL DEF Spec

(* On devices that keep two names apart no sequence of copies, moves,      *)
(* failures, refusals, retries and losses of power loses a file that a     *)
(* paste set out to bring (src/filer_copy.c:774, :815).                    *)
THEOREM NoMoveLoses ==
  ASSUME NamesApart
  PROVE  Spec => []NoFileLost
<1>1. Safe => NoFileLost
  BY AllHeld DEF NoFileLost, HeldAt, IsFile, Holds
<1> QED BY <1>1, MovesSafe, PTL

(* On such devices the sources of a move are deleted only while all they   *)
(* held is whole in the target (src/filer_browser.c:2171).                 *)
THEOREM NoEarlyPurge ==
  ASSUME NamesApart
  PROVE  Spec => []PurgeOnlyCopied
<1>1. Safe => PurgeOnlyCopied
  <2>1. SUFFICES ASSUME Safe, phase = "purge", "short listing" \notin mishaps, NEW x \in cargo
                 PROVE  \E p \in Under(fs, {target}) : Holds(x, p)
    BY DEF PurgeOnlyCopied
  <2>2. clip.items # {} /\ IsPath(target) /\ IsPath(clip.path)
    BY <2>1 DEF Safe, Sound, Shape, Control, ClipOf
  <2>3. Kept(fs, clip, target, "purge", x)
    BY <2>1, <2>2 DEF Safe, Promise, Good
  <2>4. PICK q, r : Twin(clip.path, target, q, r) /\ HeldAt(fs, x, r)
    BY <2>3 DEF Kept
  <2>5. Inside(r, target)
    <3>1. /\ IsPath(r) /\ IsPath(q) /\ Len(r) = Len(target) + (Len(q) - Len(clip.path))
          /\ Len(q) > Len(clip.path) /\ \A i \in 1 .. Len(target) : r[i] = target[i]
      BY <2>4 DEF Twin
    <3>2. Len(target) \in Nat /\ Len(q) \in Nat /\ Len(clip.path) \in Nat
      BY <2>2, <3>1, PathIsSeq
    <3> QED BY <2>2, <3>1, <3>2, InsideMeans
  <2> QED BY <2>4, <2>5 DEF HeldAt, IsFile, Under, Holds
<1> QED BY <1>1, MovesSafe, PTL
=============================================================================
