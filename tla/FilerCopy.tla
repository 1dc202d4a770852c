----------------------------- MODULE FilerCopy -----------------------------
(***************************************************************************)
(* Copy, move and delete in the file browser: the clipboard and the paste  *)
(* of src/filer_browser.c, the recursive copy of src/filer_copy.c, delete, *)
(* newdir and Rename of src/filer_actions.c.  The program is sequential:   *)
(* what makes it hard is a recursion in which every call may fail, and a   *)
(* clipboard that outlives the files it names.                             *)
(*                                                                         *)
(* A file is an identifier, a path a sequence of names whose first is the  *)
(* device, and a file is whole when it holds all of its bytes.  Pasting in *)
(* normal mode is here; rename mode and the .psu image formats are not.    *)
(***************************************************************************)
EXTENDS Integers, Sequences, FiniteSets, SequencesExt

CONSTANTS
  Names,        \* the names the user may give to a file or folder
  Files,        \* contents
  NoFile,       \* what a folder holds instead
  Trees,        \* the file systems a session may start with
  Limited,      \* device -> name -> name, as genLimObjName shortens it
  MAX_RECURSE,  \* 16 in the code
  Faults,       \* the kinds of failure that may happen
  MaxJobs       \* operations of the user in a session

ASSUME CopyAssumption ==
  /\ MAX_RECURSE \in Nat \ {0}
  /\ MaxJobs \in Nat
  /\ NoFile \notin Files
  /\ Faults \subseteq {"stack", "mkdir", "list", "open", "create", "data",
                       "clean", "close", "remove"}

VARIABLES
  fs,       \* path -> entry
  clip,     \* clipPath, clipFiles and browser_cut
  phase,    \* what the browser is doing
  target,   \* the folder pasted into, or deleted from
  todo,     \* the entries the loop of the browser has not reached
  stack,    \* the calls of copy or of delete under way
  ret,      \* the result of the call that returned last
  jobs,     \* operations so far, for the bound
  cargo,    \* history: the whole files the pastes of this clip were to bring over
  mishaps   \* history: the failures after which less can be promised

vars == <<fs, clip, phase, target, todo, stack, ret, jobs, cargo, mishaps>>

Folder   == [of |-> NoFile, whole |-> TRUE]
Bytes    == [of : Files, whole : BOOLEAN]
NoClip   == [path |-> <<>>, items |-> {}, cut |-> FALSE]
Idle     == phase = "idle"
Top      == stack[Len(stack)]

(***************************************************************************)
(* The file systems, external to the program.                              *)
(***************************************************************************)
Devices  == DOMAIN Limited
AllNames == UNION {DOMAIN Limited[d] : d \in Devices}
IsPath(p) ==
  /\ p \in Seq(Devices \union AllNames) /\ p # <<>>
  /\ p[1] \in Devices
  /\ \A i \in 2 .. Len(p) : p[i] \in AllNames
IsDir(f, p)  == p \in DOMAIN f /\ f[p].of = NoFile
IsFile(f, p) == p \in DOMAIN f /\ f[p].of # NoFile
Inside(p, q) == IsPrefix(q, p)
Room(f, p)   == Len(p) > 1 /\ IsDir(f, Front(p))
With(f, p, e) == [q \in DOMAIN f \union {p} |-> IF q = p THEN e ELSE f[q]]
Without(f, p) == [q \in DOMAIN f \ {p} |-> f[q]]
Entries(f, p) ==
  {[name |-> Last(q), dir |-> IsDir(f, q)] :
     q \in {r \in DOMAIN f : Len(r) = Len(p) + 1 /\ Inside(r, p)}}
Under(f, P) == {q \in DOMAIN f : \E p \in P : Inside(q, p)}
IsTree(f) ==
  \A q \in DOMAIN f :
    /\ IsPath(q)
    /\ f[q] \in Bytes \/ f[q] = Folder
    /\ \A n \in 1 .. Len(q) - 1 : IsDir(f, SubSeq(q, 1, n))

\* A session starts with files that are what they are: all of them whole.
ASSUME TreeAssumption ==
  /\ \A d \in Devices : Limited[d] \in [AllNames -> AllNames]
  /\ Names \subseteq AllNames
  /\ \A f \in Trees : IsTree(f) /\ \A p \in DOMAIN f : f[p].whole

May(kind)  == kind \in Faults
Seen(kind) ==
  mishaps' = mishaps \union (CASE kind = "list" -> {"short listing"}
                               [] kind \in {"clean", "close", "power"} -> {"partial file"}
                               [] OTHER -> {})
Quiet      == UNCHANGED mishaps

\* A folder is read to its first error, which passes for the end.
Listing(f, p, l) ==
  \/ l = Entries(f, p) /\ Quiet
  \/ May("list") /\ l \in SUBSET Entries(f, p) /\ l # Entries(f, p) /\ Seen("list")

genLimObjName(p) == [p EXCEPT ![Len(p)] = Limited[p[1]][@]]

(***************************************************************************)
(* Calls.                                                                  *)
(***************************************************************************)
Call(op, in, out, e) ==
  [op |-> op, in |-> in \o <<e.name>>, to |-> out \o <<e.name>>,
   dir |-> e.dir, pc |-> "enter", left |-> {}]

Push(frame)   == stack' = Append(stack, frame)
Return(r)     == stack' = Front(stack) /\ ret' = r
Listed(l)     == stack' = [stack EXCEPT ![Len(stack)].pc = "list",
                                        ![Len(stack)].left = l]
Fails(kind)   == May(kind) /\ Seen(kind) /\ Return(-1)
Outside       == UNCHANGED <<clip, phase, target, todo, jobs, cargo>>
Running(op, pc) == stack # <<>> /\ Top.op = op /\ Top.pc = pc

\* The name limit is applied to the destination of a copy only once the
\* source and the destination have been compared.
Out == genLimObjName(Top.to)

(***************************************************************************)
(* copy(): the depth limit, the device stacks and mounts, and a copy onto  *)
(* itself, which is a success.                                             *)
(***************************************************************************)
\* Variant: the limit is compared with the level itself.
EnterOneMore == Len(stack) <= MAX_RECURSE

CanEnter == Len(stack) < MAX_RECURSE

CopyRefused ==
  /\ Running("copy", "enter")
  /\ \/ ~CanEnter /\ Return(-1) /\ Quiet
     \/ CanEnter /\ Fails("stack")
     \/ CanEnter /\ Top.in = Top.to /\ Return(0) /\ Quiet
  /\ Outside /\ UNCHANGED fs

Entered == Running("copy", "enter") /\ CanEnter /\ Top.in # Top.to

\* A new folder.  ret is what newdir answered.
CopyNewFolder ==
  /\ Entered /\ Top.dir
  /\ Out \notin DOMAIN fs /\ Room(fs, Out)
  /\ fs' = With(fs, Out, Folder)
  /\ \E l \in SUBSET Entries(fs', Top.in) : Listing(fs', Top.in, l) /\ Listed(l)
  /\ ret' = 0
  /\ Outside

\* The folder exists: the user is asked, and ret is what the search for a
\* game title answered.
CopyIntoFolder ==
  /\ Entered /\ Top.dir /\ IsDir(fs, Out)
  /\ \/ Return(-1) /\ Seen("refused")
     \/ /\ \E l \in SUBSET Entries(fs, Top.in) : Listing(fs, Top.in, l) /\ Listed(l)
        /\ ret' \in {0, -1}
  /\ Outside /\ UNCHANGED fs

CopyNoFolder ==
  /\ Entered /\ Top.dir
  /\ \/ ~IsDir(fs, Out) /\ Fails("mkdir")
     \/ (IsFile(fs, Out) \/ ~Room(fs, Out)) /\ Return(-1) /\ Quiet
  /\ Outside /\ UNCHANGED fs

\* Variant: the old file is removed first.
OpenLast ==
  /\ Entered /\ ~Top.dir
  /\ Room(fs, Out) /\ ~IsDir(fs, Out)
  /\ \/ ~IsFile(fs, Top.in) /\ Return(-1) /\ Quiet /\ fs' = Without(fs, Out)
     \/ /\ IsFile(fs, Top.in)
        /\ fs' = With(fs, Out, [of |-> fs[Top.in].of, whole |-> FALSE])
        /\ stack' = [stack EXCEPT ![Len(stack)].pc = "data"]
        /\ Quiet /\ UNCHANGED ret
  /\ Outside

\* The source is opened before the old file of that name is removed.
CopyOpen ==
  /\ Entered /\ ~Top.dir
  /\ \/ ~IsFile(fs, Top.in) /\ Return(-1) /\ Quiet /\ UNCHANGED fs
     \/ IsFile(fs, Top.in) /\ Fails("open") /\ UNCHANGED fs
     \/ /\ IsFile(fs, Top.in) /\ (IsDir(fs, Out) \/ ~Room(fs, Out))
        /\ Return(-1) /\ Quiet /\ UNCHANGED fs
     \/ /\ IsFile(fs, Top.in) /\ Room(fs, Out) /\ ~IsDir(fs, Out)
        /\ \/ /\ Fails("create")
              /\ fs' = Without(fs, Out)
           \/ /\ fs' = With(fs, Out, [of |-> fs[Top.in].of, whole |-> FALSE])
              /\ stack' = [stack EXCEPT ![Len(stack)].pc = "data"]
              /\ Quiet /\ UNCHANGED ret
  /\ Outside

\* Variant: a copy that stops half way leaves what it wrote.
DataLeft ==
  /\ Running("copy", "data")
  /\ \/ fs' = With(fs, Out, fs[Top.in]) /\ Return(0) /\ Quiet
     \/ Fails("data") /\ UNCHANGED fs
  /\ Outside

\* The chunks, the close and the attributes.  A short read or write, or the
\* user's wish, removes the new file; a failed close does not.
CopyData ==
  /\ Running("copy", "data")
  /\ \/ fs' = With(fs, Out, fs[Top.in]) /\ Return(0) /\ Quiet
     \/ Fails("data") /\ fs' = Without(fs, Out)
     \/ May("data") /\ Fails("clean") /\ UNCHANGED fs
     \/ /\ Fails("close")
        /\ \E w \in BOOLEAN : fs' = With(fs, Out, [fs[Top.in] EXCEPT !.whole = w /\ @])
  /\ Outside

\* Variant: the loop does not move on to the next entry.
SameChild ==
  /\ \/ Running("copy", "list")
     \/ Running("copy", "loop") /\ ret = 0
  /\ \E e \in Top.left :
       stack' = Append([stack EXCEPT ![Len(stack)].pc = "loop"],
                       Call("copy", Top.in, Out, e))
  /\ Quiet /\ Outside /\ UNCHANGED <<fs, ret>>

\* The children, until one fails.
CopyChild ==
  /\ \/ Running("copy", "list")
     \/ Running("copy", "loop") /\ ret = 0
  /\ \E e \in Top.left :
       stack' = Append([stack EXCEPT ![Len(stack)].pc = "loop",
                                     ![Len(stack)].left = @ \ {e}],
                       Call("copy", Top.in, Out, e))
  /\ Quiet /\ Outside /\ UNCHANGED <<fs, ret>>

CopyFolderDone ==
  /\ Running("copy", "list") \/ Running("copy", "loop")
  /\ Top.left = {} \/ (Top.pc = "loop" /\ ret < 0)
  /\ Return(ret) /\ Quiet /\ Outside /\ UNCHANGED fs

CopyStep == CopyRefused \/ CopyNewFolder \/ CopyIntoFolder \/ CopyNoFolder
            \/ CopyOpen \/ CopyData \/ CopyChild \/ CopyFolderDone

(***************************************************************************)
(* delete(): what a folder lists, then the folder; no limit of depth.      *)
(***************************************************************************)
DeleteFile ==
  /\ Running("delete", "enter") /\ ~Top.dir
  /\ \/ Fails("stack") /\ UNCHANGED fs
     \/ /\ ~IsFile(fs, Top.in) \/ May("remove")
        /\ Return(-1) /\ Quiet /\ UNCHANGED fs
     \/ IsFile(fs, Top.in) /\ fs' = Without(fs, Top.in) /\ Return(0) /\ Quiet
  /\ Outside

DeleteFolder ==
  /\ Running("delete", "enter") /\ Top.dir
  /\ \/ Fails("stack")
     \/ /\ \E l \in SUBSET Entries(fs, Top.in) : Listing(fs, Top.in, l) /\ Listed(l)
        /\ UNCHANGED ret
  /\ Outside /\ UNCHANGED fs

DeleteChild ==
  /\ \/ Running("delete", "list")
     \/ Running("delete", "loop") /\ ret = 0
  /\ \E e \in Top.left :
       stack' = Append([stack EXCEPT ![Len(stack)].pc = "loop",
                                     ![Len(stack)].left = @ \ {e}],
                       Call("delete", Top.in, <<>>, e))
  /\ Quiet /\ Outside /\ UNCHANGED <<fs, ret>>

DeleteFolderDone ==
  /\ Running("delete", "list") \/ Running("delete", "loop")
  /\ \/ Top.pc = "loop" /\ ret < 0 /\ Return(-1) /\ Quiet /\ UNCHANGED fs
     \/ /\ Top.left = {} /\ (Top.pc = "loop" => ret = 0)
        /\ \/ Fails("remove") /\ UNCHANGED fs
           \/ /\ ~IsDir(fs, Top.in) \/ Entries(fs, Top.in) # {}
              /\ Return(-1) /\ Quiet /\ UNCHANGED fs
           \/ /\ IsDir(fs, Top.in) /\ Entries(fs, Top.in) = {}
              /\ fs' = Without(fs, Top.in) /\ Return(0) /\ Quiet
  /\ Outside

DeleteStep == DeleteFile \/ DeleteFolder \/ DeleteChild \/ DeleteFolderDone

(***************************************************************************)
(* The browser.                                                            *)
(***************************************************************************)
Another == Idle /\ jobs < MaxJobs /\ jobs' = jobs + 1
Chosen(p) == {I \in SUBSET Entries(fs, p) : I # {}}
Folders   == {p \in DOMAIN fs : IsDir(fs, p)}

CopyOrCut ==
  /\ Another
  /\ \E p \in Folders, cut \in BOOLEAN : \E I \in Chosen(p) :
       clip' = [path |-> p, items |-> I, cut |-> cut]
  /\ cargo' = {}
  /\ UNCHANGED <<fs, phase, target, todo, stack, ret, mishaps>>

Sources(p, I) == {p \o <<e.name>> : e \in I}

\* A copy made inside one of its sources, or around one, may replace files
\* it has yet to copy (it then ends at the depth limit, as a failure).
Overlap(p) ==
  \E o \in {genLimObjName(q) : q \in Sources(p, clip.items)},
     s \in Sources(clip.path, clip.items) :
    Inside(o, s) \/ Inside(s, o)

\* A marked entry whose name now belongs to an entry of the other kind.
Stale(e) ==
  LET s == clip.path \o <<e.name>> IN s \in DOMAIN fs /\ IsDir(fs, s) # e.dir

Cargo(P) == {fs[q].of : q \in {r \in Under(fs, P) : IsFile(fs, r) /\ fs[r].whole}}

\* subfunc_Paste up to its first copy.  Where it fails at once, nothing
\* but the message on the screen changes.  A paste into the folder of the
\* last one is a retry: it also has to keep what that one was to bring.
Paste ==
  /\ Another
  /\ clip.items # {}
  /\ \E p \in Folders \ {clip.path} :
       /\ target' = p
       /\ cargo' = IF Overlap(p) \/ \E e \in clip.items : Stale(e) THEN {}
                   ELSE Cargo(Sources(clip.path, clip.items))
                        \union (IF p = target THEN cargo ELSE {})
  /\ phase' = "copy" /\ todo' = clip.items /\ ret' = 0
  /\ UNCHANGED <<fs, clip, stack, mishaps>>

Finish == phase' = "idle" /\ todo' = {} /\ UNCHANGED <<stack, ret>>

Next1(op, out) ==
  \E e \in todo :
    /\ todo' = todo \ {e}
    /\ Push(Call(op, IF phase = "delete" THEN target ELSE clip.path, out, e))
    /\ UNCHANGED <<phase, ret>>

\* Variant: the sources of a move are deleted whatever the copies answered.
PurgeAnyway ==
  /\ phase = "copy" /\ stack = <<>>
  /\ \/ ret = 0 /\ Next1("copy", target)
     \/ /\ (ret < 0 \/ todo = {}) /\ clip.cut
        /\ phase' = "purge" /\ todo' = clip.items /\ ret' = 0 /\ UNCHANGED stack
     \/ (ret < 0 \/ todo = {}) /\ ~clip.cut /\ Finish
  /\ UNCHANGED <<fs, clip, target, jobs, cargo, mishaps>>

PasteLoop ==
  /\ phase = "copy" /\ stack = <<>>
  /\ \/ ret < 0 /\ Finish
     \/ ret = 0 /\ Next1("copy", target)
     \/ /\ ret = 0 /\ todo = {} /\ clip.cut
        /\ phase' = "purge" /\ todo' = clip.items /\ UNCHANGED <<stack, ret>>
     \/ ret = 0 /\ todo = {} /\ ~clip.cut /\ Finish
  /\ UNCHANGED <<fs, clip, target, jobs, cargo, mishaps>>

\* The sources of a move, once all of them are copied; a protected entry is
\* deleted only when the user confirms it.
PurgeLoop ==
  /\ phase = "purge" /\ stack = <<>>
  /\ \/ ret < 0 /\ Finish /\ UNCHANGED clip
     \/ ret = 0 /\ Next1("delete", <<>>) /\ UNCHANGED clip
     \/ ret = 0 /\ todo # {} /\ Finish /\ UNCHANGED clip
     \/ ret = 0 /\ todo = {} /\ Finish /\ clip' = [clip EXCEPT !.items = {}]
  /\ UNCHANGED <<fs, target, jobs, cargo, mishaps>>

\* Delete of the marked entries; a protected one may be passed over.
Delete ==
  /\ Another
  /\ \E p \in Folders : target' = p /\ todo' \in Chosen(p)
  /\ phase' = "delete" /\ ret' = 0 /\ cargo' = {}
  /\ UNCHANGED <<fs, clip, stack, mishaps>>

DeleteLoop ==
  /\ phase = "delete" /\ stack = <<>>
  /\ \/ ret < 0 /\ Finish
     \/ ret = 0 /\ Next1("delete", <<>>)
     \/ ret = 0 /\ \E e \in todo : todo' = todo \ {e} /\ UNCHANGED <<phase, stack, ret>>
     \/ ret = 0 /\ todo = {} /\ Finish
  /\ UNCHANGED <<fs, clip, target, jobs, cargo, mishaps>>

NewDir ==
  /\ Another
  /\ \E p \in Folders, n \in Names :
       LET q == genLimObjName(p \o <<n>>)
       IN q \notin DOMAIN fs /\ fs' = With(fs, q, Folder)
  /\ UNCHANGED <<clip, phase, target, todo, stack, ret, cargo, mishaps>>

Rename ==
  /\ Another
  /\ \E p \in DOMAIN fs, n \in Names :
       LET q == Front(p) \o <<n>>
           New(r) == q \o SubSeq(r, Len(q) + 1, Len(r))
           moved == Under(fs, {p})
       IN /\ Len(p) > 1 /\ q \notin DOMAIN fs
          /\ fs' = [r \in (DOMAIN fs \ moved) \union {New(m) : m \in moved} |->
                      IF Inside(r, q) THEN fs[p \o SubSeq(r, Len(q) + 1, Len(r))]
                                      ELSE fs[r]]
  /\ cargo' = {}
  /\ UNCHANGED <<clip, phase, target, todo, stack, ret, mishaps>>

\* The console is switched off and on again: the devices stay as they are,
\* the clipboard is gone.
PowerCycle ==
  /\ jobs < MaxJobs /\ jobs' = jobs + 1
  /\ clip' = NoClip /\ phase' = "idle" /\ target' = <<>> /\ todo' = {}
  /\ stack' = <<>> /\ ret' = 0
  /\ IF Idle THEN Quiet ELSE Seen("power")
  /\ UNCHANGED <<fs, cargo>>

Init ==
  /\ fs \in Trees
  /\ clip = NoClip /\ phase = "idle" /\ target = <<>> /\ todo = {}
  /\ stack = <<>> /\ ret = 0 /\ jobs = 0 /\ cargo = {} /\ mishaps = {}

Work == CopyStep \/ DeleteStep \/ PasteLoop \/ PurgeLoop \/ DeleteLoop

Next == Work \/ CopyOrCut \/ Paste \/ Delete \/ NewDir \/ Rename \/ PowerCycle

\* The main loop runs an operation to its end before it reads the pad again.
Spec == Init /\ [][Next]_vars /\ WF_vars(Work)

-----------------------------------------------------------------------------
Holds(f, p) == p \in DOMAIN fs /\ fs[p] = [of |-> f, whole |-> TRUE]

\* No sequence of failures, refusals, retries and losses of power makes a
\* copy or a move lose a file: from the first paste on, and over the retries
\* of one that failed half way, some path holds all of it
\* (src/filer_copy.c:774, :815, src/filer_browser.c:2171).
NoFileLost ==
  "short listing" \notin mishaps => \A f \in cargo : \E p \in DOMAIN fs : Holds(f, p)

\* The sources of a move are deleted only while all they held is whole in
\* the destination (src/filer_browser.c:2171).
PurgeOnlyCopied ==
  phase = "purge" /\ "short listing" \notin mishaps =>
    \A f \in cargo : \E p \in Under(fs, {target}) : Holds(f, p)

\* A call that has passed the depth limit writes PM_flag[recurses + 1] and
\* PM_file[recurses + 1], which have MAX_RECURSE elements
\* (src/filer_copy.c:412).
FlagsInBounds ==
  \A i \in 1 .. Len(stack) :
    stack[i].op = "copy" /\ stack[i].pc # "enter" => i < MAX_RECURSE

\* Between operations no destination holds part of a file, unless closing
\* or removing it failed or the power went (src/filer_copy.c:1025).
NoPartialLeft ==
  Idle /\ "partial file" \notin mishaps =>
    \A p \in DOMAIN fs : fs[p].whole

\* Every operation comes to its end, the paste of a folder into itself
\* included (src/filer_copy.c:396).
JobEnds == []<>Idle

\* What the comment at src/filer_copy.c:678 says: when the loop over the
\* children of a folder has ended well, the contents have been copied.
CopiedErrorFree ==
  (Running("copy", "list") \/ Running("copy", "loop")) /\ Top.left = {} /\ ret = 0 =>
    \A q \in Under(fs, {Top.in}) :
      IsFile(fs, q) /\ fs[q].whole /\ ~Inside(Out, Top.in) =>
        Holds(fs[q].of, Out \o SubSeq(q, Len(Top.in) + 1, Len(q)))

=============================================================================
