----------------------------- MODULE TextEditor -----------------------------
(***************************************************************************)
(* The text editor (editor*.c): windows with a text each, one cursor, one  *)
(* mark and one clipboard for all of them.  A frame reads the pad, then    *)
(* the keyboard, and then applies the rules; the text is a C string, and   *)
(* its length is counted apart from it.                                    *)
(*                                                                         *)
(* A step that reads or writes outside of the text ends the run: "broken"  *)
(* names it.                                                               *)
(***************************************************************************)
EXTENDS Integers, Sequences, FiniteSets

CONSTANTS Windows,      \* ten in the code, 1..Cardinality(Windows) here
    Paths, FirstFiles,  \* the files that can be opened
    Keys,               \* the keys that are pressed
    MaxCommands, MaxPush, Rows_Width, PageRows

VARIABLES windows, editor, onDisk
editorVars == <<windows, editor, onDisk>>

CR == "CR"
LF == "LF"
CRLF == 1           \* OTHER
UNIX == 2
MAC == 3
NoMark == [on |-> FALSE, in |-> 0, size |-> 0, held |-> "no", clip |-> <<>>, cutout |-> <<>>, back |-> FALSE]
FreeWindow == [OPENED |-> FALSE, CREATED |-> FALSE, SAVED |-> TRUE, TextMode |-> 0, TextBuffer |-> <<>>,
               TextSize |-> 0, Path |-> "", over |-> 0, edited |-> FALSE]
Fresh == [at |-> "pad", active |-> 1, cur |-> 0, nChar |-> 0, push |-> 0, home |-> FALSE, end |-> FALSE,
          insert |-> TRUE, ret |-> 0, board |-> FALSE, mark |-> NoMark, edit |-> "free",
          commands |-> 0, broken |-> "no", mixed |-> FALSE, moved |-> FALSE, unsure |-> FALSE]
Shown == windows[editor.active]
Text == Shown.TextBuffer
At(i) == IF 0 <= i /\ i < Len(Text) THEN Text[i + 1] ELSE "end"
IsReturn(i) == Shown.TextMode = CRLF /\ At(i) = LF
SplitsReturn(i) == IsReturn(i) /\ At(i - 1) = CR
Part(from, to) == SubSeq(Text, from + 1, to)

Broken(e, how) == [e EXCEPT !.broken = how]
editorResetState(e, mode) ==
    [e EXCEPT !.cur = 0, !.nChar = 0, !.push = 0, !.board = FALSE, !.insert = TRUE, !.ret = mode,
              !.home = FALSE, !.end = FALSE,
              !.mark = IF @.on THEN [@ EXCEPT !.on = FALSE, !.in = 0] ELSE @]
-----------------------------------------------------------------------------
(* The rules of a frame.  Rows end at a line end, at the width of the      *)
(* screen and at the end of the text.                                      *)
RowAt ==
    LET ends(i, n) == \/ At(i) = LF \/ i >= Len(Text) \/ n >= Rows_Width
                      \/ Shown.TextMode = UNIX /\ At(i) = CR
        count[i \in 0..Len(Text)] ==
            IF i = 0 THEN 1 ELSE IF ends(i - 1, count[i - 1]) THEN 1 ELSE count[i - 1] + 1
    IN [first |-> {i \in 0..Len(Text) : count[i] = 1},
        last |-> {i \in 0..Len(Text) : ends(i, count[i])}]
Most(S) == CHOOSE x \in S : \A y \in S : y <= x
Least(S) == CHOOSE x \in S : \A y \in S : x <= y
RowStart(i) == Most({k \in RowAt.first : k <= i})
RowEnd(i) == Least({k \in RowAt.last : k >= i} \cup {Len(Text)})

(* Down from the last row takes the width of a row that is not there: the  *)
(* cursor goes past the end of the text, and it may stop there or not.     *)
PushDown(e) ==
    LET end == RowEnd(e.cur)
        down == [e EXCEPT !.push = @ + 1]
        col == e.cur - RowStart(e.cur)
    IN IF end >= Len(Text)
       THEN {[down EXCEPT !.cur = e.nChar], [down EXCEPT !.cur = e.nChar, !.push = 0]}
       ELSE {[down EXCEPT !.cur = Least({RowEnd(end + 1), end + 1 + col})]}
PushUp(e) ==
    LET start == RowStart(e.cur)
        to == IF start = 0 THEN 0 ELSE Least({start - 1, RowStart(start - 1) + e.cur - start})
    IN [e EXCEPT !.cur = to, !.push = IF to = 0 THEN 0 ELSE @ - 1]
(* Variant: the cursor is held back at the start only.                     *)
LooseClamp(e) ==
    IF e.cur < 0 THEN [e EXCEPT !.cur = 0] ELSE e
Clamp(e) == [e EXCEPT !.cur = IF @ >= e.nChar THEN e.nChar - 1 ELSE IF @ < 0 THEN 0 ELSE @]
editorApplyRules(e) ==
    LET counted == [e EXCEPT !.nChar = Shown.TextSize + 1]
        home == IF e.home THEN [counted EXCEPT !.cur = RowStart(@), !.home = FALSE] ELSE counted
        end == IF e.end THEN [home EXCEPT !.cur = RowEnd(@), !.end = FALSE] ELSE home
        down == IF e.push < 0 THEN PushDown(end) ELSE {end}
    IN {Clamp(IF f.push > 0 THEN PushUp(f) ELSE f) : f \in down}
-----------------------------------------------------------------------------
(* Moves.  A press is the editor after it and the window after it.         *)
Press(e) == [e |-> e, w |-> Shown]
Left(e) == {Press([e EXCEPT !.cur = IF @ > 0 THEN @ - 1 ELSE @])}
Inside(e) == e.cur < e.nChar /\ At(e.cur) # "end"
Right(e) == {Press(IF Inside(e) THEN [e EXCEPT !.cur = @ + 1] ELSE e)}
PageUp(e) == {Press(IF e.cur > 0 THEN [e EXCEPT !.push = @ + PageRows] ELSE e)}
PageDown(e) == {Press(IF Inside(e) THEN [e EXCEPT !.push = @ - PageRows] ELSE e)}
(* Up at the start and down at the end go round; not on the keyboard of    *)
(* the screen.                                                             *)
Up(e) ==
    {Press(IF e.cur > 0 THEN [e EXCEPT !.push = @ + 1]
           ELSE IF e.nChar > 0 /\ ~e.board
           THEN [e EXCEPT !.push = 0, !.cur = IF e.nChar > 1 /\ At(e.nChar - 1) = "end"
                                               THEN e.nChar - 2 ELSE e.nChar - 1]
           ELSE e)}
Down(e) ==
    {Press(IF IF e.board THEN e.cur < e.nChar ELSE Inside(e) THEN [e EXCEPT !.push = @ - 1]
           ELSE IF e.board THEN e ELSE [e EXCEPT !.cur = 0, !.push = 0])}
-----------------------------------------------------------------------------
(* Edits: the text before the cursor, what is put there, and the text from *)
(* a place after it.                                                       *)
Edited(e, text, cur, size) ==
    [e |-> [e EXCEPT !.cur = cur, !.commands = @ + 1],
     w |-> [Shown EXCEPT !.TextBuffer = text, !.TextSize = @ + size, !.edited = TRUE]]
Puts(e, put, ins1, ins4, ins5) ==
    IF e.cur > Len(Text) \/ e.cur < 0 \/ e.cur + ins4 > Len(Text)
    THEN Press(Broken(e, "outside"))
    ELSE Edited(e, Part(0, e.cur) \o put \o Part(e.cur + ins4, Len(Text)), e.cur + ins5, ins1)
Removes(e, del1, del2, del3, del4) ==
    IF e.cur + del1 < 0 \/ e.cur + del2 > Len(Text)
    THEN Press(Broken(e, "outside"))
    ELSE Edited(e, Part(0, e.cur + del1) \o Part(e.cur + del2, Len(Text)), e.cur + del3, del4)

(* Variant: an entry between CR and LF is made there.                      *)
EntryAnywhere(e) == e
AtEntry(e) == IF SplitsReturn(e.cur) THEN [e EXCEPT !.cur = @ - 1] ELSE e
AfterReturn(e) == IF SplitsReturn(e.cur) THEN [e EXCEPT !.cur = @ + 1] ELSE e
OnReturn(e) == IsReturn(e.cur + 1) /\ At(e.cur) = CR

(* One character written over CR and LF, and a Return that has nothing to  *)
(* write at the end of the text, are counted as one too many: over notes   *)
(* these two events.                                                       *)
OverCounted(p) == [p EXCEPT !.w.over = @ + 1]

Typed(e) ==
    LET f == AtEntry(e)
    IN {IF f.insert \/ At(f.cur) = "end" THEN Puts(f, <<"x">>, 1, 0, 1)
        ELSE IF OnReturn(f) THEN OverCounted(Puts(f, <<"x">>, 0, 2, 1))
        ELSE Puts(f, <<"x">>, 0, 1, 1)}

(* In a mode that is none of the three, Return keeps what is there.        *)
Return(e) ==
    LET f == AtEntry(e)
        put == CASE f.ret = CRLF -> <<CR, LF>> [] f.ret = UNIX -> <<CR>> [] f.ret = MAC -> <<LF>>
                 [] OTHER -> IF f.cur < Len(Text) THEN <<At(f.cur)>> ELSE <<>>
        wide == f.ret = CRLF
        g == IF wide THEN f ELSE [f EXCEPT !.mixed = TRUE]
        by == IF wide THEN 2 ELSE 1
    IN {IF f.cur = Len(Text) /\ put = <<>> THEN OverCounted(Puts(g, put, by, 0, by))
        ELSE IF f.insert \/ At(f.cur) = "end" THEN Puts(g, put, by, 0, by)
        ELSE IF OnReturn(f) /\ ~wide THEN OverCounted(Puts(g, put, 0, 2, by))
        ELSE IF OnReturn(f) THEN Puts(g, put, 0, 2, by)
        ELSE Puts(g, put, by - 1, 1, by)}
RetMode(e) == {Press([e EXCEPT !.ret = IF @ >= 4 THEN CRLF ELSE @ + 1])}
-----------------------------------------------------------------------------
(* The mark: from where it was set to the cursor, in either direction.     *)
Span(e) == [from |-> Least({e.mark.in, e.cur}), to |-> Most({e.mark.in, e.cur})]
Size(e) == Span(e).to - Span(e).from

(* Variant: the clipboard of before is kept, and freed all the same.       *)
MarkKeepsClipboard(e) ==
    LET f == AtEntry(e)
    IN {Press(IF e.mark.on THEN [e EXCEPT !.mark.on = FALSE]
              ELSE [f EXCEPT !.mark = [e.mark EXCEPT !.on = TRUE, !.in = f.cur, !.size = 0], !.edit = "free"])}
Mark(e) ==
    LET f == AtEntry(e)
    IN {Press(IF e.mark.on THEN [e EXCEPT !.mark = NoMark]
              ELSE [f EXCEPT !.mark = [NoMark EXCEPT !.on = TRUE, !.in = f.cur], !.commands = @ + 1,
                             !.edit = IF f.mark.held = "no" THEN @ ELSE "free"])}

(* The marked text, removed: counted back from the cursor, also where the  *)
(* cursor is at its start.                                                 *)
RemovesMarked(e) ==
    LET n == Size(e)
        f == [e EXCEPT !.mark = [NoMark EXCEPT !.back = e.cur = Span(e).from],
                       !.mixed = @ \/ e.cur = Span(e).from]
    IN Removes(f, -n, 0, -n, -n)

Takes(e, held) ==
    [e EXCEPT !.mark = [@ EXCEPT !.on = FALSE, !.held = held, !.size = Size(e), !.in = 0,
                                 !.clip = Part(Span(e).from, Span(e).to), !.back = FALSE],
              !.edit = "allocated"]
(* Variant: the end of the mark may be between CR and LF.                  *)
CopyAtLF(e) ==
    IF ~e.mark.on \/ e.cur = e.mark.in THEN {Press(e)}
    ELSE {Press(IF Span(e).to > Len(Text) THEN Broken(e, "outside") ELSE Takes(e, "copy"))}
Copy(e) ==
    LET f == IF e.mark.on \/ ~e.board THEN AfterReturn(e) ELSE e
    IN IF ~f.mark.on \/ f.cur = f.mark.in THEN {Press(f)}
       ELSE {Press(IF Span(f).to > Len(Text) THEN Broken(f, "outside") ELSE Takes(f, "copy"))}

Cut(e) ==
    LET f == AfterReturn(e)
        r == RemovesMarked(f)
        held == Takes(f, "cut")
    IN IF ~e.mark.on THEN {Press(e)}
       ELSE IF f.cur = f.mark.in THEN {Press(f)}
       ELSE IF Span(f).to > Len(Text) \/ r.e.broken # "no" THEN {Press(Broken(f, "outside"))}
       ELSE {[r EXCEPT !.e.mark = [held.mark EXCEPT !.back = r.e.mark.back,
                                       !.cutout = Part(f.cur - Size(f), f.cur)],
                       !.e.edit = "allocated"]}

(* A paste at an LF begins before it and leaves the last character out,    *)
(* now and from then on.                                                   *)
Paste(e) ==
    LET atLF == IsReturn(e.cur)
        f == IF atLF THEN [e EXCEPT !.cur = @ - 1, !.mark.size = @ - 1, !.mixed = TRUE] ELSE e
    IN IF e.mark.held = "no" THEN {Press(e)}
       ELSE IF f.mark.size < 0 \/ f.mark.size > Len(f.mark.clip) THEN {Press(Broken(f, "outside"))}
       ELSE {Puts(f, SubSeq(f.mark.clip, 1, f.mark.size), f.mark.size, 0, f.mark.size)}

Backspace(e) ==
    LET f == AfterReturn(e)
    IN IF e.cur <= 0 THEN {Press(e)}
       ELSE IF f.mark.on THEN {IF f.mark.in = f.cur THEN Press(f) ELSE RemovesMarked(f)}
       ELSE IF SplitsReturn(f.cur - 1) THEN {Removes(f, -2, 0, -2, -2)}
       ELSE {Removes(f, -1, 0, -1, -1)}

(* Variant: CR and LF are removed and counted as one.                      *)
DeleteCountsOne(e) ==
    LET f == AtEntry(e)
    IN IF e.cur >= e.nChar THEN {Press(e)}
       ELSE IF f.mark.on THEN {IF f.mark.in = f.cur THEN Press(f) ELSE RemovesMarked(f)}
       ELSE {Removes(f, 0, IF OnReturn(f) THEN 2 ELSE 1, 0, -1)}
Delete(e) ==
    LET f == AtEntry(e)
    IN IF e.cur >= e.nChar THEN {Press(e)}
       ELSE IF f.mark.on THEN {IF f.mark.in = f.cur THEN Press(f) ELSE RemovesMarked(f)}
       ELSE IF OnReturn(f) THEN {Removes(f, 0, 2, 0, -2)}
       ELSE IF IsReturn(f.cur) THEN {Removes(f, -1, 1, -1, -2)}
       ELSE {Removes(f, 0, 1, 0, -1)}
-----------------------------------------------------------------------------
(* The keys: on the keyboard of the screen and on a keyboard; Delete is on *)
(* the second alone, and pad keys move the cursor without them.            *)
KeyPress(e, key) ==
    CASE key = "left" -> Left(e) [] key = "right" -> Right(e) [] key = "up" -> Up(e) [] key = "down" -> Down(e)
      [] key = "pageup" -> PageUp(e) [] key = "pagedown" -> PageDown(e)
      [] key = "home" -> {Press([e EXCEPT !.home = TRUE])} [] key = "end" -> {Press([e EXCEPT !.end = TRUE])}
      [] key = "insert" -> {Press([e EXCEPT !.insert = ~@])} [] key = "retmode" -> RetMode(e)
      [] key = "char" -> Typed(e) [] key = "return" -> Return(e)
      [] key = "mark" -> Mark(e) [] key = "copy" -> Copy(e) [] key = "cut" -> Cut(e) [] key = "paste" -> Paste(e)
      [] key = "backspace" -> Backspace(e) [] key = "delete" -> Delete(e)
Moves == {"left", "right", "up", "down", "pageup", "pagedown"}
Edits == {"char", "return", "paste", "cut", "backspace", "delete"}
Typing == Keys \ {"board", "menu"}
Running == editor.at # "out" /\ editor.broken = "no"
AtKeyboard == Running /\ editor.at \in {"pad", "kbd"}    \* also without a pad key
Set(p) ==
    /\ windows' = [windows EXCEPT ![editor.active] = p.w]
    /\ UNCHANGED onDisk
(* A key in a window that is free works on a text that was freed.          *)
Presses(e, key) == IF Shown.OPENED THEN KeyPress(e, key) ELSE {Press(Broken(e, "freed"))}
Bounded(key) ==
    /\ key \in Edits \cup {"mark"} => editor.commands < MaxCommands
    /\ key \in Moves => editor.push \in -MaxPush..MaxPush

editorVirtualKeyboardEntry ==
    /\ Running /\ editor.at = "pad" /\ editor.board
    /\ \E key \in Typing \ {"delete"} : Bounded(key) /\ \E p \in Presses(editor, key) :
           Set(p) /\ editor' = [p.e EXCEPT !.at = "kbd"]
PadMoves ==
    /\ Running /\ editor.at = "pad" /\ ~editor.board /\ Shown.OPENED
    /\ \E key \in Keys \cap Moves : Bounded(key) /\ \E p \in Presses(editor, key) : Set(p) /\ editor' = [p.e EXCEPT !.at = "kbd"]
(* SELECT shows the keyboard of the screen and hides it.                   *)
Select ==
    /\ Running /\ editor.at = "pad" /\ "board" \in Keys
    /\ editor.board \/ Shown.OPENED
    /\ editor' = [editor EXCEPT !.board = ~@, !.at = "kbd"]
    /\ UNCHANGED <<windows, onDisk>>
editorKeyboardEntry ==
    /\ AtKeyboard
    /\ \E key \in Typing : Bounded(key) /\ \E p \in Presses([editor EXCEPT !.board = FALSE], key) :
           Set(p) /\ editor' = [p.e EXCEPT !.at = "rules", !.board = editor.board]
NoKeyboard == AtKeyboard /\ editor' = [editor EXCEPT !.at = "rules"] /\ UNCHANGED <<windows, onDisk>>
Display ==
    /\ Running /\ editor.at = "rules"
    /\ \E e \in IF Shown.OPENED THEN editorApplyRules(editor) ELSE {editor} : editor' = [e EXCEPT !.at = "pad"]
    /\ UNCHANGED <<windows, onDisk>>
-----------------------------------------------------------------------------
(* The menu, from the pad or from the keyboard.                            *)
AtMenu == AtKeyboard /\ "menu" \in Keys /\ editor.commands < MaxCommands
Opened == {w \in Windows : windows[w].OPENED}
FreeOne == Least(Windows \ Opened)
(* After a window could not be opened, or was closed, the last one that is *)
(* open is shown; only a close resets the cursor and the mark.             *)
Fail(e) == IF Opened = {} THEN e ELSE [e EXCEPT !.active = Most(Opened), !.moved = e.mark.on]
Frame(e) == editor' = [e EXCEPT !.at = "kbd", !.commands = @ + 1]

editorNew ==
    /\ AtMenu /\ Opened # Windows
    /\ \/ /\ windows' = [windows EXCEPT ![FreeOne] = [FreeWindow EXCEPT !.OPENED = TRUE, !.CREATED = TRUE,
                             !.SAVED = FALSE, !.TextMode = CRLF, !.Path = @]]
          /\ Frame(editorResetState([editor EXCEPT !.active = FreeOne], CRLF))
       \/ Frame(Fail([editor EXCEPT !.active = FreeOne])) /\ UNCHANGED windows
    /\ UNCHANGED onDisk

ModeOf(text, was) ==
    LET ends == {i \in 1..Len(text) : text[i] \in {CR, LF}}
        i == Least(ends)
    IN IF ends = {} THEN was
       ELSE IF text[i] = LF THEN MAC
       ELSE IF i < Len(text) /\ text[i + 1] = LF THEN CRLF ELSE UNIX
(* The text ends at the first NUL, which a file has that was saved with a  *)
(* length of more than its text; the length is the one of the file.        *)
OpenedOn(p) ==
    LET text == SelectSeq(onDisk[p], LAMBDA c : c # "NUL")
    IN [FreeWindow EXCEPT !.OPENED = TRUE, !.SAVED = FALSE, !.TextBuffer = text, !.TextSize = Len(onDisk[p]),
                          !.over = Len(onDisk[p]) - Len(text), !.TextMode = ModeOf(onDisk[p], 0), !.Path = p]
OpensIn(e, p) ==
    /\ windows' = [windows EXCEPT ![e.active] = OpenedOn(p)]
    /\ editor' = [editorResetState(e, OpenedOn(p).TextMode) EXCEPT !.at = "kbd", !.commands = @ + 1, !.mixed = @ \/ OpenedOn(p).TextMode # CRLF]
editorOpenFile ==
    /\ AtMenu /\ Opened # Windows
    /\ \/ \E p \in Paths : OpensIn([editor EXCEPT !.active = FreeOne], p)
       \/ Frame(Fail([editor EXCEPT !.active = FreeOne])) /\ UNCHANGED windows
    /\ UNCHANGED onDisk

editorClose ==
    /\ AtMenu /\ Shown.OPENED
    /\ windows' = [windows EXCEPT ![editor.active] = FreeWindow]
    /\ LET left == Opened \ {editor.active}
           e == editorResetState(editor, 0)
       IN Frame(IF left = {} THEN e ELSE [e EXCEPT !.active = Most(left)])
    /\ UNCHANGED onDisk

(* The result of the write is not looked at, and neither is whether        *)
(* another window has the file: "unsure" remembers both.                   *)
Padded(text, size) == [i \in 1..size |-> IF i <= Len(text) THEN text[i] ELSE "NUL"]
Saved == Padded(Text, Shown.TextSize)
Writes(p) ==
    \/ /\ onDisk' = [onDisk EXCEPT ![p] = Saved]
       /\ Frame([editor EXCEPT !.unsure = @ \/ \E w \in Opened \ {editor.active} : windows[w].Path = p])
    \/ onDisk' = [onDisk EXCEPT ![p] = <<>>] /\ Frame([editor EXCEPT !.unsure = TRUE])
NotWritten == Frame(editor) /\ UNCHANGED <<windows, onDisk>>

editorSave ==
    /\ AtMenu /\ Shown.OPENED /\ ~Shown.CREATED
    /\ \/ /\ windows' = [windows EXCEPT ![editor.active] = [@ EXCEPT !.SAVED = TRUE, !.edited = FALSE]]
          /\ Writes(Shown.Path)
       \/ NotWritten
(* Variant: the window keeps the name that it was opened with.             *)
SaveAsKeepsPath ==
    /\ AtMenu /\ Shown.OPENED
    /\ \E p \in Paths :
           /\ windows' = [windows EXCEPT ![editor.active] = [@ EXCEPT !.SAVED = TRUE, !.CREATED = FALSE,
                              !.edited = FALSE, !.Path = IF @ = "" THEN p ELSE @]]
           /\ Writes(p)
editorSaveAs ==
    /\ AtMenu /\ Shown.OPENED
    /\ \/ \E p \in Paths :
              /\ windows' = [windows EXCEPT ![editor.active] = [@ EXCEPT !.SAVED = TRUE, !.CREATED = FALSE,
                                                                    !.edited = FALSE, !.Path = p]]
              /\ Writes(p)
       \/ NotWritten

editorSelectWindow ==
    /\ AtMenu /\ Opened # {}
    /\ \E w \in Windows : Frame(editorResetState([editor EXCEPT !.active = w], windows[w].TextMode))
    /\ UNCHANGED <<windows, onDisk>>

(* Exit closes every window that is open, after one question if one of     *)
(* them is not saved, and gives the clipboard back.                        *)
Exit ==
    /\ AtMenu
    /\ editor' = [Fresh EXCEPT !.at = "out", !.commands = editor.commands + 1, !.mixed = editor.mixed,
                     !.unsure = editor.unsure,
                     !.edit = IF editor.mark.held = "no" THEN editor.edit
                              ELSE IF editor.edit = "free" THEN "twice" ELSE "free"]
    /\ windows' = [w \in Windows |-> FreeWindow]
    /\ UNCHANGED onDisk
EditorStart ==
    /\ editor.at = "out" /\ editor.broken = "no"
    /\ UNCHANGED onDisk
    /\ \/ \E p \in Paths : OpensIn([Fresh EXCEPT !.commands = editor.commands, !.mixed = editor.mixed,
                                                  !.unsure = editor.unsure, !.edit = editor.edit], p)
       \/ editor' = [editor EXCEPT !.at = "pad"] /\ UNCHANGED windows
-----------------------------------------------------------------------------
EditorInit ==
    /\ windows = [w \in Windows |-> FreeWindow] /\ onDisk = FirstFiles
    /\ editor = [Fresh EXCEPT !.at = "out"]
EditorNext ==
    \/ EditorStart \/ Exit
    \/ editorVirtualKeyboardEntry \/ PadMoves \/ Select
    \/ editorKeyboardEntry \/ NoKeyboard \/ Display
    \/ editorNew \/ editorOpenFile \/ editorClose \/ editorSave \/ editorSaveAs \/ editorSelectWindow
-----------------------------------------------------------------------------
(* After any keys the size that is counted is that of the text, but for    *)
(* one too many for each line end of two characters that one was written   *)
(* over, and for each Return that wrote nothing at the end of the text.    *)
SizeIsText == \A w \in Opened : windows[w].TextSize = Len(windows[w].TextBuffer) + windows[w].over
(* When the frame is done the cursor is in the text or at its end.         *)
CursorInText == Running /\ editor.at = "pad" /\ Shown.OPENED => editor.cur >= 0 /\ editor.cur <= Shown.TextSize
(* No edit parts CR and LF of a text that has both at each line end, as    *)
(* long as Return is not told to write another one, a marked text is not   *)
(* removed from its end, and nothing is pasted between them.               *)
ReturnsWhole ==
    ~editor.mixed => \A w \in Opened : windows[w].TextMode = CRLF =>
        LET text == windows[w].TextBuffer
        IN /\ \A i \in 1..Len(text) : text[i] = CR => i < Len(text) /\ text[i + 1] = LF
           /\ \A i \in 1..Len(text) : text[i] = LF => i > 1 /\ text[i - 1] = CR
(* The clipboard has memory exactly while there is something in it, it has *)
(* what its size says, and a cut text that was marked forward is in it.    *)
ClipboardWhole ==
    LET m == editor.mark
    IN /\ m.held # "no" <=> editor.edit = "allocated"
       /\ m.held # "no" => m.size <= Len(m.clip)
       /\ m.held = "cut" /\ ~m.back => m.clip = m.cutout
(* What a window says is saved is what the file has, and behind it a NUL   *)
(* for each character that was counted and is not there; but for edits     *)
(* made after the save, writes that fell short and two windows on a file.  *)
SavedIsOnDisk ==
    ~editor.unsure => \A w \in Opened :
        windows[w].SAVED /\ ~windows[w].edited =>
            onDisk[windows[w].Path] = Padded(windows[w].TextBuffer, Len(windows[w].TextBuffer) + windows[w].over)
(* A mark is in the text that it is shown in, unless a window could not be *)
(* opened while it was set.                                                *)
MarkInText == Running /\ editor.mark.on /\ ~editor.moved => editor.mark.in <= Len(Text)
=============================================================================
