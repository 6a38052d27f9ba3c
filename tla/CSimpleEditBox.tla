--------------------------- MODULE CSimpleEditBox ---------------------------
(***************************************************************************)
(* Edit boxes: the text a box is given key by key, the array that says     *)
(* where its characters start, the cursor, the part of the text the font   *)
(* string shows, and the box that has the keyboard.  Positions count bytes *)
(* from 0.                                                                 *)
(*                                                                         *)
(* A character is the sequence of its UTF-8 bytes.  "|" is typed as "||";  *)
(* of the codes GxuDetermineQuotedCode may find only the new line exists   *)
(* ("|n"), so no entry of m_textInfo has a hyperlink's bit and the loops   *)
(* over hyperlinks and colours never run.  Highlights are TODO in the code *)
(* and always empty, so their dirty bit is left out; m_visiblePos is       *)
(* always 0; the scripts of a box may show or hide a frame, which is a     *)
(* step of its own.                                                        *)
(***************************************************************************)
EXTENDS Integers, Sequences, SequencesExt, FiniteSetsExt

CONSTANTS Boxes,        \* the edit boxes, in the order an event visits them
          Multiline, Password, Numeric, AutoFocus, IgnoreArrows, \* which are so
          OnEnter,      \* those with an OnEnterPressed script
          Typed,        \* the characters typed into each
          Fit,          \* characters that fit in a box
          Chunk,        \* bytes a text buffer grows by (32)
          MaxBytes,     \* bound on the bytes of all texts
          none

Box == Range(Boxes)
Bytes(c) == CASE c = "wide" -> <<"lead", "rest">>
              [] c = "tab" -> <<" ", " ", " ", " ">>
              [] c = "|" -> <<"|", "|">>
              [] OTHER -> <<c>>

VARIABLES box,          \* the members of each box
          keyboard,     \* CSimpleEditBox::s_currentFocus
          visible,      \* m_visible of each box
          active        \* GxCapsWindowHasFocus

vars == <<box, keyboard, visible, active>>

----------------------------------------------------------------------------
(* The characters of a text *)

Byte(text, i) == text[i + 1]
Advance(text, i) ==
  LET two == /\ i + 1 < Len(text)
             /\ <<Byte(text, i), Byte(text, i + 1)>> \in {<<"lead", "rest">>, <<"|", "n">>}
  IN  IF two THEN 2 ELSE 1
NewLine(text, i) == Byte(text, i) = "nl" \/ (Byte(text, i) = "|" /\ Advance(text, i) = 2)

\* The bytes a walk from the first one stops at.
Starts(text) ==
  LET start[i \in 0 .. Len(text)] ==
        i = 0 \/ \E j \in {i - 1, i - 2} \cap Nat : start[j] /\ j + Advance(text, j) = i
  IN  {i \in 0 .. Len(text) : start[i]}
TextInfo(text, size) ==
  [i \in 0 .. size - 1 |-> IF i < Len(text) /\ i \in Starts(text) THEN Advance(text, i) ELSE 0]

\* Characters before the first new line, as many as fit.
GetNumCharsWithinWidth(text) ==
  LET ends == {i \in Starts(text) : i = Len(text) \/ NewLine(text, i)}
  IN  Min({Fit, Cardinality({i \in Starts(text) : i < Min(ends)})})

\* Bytes of the first amount characters.
ForwardLen(info, offset, amount) ==
  LET len[n \in 0 .. amount] ==
        IF n = 0 \/ info[offset + len[n - 1]] = 0
        THEN IF n = 0 THEN 0 ELSE len[n - 1]
        ELSE len[n - 1] + info[offset + len[n - 1]]
  IN  len[amount]
\* Bytes of the character before offset.
BackwardLen(info, offset) ==
  IF offset = 0 THEN 0 ELSE info[Max({i \in 0 .. offset - 1 : info[i] # 0 \/ i = 0})]

----------------------------------------------------------------------------
(* The text of a box *)

GrowText(b, size) == IF size + 1 <= b.size THEN b.size ELSE ((size + Chunk) \div Chunk) * Chunk

InsertText(b, s) ==
  LET text == SubSeq(b.text, 1, b.cursor) \o s \o SubSeq(b.text, b.cursor + 1, Len(b.text))
      size == GrowText(b, Len(text))
  IN  [b EXCEPT !.text = text, !.size = size, !.info = TextInfo(text, size),
                !.cursor = b.cursor + Len(s), !.dirty = @ \cup {"text", "cursor", "user"}]
\* Insert: a numeric box refuses what is not a digit.
Insert(b, k, s) == IF k \in Numeric /\ Head(s) # "1" THEN b ELSE InsertText(b, s)

\* The array is moved with the text and not made anew.
MovedInfo(b, left, right) ==
  LET len == Len(b.text) - (right - left)
  IN  [i \in 0 .. b.size - 1 |-> IF left <= i /\ i < len THEN b.info[i + right - left]
                                 ELSE IF i = len THEN 0 ELSE b.info[i]]
DeletesTextOnly(b, left, right) ==
  [b EXCEPT !.text = SubSeq(@, 1, left) \o SubSeq(@, right + 1, Len(@)),
            !.cursor = left, !.dirty = @ \cup {"text", "cursor", "user"}]
DeleteSubstring(b, left, right) ==
  [b EXCEPT !.text = SubSeq(@, 1, left) \o SubSeq(@, right + 1, Len(@)),
            !.info = MovedInfo(b, left, right),
            !.cursor = left, !.dirty = @ \cup {"text", "cursor", "user"}]
DeleteBackward(b) ==
  IF b.cursor = 0 THEN b ELSE DeleteSubstring(b, b.cursor - BackwardLen(b.info, b.cursor), b.cursor)
DeleteForward(b) ==
  IF b.cursor >= Len(b.text) THEN b
  ELSE DeleteSubstring(b, b.cursor, b.cursor + ForwardLen(b.info, b.cursor, 1))
Move(b, distance) == [b EXCEPT !.cursor = @ + distance, !.dirty = @ \cup {"cursor"}]
MoveBackward(b) == IF b.cursor = 0 THEN b ELSE Move(b, - BackwardLen(b.info, b.cursor))
MoveForward(b) ==
  IF b.cursor >= Len(b.text) THEN b ELSE Move(b, ForwardLen(b.info, b.cursor, 1))

----------------------------------------------------------------------------
(* What a box shows *)

Masked(b, k) == IF k \in Password THEN [i \in 1 .. Len(b.text) |-> "*"] ELSE b.text
VisibleLen(b, k) ==
  IF k \in Multiline THEN b.visibleLen
  ELSE LET chars == GetNumCharsWithinWidth(Masked(b, k))
       IN  IF k \in Password THEN chars ELSE ForwardLen(b.info, 0, chars)
UpdateVisibleText(b, k) ==
  LET len == VisibleLen(b, k)
  IN  [b EXCEPT !.visibleLen = len, !.string = SubSeq(Masked(b, k), 1, len)]

CursorVisible(b) == b.cursor <= b.visibleLen
UpdateVisibleCursor(b, k, focus) == [b EXCEPT !.cursorShown = CursorVisible(b) /\ focus = k]
\* OnTextChanged tells the script, which can only read the text.
OnTextChanged(b) == [b EXCEPT !.told = b.text, !.dirty = @ \ {"user"}]

UpdateDirtyBits(b, k, focus) ==
  LET text == IF "text" \in b.dirty THEN UpdateVisibleText(b, k) ELSE b
      cursor == IF "cursor" \in b.dirty THEN UpdateVisibleCursor(text, k, focus) ELSE text
      clean == [cursor EXCEPT !.dirty = @ \ {"text", "cursor"}]
  IN  IF "text" \in b.dirty THEN OnTextChanged(clean) ELSE clean

----------------------------------------------------------------------------
(* The keyboard *)

\* SetKeyboardFocus(k) for a visible box.
Focused(boxes, k) ==
  IF keyboard = k THEN boxes
  ELSE [j \in Box |-> IF j \in {k, keyboard} THEN [boxes[j] EXCEPT !.dirty = @ \cup {"cursor"}]
                      ELSE boxes[j]]

\* An event goes from box to box until one takes it.
Takes(k) == visible[k] /\ (keyboard = k \/ (keyboard = none /\ k \in AutoFocus))
TakenBy(takers) == LET first == SelectInSeq(Boxes, LAMBDA k : k \in takers) IN Boxes[first]
Take(k, after) ==
  /\ keyboard' = k
  /\ box' = [Focused(box, k) EXCEPT ![k] = after]
  /\ UNCHANGED <<visible, active>>

TextBytes == MapThenSumSet(LAMBDA k : Len(box[k].text), Box)
OnLayerChar ==
  LET takers == {k \in Box : Takes(k)} IN
  /\ takers # {}
  /\ LET k == TakenBy(takers) IN
     \E c \in Typed[k] :
       /\ TextBytes + Len(Bytes(c)) <= MaxBytes
       /\ Take(k, Insert(Focused(box, k)[k], k, Bytes(c)))

Keys == {"enter", "backspace", "left", "right", "delete", "other"}
OnKey(b, k, key) ==
  CASE key = "enter" -> IF k \in Multiline \ OnEnter THEN Insert(b, k, <<"nl">>) ELSE b
    [] key = "backspace" -> DeleteBackward(b)
    [] key = "left" -> MoveBackward(b)
    [] key = "right" -> MoveForward(b)
    [] key = "delete" -> DeleteForward(b)
    [] OTHER -> b
\* "other" stands for every key with Control as well, which does nothing.
OnLayerKeyDown(key) ==
  LET takers == {k \in Box : Takes(k) /\ ~(key \in {"left", "right"} /\ k \in IgnoreArrows)} IN
  /\ takers # {}
  /\ LET k == TakenBy(takers) IN
     /\ key = "enter" => TextBytes < MaxBytes
     /\ Take(k, OnKey(UpdateDirtyBits(Focused(box, k)[k], k, k), k, key))

OnLayerMouseDown(k) ==
  /\ visible[k]
  /\ keyboard' = k
  /\ box' = Focused([box EXCEPT ![k] = UpdateDirtyBits(@, k, keyboard)], k)
  /\ UNCHANGED <<visible, active>>

\* Every visible box, every frame; blink says whether the cursor's time has come.
OnLayerUpdate(k, blink) ==
  LET b == UpdateDirtyBits(box[k], k, keyboard) IN
  /\ visible[k]
  /\ box' = [box EXCEPT ![k] =
       IF ~active THEN [b EXCEPT !.cursorShown = FALSE]
       ELSE IF CursorVisible(b) /\ keyboard = k /\ blink
       THEN [b EXCEPT !.cursorShown = ~ @] ELSE b]
  /\ UNCHANGED <<keyboard, visible, active>>

\* OnFrameSizeChanged.
UpdateSizes(k) ==
  /\ box' = [box EXCEPT ![k].dirty = @ \cup {"text", "cursor"}]
  /\ UNCHANGED <<keyboard, visible, active>>

----------------------------------------------------------------------------
\* Frames shown or hidden by scripts, and the window losing or getting back the focus.
Shown(k) == visible' = [visible EXCEPT ![k] = ~ @] /\ UNCHANGED <<box, keyboard, active>>
WindowFocus == active' = ~active /\ UNCHANGED <<box, keyboard, visible>>

NewBox == [text |-> <<>>, info |-> [i \in 0 .. Chunk - 1 |-> 0], size |-> Chunk, cursor |-> 0,
           dirty |-> {"text", "cursor"}, visibleLen |-> 0, string |-> <<>>,
           cursorShown |-> FALSE, told |-> <<>>]
Init ==
  /\ box = [k \in Box |-> NewBox]
  /\ keyboard = none
  /\ visible = [k \in Box |-> TRUE]
  /\ active = TRUE
Next ==
  \/ OnLayerChar
  \/ \E key \in Keys : OnLayerKeyDown(key)
  \/ \E k \in Box : OnLayerMouseDown(k) \/ UpdateSizes(k) \/ Shown(k)
  \/ \E k \in Box, blink \in BOOLEAN : OnLayerUpdate(k, blink)
  \/ WindowFocus
Spec == Init /\ [][Next]_vars

----------------------------------------------------------------------------
\* No edit cuts a character in two, moves the cursor into one, or runs past the buffer.
TextIsWhole ==
  \A k \in Box :
    LET b == box[k] IN
    /\ Len(b.text) < b.size
    /\ b.cursor \in 0 .. Len(b.text)
    /\ \A i \in 1 .. Len(b.text) : b.text[i] = "rest" <=> (i > 1 /\ b.text[i - 1] = "lead")
    /\ b.text = <<>> \/ Last(b.text) # "lead"
    /\ b.cursor > 0 => b.text[b.cursor] # "lead"

\* In a box without pipes the array always says where the characters start, though a delete
\* only moves it, so that the cursor walks over whole characters.
InfoIsCurrent ==
  \A k \in Box : "|" \notin Typed[k] =>
    \A i \in 0 .. Len(box[k].text) :
      box[k].info[i] = TextInfo(box[k].text, box[k].size)[i]

\* A box whose dirty bits are clear shows the start of its text, has told its script of it, and
\* shows its cursor only if it has the keyboard.
ShownIsCurrent ==
  \A k \in Box :
    LET b == box[k] IN
    /\ "text" \notin b.dirty => /\ b.told = b.text
                                /\ b.string = SubSeq(Masked(b, k), 1, b.visibleLen)
                                /\ k \notin Multiline /\ "|" \notin Typed[k] =>
                                     b.visibleLen = Len(b.text) \/ b.visibleLen >= Fit
    /\ b.cursorShown /\ "cursor" \notin b.dirty => keyboard = k /\ CursorVisible(b)

EditBoxesAreSound == TextIsWhole /\ InfoIsCurrent /\ ShownIsCurrent
=============================================================================
