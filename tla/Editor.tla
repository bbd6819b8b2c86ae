------------------------------- MODULE Editor --------------------------------
(***************************************************************************)
(* The screen editor, kernel/src/editor.rs: bytes from the UART drive an   *)
(* escape-sequence parser, the buffer and the cursor, and the terminal is  *)
(* updated when the receive buffer is empty - the whole screen, the line   *)
(* of the cursor, or the cursor only, depending on what the bytes did.     *)
(*                                                                         *)
(* The digits and semicolons of a CSI sequence have no effect before its   *)
(* last byte and are taken together with it.  Colours, the header and the  *)
(* status line, and tabs in loaded files (four columns) are left out.  Of  *)
(* the file, only its relation to the text being edited is kept.           *)
(***************************************************************************)
EXTENDS Naturals, Sequences, FiniteSetsExt

CONSTANTS Bytes,       \* bytes of a text
          Typed,       \* printable bytes that are typed
          TabWidth,    \* 4: spaces inserted for a tab
          MaxBuf,      \* MAX_EDITOR_BUF (4096)
          Rows,        \* 21: rows of text on the screen
          PageLines,   \* 20: lines moved by Page Up and Page Down
          FastLines,   \* 5: lines moved by Ctrl with an arrow
          Params,      \* pairs of parameters of CSI sequences
          Contents,    \* contents of files that are opened
          Junk         \* texts that something else left on the terminal

ASSUME EditorAssumption ==
  /\ MaxBuf \in Nat \ {0} /\ Rows \in Nat \ {0}
  /\ TabWidth \in Nat /\ PageLines \in Nat /\ FastLines \in Nat

ASSUME BytesAssumption ==
  /\ Typed \subseteq Bytes \ {"\n"} /\ " " \in Bytes /\ "\n" \in Bytes
  /\ Contents \subseteq Seq(Bytes) /\ Junk \subseteq Seq(Bytes)

VARIABLES mode,               \* "closed", "edit" (is_running) or "output" (run_code)
          buf, cur,           \* buffer[..buf_len], cursor
          top,                \* top_line
          edEsc, edCr,        \* esc_state, last_was_cr
          due,                \* what is to be drawn: structure_changed over
                              \* line_changed over cursor_only
          file,               \* the file in LatencyFS: "none", "other" than the
                              \* text, or the "same"
          rows,               \* the terminal: the rows of text
          left                \* history: lines left, in this burst, after an edit

NL == "\n"
Blank(ch) == ch \in {" ", NL}

edVars == <<mode, buf, cur, top, edEsc, edCr, due, file, rows, left>>

-----------------------------------------------------------------------------
(* Positions in a text b; c is a cursor, 0 .. Len(b). *)

Breaks(b) == {k \in 1 .. Len(b) : b[k] = NL}

\* get_current_line_start_and_col
LineStart(b, c) == Max({0} \cup {k \in Breaks(b) : k <= c})

\* The end of the line: the newline at or after c, or the end of the buffer
LineEnd(b, c) == Min({Len(b)} \cup {k - 1 : k \in {j \in Breaks(b) : j > c}})

\* get_row_col; the column is c - LineStart(b, c).
Row(b, c) == 1 + Cardinality({k \in Breaks(b) : k <= c})
NumLines(b) == Row(b, Len(b))

\* The text of line n
LineText(b, n) ==
  LET c == CHOOSE k \in 0 .. Len(b) : Row(b, k) = n
  IN  SubSeq(b, LineStart(b, c) + 1, LineEnd(b, c))

Cut(b, i, j) == SubSeq(b, 1, i) \o SubSeq(b, j + 1, Len(b))
Put(b, c, s) == SubSeq(b, 1, c) \o s \o SubSeq(b, c + 1, Len(b))

-----------------------------------------------------------------------------
(* Drawing *)

\* Mutant: the window is thought to be one row larger.
ScrolledLate == LET r == Row(buf, cur)
                IN  IF r < top THEN r ELSE IF r > top + Rows THEN r - Rows + 1 ELSE top

\* adjust_scroll
Scrolled == LET r == Row(buf, cur)
            IN  IF r < top THEN r ELSE IF r >= top + Rows THEN r - Rows + 1 ELSE top

Line(num, text) == [num |-> num, text |-> text]

\* Text written over text that is not erased first
Over(old, new) == new \o SubSeq(old, Len(new) + 1, Len(old))

\* The last row is not erased behind its text when another line follows it.
Drawn(b, t, old) ==
  [k \in 1 .. Rows |->
     LET n == t + k - 1
     IN  IF n > NumLines(b) THEN Line(0, << >>)
         ELSE Line(n, IF k = Rows /\ n < NumLines(b) THEN Over(old[k].text, LineText(b, n)) ELSE LineText(b, n))]

\* redraw
Redraw ==
  /\ top' = Scrolled
  /\ rows' = Drawn(buf, Scrolled, rows)
  /\ left' = {}

\* redraw_current_line
RedrawLine ==
  IF Scrolled # top THEN Redraw
  ELSE LET r == Row(buf, cur)
       IN  /\ rows' = [rows EXCEPT ![r - top + 1] = Line(r, LineText(buf, r))]
           /\ left' = left \ {r}
           /\ UNCHANGED top

\* update_cursor_only
MoveOnly == IF Scrolled # top THEN Redraw ELSE UNCHANGED <<top, rows, left>>

\* The receive buffer is empty.
Refresh ==
  /\ mode = "edit"
  /\ \/ due = "structure" /\ Redraw
     \/ due = "line" /\ RedrawLine
     \/ due = "cursor" /\ MoveOnly
  /\ due' = "nothing"
  /\ UNCHANGED <<mode, buf, cur, edEsc, edCr, file>>

-----------------------------------------------------------------------------
(* What a key does to the text.  Text(b, c, flag) is the new buffer and the  *)
(* new cursor, and what will have to be drawn.                               *)

Urgency == [flag \in {"nothing", "cursor", "line", "structure"} |->
              CASE flag = "nothing" -> 0 [] flag = "cursor" -> 1 [] flag = "line" -> 2 [] OTHER -> 3]

\* While everything is to be drawn, what the rows show does not matter, except
\* for the last one.
Due(flag) ==
  LET most == IF Urgency[flag] > Urgency[due] THEN flag ELSE due
  IN  /\ due' = most
      /\ rows' = IF most = "structure" THEN [k \in 1 .. Rows |-> IF k < Rows THEN Line(0, << >>) ELSE rows[k]] ELSE rows

Text(b, c, flag) ==
  /\ buf' = b /\ cur' = c
  /\ Due(flag)
  /\ left' = IF due = "line" /\ Row(b, c) # Row(buf, cur) THEN left \cup {Row(buf, cur)} ELSE left
  /\ file' = IF b # buf /\ file = "same" THEN "other" ELSE file
  /\ UNCHANGED <<mode, top>>

Nothing == Text(buf, cur, "nothing")
Marked(flag) == Text(buf, cur, flag)
MoveCursor(c) == Text(buf, c, "cursor")

\* insert_char and insert_str
Insert(ch, flag) ==
  IF Len(buf) < MaxBuf - 1 THEN Text(Put(buf, cur, <<ch>>), cur + 1, flag) ELSE Marked(flag)
InsertTab ==
  IF Len(buf) + TabWidth <= MaxBuf
    THEN Text(Put(buf, cur, [i \in 1 .. TabWidth |-> " "]), cur + TabWidth, "line") ELSE Marked("line")

\* delete_char_backspace and delete_char_under_cursor
Backspace == IF cur > 0 THEN Text(Cut(buf, cur - 1, cur), cur - 1, "structure") ELSE Marked("structure")
DeleteUnder == IF cur < Len(buf) THEN Text(Cut(buf, cur, cur + 1), cur, "structure") ELSE Marked("structure")

\* Mutant: the newline is looked for from the cursor's line on, one line too far.
LineWithBreakFar == Min({Len(buf)} \cup {k \in Breaks(buf) : k > LineEnd(buf, cur) + 1})

\* Ctrl-K: the whole line and its newline
LineWithBreak == Min({Len(buf)} \cup {k \in Breaks(buf) : k > LineEnd(buf, cur)})
KillLine == LET s == LineStart(buf, cur) IN Text(Cut(buf, s, LineWithBreak), s, "structure")

\* move_cursor_up, move_cursor_down: the column is kept as far as the line goes.
LineUp(c) == LET s == LineStart(buf, c)
         IN  IF s = 0 THEN c ELSE LineStart(buf, s - 1) + Min({c - s, s - 1 - LineStart(buf, s - 1)})
LineDown(c) == LET e == LineEnd(buf, c)
           IN  IF e = Len(buf) THEN c ELSE e + 1 + Min({c - LineStart(buf, c), LineEnd(buf, e + 1) - e - 1})
Many(n, Op(_)) == LET f[k \in 0 .. n] == IF k = 0 THEN cur ELSE Op(f[k - 1]) IN f[n]

\* move_word_left, move_word_right
PrevWord  == LET q == Max({0} \cup {k \in 1 .. cur : ~ Blank(buf[k])})
             IN  Max({0} \cup {k \in 1 .. q : Blank(buf[k])})
NextWord == LET q == Min({Len(buf)} \cup {k \in cur .. Len(buf) - 1 : Blank(buf[k + 1])})
             IN  Min({Len(buf)} \cup {k \in q .. Len(buf) - 1 : ~ Blank(buf[k + 1])})

\* save_file; fs_write fails if the file is new and LatencyFS is full.
Save ==
  /\ file' = "same" \/ (file = "none" /\ UNCHANGED file)
  /\ Due("structure")
  /\ UNCHANGED <<mode, buf, cur, top, left>>

\* The editor returns to the shell; start_editor sets everything else anew.
Quit(f) ==
  /\ mode' = "closed" /\ file' = f
  /\ buf' = << >> /\ cur' = 0 /\ top' = 1 /\ due' = "nothing" /\ left' = {}
  /\ rows' = [k \in 1 .. Rows |-> Line(0, << >>)]

\* run_code: the terminal is cleared and shows the output until a key is pressed.
RunCode ==
  /\ mode' = "output"
  /\ \E t \in Junk : rows' = [k \in 1 .. Rows |-> Line(0, t)]
  /\ due' = "structure"
  /\ UNCHANGED <<buf, cur, top, file, left>>

AnyKey ==
  /\ mode = "output"
  /\ mode' = "edit"
  /\ Redraw
  /\ UNCHANGED <<buf, cur, edEsc, edCr, due, file>>

-----------------------------------------------------------------------------
(* EditorEscState::Normal *)

InState(s) == mode = "edit" /\ edEsc = s

\* Escape, ^Q, ^X (which quits even if it could not save), ^S, ^R, ^L, ^K, ^U and
\* the page keys leave last_was_cr as it is.
Control ==
  /\ InState("normal")
  /\ \/ Nothing /\ edEsc' = "esc"
     \/ (Quit(file) \/ Quit("same")) /\ edEsc' = "normal"
     \/ (Save \/ RunCode \/ Marked("structure") \/ KillLine) /\ edEsc' = "normal"
     \/ Text(buf, Many(PageLines, LineUp), "structure") /\ edEsc' = "normal"
     \/ Text(buf, Many(PageLines, LineDown), "structure") /\ edEsc' = "normal"
  /\ edCr' = IF mode' = "closed" THEN FALSE ELSE edCr

Tab == InState("normal") /\ InsertTab /\ edCr' = FALSE /\ UNCHANGED edEsc
Rubout == InState("normal") /\ Backspace /\ edCr' = FALSE /\ UNCHANGED edEsc
CarriageReturn == InState("normal") /\ Insert(NL, "structure") /\ edCr' = TRUE /\ UNCHANGED edEsc

\* A line feed after a carriage return is swallowed.
LineFeed ==
  /\ InState("normal")
  /\ IF edCr THEN Nothing ELSE Insert(NL, "structure")
  /\ edCr' = FALSE /\ UNCHANGED edEsc

Printable(ch) == InState("normal") /\ Insert(ch, "line") /\ edCr' = FALSE /\ UNCHANGED edEsc
Unknown8bit == InState("normal") /\ Nothing /\ edCr' = FALSE /\ UNCHANGED edEsc

-----------------------------------------------------------------------------
(* Escape sequences *)

Ended == edEsc' = "normal" /\ edCr' = IF mode' = "closed" THEN FALSE ELSE edCr

\* EditorEscState::Esc
AfterEscape ==
  /\ InState("esc")
  /\ \/ \E s \in {"csi", "ss3"} : Nothing /\ edEsc' = s /\ UNCHANGED edCr
     \/ (Save \/ RunCode \/ Quit(file) \/ Text(<< >>, 0, "structure") \/ Nothing) /\ Ended
     \/ \E ch \in Typed : Insert(ch, "line") /\ Ended

CursorRight == MoveCursor(IF cur < Len(buf) THEN cur + 1 ELSE cur)
CursorLeft  == MoveCursor(IF cur > 0 THEN cur - 1 ELSE cur)
Home  == MoveCursor(LineStart(buf, cur))
End   == MoveCursor(LineEnd(buf, cur))

\* EditorEscState::Ss3: arrows, Home, End, F2, F3, others
AfterO ==
  /\ InState("ss3")
  /\ \/ MoveCursor(LineUp(cur)) \/ MoveCursor(LineDown(cur)) \/ CursorRight \/ CursorLeft \/ Home \/ End
     \/ Save \/ Marked("structure") \/ Nothing
  /\ Ended

\* The sequences that end with "~"
Numbered(n) ==
  CASE n = 12 -> Save
    [] n = 15 -> RunCode
    [] n = 21 -> Quit(file)
    [] n = 3  -> DeleteUnder
    [] n \in {1, 7} -> Home
    [] n \in {4, 8} -> End
    [] n = 5  -> Text(buf, Many(PageLines, LineUp), "structure")
    [] n = 6  -> Text(buf, Many(PageLines, LineDown), "structure")
    [] n \in {200, 201} -> Marked("structure")
    [] OTHER  -> Nothing

\* EditorEscState::Csi with its parameters
AfterBracket(p) ==
  LET ctrl == p = <<1, 5>>
      n    == IF ctrl THEN FastLines ELSE 1
  IN  /\ InState("csi")
      /\ \/ MoveCursor(Many(n, LineUp)) \/ MoveCursor(Many(n, LineDown))
         \/ ctrl /\ (MoveCursor(NextWord) \/ MoveCursor(PrevWord))
         \/ ~ ctrl /\ (CursorRight \/ CursorLeft)
         \/ Home \/ End
         \/ Numbered(p[1])
         \/ DeleteUnder       \* VT100 DCH
         \/ Nothing
      /\ Ended

-----------------------------------------------------------------------------
EdInit ==
  /\ mode = "closed" /\ buf = << >> /\ cur = 0 /\ top = 1
  /\ edEsc = "normal" /\ edCr = FALSE /\ due = "nothing" /\ left = {}
  /\ file = "none"
  /\ rows = [k \in 1 .. Rows |-> Line(0, << >>)]

\* start_editor with load_file: a file too long for the buffer is cut; the
\* terminal still shows what the shell wrote.
Start ==
  /\ mode = "closed" /\ mode' = "edit"
  /\ \/ buf' = << >> /\ file' = "none"
     \/ \E text \in Contents :
          buf' = SubSeq(text, 1, Min({Len(text), MaxBuf})) /\ file' = IF buf' = text THEN "same" ELSE "other"
  /\ cur' = 0 /\ top' = 1
  /\ \E t \in Junk : rows' = Drawn(buf', 1, [k \in 1 .. Rows |-> Line(0, t)])
  /\ UNCHANGED <<edEsc, edCr, due, left>>

EdNext ==
  \/ Control \/ Tab \/ Rubout \/ CarriageReturn \/ LineFeed \/ Unknown8bit
  \/ \E ch \in Typed : Printable(ch)
  \/ AfterEscape \/ AfterO \/ \E p \in Params : AfterBracket(p)
  \/ AnyKey \/ Refresh

-----------------------------------------------------------------------------
\* The text fits the buffer, the cursor is in the text, and the window starts at
\* a line.
EdTypeOK ==
  /\ mode \in {"closed", "edit", "output"}
  /\ buf \in Seq(Bytes) /\ Len(buf) <= MaxBuf /\ cur \in 0 .. Len(buf)
  /\ top \in 1 .. MaxBuf + 1
  /\ edEsc \in {"normal", "esc", "ss3", "csi"} /\ edCr \in BOOLEAN
  /\ due \in DOMAIN Urgency /\ file \in {"none", "other", "same"}

\* What the terminal shows once the receive buffer was empty: every row its line
\* of the text (the last row, if lines follow, at least begins with it), the rows
\* behind the text empty, and the line of the cursor among them - although most
\* bytes only redraw one line.  Lines that were edited and left again in one burst
\* of bytes are excepted: redraw_current_line forgets them.
ScreenShowsBuffer ==
  mode = "edit" /\ due = "nothing" =>
    /\ \A k \in 1 .. Rows :
         LET n == top + k - 1
         IN  \/ n \in left
             \/ n > NumLines(buf) /\ rows[k] = Line(0, << >>)
             \/ /\ n <= NumLines(buf)
                /\ rows[k].num = n
                /\ IF k = Rows /\ n < NumLines(buf)
                     THEN SubSeq(rows[k].text, 1, Len(LineText(buf, n))) = LineText(buf, n)
                     ELSE rows[k].text = LineText(buf, n)
    /\ Row(buf, cur) \in top .. top + Rows - 1

\* A key other than Esc C edits the cursor's line and at most one of the newlines
\* around it: every other line stays in the text, byte for byte and in its place.
OtherLinesKept ==
  [][mode = "edit" /\ mode' = "edit" /\ buf' # << >> =>
       LET above == SubSeq(buf, 1, Max({0, LineStart(buf, cur) - 1}))
           below == SubSeq(buf, LineEnd(buf, cur) + 2, Len(buf))
       IN  buf' = above \o SubSeq(buf', Len(above) + 1, Len(buf') - Len(below)) \o below]_edVars
=============================================================================
