------------------------------ MODULE ShellLine ------------------------------
(***************************************************************************)
(* The line editor of the shell, poll_shell of kernel/src/shell.rs: the    *)
(* bytes of the UART drive an escape-sequence parser, the line buffer, the *)
(* history and what the terminal shows.  One action per class of byte;     *)
(* BatchEnd is the end of a poll, when the receive buffer is empty.        *)
(*                                                                         *)
(* Only the first two CSI parameters are looked at, and only for values    *)
(* below 9: 9 stands for every larger value, 2 for every later parameter.  *)
(***************************************************************************)
EXTENDS Naturals, Sequences

CONSTANTS Chars,        \* printable bytes that are typed; one is " "
          Digits,       \* digits in CSI sequences
          MaxLineLen,   \* MAX_LINE_LEN (128)
          HistorySize,  \* HISTORY_SIZE (8)
          MaxExec       \* bound: lines executed

ASSUME ShellAssumption ==
  /\ Digits \subseteq 0 .. 8
  /\ MaxLineLen \in Nat \ {0}
  /\ HistorySize \in Nat \ {0}

VARIABLES line, cursor,             \* LINE_BUF[..LINE_LEN], CURSOR_POS
          esc, params, paramCount,  \* ESC_STATE
          lastWasCr,                \* LAST_WAS_CR
          needsRedraw,
          history, count, idx,      \* HISTORY, HISTORY_COUNT, HISTORY_IDX
          screen,                   \* the terminal: text after the prompt, column
          executed                  \* history variable: the lines executed

edit    == <<line, cursor>>
escape  == <<esc, params, paramCount>>
recall  == <<history, count, idx>>
vars == <<edit, escape, lastWasCr, needsRedraw, recall, screen, executed>>

Shown(text, col) == [text |-> text, col |-> col]

\* init_shell has printed the first prompt.
Init ==
  /\ line = << >> /\ cursor = 0
  /\ esc = "normal" /\ params = <<0, 0>> /\ paramCount = 0
  /\ lastWasCr = FALSE
  /\ needsRedraw = FALSE
  /\ history = [s \in 0 .. HistorySize - 1 |-> << >>]
  /\ count = 0 /\ idx = 0
  /\ screen = Shown(<< >>, 0)
  /\ executed = << >>

\* While a redraw is due, what the terminal shows does not matter: redraw_line
\* starts at the prompt and clears to the end of the line.
Stale == Shown(<< >>, 0)

\* The line and the cursor change, and the line is drawn at the end of the poll.
Edited(text, pos) ==
  /\ line' = text
  /\ cursor' = pos
  /\ needsRedraw' = TRUE
  /\ screen' = Stale

Unedited == UNCHANGED <<edit, needsRedraw, screen>>

Before(k) == SubSeq(line, 1, k)
After(k)  == SubSeq(line, k + 1, Len(line))

-----------------------------------------------------------------------------
(* EscapeState::Normal *)

TypedEsc ==
  /\ esc = "normal"
  /\ esc' = "esc"
  /\ lastWasCr' = FALSE
  /\ Unedited
  /\ UNCHANGED <<params, paramCount, recall, executed>>

\* Mutant: the run of saved lines starts one slot late.
SlotForLate == (count + 1) % HistorySize

SlotFor == count % HistorySize

\* save_to_history
SaveToHistory ==
  /\ history' = [history EXCEPT ![SlotFor] = line]
  /\ count' = count + 1
  /\ idx' = count'

\* A line is executed and a prompt is printed; an empty one only gets a prompt.
Enter ==
  /\ Len(executed) < MaxExec
  /\ IF line # << >> THEN SaveToHistory /\ executed' = Append(executed, line)
                     ELSE UNCHANGED <<recall, executed>>
  /\ line' = << >> /\ cursor' = 0
  /\ needsRedraw' = FALSE
  /\ screen' = Shown(<< >>, 0)
  /\ UNCHANGED escape

TypedCr == esc = "normal" /\ Enter /\ lastWasCr' = TRUE

\* A line feed after a carriage return is swallowed.
TypedLf ==
  /\ esc = "normal"
  /\ IF lastWasCr THEN Unedited /\ UNCHANGED <<escape, recall, executed>> ELSE Enter
  /\ lastWasCr' = FALSE

TypedBackspace ==
  /\ esc = "normal"
  /\ lastWasCr' = FALSE
  /\ IF cursor > 0 THEN Edited(Before(cursor - 1) \o After(cursor), cursor - 1) ELSE Unedited
  /\ UNCHANGED <<escape, recall, executed>>

TypedCtrlC ==
  /\ esc = "normal"
  /\ lastWasCr' = FALSE
  /\ line' = << >> /\ cursor' = 0
  /\ needsRedraw' = FALSE
  /\ screen' = Shown(<< >>, 0)
  /\ UNCHANGED <<escape, recall, executed>>

TypedCtrlL ==
  /\ esc = "normal"
  /\ lastWasCr' = FALSE
  /\ Edited(line, cursor)
  /\ UNCHANGED <<escape, recall, executed>>

\* Tab and the bytes without a meaning
TypedOther ==
  /\ esc = "normal"
  /\ lastWasCr' = FALSE
  /\ Unedited
  /\ UNCHANGED <<escape, recall, executed>>

\* What the terminal does with a printable byte: it overwrites at its cursor.
Echo(c) ==
  Shown(SubSeq(screen.text, 1, screen.col) \o <<c>>
          \o SubSeq(screen.text, screen.col + 2, Len(screen.text)),
        screen.col + 1)

\* Mutant: the last byte of the buffer is used too.
RoomAll == Len(line) < MaxLineLen

Room == Len(line) < MaxLineLen - 1

\* Mutant: every byte is echoed, and only echoed.
AtEndAlways == TRUE

AtEnd == cursor = Len(line)

TypedPrintable(c) ==
  /\ esc = "normal"
  /\ lastWasCr' = FALSE
  /\ LET text == Before(cursor) \o <<c>> \o After(cursor)
     IN  \/ ~ Room /\ Unedited
         \/ Room /\ ~ AtEnd /\ Edited(text, cursor + 1)
         \/ /\ Room /\ AtEnd
            /\ line' = text /\ cursor' = cursor + 1
            /\ screen' = IF needsRedraw THEN Stale ELSE Echo(c)
            /\ UNCHANGED needsRedraw
  /\ UNCHANGED <<escape, recall, executed>>

-----------------------------------------------------------------------------
(* Escape sequences *)

\* EscapeState::Esc: "[" and "O" begin a sequence, any other byte ends it.
AfterEsc(state) ==
  /\ esc = "esc"
  /\ esc' = state
  /\ params' = <<0, 0>> /\ paramCount' = 0
  /\ Unedited
  /\ UNCHANGED <<lastWasCr, recall, executed>>

RecallSlot(k) ==
  LET text == history[k % HistorySize]
  IN  Edited(text, Len(text)) /\ idx' = k /\ UNCHANGED <<history, count>>

Up == IF count > 0 /\ idx > 0 THEN RecallSlot(idx - 1) ELSE Unedited /\ UNCHANGED recall

Down ==
  IF idx + 1 < count THEN RecallSlot(idx + 1)
  ELSE Edited(<< >>, 0) /\ idx' = count /\ UNCHANGED <<history, count>>

MoveTo(k) == Edited(line, k) /\ UNCHANGED recall
Stay == Unedited /\ UNCHANGED recall
Right == IF cursor < Len(line) THEN MoveTo(cursor + 1) ELSE Stay
Left  == IF cursor > 0 THEN MoveTo(cursor - 1) ELSE Stay

DeleteAtCursor ==
  IF cursor < Len(line)
  THEN Edited(Before(cursor) \o After(cursor + 1), cursor) /\ UNCHANGED recall
  ELSE Stay

\* move_word_left and move_word_right, which draw the line at once.
WordStarts == {k \in 1 .. Len(line) : line[k] # " " /\ (k = 1 \/ line[k - 1] = " ")}
Highest(S) == CHOOSE k \in S : \A j \in S : j <= k
Lowest(S)  == CHOOSE k \in S : \A j \in S : k <= j

WordLeft  == LET ks == {k - 1 : k \in WordStarts} \cap (0 .. cursor - 1)
             IN  IF ks = {} THEN 0 ELSE Highest(ks)
WordRight == LET ks == {k - 1 : k \in WordStarts} \cap (cursor + 1 .. Len(line))
             IN  IF ks = {} THEN Len(line) ELSE Lowest(ks)

MoveWord(k) ==
  /\ cursor' = k
  /\ screen' = IF k = cursor \/ needsRedraw THEN screen ELSE Shown(line, k)
  /\ UNCHANGED <<line, needsRedraw, recall>>

\* The parameters are part of EscapeState::Csi and go with it.
EndSequence ==
  /\ esc' = "normal"
  /\ params' = <<0, 0>> /\ paramCount' = 0
  /\ UNCHANGED <<lastWasCr, executed>>

\* The keys that both kinds of sequence know: Up (A), Down (B), Home (H), End (F)
\* and bytes without a meaning.
CommonKey == Up \/ Down \/ MoveTo(0) \/ MoveTo(Len(line)) \/ Stay

AfterSs3 ==
  /\ esc = "ss3"
  /\ CommonKey \/ Right \/ Left
  /\ EndSequence

CsiDigit(d) ==
  /\ esc = "csi"
  /\ params' = IF paramCount = 2 THEN params
               ELSE [params EXCEPT ![paramCount + 1] = IF @ = 0 THEN d ELSE 9]
  /\ Unedited
  /\ UNCHANGED <<esc, paramCount, lastWasCr, recall, executed>>

CsiSemicolon ==
  /\ esc = "csi"
  /\ paramCount' = IF paramCount < 2 THEN paramCount + 1 ELSE paramCount
  /\ Unedited
  /\ UNCHANGED <<esc, params, lastWasCr, recall, executed>>

IsCtrl == params = <<1, 5>>

Tilde ==
  CASE params[1] = 3      -> DeleteAtCursor
    [] params[1] \in {1, 7} -> MoveTo(0)
    [] params[1] \in {4, 8} -> MoveTo(Len(line))
    [] OTHER              -> Stay

CsiFinal ==
  /\ esc = "csi"
  /\ \/ CommonKey
     \/ ~ IsCtrl /\ (Left \/ Right)
     \/ Tilde
     \/ DeleteAtCursor                            \* VT100 DCH
     \/ IsCtrl /\ (MoveWord(WordLeft) \/ MoveWord(WordRight))
  /\ EndSequence

-----------------------------------------------------------------------------
\* The receive buffer is empty: redraw_line if it is due.
BatchEnd ==
  /\ needsRedraw
  /\ needsRedraw' = FALSE
  /\ screen' = Shown(line, cursor)
  /\ UNCHANGED <<edit, escape, lastWasCr, recall, executed>>

Next ==
  \/ TypedEsc \/ TypedCr \/ TypedLf \/ TypedBackspace \/ TypedCtrlC \/ TypedCtrlL \/ TypedOther
  \/ \E c \in Chars : TypedPrintable(c)
  \/ \E state \in {"csi", "ss3", "normal"} : AfterEsc(state)
  \/ AfterSs3
  \/ \E d \in Digits : CsiDigit(d)
  \/ CsiSemicolon \/ CsiFinal
  \/ BatchEnd

Spec == Init /\ [][Next]_vars

-----------------------------------------------------------------------------
\* The cursor stays in the line, and the line leaves a byte of its buffer free.
TypeOK ==
  /\ line \in Seq(Chars) /\ Len(line) < MaxLineLen
  /\ cursor \in 0 .. Len(line)
  /\ esc \in {"normal", "esc", "ss3", "csi"}
  /\ params \in (0 .. 9) \X (0 .. 9) /\ paramCount \in 0 .. 2
  /\ lastWasCr \in BOOLEAN /\ needsRedraw \in BOOLEAN
  /\ history \in [0 .. HistorySize - 1 -> Seq(Chars)]
  /\ \A s \in 0 .. HistorySize - 1 : Len(history[s]) < MaxLineLen
  /\ count \in Nat /\ idx \in 0 .. count
  /\ executed \in Seq(Seq(Chars))

\* Whenever no redraw is due, the terminal shows the line that Enter would
\* execute and the cursor at the place where the next byte would go, although
\* most bytes are only echoed.
ScreenShowsLine == ~ needsRedraw => screen = Shown(line, cursor)

\* Walking through the history shows the command executed at that place, for the
\* last HistorySize commands.  (Further up, the walk starts over at the newest.)
RecallIsFaithful ==
  [][count' = count /\ idx' # idx /\ idx' < count /\ count - idx' <= HistorySize
       => line' = executed[idx' + 1]]_vars
=============================================================================
