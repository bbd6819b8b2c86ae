---------------------------- MODULE ConsoleProofs ----------------------------
(***************************************************************************)
(* Proofs about the serial console, for every line length, history size    *)
(* and set of bytes: what the shell's line editor keeps while its bytes    *)
(* alternate with sessions of the screen editor, what the keys of the      *)
(* screen editor leave of the text, and what its terminal shows.           *)
(***************************************************************************)
EXTENDS Console, SequenceTheorems, FiniteSetTheorems, TLAPS

-----------------------------------------------------------------------------
(* Sequences that the editing keys build *)

\* A part of a line is a line.
LEMMA PartOfLine ==
  ASSUME NEW s \in Seq(Chars), NEW i \in 1 .. Len(s) + 1, NEW j \in 0 .. Len(s), i <= j + 1
  PROVE  /\ SubSeq(s, i, j) \in Seq(Chars)
         /\ Len(SubSeq(s, i, j)) = j - i + 1
         /\ \A k \in 1 .. j - i + 1 : SubSeq(s, i, j)[k] = s[i + k - 1]
OBVIOUS

\* The part of the line before the k-th byte and the part behind it
LEMMA Parts ==
  ASSUME TypeOK, NEW k \in 0 .. Len(line)
  PROVE  /\ Before(k) \in Seq(Chars) /\ Len(Before(k)) = k
         /\ After(k) \in Seq(Chars) /\ Len(After(k)) = Len(line) - k
<1>1. line \in Seq(Chars) /\ Len(line) \in Nat
  BY DEF TypeOK
<1>2. 1 \in 1 .. Len(line) + 1 /\ k \in 0 .. Len(line) /\ 1 <= k + 1
      /\ k + 1 \in 1 .. Len(line) + 1 /\ Len(line) \in 0 .. Len(line) /\ k + 1 <= Len(line) + 1
  BY <1>1
<1>3. SubSeq(line, 1, k) \in Seq(Chars) /\ Len(SubSeq(line, 1, k)) = k - 1 + 1
  BY <1>1, <1>2, PartOfLine
<1>4. SubSeq(line, k + 1, Len(line)) \in Seq(Chars)
      /\ Len(SubSeq(line, k + 1, Len(line))) = Len(line) - (k + 1) + 1
  BY <1>1, <1>2, PartOfLine
<1>5. QED
  BY <1>1, <1>2, <1>3, <1>4 DEF Before, After

-----------------------------------------------------------------------------
(* The line and the screen *)

\* The part of the line editor's state that its keys edit
EditOK ==
  /\ line \in Seq(Chars) /\ Len(line) < MaxLineLen
  /\ cursor \in 0 .. Len(line)
  /\ needsRedraw \in BOOLEAN
  /\ ScreenShowsLine

LEMMA EditedOK ==
  ASSUME NEW text \in Seq(Chars), Len(text) < MaxLineLen, NEW pos \in 0 .. Len(text),
         Edited(text, pos)
  PROVE  EditOK'
BY DEF Edited, EditOK, ScreenShowsLine

LEMMA UneditedOK ==
  ASSUME EditOK, Unedited
  PROVE  EditOK'
BY DEF Unedited, edit, EditOK, ScreenShowsLine

\* A new prompt
LEMMA PromptOK ==
  ASSUME line' = << >>, cursor' = 0, needsRedraw' = FALSE, screen' = Shown(<< >>, 0)
  PROVE  EditOK'
<1>1. line' \in Seq(Chars) /\ Len(line') = 0
  OBVIOUS
<1>2. Len(line') < MaxLineLen /\ cursor' \in 0 .. Len(line')
  BY <1>1, ShellAssumption
<1>3. needsRedraw' \in BOOLEAN
  OBVIOUS
<1>4. QED
  BY <1>1, <1>2, <1>3 DEF EditOK, ScreenShowsLine

LEMMA EnterOK ==
  ASSUME Enter
  PROVE  EditOK'
BY PromptOK DEF Enter

LEMMA BackspaceOK ==
  ASSUME TypeOK, EditOK, TypedBackspace
  PROVE  EditOK'
<1>1. CASE cursor > 0
  <2> DEFINE text == Before(cursor - 1) \o After(cursor)
  <2>1. cursor \in 0 .. Len(line) /\ cursor - 1 \in 0 .. Len(line) /\ Len(line) \in Nat
    BY <1>1 DEF TypeOK
  <2>2. Before(cursor - 1) \in Seq(Chars) /\ Len(Before(cursor - 1)) = cursor - 1
    BY <2>1, Parts
  <2>3. After(cursor) \in Seq(Chars) /\ Len(After(cursor)) = Len(line) - cursor
    BY <2>1, Parts
  <2>4. text \in Seq(Chars) /\ Len(text) = Len(line) - 1
    BY <2>1, <2>2, <2>3
  <2>5. Len(text) < MaxLineLen /\ cursor - 1 \in 0 .. Len(text)
    BY <1>1, <2>1, <2>4, ShellAssumption DEF TypeOK
  <2>6. Edited(text, cursor - 1)
    BY <1>1 DEF TypedBackspace
  <2>7. QED
    BY <2>4, <2>5, <2>6, EditedOK
<1>2. CASE ~ (cursor > 0)
  BY <1>2, UneditedOK DEF TypedBackspace
<1>3. QED
  BY <1>1, <1>2

\* A byte between all of a line and nothing is a byte appended.
LEMMA ByteAtEnd ==
  ASSUME NEW s \in Seq(Chars), NEW c \in Chars, NEW j \in Int, Len(s) < j
  PROVE  SubSeq(s, 1, Len(s)) \o <<c>> \o SubSeq(s, j, Len(s)) = Append(s, c)
<1>1. Len(s) \in Int
  OBVIOUS
<1>2. SubSeq(s, 1, Len(s)) = s
  BY SubSeqFull
<1>3. SubSeq(s, j, Len(s)) = << >>
  BY <1>1, SubSeqEmpty
<1>4. Append(s, c) = s \o <<c>> /\ Append(s, c) \in Seq(Chars)
  BY AppendIsConcat
<1>5. Append(s, c) \o << >> = Append(s, c)
  BY <1>4, ConcatEmptySeq
<1>6. QED
  BY <1>2, <1>3, <1>4, <1>5

\* At the end of a line that is on the screen, an echo shows the new line.
LEMMA EchoShowsLine ==
  ASSUME EditOK, ~ needsRedraw, AtEnd, NEW c \in Chars
  PROVE  Echo(c) = Shown(Append(line, c), cursor + 1)
<1>1. line \in Seq(Chars) /\ cursor = Len(line) /\ Len(line) \in Nat
  BY DEF EditOK, AtEnd
<1>2. screen.text = line /\ screen.col = cursor
  BY DEF EditOK, ScreenShowsLine, Shown
<1>3. SubSeq(line, 1, Len(line)) \o <<c>> \o SubSeq(line, Len(line) + 2, Len(line)) = Append(line, c)
  <2>1. Len(line) + 2 \in Int /\ Len(line) < Len(line) + 2
    BY <1>1
  <2>2. QED
    BY <1>1, <2>1, ByteAtEnd
<1>4. QED
  BY <1>1, <1>2, <1>3 DEF Echo, Shown

LEMMA PrintableOK ==
  ASSUME TypeOK, EditOK, NEW c \in Chars, TypedPrintable(c)
  PROVE  EditOK'
<1> DEFINE text == Before(cursor) \o <<c>> \o After(cursor)
<1>1. line \in Seq(Chars) /\ cursor \in 0 .. Len(line) /\ Len(line) \in Nat
  BY DEF TypeOK
<1>2. Before(cursor) \in Seq(Chars) /\ Len(Before(cursor)) = cursor
      /\ After(cursor) \in Seq(Chars) /\ Len(After(cursor)) = Len(line) - cursor
  BY <1>1, Parts
<1>3. text \in Seq(Chars) /\ Len(text) = Len(line) + 1
  BY <1>1, <1>2
<1>4. CASE ~ Room /\ Unedited
  BY <1>4, UneditedOK
<1>5. CASE Room /\ ~ AtEnd /\ Edited(text, cursor + 1)
  <2>1. Len(text) < MaxLineLen /\ cursor + 1 \in 0 .. Len(text)
    BY <1>1, <1>3, <1>5, ShellAssumption DEF Room
  <2>2. QED
    BY <1>3, <1>5, <2>1, EditedOK
<1>6. CASE /\ Room /\ AtEnd
           /\ line' = text /\ cursor' = cursor + 1
           /\ screen' = IF needsRedraw THEN Stale ELSE Echo(c)
           /\ UNCHANGED needsRedraw
  <2>1. Len(text) < MaxLineLen /\ cursor + 1 \in 0 .. Len(text)
    BY <1>1, <1>3, <1>6, ShellAssumption DEF Room
  <2>2. text = Append(line, c)
    <3>1. Len(line) + 1 \in Int /\ Len(line) < Len(line) + 1 /\ cursor = Len(line)
      BY <1>1, <1>6 DEF AtEnd
    <3>2. SubSeq(line, 1, Len(line)) \o <<c>> \o SubSeq(line, Len(line) + 1, Len(line)) = Append(line, c)
      BY <1>1, <3>1, ByteAtEnd
    <3>3. QED
      BY <3>1, <3>2 DEF Before, After
  <2>3. ~ needsRedraw => screen' = Shown(line', cursor')
    BY <1>6, <2>2, EchoShowsLine
  <2>4. QED
    BY <1>3, <1>6, <2>1, <2>3 DEF EditOK, ScreenShowsLine
<1>7. QED
  BY <1>4, <1>5, <1>6 DEF TypedPrintable

-----------------------------------------------------------------------------
(* Least and greatest elements *)

Less == {p \in Nat \X Nat : p[1] < p[2]}

LEMMA LessIsWellFounded == IsWellFoundedOn(Less, Nat)
BY NatLessThanWellFounded DEF OpToRel, Less

LEMMA LeastExists ==
  ASSUME NEW S, S \subseteq Nat, S # {}
  PROVE  \E x \in S : \A y \in S : x <= y
<1>1. PICK x \in S : \A y \in S : ~ (<<y, x>> \in Less)
  BY LessIsWellFounded, WFMin
<1>2. ASSUME NEW y \in S
      PROVE  x <= y
  <2>1. x \in Nat /\ y \in Nat /\ ~ (<<y, x>> \in Less)
    BY <1>1
  <2>2. ~ (y < x)
    BY <2>1 DEF Less
  <2>3. QED
    BY <2>1, <2>2
<1>3. QED
  BY <1>2

LEMMA GreatestExists ==
  ASSUME NEW n \in Nat, NEW S, S \subseteq 0 .. n, S # {}
  PROVE  \E x \in S : \A y \in S : y <= x
<1> DEFINE T == {n - x : x \in S}
<1>1. T \subseteq Nat /\ T # {}
  <2>1. \A x \in S : n - x \in Nat
    OBVIOUS
  <2>2. QED
    BY <2>1
<1>2. PICK t \in T : \A u \in T : t <= u
  BY <1>1, LeastExists
<1>3. PICK x \in S : t = n - x
  OBVIOUS
<1>4. ASSUME NEW y \in S
      PROVE  y <= x
  <2>1. n - y \in T
    OBVIOUS
  <2>2. t <= n - y
    BY <1>2, <2>1
  <2>3. x \in 0 .. n /\ y \in 0 .. n
    OBVIOUS
  <2>4. QED
    BY <1>3, <2>2, <2>3
<1>5. QED
  BY <1>4

LEMMA WordsInLine ==
  ASSUME TypeOK
  PROVE  WordLeft \in 0 .. Len(line) /\ WordRight \in 0 .. Len(line)
<1>1. Len(line) \in Nat /\ cursor \in 0 .. Len(line)
  BY DEF TypeOK
<1> DEFINE ls == {k - 1 : k \in WordStarts} \cap (0 .. cursor - 1)
           rs == {k - 1 : k \in WordStarts} \cap (cursor + 1 .. Len(line))
<1>2. /\ ls \subseteq 0 .. Len(line) /\ rs \subseteq 0 .. Len(line) /\ rs \subseteq Nat
      /\ 0 \in 0 .. Len(line) /\ Len(line) \in 0 .. Len(line)
  BY <1>1
<1>3. ls # {} => Highest(ls) \in ls
  <2>1. ls # {} => \E x \in ls : \A y \in ls : y <= x
    <3> HIDE DEF ls
    <3>1. QED BY <1>1, <1>2, GreatestExists
  <2> HIDE DEF ls
  <2>2. QED
    BY <2>1 DEF Highest
<1>4. rs # {} => Lowest(rs) \in rs
  <2>1. rs # {} => \E x \in rs : \A y \in rs : x <= y
    <3> HIDE DEF rs
    <3>1. QED BY <1>2, LeastExists
  <2> HIDE DEF rs
  <2>2. QED
    BY <2>1 DEF Lowest
<1>5. WordLeft = IF ls = {} THEN 0 ELSE Highest(ls)
  BY DEF WordLeft
<1>6. WordRight = IF rs = {} THEN Len(line) ELSE Lowest(rs)
  BY DEF WordRight
<1> HIDE DEF ls, rs
<1>7. WordLeft \in 0 .. Len(line)
  BY <1>1, <1>2, <1>3, <1>5
<1>8. WordRight \in 0 .. Len(line)
  BY <1>1, <1>2, <1>4, <1>6
<1>9. QED
  BY <1>7, <1>8

-----------------------------------------------------------------------------
(* The keys that come as escape sequences *)

\* Moving the cursor in the line, now or at the end of the poll
LEMMA MoveToOK ==
  ASSUME TypeOK, NEW k \in 0 .. Len(line), MoveTo(k)
  PROVE  EditOK'
BY EditedOK DEF MoveTo, TypeOK

LEMMA MoveWordOK ==
  ASSUME EditOK, NEW k \in 0 .. Len(line), MoveWord(k)
  PROVE  EditOK'
<1>1. line' = line /\ cursor' = k /\ needsRedraw' = needsRedraw
  BY DEF MoveWord
<1>2. ~ needsRedraw => screen' = Shown(line, k)
  BY DEF MoveWord, EditOK, ScreenShowsLine
<1>3. QED
  BY <1>1, <1>2 DEF EditOK, ScreenShowsLine

LEMMA DeleteOK ==
  ASSUME TypeOK, EditOK, DeleteAtCursor
  PROVE  EditOK'
<1>1. CASE cursor < Len(line)
  <2> DEFINE text == Before(cursor) \o After(cursor + 1)
  <2>1. cursor \in 0 .. Len(line) /\ cursor + 1 \in 0 .. Len(line) /\ Len(line) \in Nat
    BY <1>1 DEF TypeOK
  <2>2. Before(cursor) \in Seq(Chars) /\ Len(Before(cursor)) = cursor
    BY <2>1, Parts
  <2>3. After(cursor + 1) \in Seq(Chars) /\ Len(After(cursor + 1)) = Len(line) - (cursor + 1)
    BY <2>1, Parts
  <2>4. text \in Seq(Chars) /\ Len(text) = Len(line) - 1
    BY <2>1, <2>2, <2>3
  <2>5. Len(text) < MaxLineLen /\ cursor \in 0 .. Len(text)
    BY <1>1, <2>1, <2>4, ShellAssumption DEF TypeOK
  <2>6. Edited(text, cursor)
    BY <1>1 DEF DeleteAtCursor
  <2>7. QED
    BY <2>4, <2>5, <2>6, EditedOK
<1>2. CASE ~ (cursor < Len(line))
  BY <1>2, UneditedOK DEF DeleteAtCursor, Stay
<1>3. QED
  BY <1>1, <1>2

\* A slot of the history holds a line.
LEMMA SlotHoldsLine ==
  ASSUME TypeOK, NEW k \in Nat
  PROVE  /\ k % HistorySize \in 0 .. HistorySize - 1
         /\ history[k % HistorySize] \in Seq(Chars)
         /\ Len(history[k % HistorySize]) < MaxLineLen
         /\ Len(history[k % HistorySize]) \in 0 .. Len(history[k % HistorySize])
<1>1. k % HistorySize \in 0 .. HistorySize - 1
  BY ShellAssumption
<1>2. history[k % HistorySize] \in Seq(Chars) /\ Len(history[k % HistorySize]) < MaxLineLen
  BY <1>1 DEF TypeOK
<1>3. QED
  BY <1>1, <1>2

LEMMA RecallSlotOK ==
  ASSUME TypeOK, NEW k \in Nat, RecallSlot(k)
  PROVE  EditOK'
<1> DEFINE text == history[k % HistorySize]
<1>1. text \in Seq(Chars) /\ Len(text) < MaxLineLen /\ Len(text) \in 0 .. Len(text)
  BY SlotHoldsLine
<1>2. Edited(text, Len(text))
  BY DEF RecallSlot
<1>3. QED
  BY <1>1, <1>2, EditedOK

LEMMA EmptyLine ==
  /\ << >> \in Seq(Chars) /\ Len(<< >>) < MaxLineLen /\ 0 \in 0 .. Len(<< >>)
BY ShellAssumption

LEMMA CommonKeyOK ==
  ASSUME TypeOK, EditOK, CommonKey
  PROVE  EditOK'
<1>1. /\ Len(line) \in 0 .. Len(line) /\ 0 \in 0 .. Len(line)
      /\ count \in Nat /\ idx \in 0 .. count /\ idx + 1 \in Nat
  BY DEF TypeOK
<1>2. CASE Up
  <2>1. CASE count > 0 /\ idx > 0
    <3>1. idx - 1 \in Nat /\ RecallSlot(idx - 1)
      BY <1>1, <1>2, <2>1 DEF Up
    <3>2. QED
      BY <3>1, RecallSlotOK
  <2>2. CASE ~ (count > 0 /\ idx > 0)
    BY <1>2, <2>2, UneditedOK DEF Up
  <2>3. QED
    BY <2>1, <2>2
<1>3. CASE Down
  <2>1. CASE idx + 1 < count
    BY <1>1, <1>3, <2>1, RecallSlotOK DEF Down
  <2>2. CASE ~ (idx + 1 < count)
    BY <1>3, <2>2, EmptyLine, EditedOK DEF Down
  <2>3. QED
    BY <2>1, <2>2
<1>4. CASE MoveTo(0)
  BY <1>1, <1>4, MoveToOK
<1>5. CASE MoveTo(Len(line))
  BY <1>1, <1>5, MoveToOK
<1>6. CASE Stay
  BY <1>6, UneditedOK DEF Stay
<1>7. QED
  BY <1>2, <1>3, <1>4, <1>5, <1>6 DEF CommonKey

LEMMA SideOK ==
  ASSUME TypeOK, EditOK, Left \/ Right
  PROVE  EditOK'
<1>1. cursor \in 0 .. Len(line) /\ Len(line) \in Nat
  BY DEF TypeOK
<1>2. CASE Left
  <2>1. CASE cursor > 0
    <3>1. cursor - 1 \in 0 .. Len(line) /\ MoveTo(cursor - 1)
      BY <1>1, <1>2, <2>1 DEF Left
    <3>2. QED
      BY <3>1, MoveToOK
  <2>2. CASE ~ (cursor > 0)
    BY <1>2, <2>2, UneditedOK DEF Left, Stay
  <2>3. QED
    BY <2>1, <2>2
<1>3. CASE Right
  <2>1. CASE cursor < Len(line)
    <3>1. cursor + 1 \in 0 .. Len(line) /\ MoveTo(cursor + 1)
      BY <1>1, <1>3, <2>1 DEF Right
    <3>2. QED
      BY <3>1, MoveToOK
  <2>2. CASE ~ (cursor < Len(line))
    BY <1>3, <2>2, UneditedOK DEF Right, Stay
  <2>3. QED
    BY <2>1, <2>2
<1>4. QED
  BY <1>2, <1>3

LEMMA TildeOK ==
  ASSUME TypeOK, EditOK, Tilde
  PROVE  EditOK'
<1>1. Len(line) \in 0 .. Len(line) /\ 0 \in 0 .. Len(line)
  BY DEF TypeOK
<1>2. DeleteAtCursor \/ MoveTo(0) \/ MoveTo(Len(line)) \/ Stay
  BY DEF Tilde
<1>3. QED
  BY <1>1, <1>2, DeleteOK, MoveToOK, UneditedOK DEF Stay

LEMMA CsiFinalOK ==
  ASSUME TypeOK, EditOK, CsiFinal
  PROVE  EditOK'
<1>1. CASE MoveWord(WordLeft) \/ MoveWord(WordRight)
  BY <1>1, WordsInLine, MoveWordOK
<1>2. QED
  BY <1>1, CommonKeyOK, SideOK, TildeOK, DeleteOK DEF CsiFinal

\* One step of the line editor
LEMMA EditStep ==
  ASSUME TypeOK, EditOK, Next
  PROVE  EditOK'
<1>1. CASE TypedEsc
  BY <1>1, UneditedOK DEF TypedEsc
<1>2. CASE TypedCr
  BY <1>2, EnterOK DEF TypedCr
<1>3. CASE TypedLf
  BY <1>3, EnterOK, UneditedOK DEF TypedLf
<1>4. CASE TypedBackspace
  BY <1>4, BackspaceOK
<1>5. CASE TypedCtrlC
  BY <1>5, PromptOK DEF TypedCtrlC
<1>6. CASE TypedCtrlL
  BY <1>6, EditedOK DEF TypedCtrlL, EditOK
<1>7. CASE TypedOther
  BY <1>7, UneditedOK DEF TypedOther
<1>8. CASE \E c \in Chars : TypedPrintable(c)
  BY <1>8, PrintableOK
<1>9. CASE \E state \in {"csi", "ss3", "normal"} : AfterEsc(state)
  BY <1>9, UneditedOK DEF AfterEsc
<1>10. CASE AfterSs3
  BY <1>10, CommonKeyOK, SideOK DEF AfterSs3
<1>11. CASE \E d \in Digits : CsiDigit(d)
  BY <1>11, UneditedOK DEF CsiDigit
<1>12. CASE CsiSemicolon
  BY <1>12, UneditedOK DEF CsiSemicolon
<1>13. CASE CsiFinal
  BY <1>13, CsiFinalOK
<1>14. CASE BatchEnd
  <2>1. line' = line /\ cursor' = cursor /\ needsRedraw' = FALSE /\ screen' = Shown(line, cursor)
    BY <1>14 DEF BatchEnd, edit
  <2>2. needsRedraw' \in BOOLEAN
    BY <2>1
  <2>3. QED
    BY <2>1, <2>2 DEF EditOK, ScreenShowsLine
<1>15. QED
  BY <1>1, <1>2, <1>3, <1>4, <1>5, <1>6, <1>7, <1>8, <1>9, <1>10, <1>11, <1>12, <1>13, <1>14
  DEF Next

-----------------------------------------------------------------------------
(* The parser of escape sequences *)

EscapeOK ==
  /\ esc \in {"normal", "esc", "ss3", "csi"}
  /\ params \in (0 .. 9) \X (0 .. 9) /\ paramCount \in 0 .. 2
  /\ lastWasCr \in BOOLEAN

\* A parameter takes a digit or overflows into 9.
LEMMA DigitOK ==
  ASSUME EscapeOK, NEW d \in Digits, CsiDigit(d)
  PROVE  params' \in (0 .. 9) \X (0 .. 9)
<1>1. PICK a \in 0 .. 9, b \in 0 .. 9 : params = <<a, b>>
  BY DEF EscapeOK
<1>2. d \in 0 .. 9 /\ 9 \in 0 .. 9
  BY ShellAssumption
<1>3. CASE paramCount = 2
  BY <1>3 DEF CsiDigit, EscapeOK
<1>4. CASE paramCount = 0
  <2>1. params' = [<<a, b>> EXCEPT ![1] = IF a = 0 THEN d ELSE 9]
    BY <1>1, <1>4 DEF CsiDigit
  <2>2. QED
    BY <1>1, <1>2, <2>1
<1>5. CASE paramCount = 1
  <2>1. params' = [<<a, b>> EXCEPT ![2] = IF b = 0 THEN d ELSE 9]
    BY <1>1, <1>5 DEF CsiDigit
  <2>2. QED
    BY <1>1, <1>2, <2>1
<1>6. QED
  BY <1>3, <1>4, <1>5 DEF EscapeOK

LEMMA EscapeStep ==
  ASSUME EscapeOK, Next
  PROVE  EscapeOK'
<1>1. CASE TypedEsc \/ TypedCr \/ TypedLf \/ TypedBackspace \/ TypedCtrlC \/ TypedCtrlL \/ TypedOther
  <2>1. esc' \in {"normal", "esc", "ss3", "csi"} /\ params' = params /\ paramCount' = paramCount
    BY <1>1 DEF EscapeOK, TypedEsc, TypedCr, TypedLf, Enter, TypedBackspace, TypedCtrlC, TypedCtrlL,
                TypedOther, escape
  <2>2. lastWasCr' \in BOOLEAN
    BY <1>1 DEF TypedEsc, TypedCr, TypedLf, TypedBackspace, TypedCtrlC, TypedCtrlL, TypedOther
  <2>3. QED
    BY <2>1, <2>2 DEF EscapeOK
<1>2. CASE \E c \in Chars : TypedPrintable(c)
  <2>1. UNCHANGED escape /\ lastWasCr' = FALSE
    BY <1>2 DEF TypedPrintable
  <2>2. lastWasCr' \in BOOLEAN
    BY <2>1
  <2>3. QED
    BY <2>1, <2>2 DEF EscapeOK, escape
<1>3. CASE \E state \in {"csi", "ss3", "normal"} : AfterEsc(state)
  BY <1>3 DEF AfterEsc, EscapeOK
<1>4. CASE AfterSs3 \/ CsiFinal
  <2>1. EndSequence
    BY <1>4 DEF AfterSs3, CsiFinal
  <2>2. QED
    BY <2>1 DEF EndSequence, EscapeOK
<1>5. CASE \E d \in Digits : CsiDigit(d)
  <2>1. params' \in (0 .. 9) \X (0 .. 9)
    BY <1>5, DigitOK
  <2>2. QED
    BY <1>5, <2>1 DEF CsiDigit, EscapeOK
<1>6. CASE CsiSemicolon
  BY <1>6 DEF CsiSemicolon, EscapeOK
<1>7. CASE BatchEnd
  BY <1>7 DEF BatchEnd, escape, EscapeOK
<1>8. QED
  BY <1>1, <1>2, <1>3, <1>4, <1>5, <1>6, <1>7 DEF Next

-----------------------------------------------------------------------------
(* The history *)

\* The slots hold the lines that were executed last, each in the slot of its number.
RecallOK ==
  /\ history \in [0 .. HistorySize - 1 -> Seq(Chars)]
  /\ \A s \in 0 .. HistorySize - 1 : Len(history[s]) < MaxLineLen
  /\ count \in Nat /\ idx \in 0 .. count
  /\ executed \in Seq(Seq(Chars)) /\ Len(executed) = count
  /\ \A k \in 0 .. count - 1 :
       count - k <= HistorySize => history[k % HistorySize] = executed[k + 1]

\* What a step does to the history: a line is executed and saved, or at most the
\* index moves, and to a line only together with that line.
Saves == SaveToHistory /\ executed' = Append(executed, line)
Walks ==
  /\ UNCHANGED <<history, count, executed>>
  /\ idx' \in 0 .. count
  /\ idx' < count /\ idx' # idx => line' = history[idx' % HistorySize]

LEMMA StillWalks ==
  ASSUME TypeOK, UNCHANGED <<recall, executed>>
  PROVE  Walks
BY DEF TypeOK, Walks, recall

LEMMA SlotWalks ==
  ASSUME TypeOK, NEW k \in 0 .. count, RecallSlot(k), UNCHANGED executed
  PROVE  Walks
BY DEF Walks, RecallSlot, Edited

LEMMA CommonKeyWalks ==
  ASSUME TypeOK, CommonKey, UNCHANGED executed
  PROVE  Walks
<1>1. count \in Nat /\ idx \in 0 .. count
  BY DEF TypeOK
<1>2. CASE Up
  <2>1. CASE count > 0 /\ idx > 0
    <3>1. idx - 1 \in 0 .. count /\ RecallSlot(idx - 1)
      BY <1>1, <1>2, <2>1 DEF Up
    <3>2. QED
      BY <3>1, SlotWalks
  <2>2. CASE ~ (count > 0 /\ idx > 0)
    BY <1>2, <2>2, StillWalks DEF Up
  <2>3. QED
    BY <2>1, <2>2
<1>3. CASE Down
  <2>1. CASE idx + 1 < count
    <3>1. idx + 1 \in 0 .. count /\ RecallSlot(idx + 1)
      BY <1>1, <1>3, <2>1 DEF Down
    <3>2. QED
      BY <3>1, SlotWalks
  <2>2. CASE ~ (idx + 1 < count)
    BY <1>1, <1>3, <2>2 DEF Down, Walks
  <2>3. QED
    BY <2>1, <2>2
<1>4. CASE MoveTo(0) \/ MoveTo(Len(line)) \/ Stay
  BY <1>4, StillWalks DEF MoveTo, Stay
<1>5. QED
  BY <1>2, <1>3, <1>4 DEF CommonKey

\* The other keys of escape sequences leave the history alone.
LEMMA KeysKeepRecall ==
  ASSUME Left \/ Right \/ Tilde \/ DeleteAtCursor \/ MoveWord(WordLeft) \/ MoveWord(WordRight)
  PROVE  UNCHANGED recall
<1>1. CASE Tilde
  <2>1. DeleteAtCursor \/ MoveTo(0) \/ MoveTo(Len(line)) \/ Stay
    BY <1>1 DEF Tilde
  <2>2. QED
    BY <2>1 DEF DeleteAtCursor, MoveTo, Stay
<1>2. CASE Left \/ Right \/ DeleteAtCursor
  BY <1>2 DEF Left, Right, DeleteAtCursor, MoveTo, Stay
<1>3. CASE MoveWord(WordLeft) \/ MoveWord(WordRight)
  BY <1>3 DEF MoveWord
<1>4. QED
  BY <1>1, <1>2, <1>3

LEMMA SavesOrWalks ==
  ASSUME TypeOK, Next
  PROVE  Saves \/ Walks
<1>1. CASE TypedCr \/ TypedLf
  <2>1. Enter \/ UNCHANGED <<recall, executed>>
    BY <1>1 DEF TypedCr, TypedLf
  <2>2. Saves \/ UNCHANGED <<recall, executed>>
    BY <2>1 DEF Enter, Saves
  <2>3. QED
    BY <2>2, StillWalks
<1>2. CASE TypedEsc \/ TypedBackspace \/ TypedCtrlC \/ TypedCtrlL \/ TypedOther
  BY <1>2, StillWalks DEF TypedEsc, TypedBackspace, TypedCtrlC, TypedCtrlL, TypedOther
<1>3. CASE \E c \in Chars : TypedPrintable(c)
  BY <1>3, StillWalks DEF TypedPrintable
<1>4. CASE \E state \in {"csi", "ss3", "normal"} : AfterEsc(state)
  BY <1>4, StillWalks DEF AfterEsc
<1>5. CASE AfterSs3
  <2>1. UNCHANGED executed
    BY <1>5 DEF AfterSs3, EndSequence
  <2>2. QED
    BY <1>5, <2>1, CommonKeyWalks, KeysKeepRecall, StillWalks DEF AfterSs3
<1>6. CASE CsiFinal
  <2>1. UNCHANGED executed
    BY <1>6 DEF CsiFinal, EndSequence
  <2>2. QED
    BY <1>6, <2>1, CommonKeyWalks, KeysKeepRecall, StillWalks DEF CsiFinal
<1>7. CASE (\E d \in Digits : CsiDigit(d)) \/ CsiSemicolon \/ BatchEnd
  BY <1>7, StillWalks DEF CsiDigit, CsiSemicolon, BatchEnd
<1>8. QED
  BY <1>1, <1>2, <1>3, <1>4, <1>5, <1>6, <1>7 DEF Next

\* Lines fewer than HistorySize apart are in different slots.
LEMMA LinesInOwnSlots ==
  ASSUME NEW f \in Nat, NEW g \in Nat, f < g, g - f < HistorySize
  PROVE  f % HistorySize # g % HistorySize
<1> SUFFICES ASSUME f % HistorySize = g % HistorySize PROVE FALSE
  OBVIOUS
<1> DEFINE q == g \div HistorySize - f \div HistorySize
<1>1. q \in Int /\ g - f = HistorySize * q
  BY ShellAssumption
<1> HIDE DEF q
<1>2. 0 < HistorySize * q /\ HistorySize * q < HistorySize
  BY <1>1
<1>3. CASE q <= 0
  BY <1>1, <1>2, <1>3, ShellAssumption
<1>4. CASE q >= 1
  BY <1>1, <1>2, <1>4, ShellAssumption
<1>5. QED
  BY <1>1, <1>3, <1>4

LEMMA SaveStep ==
  ASSUME RecallOK, EditOK, Saves
  PROVE  RecallOK'
<1> DEFINE s == count % HistorySize
<1>1. /\ count \in Nat /\ s \in 0 .. HistorySize - 1
      /\ line \in Seq(Chars) /\ Len(line) < MaxLineLen
  BY ShellAssumption DEF RecallOK, EditOK
<1>2. /\ history' = [history EXCEPT ![s] = line]
      /\ count' = count + 1 /\ idx' = count + 1
      /\ executed' = Append(executed, line)
  BY DEF Saves, SaveToHistory, SlotFor
<1>3. history' \in [0 .. HistorySize - 1 -> Seq(Chars)]
      /\ \A t \in 0 .. HistorySize - 1 : Len(history'[t]) < MaxLineLen
  BY <1>1, <1>2 DEF RecallOK
<1>4. /\ executed' \in Seq(Seq(Chars)) /\ Len(executed') = count'
      /\ count' \in Nat /\ idx' \in 0 .. count'
      /\ executed'[count + 1] = line
      /\ \A k \in 0 .. count - 1 : executed'[k + 1] = executed[k + 1]
  BY <1>1, <1>2 DEF RecallOK
<1>5. ASSUME NEW k \in 0 .. count' - 1, count' - k <= HistorySize
      PROVE  history'[k % HistorySize] = executed'[k + 1]
  <2>1. CASE k = count
    BY <1>1, <1>2, <1>4, <2>1 DEF RecallOK
  <2>2. CASE k # count
    <3>1. k \in 0 .. count - 1 /\ k \in Nat /\ k < count /\ count - k < HistorySize
          /\ count - k <= HistorySize
      BY <1>1, <1>2, <1>5, <2>2, ShellAssumption
    <3>2. k % HistorySize # s
      BY <1>1, <3>1, LinesInOwnSlots
    <3>3. k % HistorySize \in 0 .. HistorySize - 1
      BY <3>1, ShellAssumption
    <3>4. history'[k % HistorySize] = history[k % HistorySize]
      BY <1>2, <3>2, <3>3 DEF RecallOK
    <3>5. QED
      BY <1>4, <3>1, <3>4 DEF RecallOK
  <2>3. QED
    BY <2>1, <2>2
<1>6. QED
  BY <1>3, <1>4, <1>5 DEF RecallOK

LEMMA RecallStep ==
  ASSUME RecallOK, EditOK, TypeOK, Next
  PROVE  RecallOK'
<1>1. CASE Saves
  BY <1>1, SaveStep
<1>2. CASE Walks
  BY <1>2 DEF Walks, RecallOK
<1>3. QED
  BY <1>1, <1>2, SavesOrWalks

-----------------------------------------------------------------------------
(* The line editor on the console *)

\* The inductive invariant of the line editor
LineInv == EditOK /\ EscapeOK /\ RecallOK

LEMMA LineInvTyped == LineInv => TypeOK /\ ScreenShowsLine
BY DEF LineInv, EditOK, EscapeOK, RecallOK, TypeOK

LEMMA LineInvInit == Init => LineInv
<1> SUFFICES ASSUME Init PROVE LineInv
  OBVIOUS
<1>1. EditOK
  <2>1. line \in Seq(Chars) /\ Len(line) = 0 /\ cursor = 0
    BY DEF Init
  <2>2. Len(line) < MaxLineLen /\ cursor \in 0 .. Len(line)
    BY <2>1, ShellAssumption
  <2>3. needsRedraw \in BOOLEAN /\ ScreenShowsLine
    BY DEF Init, ScreenShowsLine
  <2>4. QED
    BY <2>1, <2>2, <2>3 DEF EditOK
<1>2. EscapeOK
  <2>1. lastWasCr \in BOOLEAN
    BY DEF Init
  <2>2. QED
    BY <2>1 DEF Init, EscapeOK
<1>3. RecallOK
  <2>1. << >> \in Seq(Chars) /\ Len(<< >>) < MaxLineLen
    BY EmptyLine
  <2>2. QED
    BY <2>1 DEF Init, RecallOK
<1>4. QED
  BY <1>1, <1>2, <1>3 DEF LineInv

LEMMA LineInvStep ==
  ASSUME LineInv, [Next]_vars
  PROVE  LineInv'
<1>1. CASE Next
  <2>1. TypeOK /\ EditOK /\ EscapeOK /\ RecallOK
    BY LineInvTyped DEF LineInv
  <2>2. QED
    BY <1>1, <2>1, EditStep, EscapeStep, RecallStep DEF LineInv
<1>2. CASE UNCHANGED vars
  BY <1>2 DEF vars, edit, escape, recall, LineInv, EditOK, EscapeOK, RecallOK, ScreenShowsLine
<1>3. QED
  BY <1>1, <1>2

\* A session of the screen editor takes no step of the line editor.
LEMMA ShellSteps == [ConsoleNext]_consoleVars => [Next]_vars
BY DEF ConsoleNext, ShellByte, EditorByte, consoleVars

\* The line editor's invariant holds on the console.
LEMMA LineInvHolds == ConsoleSpec => []LineInv
<1>1. ConsoleInit => LineInv
  BY LineInvInit DEF ConsoleInit
<1>2. LineInv /\ [ConsoleNext]_consoleVars => LineInv'
  BY LineInvStep, ShellSteps
<1>3. QED
  BY <1>1, <1>2, PTL DEF ConsoleSpec

\* poll_shell keeps the cursor in the line, the line a byte short of LINE_BUF, and
\* every line of HISTORY too, whatever bytes arrive.
THEOREM LineTypeCorrect == ConsoleSpec => []TypeOK
BY LineInvHolds, LineInvTyped, PTL

\* Whenever poll_shell owes no redraw, the terminal shows the line and the cursor,
\* although a byte at the end of the line is only echoed.
THEOREM ScreenIsLine == ConsoleSpec => []ScreenShowsLine
BY LineInvHolds, LineInvTyped, PTL

\* Up and Down show the command that was executed at that place, for the last
\* HISTORY_SIZE commands.
THEOREM RecallFaithful == ConsoleSpec => RecallIsFaithful
<1> DEFINE A == count' = count /\ idx' # idx /\ idx' < count /\ count - idx' <= HistorySize
                  => line' = executed[idx' + 1]
<1>1. ASSUME LineInv, [ConsoleNext]_consoleVars
      PROVE  [A]_vars
  <2>1. CASE Next
    <3>1. Saves \/ Walks
      BY <1>1, <2>1, LineInvTyped, SavesOrWalks
    <3>2. CASE Saves
      <4>1. count' = count + 1 /\ count \in Nat
        BY <1>1, <3>2 DEF Saves, SaveToHistory, LineInv, RecallOK
      <4>2. QED
        BY <4>1
    <3>3. CASE Walks
      <4>1. SUFFICES ASSUME idx' # idx, idx' < count, count - idx' <= HistorySize
                     PROVE  line' = executed[idx' + 1]
        OBVIOUS
      <4>2. idx' \in 0 .. count - 1 /\ line' = history[idx' % HistorySize]
        BY <1>1, <3>3, <4>1 DEF Walks, LineInv, RecallOK
      <4>3. QED
        BY <1>1, <4>1, <4>2 DEF LineInv, RecallOK
    <3>4. QED
      BY <3>1, <3>2, <3>3
  <2>2. QED
    BY <1>1, <2>1, ShellSteps
<1>2. QED
  BY <1>1, LineInvHolds, PTL DEF ConsoleSpec, RecallIsFaithful

-----------------------------------------------------------------------------
(* Positions in the text of the screen editor *)

LEMMA MaxIn ==
  ASSUME NEW n \in Nat, NEW S, S \subseteq 0 .. n, S # {}
  PROVE  Max(S) \in S /\ \A y \in S : y <= Max(S)
<1>1. \E x \in S : \A y \in S : x >= y
  <2>1. PICK x \in S : \A y \in S : y <= x
    BY GreatestExists
  <2>2. \A y \in S : y \in 0 .. n /\ x \in 0 .. n
    OBVIOUS
  <2>3. QED
    BY <2>1, <2>2
<1>2. Max(S) \in S /\ \A y \in S : Max(S) >= y
  BY <1>1 DEF Max
<1>3. \A y \in S : y \in 0 .. n
  OBVIOUS
<1>4. Max(S) \in 0 .. n
  BY <1>2, <1>3
<1>5. QED
  BY <1>2, <1>3, <1>4

LEMMA MinIn ==
  ASSUME NEW S, S \subseteq Nat, S # {}
  PROVE  Min(S) \in S /\ \A y \in S : Min(S) <= y
<1>1. \E x \in S : \A y \in S : x <= y
  BY LeastExists
<1>2. QED
  BY <1>1 DEF Min

\* The cursor is between the start and the end of its line.
LEMMA LineStartBefore ==
  ASSUME NEW b \in Seq(Bytes), NEW c \in 0 .. Len(b)
  PROVE  LineStart(b, c) \in 0 .. c
<1> DEFINE S == {0} \cup {k \in Breaks(b) : k <= c}
<1>1. S \subseteq 0 .. c /\ S # {} /\ c \in Nat
  BY DEF Breaks
<1> HIDE DEF S
<1>2. Max(S) \in S
  BY <1>1, MaxIn
<1>3. LineStart(b, c) = Max(S)
  BY DEF LineStart, S
<1>4. QED
  BY <1>1, <1>2, <1>3

LEMMA LineEndBehind ==
  ASSUME NEW b \in Seq(Bytes), NEW c \in 0 .. Len(b)
  PROVE  LineEnd(b, c) \in c .. Len(b)
<1> DEFINE S == {Len(b)} \cup {k - 1 : k \in {j \in Breaks(b) : j > c}}
<1>1. S \subseteq c .. Len(b) /\ S \subseteq Nat /\ S # {}
  BY DEF Breaks
<1> HIDE DEF S
<1>2. Min(S) \in S
  BY <1>1, MinIn
<1>3. LineEnd(b, c) = Min(S)
  BY DEF LineEnd, S
<1>4. QED
  BY <1>1, <1>2, <1>3

\* There are at most as many lines as bytes, and one more.
LEMMA RowBounds ==
  ASSUME NEW b \in Seq(Bytes), NEW c \in 0 .. Len(b)
  PROVE  Row(b, c) \in 1 .. Len(b) + 1
<1> DEFINE S == {k \in Breaks(b) : k <= c}
<1>1. S \subseteq 1 .. Len(b) /\ 1 \in Int /\ Len(b) \in Int
  BY DEF Breaks
<1>2. IsFiniteSet(1 .. Len(b)) /\ Cardinality(1 .. Len(b)) = IF 1 > Len(b) THEN 0 ELSE Len(b) - 1 + 1
  BY <1>1, FS_Interval
<1>3. Cardinality(1 .. Len(b)) = Len(b)
  BY <1>2
<1>4. IsFiniteSet(S) /\ Cardinality(S) <= Cardinality(1 .. Len(b))
  BY <1>1, <1>2, FS_Subset
<1>5. Cardinality(S) \in Nat
  BY <1>4, FS_CardinalityType
<1>6. Row(b, c) = 1 + Cardinality(S)
  BY DEF Row
<1> HIDE DEF S
<1>7. QED
  BY <1>3, <1>4, <1>5, <1>6

LEMMA LineUpInText ==
  ASSUME EdTypeOK, NEW c \in 0 .. Len(buf)
  PROVE  LineUp(c) \in 0 .. Len(buf)
<1>1. buf \in Seq(Bytes) /\ Len(buf) \in Nat
  BY DEF EdTypeOK
<1> DEFINE s == LineStart(buf, c)
<1>2. s \in 0 .. c
  BY <1>1, LineStartBefore
<1>3. CASE s = 0
  BY <1>3 DEF LineUp
<1>4. CASE s # 0
  <2> DEFINE t == LineStart(buf, s - 1)
             S == {c - s, s - 1 - t}
  <2>1. s - 1 \in 0 .. Len(buf)
    BY <1>1, <1>2, <1>4
  <2>2. t \in 0 .. s - 1
    BY <1>1, <2>1, LineStartBefore
  <2>3. LineUp(c) = t + Min(S)
    BY <1>4 DEF LineUp
  <2> HIDE DEF s, t
  <2>4. S \subseteq Nat /\ S # {}
    BY <1>2, <2>2
  <2>5. Min(S) \in Nat /\ Min(S) <= s - 1 - t
    <3>1. s - 1 - t \in S
      OBVIOUS
    <3> HIDE DEF S
    <3>2. QED
      BY <2>4, <3>1, MinIn
  <2> HIDE DEF S
  <2>6. QED
    BY <1>1, <1>2, <2>1, <2>2, <2>3, <2>5
<1>5. QED
  BY <1>3, <1>4

LEMMA LineDownInText ==
  ASSUME EdTypeOK, NEW c \in 0 .. Len(buf)
  PROVE  LineDown(c) \in 0 .. Len(buf)
<1>1. buf \in Seq(Bytes) /\ Len(buf) \in Nat
  BY DEF EdTypeOK
<1> DEFINE s == LineStart(buf, c)
           e == LineEnd(buf, c)
<1>2. s \in 0 .. c /\ e \in c .. Len(buf)
  BY <1>1, LineStartBefore, LineEndBehind
<1>3. CASE e = Len(buf)
  BY <1>3 DEF LineDown
<1>4. CASE e # Len(buf)
  <2> DEFINE t == LineEnd(buf, e + 1)
             S == {c - s, t - e - 1}
  <2>1. e + 1 \in 0 .. Len(buf)
    BY <1>1, <1>2, <1>4
  <2>2. t \in e + 1 .. Len(buf)
    BY <1>1, <2>1, LineEndBehind
  <2>3. LineDown(c) = e + 1 + Min(S)
    BY <1>4 DEF LineDown
  <2> HIDE DEF s, e, t
  <2>4. S \subseteq Nat /\ S # {}
    BY <1>2, <2>2
  <2>5. Min(S) \in Nat /\ Min(S) <= t - e - 1
    <3>1. t - e - 1 \in S
      OBVIOUS
    <3> HIDE DEF S
    <3>2. QED
      BY <2>4, <3>1, MinIn
  <2> HIDE DEF S
  <2>6. QED
    BY <1>1, <1>2, <2>1, <2>2, <2>3, <2>5
<1>5. QED
  BY <1>3, <1>4

\* Induction: a set with 0 that is closed under successor holds every number.
LEMMA Induction ==
  ASSUME NEW S, 0 \in S, \A k \in Nat : k \in S => k + 1 \in S
  PROVE  Nat \subseteq S
<1> SUFFICES ASSUME Nat \ S # {} PROVE FALSE
  OBVIOUS
<1> DEFINE T == Nat \ S
<1>1. T \subseteq Nat /\ T # {}
  OBVIOUS
<1>2. PICK x \in T : \A y \in T : x <= y
  <2> HIDE DEF T
  <2>1. QED
    BY <1>1, LeastExists
<1>3. x \in Nat /\ x # 0 /\ x \notin S
  OBVIOUS
<1>4. x - 1 \in Nat /\ ~ (x <= x - 1) /\ (x - 1) + 1 = x
  BY <1>3
<1>5. x - 1 \in S
  BY <1>2, <1>4
<1>6. QED
  BY <1>3, <1>4, <1>5

\* n applications of a function g on a set D, from x, as the function of the results
WalksFrom(D, g, x, n) ==
  {f \in [0 .. n -> D] : f[0] = x /\ \A k \in 1 .. n : f[k] = g[f[k - 1]]}

LEMMA WalkExists ==
  ASSUME NEW D, NEW g \in [D -> D], NEW x \in D, NEW n \in Nat
  PROVE  WalksFrom(D, g, x, n) # {}
<1> DEFINE Walk(f, m) == f[0] = x /\ \A k \in 1 .. m : f[k] = g[f[k - 1]]
           S == {m \in Nat : \E f \in [0 .. m -> D] : Walk(f, m)}
<1>1. 0 \in S
  <2>1. [k \in 0 .. 0 |-> x] \in [0 .. 0 -> D] /\ Walk([k \in 0 .. 0 |-> x], 0)
    OBVIOUS
  <2>2. QED
    BY <2>1
<1>2. ASSUME NEW m \in Nat, m \in S
      PROVE  m + 1 \in S
  <2>1. PICK f \in [0 .. m -> D] : Walk(f, m)
    BY <1>2
  <2> DEFINE h == [k \in 0 .. m + 1 |-> IF k = m + 1 THEN g[f[m]] ELSE f[k]]
  <2>2. h \in [0 .. m + 1 -> D]
    BY <2>1
  <2>3. h[0] = x
    BY <2>1
  <2>4. ASSUME NEW k \in 1 .. m + 1 PROVE h[k] = g[h[k - 1]]
    <3>1. CASE k = m + 1
      BY <3>1
    <3>2. CASE k # m + 1
      <4>1. k \in 1 .. m /\ k - 1 \in 0 .. m /\ k - 1 # m + 1 /\ k \in 0 .. m + 1 /\ k - 1 \in 0 .. m + 1
        BY <3>2
      <4>2. h[k] = f[k] /\ h[k - 1] = f[k - 1]
        BY <3>2, <4>1
      <4>3. QED
        BY <2>1, <4>1, <4>2
    <3>3. QED
      BY <3>1, <3>2
  <2> HIDE DEF h
  <2>5. QED
    BY <2>2, <2>3, <2>4
<1>3. Nat \subseteq S
  <2> HIDE DEF S
  <2>1. QED
    BY <1>1, <1>2, Induction
<1>4. QED
  BY <1>3 DEF WalksFrom

\* Repeated moves up or down stay in the text.
LEMMA ManyUpInText ==
  ASSUME EdTypeOK, NEW n \in Nat
  PROVE  Many(n, LineUp) \in 0 .. Len(buf)
<1> DEFINE D == 0 .. Len(buf)
           Walk(f) == f = [k \in 0 .. n |-> IF k = 0 THEN cur ELSE LineUp(f[k - 1])]
           w == CHOOSE f : Walk(f)
           g == [c \in D |-> LineUp(c)]
<1>1. cur \in D
  BY DEF EdTypeOK
<1>2. g \in [D -> D]
  BY LineUpInText
<1>3. PICK f \in [0 .. n -> D] : f[0] = cur /\ \A k \in 1 .. n : f[k] = g[f[k - 1]]
  <2>1. n \in Nat
    OBVIOUS
  <2> HIDE DEF D, g
  <2>2. WalksFrom(D, g, cur, n) # {}
    BY <1>1, <1>2, <2>1, WalkExists
  <2>3. QED
    BY <2>2 DEF WalksFrom
<1>4. Walk(f)
  <2>1. ASSUME NEW k \in 0 .. n
        PROVE  f[k] = IF k = 0 THEN cur ELSE LineUp(f[k - 1])
    <3>1. CASE k = 0
      BY <1>3, <3>1
    <3>2. CASE k # 0
      <4>1. k \in 1 .. n /\ k - 1 \in 0 .. n
        BY <3>2
      <4>2. f[k] = g[f[k - 1]] /\ f[k - 1] \in D
        BY <1>3, <4>1
      <4>3. QED
        BY <3>2, <4>2
    <3>3. QED
      BY <3>1, <3>2
  <2>2. QED
    BY <2>1
<1>5. Walk(w)
  <2> HIDE DEF Walk
  <2>1. QED
    BY <1>4
<1>6. Many(n, LineUp) = w[n]
  BY DEF Many
<1> DEFINE S == {k \in Nat : k \in 0 .. n => w[k] \in D}
<1> HIDE DEF w
<1>7. 0 \in S
  BY <1>1, <1>5
<1>8. ASSUME NEW k \in Nat, k \in S
      PROVE  k + 1 \in S
  <2>1. SUFFICES ASSUME k + 1 \in 0 .. n PROVE w[k + 1] \in D
    OBVIOUS
  <2>2. k \in 0 .. n /\ k + 1 # 0 /\ (k + 1) - 1 = k
    BY <2>1
  <2>3. w[k] \in D /\ w[k + 1] = LineUp(w[k])
    BY <1>5, <1>8, <2>1, <2>2
  <2>4. QED
    BY <2>3, LineUpInText
<1>9. Nat \subseteq S
  <2> HIDE DEF S
  <2>1. QED
    BY <1>7, <1>8, Induction
<1>10. n \in S /\ n \in 0 .. n
  BY <1>9
<1>11. QED
  BY <1>6, <1>10

LEMMA ManyDownInText ==
  ASSUME EdTypeOK, NEW n \in Nat
  PROVE  Many(n, LineDown) \in 0 .. Len(buf)
<1> DEFINE D == 0 .. Len(buf)
           Walk(f) == f = [k \in 0 .. n |-> IF k = 0 THEN cur ELSE LineDown(f[k - 1])]
           w == CHOOSE f : Walk(f)
           g == [c \in D |-> LineDown(c)]
<1>1. cur \in D
  BY DEF EdTypeOK
<1>2. g \in [D -> D]
  BY LineDownInText
<1>3. PICK f \in [0 .. n -> D] : f[0] = cur /\ \A k \in 1 .. n : f[k] = g[f[k - 1]]
  <2>1. n \in Nat
    OBVIOUS
  <2> HIDE DEF D, g
  <2>2. WalksFrom(D, g, cur, n) # {}
    BY <1>1, <1>2, <2>1, WalkExists
  <2>3. QED
    BY <2>2 DEF WalksFrom
<1>4. Walk(f)
  <2>1. ASSUME NEW k \in 0 .. n
        PROVE  f[k] = IF k = 0 THEN cur ELSE LineDown(f[k - 1])
    <3>1. CASE k = 0
      BY <1>3, <3>1
    <3>2. CASE k # 0
      <4>1. k \in 1 .. n /\ k - 1 \in 0 .. n
        BY <3>2
      <4>2. f[k] = g[f[k - 1]] /\ f[k - 1] \in D
        BY <1>3, <4>1
      <4>3. QED
        BY <3>2, <4>2
    <3>3. QED
      BY <3>1, <3>2
  <2>2. QED
    BY <2>1
<1>5. Walk(w)
  <2> HIDE DEF Walk
  <2>1. QED
    BY <1>4
<1>6. Many(n, LineDown) = w[n]
  BY DEF Many
<1> DEFINE S == {k \in Nat : k \in 0 .. n => w[k] \in D}
<1> HIDE DEF w
<1>7. 0 \in S
  BY <1>1, <1>5
<1>8. ASSUME NEW k \in Nat, k \in S
      PROVE  k + 1 \in S
  <2>1. SUFFICES ASSUME k + 1 \in 0 .. n PROVE w[k + 1] \in D
    OBVIOUS
  <2>2. k \in 0 .. n /\ k + 1 # 0 /\ (k + 1) - 1 = k
    BY <2>1
  <2>3. w[k] \in D /\ w[k + 1] = LineDown(w[k])
    BY <1>5, <1>8, <2>1, <2>2
  <2>4. QED
    BY <2>3, LineDownInText
<1>9. Nat \subseteq S
  <2> HIDE DEF S
  <2>1. QED
    BY <1>7, <1>8, Induction
<1>10. n \in S /\ n \in 0 .. n
  BY <1>9
<1>11. QED
  BY <1>6, <1>10

LEMMA WordsInText ==
  ASSUME EdTypeOK
  PROVE  PrevWord \in 0 .. Len(buf) /\ NextWord \in 0 .. Len(buf)
<1>1. Len(buf) \in Nat /\ cur \in 0 .. Len(buf)
  BY DEF EdTypeOK
<1>2. PrevWord \in 0 .. Len(buf)
  <2> DEFINE Q == {0} \cup {k \in 1 .. cur : ~ Blank(buf[k])}
             q == Max(Q)
             P == {0} \cup {k \in 1 .. q : Blank(buf[k])}
  <2>1. Q \subseteq 0 .. Len(buf) /\ Q # {}
    BY <1>1
  <2>2. q \in 0 .. Len(buf)
    <3> HIDE DEF Q
    <3>1. q \in Q
      BY <1>1, <2>1, MaxIn
    <3>2. QED
      BY <2>1, <3>1
  <2>3. PrevWord = Max(P)
    BY DEF PrevWord
  <2> HIDE DEF q
  <2>4. P \subseteq 0 .. Len(buf) /\ P # {}
    BY <1>1, <2>2
  <2> HIDE DEF P
  <2>5. Max(P) \in P
    BY <1>1, <2>4, MaxIn
  <2>6. QED
    BY <2>3, <2>4, <2>5
<1>3. NextWord \in 0 .. Len(buf)
  <2> DEFINE Q == {Len(buf)} \cup {k \in cur .. Len(buf) - 1 : Blank(buf[k + 1])}
             q == Min(Q)
             P == {Len(buf)} \cup {k \in q .. Len(buf) - 1 : ~ Blank(buf[k + 1])}
  <2>1. Q \subseteq 0 .. Len(buf) /\ Q \subseteq Nat /\ Q # {}
    BY <1>1
  <2>2. q \in 0 .. Len(buf)
    <3> HIDE DEF Q
    <3>1. q \in Q
      BY <2>1, MinIn
    <3>2. QED
      BY <2>1, <3>1
  <2>3. NextWord = Min(P)
    BY DEF NextWord
  <2> HIDE DEF q
  <2>4. P \subseteq 0 .. Len(buf) /\ P \subseteq Nat /\ P # {}
    BY <1>1, <2>2
  <2> HIDE DEF P
  <2>5. Min(P) \in P
    BY <2>4, MinIn
  <2>6. QED
    BY <2>3, <2>4, <2>5
<1>4. QED
  BY <1>2, <1>3

\* Cutting out and putting in
LEMMA CutText ==
  ASSUME NEW b \in Seq(Bytes), NEW i \in 0 .. Len(b), NEW j \in i .. Len(b)
  PROVE  Cut(b, i, j) \in Seq(Bytes) /\ Len(Cut(b, i, j)) = Len(b) - (j - i)
<1> DEFINE u == SubSeq(b, 1, i)
           v == SubSeq(b, j + 1, Len(b))
<1>1. u \in Seq(Bytes) /\ Len(u) = i
  OBVIOUS
<1>2. v \in Seq(Bytes) /\ Len(v) = Len(b) - j
  OBVIOUS
<1>3. Cut(b, i, j) = u \o v
  BY DEF Cut
<1> HIDE DEF u, v
<1>4. u \o v \in Seq(Bytes) /\ Len(u \o v) = Len(u) + Len(v)
  BY <1>1, <1>2, ConcatProperties
<1>5. QED
  BY <1>1, <1>2, <1>3, <1>4

LEMMA PutText ==
  ASSUME NEW b \in Seq(Bytes), NEW c \in 0 .. Len(b), NEW s \in Seq(Bytes)
  PROVE  Put(b, c, s) \in Seq(Bytes) /\ Len(Put(b, c, s)) = Len(b) + Len(s)
<1> DEFINE u == SubSeq(b, 1, c)
           v == SubSeq(b, c + 1, Len(b))
<1>1. u \in Seq(Bytes) /\ Len(u) = c
  OBVIOUS
<1>2. v \in Seq(Bytes) /\ Len(v) = Len(b) - c
  OBVIOUS
<1>3. Put(b, c, s) = u \o s \o v
  BY DEF Put
<1> HIDE DEF u, v
<1>4. u \o s \in Seq(Bytes) /\ Len(u \o s) = Len(u) + Len(s)
  BY <1>1, ConcatProperties
<1>5. u \o s \o v \in Seq(Bytes) /\ Len(u \o s \o v) = Len(u \o s) + Len(v)
  BY <1>2, <1>4, ConcatProperties
<1>6. Len(s) \in Nat /\ Len(b) \in Nat
  OBVIOUS
<1>7. QED
  BY <1>1, <1>2, <1>3, <1>4, <1>5, <1>6

-----------------------------------------------------------------------------
(* The keys of the screen editor *)

\* What the keys change, apart from the parser of escape sequences
TextOK ==
  /\ mode \in {"closed", "edit", "output"}
  /\ buf \in Seq(Bytes) /\ Len(buf) <= MaxBuf /\ cur \in 0 .. Len(buf)
  /\ top \in 1 .. MaxBuf + 1
  /\ due \in {"nothing", "cursor", "line", "structure"}
  /\ file \in {"none", "other", "same"}

LEMMA EdTyped ==
  /\ DOMAIN Urgency = {"nothing", "cursor", "line", "structure"}
  /\ EdTypeOK <=> TextOK /\ edEsc \in {"normal", "esc", "ss3", "csi"} /\ edCr \in BOOLEAN
<1>1. DOMAIN Urgency = {"nothing", "cursor", "line", "structure"}
  BY DEF Urgency
<1>2. QED
  BY <1>1 DEF EdTypeOK, TextOK

LEMMA DueOK ==
  ASSUME EdTypeOK, NEW flag \in {"nothing", "cursor", "line", "structure"}, Due(flag)
  PROVE  due' \in {"nothing", "cursor", "line", "structure"}
<1>1. due' = flag \/ due' = due
  BY DEF Due
<1>2. QED
  BY <1>1, EdTyped DEF EdTypeOK

LEMMA TextKeyOK ==
  ASSUME EdTypeOK, NEW b \in Seq(Bytes), Len(b) <= MaxBuf, NEW c \in 0 .. Len(b),
         NEW flag \in {"nothing", "cursor", "line", "structure"}, Text(b, c, flag)
  PROVE  TextOK'
<1>1. due' \in {"nothing", "cursor", "line", "structure"}
  BY DueOK DEF Text
<1>2. buf' = b /\ cur' = c /\ mode' = mode /\ top' = top /\ (file' = "other" \/ file' = file)
  BY DEF Text
<1>3. QED
  BY <1>1, <1>2, EdTyped DEF TextOK

\* Keys that only move the cursor, or nothing
LEMMA MovesOK ==
  ASSUME EdTypeOK, NEW c \in 0 .. Len(buf),
         NEW flag \in {"nothing", "cursor", "line", "structure"}, Text(buf, c, flag)
  PROVE  TextOK'
BY TextKeyOK DEF EdTypeOK

LEMMA InsertOK ==
  ASSUME EdTypeOK, NEW ch \in Bytes, NEW flag \in {"line", "structure"}, Insert(ch, flag)
  PROVE  TextOK'
<1>1. buf \in Seq(Bytes) /\ Len(buf) \in Nat /\ cur \in 0 .. Len(buf) /\ <<ch>> \in Seq(Bytes)
      /\ Len(<<ch>>) = 1
  BY DEF EdTypeOK
<1>2. CASE Len(buf) < MaxBuf - 1
  <2> DEFINE b == Put(buf, cur, <<ch>>)
  <2>1. b \in Seq(Bytes) /\ Len(b) = Len(buf) + Len(<<ch>>)
    BY <1>1, PutText
  <2>2. Text(b, cur + 1, flag)
    BY <1>2 DEF Insert
  <2> HIDE DEF b
  <2>3. Len(b) <= MaxBuf /\ cur + 1 \in 0 .. Len(b)
    BY <1>1, <1>2, <2>1, EditorAssumption
  <2>4. QED
    BY <2>1, <2>2, <2>3, TextKeyOK
<1>3. CASE ~ (Len(buf) < MaxBuf - 1)
  BY <1>1, <1>3, MovesOK DEF Insert, Marked
<1>4. QED
  BY <1>2, <1>3

LEMMA InsertTabOK ==
  ASSUME EdTypeOK, InsertTab
  PROVE  TextOK'
<1> DEFINE s == [i \in 1 .. TabWidth |-> " "]
<1>1. buf \in Seq(Bytes) /\ Len(buf) \in Nat /\ cur \in 0 .. Len(buf)
  BY DEF EdTypeOK
<1>2. s \in Seq(Bytes) /\ Len(s) = TabWidth
  <2>1. TabWidth \in Nat
    BY EditorAssumption
  <2>2. s \in [1 .. TabWidth -> Bytes] /\ DOMAIN s = 1 .. TabWidth
    <3>1. " " \in Bytes
      BY BytesAssumption
    <3>2. QED
      BY <3>1, Zenon
  <2> HIDE DEF s
  <2>3. s \in Seq(Bytes)
    BY <2>1, <2>2, SeqDef
  <2>4. QED
    BY <2>1, <2>2, <2>3
<1>3. CASE Len(buf) + TabWidth <= MaxBuf
  <2> DEFINE b == Put(buf, cur, s)
  <2>1. Text(b, cur + TabWidth, "line")
    BY <1>3 DEF InsertTab
  <2>2. b \in Seq(Bytes) /\ Len(b) = Len(buf) + Len(s)
    <3> HIDE DEF s
    <3>1. QED
      BY <1>1, <1>2, PutText
  <2> HIDE DEF b, s
  <2>3. Len(b) <= MaxBuf /\ cur + TabWidth \in 0 .. Len(b)
    BY <1>1, <1>2, <1>3, <2>2, EditorAssumption
  <2>4. QED
    BY <2>1, <2>2, <2>3, TextKeyOK
<1>4. CASE ~ (Len(buf) + TabWidth <= MaxBuf)
  BY <1>1, <1>4, MovesOK DEF InsertTab, Marked
<1>5. QED
  BY <1>3, <1>4

\* A key that cuts bytes out of the text
LEMMA CutOK ==
  ASSUME EdTypeOK, NEW i \in 0 .. Len(buf), NEW j \in i .. Len(buf),
         Text(Cut(buf, i, j), i, "structure")
  PROVE  TextOK'
<1> DEFINE b == Cut(buf, i, j)
<1>1. buf \in Seq(Bytes) /\ Len(buf) \in Nat /\ Len(buf) <= MaxBuf
  BY DEF EdTypeOK
<1>2. b \in Seq(Bytes) /\ Len(b) = Len(buf) - (j - i)
  BY <1>1, CutText
<1>3. Text(b, i, "structure")
  OBVIOUS
<1> HIDE DEF b
<1>4. Len(b) <= MaxBuf /\ i \in 0 .. Len(b)
  BY <1>1, <1>2, EditorAssumption
<1>5. QED
  BY <1>2, <1>3, <1>4, TextKeyOK

LEMMA DeletesOK ==
  ASSUME EdTypeOK, Backspace \/ DeleteUnder \/ KillLine
  PROVE  TextOK'
<1>1. buf \in Seq(Bytes) /\ Len(buf) \in Nat /\ cur \in 0 .. Len(buf)
  BY DEF EdTypeOK
<1>2. CASE Backspace
  <2>1. CASE cur > 0
    <3>1. cur - 1 \in 0 .. Len(buf) /\ cur \in cur - 1 .. Len(buf)
      BY <1>1, <2>1
    <3>2. QED
      BY <1>2, <2>1, <3>1, CutOK DEF Backspace
  <2>2. CASE ~ (cur > 0)
    BY <1>1, <1>2, <2>2, MovesOK DEF Backspace, Marked
  <2>3. QED
    BY <2>1, <2>2
<1>3. CASE DeleteUnder
  <2>1. CASE cur < Len(buf)
    <3>1. cur + 1 \in cur .. Len(buf)
      BY <1>1, <2>1
    <3>2. QED
      BY <1>1, <1>3, <2>1, <3>1, CutOK DEF DeleteUnder
  <2>2. CASE ~ (cur < Len(buf))
    BY <1>1, <1>3, <2>2, MovesOK DEF DeleteUnder, Marked
  <2>3. QED
    BY <2>1, <2>2
<1>4. CASE KillLine
  <2> DEFINE s == LineStart(buf, cur)
             e == LineEnd(buf, cur)
             S == {Len(buf)} \cup {k \in Breaks(buf) : k > e}
  <2>1. s \in 0 .. cur /\ e \in cur .. Len(buf)
    BY <1>1, LineStartBefore, LineEndBehind
  <2>2. Text(Cut(buf, s, LineWithBreak), s, "structure") /\ LineWithBreak = Min(S)
    BY <1>4 DEF KillLine, LineWithBreak
  <2> HIDE DEF s, e
  <2>3. S \subseteq s .. Len(buf) /\ S \subseteq Nat /\ S # {}
    BY <1>1, <2>1 DEF Breaks
  <2> HIDE DEF S
  <2>4. Min(S) \in S
    BY <2>3, MinIn
  <2>5. LineWithBreak \in s .. Len(buf) /\ s \in 0 .. Len(buf)
    <3>1. Min(S) \in s .. Len(buf)
      BY <2>3, <2>4
    <3>2. s \in 0 .. Len(buf)
      BY <1>1, <2>1
    <3>3. QED
      BY <2>2, <3>1, <3>2
  <2>6. QED
    BY <2>2, <2>5, CutOK
<1>5. QED
  BY <1>2, <1>3, <1>4

\* The window after adjust_scroll starts at a line of the text or where it was.
LEMMA ScrolledInText ==
  ASSUME EdTypeOK
  PROVE  Scrolled \in 1 .. MaxBuf + 1
<1> DEFINE r == Row(buf, cur)
<1>1. buf \in Seq(Bytes) /\ Len(buf) \in Nat /\ Len(buf) <= MaxBuf /\ cur \in 0 .. Len(buf)
      /\ top \in 1 .. MaxBuf + 1
  BY DEF EdTypeOK
<1>2. r \in 1 .. Len(buf) + 1
  BY <1>1, RowBounds
<1>3. Scrolled = IF r < top THEN r ELSE IF r >= top + Rows THEN r - Rows + 1 ELSE top
  BY DEF Scrolled
<1> HIDE DEF r
<1>4. QED
  BY <1>1, <1>2, <1>3, EditorAssumption

LEMMA DrawingOK ==
  ASSUME EdTypeOK, Redraw \/ RedrawLine \/ MoveOnly
  PROVE  top' \in 1 .. MaxBuf + 1
<1>1. top' = Scrolled \/ top' = top
  BY DEF Redraw, RedrawLine, MoveOnly
<1>2. QED
  BY <1>1, ScrolledInText DEF EdTypeOK

LEMMA SaveOK ==
  ASSUME EdTypeOK, Save
  PROVE  TextOK'
<1>1. due' \in {"nothing", "cursor", "line", "structure"}
  BY DueOK DEF Save
<1>2. QED
  BY <1>1, EdTyped DEF Save, TextOK

LEMMA QuitOK ==
  ASSUME NEW f \in {"none", "other", "same"}, Quit(f)
  PROVE  TextOK'
<1>1. << >> \in Seq(Bytes) /\ Len(<< >>) = 0
  OBVIOUS
<1>2. Len(<< >>) <= MaxBuf /\ 0 \in 0 .. Len(<< >>) /\ 1 \in 1 .. MaxBuf + 1
  BY <1>1, EditorAssumption
<1>3. QED
  BY <1>1, <1>2 DEF Quit, TextOK

LEMMA ClearOK ==
  ASSUME EdTypeOK, Text(<< >>, 0, "structure")
  PROVE  TextOK'
<1>1. << >> \in Seq(Bytes) /\ Len(<< >>) = 0
  OBVIOUS
<1>2. Len(<< >>) <= MaxBuf /\ 0 \in 0 .. Len(<< >>)
  BY <1>1, EditorAssumption
<1>3. QED
  BY <1>1, <1>2, TextKeyOK

LEMMA RunOK ==
  ASSUME EdTypeOK, RunCode
  PROVE  TextOK'
<1>1. mode' = "output" /\ due' = "structure" /\ UNCHANGED <<buf, cur, top, file>>
  BY DEF RunCode
<1>2. QED
  BY <1>1, EdTyped DEF TextOK

\* Keys that leave the text and the cursor alone
LEMMA QuietKeysOK ==
  ASSUME EdTypeOK, Nothing \/ Marked("structure")
  PROVE  TextOK'
BY MovesOK DEF Nothing, Marked, EdTypeOK

LEMMA CursorKeysOK ==
  ASSUME EdTypeOK, CursorRight \/ CursorLeft \/ Home \/ End
  PROVE  TextOK'
<1>1. buf \in Seq(Bytes) /\ Len(buf) \in Nat /\ cur \in 0 .. Len(buf)
  BY DEF EdTypeOK
<1>2. CASE CursorRight
  <2> DEFINE c == IF cur < Len(buf) THEN cur + 1 ELSE cur
  <2>1. c \in 0 .. Len(buf) /\ Text(buf, c, "cursor")
    BY <1>1, <1>2 DEF CursorRight, MoveCursor
  <2> HIDE DEF c
  <2>2. QED
    BY <2>1, MovesOK
<1>3. CASE CursorLeft
  <2> DEFINE c == IF cur > 0 THEN cur - 1 ELSE cur
  <2>1. c \in 0 .. Len(buf) /\ Text(buf, c, "cursor")
    BY <1>1, <1>3 DEF CursorLeft, MoveCursor
  <2> HIDE DEF c
  <2>2. QED
    BY <2>1, MovesOK
<1>4. CASE Home
  <2> DEFINE c == LineStart(buf, cur)
  <2>1. c \in 0 .. cur /\ Text(buf, c, "cursor")
    BY <1>1, <1>4, LineStartBefore DEF Home, MoveCursor
  <2> HIDE DEF c
  <2>2. c \in 0 .. Len(buf)
    BY <1>1, <2>1
  <2>3. QED
    BY <2>1, <2>2, MovesOK
<1>5. CASE End
  <2> DEFINE c == LineEnd(buf, cur)
  <2>1. c \in cur .. Len(buf) /\ Text(buf, c, "cursor")
    BY <1>1, <1>5, LineEndBehind DEF End, MoveCursor
  <2> HIDE DEF c
  <2>2. c \in 0 .. Len(buf)
    BY <1>1, <2>1
  <2>3. QED
    BY <2>1, <2>2, MovesOK
<1>6. QED
  BY <1>2, <1>3, <1>4, <1>5

\* Page keys, arrows and word keys
LEMMA FarKeysOK ==
  ASSUME EdTypeOK, NEW n \in Nat, NEW flag \in {"cursor", "structure"},
         \/ Text(buf, Many(n, LineUp), flag) \/ Text(buf, Many(n, LineDown), flag)
         \/ Text(buf, LineUp(cur), flag) \/ Text(buf, LineDown(cur), flag)
         \/ Text(buf, PrevWord, flag) \/ Text(buf, NextWord, flag)
  PROVE  TextOK'
<1>1. cur \in 0 .. Len(buf)
  BY DEF EdTypeOK
<1>2. /\ Many(n, LineUp) \in 0 .. Len(buf) /\ Many(n, LineDown) \in 0 .. Len(buf)
      /\ LineUp(cur) \in 0 .. Len(buf) /\ LineDown(cur) \in 0 .. Len(buf)
      /\ PrevWord \in 0 .. Len(buf) /\ NextWord \in 0 .. Len(buf)
  BY <1>1, ManyUpInText, ManyDownInText, LineUpInText, LineDownInText, WordsInText
<1>3. QED
  BY <1>2, MovesOK

-----------------------------------------------------------------------------
(* Type correctness of the console *)

ParserOK == edEsc \in {"normal", "esc", "ss3", "csi"} /\ edCr \in BOOLEAN

\* The keys that a sequence ending in "~" names
LEMMA NumberedKeys ==
  ASSUME NEW n, Numbered(n)
  PROVE  \/ Save \/ RunCode \/ Quit(file) \/ DeleteUnder \/ Home \/ End
         \/ Text(buf, Many(PageLines, LineUp), "structure")
         \/ Text(buf, Many(PageLines, LineDown), "structure")
         \/ Marked("structure") \/ Nothing
BY DEF Numbered

LEMMA EdStep ==
  ASSUME EdTypeOK, EdNext
  PROVE  TextOK'
<1>0. /\ file \in {"none", "other", "same"} /\ NL \in Bytes /\ Typed \subseteq Bytes
      /\ PageLines \in Nat /\ FastLines \in Nat
  BY EditorAssumption, BytesAssumption DEF EdTypeOK, NL
<1>1. CASE Control
  <2>1. \/ Nothing \/ Quit(file) \/ Quit("same") \/ Save \/ RunCode \/ Marked("structure") \/ KillLine
        \/ Text(buf, Many(PageLines, LineUp), "structure")
        \/ Text(buf, Many(PageLines, LineDown), "structure")
    BY <1>1 DEF Control
  <2>2. QED
    BY <1>0, <2>1, QuietKeysOK, QuitOK, SaveOK, RunOK, DeletesOK, FarKeysOK
<1>2. CASE Tab \/ Rubout
  BY <1>2, InsertTabOK, DeletesOK DEF Tab, Rubout
<1>3. CASE CarriageReturn \/ LineFeed \/ Unknown8bit
  <2>1. Insert(NL, "structure") \/ Nothing
    BY <1>3 DEF CarriageReturn, LineFeed, Unknown8bit
  <2>2. QED
    BY <1>0, <2>1, InsertOK, QuietKeysOK
<1>4. CASE \E ch \in Typed : Printable(ch)
  <2>1. PICK ch \in Typed : Insert(ch, "line")
    BY <1>4 DEF Printable
  <2>2. ch \in Bytes
    BY <1>0
  <2>3. QED
    BY <2>1, <2>2, InsertOK
<1>5. CASE AfterEscape
  <2>1. \/ Nothing \/ Save \/ RunCode \/ Quit(file) \/ Text(<< >>, 0, "structure")
        \/ \E ch \in Typed : Insert(ch, "line")
    BY <1>5 DEF AfterEscape
  <2>2. CASE \E ch \in Typed : Insert(ch, "line")
    <3>1. PICK ch \in Typed : Insert(ch, "line")
      BY <2>2
    <3>2. ch \in Bytes
      BY <1>0
    <3>3. QED
      BY <3>1, <3>2, InsertOK
  <2>3. QED
    BY <1>0, <2>1, <2>2, QuietKeysOK, SaveOK, RunOK, QuitOK, ClearOK
<1>6. CASE AfterO
  <2>1. \/ Text(buf, LineUp(cur), "cursor") \/ Text(buf, LineDown(cur), "cursor")
        \/ CursorRight \/ CursorLeft \/ Home \/ End \/ Save \/ Marked("structure") \/ Nothing
    BY <1>6 DEF AfterO, MoveCursor
  <2>2. QED
    BY <1>0, <2>1, FarKeysOK, CursorKeysOK, SaveOK, QuietKeysOK
<1>7. CASE \E p \in Params : AfterBracket(p)
  <2>1. PICK p \in Params : AfterBracket(p)
    BY <1>7
  <2>2. PICK n \in Nat :
          \/ Text(buf, Many(n, LineUp), "cursor") \/ Text(buf, Many(n, LineDown), "cursor")
          \/ Text(buf, PrevWord, "cursor") \/ Text(buf, NextWord, "cursor")
          \/ CursorRight \/ CursorLeft \/ Home \/ End
          \/ Numbered(p[1]) \/ DeleteUnder \/ Nothing
    BY <1>0, <2>1 DEF AfterBracket, MoveCursor
  <2>3. CASE Numbered(p[1])
    BY <1>0, <2>3, NumberedKeys, SaveOK, RunOK, QuitOK, DeletesOK, CursorKeysOK, FarKeysOK, QuietKeysOK
  <2>4. QED
    BY <2>2, <2>3, FarKeysOK, CursorKeysOK, DeletesOK, QuietKeysOK
<1>8. CASE AnyKey
  <2>1. top' \in 1 .. MaxBuf + 1
    BY <1>8, DrawingOK DEF AnyKey
  <2>2. mode' = "edit" /\ UNCHANGED <<buf, cur, due, file>>
    BY <1>8 DEF AnyKey
  <2>3. QED
    BY <2>1, <2>2, EdTyped DEF TextOK
<1>9. CASE Refresh
  <2>1. top' \in 1 .. MaxBuf + 1
    BY <1>9, DrawingOK DEF Refresh
  <2>2. due' = "nothing" /\ UNCHANGED <<mode, buf, cur, file>>
    BY <1>9 DEF Refresh
  <2>3. QED
    BY <2>1, <2>2, EdTyped DEF TextOK
<1>10. QED
  BY <1>1, <1>2, <1>3, <1>4, <1>5, <1>6, <1>7, <1>8, <1>9 DEF EdNext

LEMMA ParserStep ==
  ASSUME ParserOK, EdNext
  PROVE  ParserOK'
<1>1. edEsc' \in {"normal", "esc", "ss3", "csi"}
  <2>1. CASE Control \/ AfterEscape
    BY <2>1 DEF Control, AfterEscape, Ended
  <2>2. CASE AfterO \/ \E p \in Params : AfterBracket(p)
    BY <2>2 DEF AfterO, AfterBracket, Ended
  <2>3. CASE Tab \/ Rubout \/ CarriageReturn \/ LineFeed \/ Unknown8bit \/ AnyKey \/ Refresh
             \/ \E ch \in Typed : Printable(ch)
    BY <2>3 DEF Tab, Rubout, CarriageReturn, LineFeed, Unknown8bit, AnyKey, Refresh, Printable, ParserOK
  <2>4. QED
    BY <2>1, <2>2, <2>3 DEF EdNext
<1>2. edCr' = TRUE \/ edCr' = FALSE \/ edCr' = edCr
  <2>1. CASE Control \/ AfterEscape
    BY <2>1 DEF Control, AfterEscape, Ended
  <2>2. CASE AfterO \/ \E p \in Params : AfterBracket(p)
    BY <2>2 DEF AfterO, AfterBracket, Ended
  <2>3. CASE Tab \/ Rubout \/ CarriageReturn \/ LineFeed \/ Unknown8bit \/ AnyKey \/ Refresh
             \/ \E ch \in Typed : Printable(ch)
    BY <2>3 DEF Tab, Rubout, CarriageReturn, LineFeed, Unknown8bit, AnyKey, Refresh, Printable
  <2>4. QED
    BY <2>1, <2>2, <2>3 DEF EdNext
<1>3. edCr' \in BOOLEAN
  BY <1>2 DEF ParserOK
<1>4. QED
  BY <1>1, <1>3 DEF ParserOK

\* start_editor cuts a file at the size of its buffer.
LEMMA StartStep ==
  ASSUME EdTypeOK, Start
  PROVE  EdTypeOK'
<1>1. buf' \in Seq(Bytes) /\ Len(buf') <= MaxBuf /\ file' \in {"none", "other", "same"}
  <2>1. CASE buf' = << >> /\ file' = "none"
    <3>1. << >> \in Seq(Bytes) /\ Len(<< >>) = 0
      OBVIOUS
    <3>2. QED
      BY <2>1, <3>1, EditorAssumption
  <2>2. CASE \E text \in Contents :
               buf' = SubSeq(text, 1, Min({Len(text), MaxBuf})) /\ file' = IF buf' = text THEN "same" ELSE "other"
    <3>1. PICK text \in Contents :
               buf' = SubSeq(text, 1, Min({Len(text), MaxBuf})) /\ file' = IF buf' = text THEN "same" ELSE "other"
      BY <2>2
    <3>2. text \in Seq(Bytes)
      BY BytesAssumption
    <3>3. PICK n : n = Min({Len(text), MaxBuf})
      OBVIOUS
    <3>4. n \in {Len(text), MaxBuf} /\ n <= Len(text) /\ n <= MaxBuf
      <4> DEFINE S == {Len(text), MaxBuf}
      <4>1. S \subseteq Nat /\ S # {} /\ Len(text) \in S /\ MaxBuf \in S
        BY <3>2, EditorAssumption
      <4> HIDE DEF S
      <4>2. Min(S) \in S /\ \A y \in S : Min(S) <= y
        BY <4>1, MinIn
      <4>3. QED
        BY <3>3, <4>1, <4>2 DEF S
    <3>5. n \in 0 .. Len(text) /\ buf' = SubSeq(text, 1, n)
      BY <3>1, <3>2, <3>3, <3>4, EditorAssumption
    <3>6. buf' \in Seq(Bytes) /\ Len(buf') = n
      BY <3>2, <3>5
    <3>7. QED
      BY <3>1, <3>4, <3>6
  <2>3. QED
    BY <2>1, <2>2 DEF Start
<1>2. Len(buf') \in Nat /\ cur' = 0 /\ top' = 1 /\ mode' = "edit" /\ UNCHANGED <<edEsc, edCr, due>>
  BY <1>1 DEF Start
<1>3. cur' \in 0 .. Len(buf') /\ top' \in 1 .. MaxBuf + 1
  BY <1>2, EditorAssumption
<1>4. QED
  BY <1>1, <1>2, <1>3 DEF EdTypeOK, Urgency

LEMMA EdTypedNext == EdTypeOK' <=> TextOK' /\ ParserOK'
<1>1. EdTypeOK <=> TextOK /\ ParserOK
  BY EdTyped DEF ParserOK
<1>2. QED
  BY <1>1, PTL

\* The lines, histories and texts of the console stay in the buffers of shell.rs and
\* editor.rs, with both cursors inside them and the window at a line, for every
\* sequence of bytes and every file that is opened.
THEOREM ConsoleTypeCorrect == ConsoleSpec => []ConsoleTypeOK
<1>1. ConsoleInit => EdTypeOK
  <2> SUFFICES ASSUME EdInit PROVE EdTypeOK
    BY DEF ConsoleInit
  <2>1. buf \in Seq(Bytes) /\ Len(buf) = 0 /\ cur = 0 /\ top = 1
    BY DEF EdInit
  <2>2. Len(buf) <= MaxBuf /\ cur \in 0 .. Len(buf) /\ top \in 1 .. MaxBuf + 1
    BY <2>1, EditorAssumption
  <2>3. edCr \in BOOLEAN
    BY DEF EdInit
  <2>4. QED
    BY <2>1, <2>2, <2>3 DEF EdInit, EdTypeOK, Urgency
<1>2. EdTypeOK /\ [ConsoleNext]_consoleVars => EdTypeOK'
  <2> SUFFICES ASSUME EdTypeOK, [ConsoleNext]_consoleVars PROVE EdTypeOK'
    OBVIOUS
  <2>1. CASE EditorByte
    <3>1. EdNext /\ ParserOK
      BY <2>1, EdTyped DEF EditorByte, ParserOK
    <3>2. QED
      BY <3>1, EdStep, ParserStep, EdTypedNext
  <2>2. CASE ShellByte
    <3>1. CASE Start
      BY <3>1, StartStep
    <3>2. CASE UNCHANGED edVars
      BY <3>2 DEF edVars, EdTypeOK
    <3>3. QED
      BY <2>2, <3>1, <3>2 DEF ShellByte, Execute
  <2>3. CASE UNCHANGED consoleVars
    BY <2>3 DEF consoleVars, edVars, EdTypeOK
  <2>4. QED
    BY <2>1, <2>2, <2>3 DEF ConsoleNext
<1>3. ConsoleSpec => []EdTypeOK
  BY <1>1, <1>2, PTL DEF ConsoleSpec
<1>4. TypeOK /\ EdTypeOK => ConsoleTypeOK
  BY DEF ConsoleTypeOK
<1>5. QED
  BY <1>3, <1>4, LineTypeCorrect, PTL

-----------------------------------------------------------------------------
(* What a key of the screen editor leaves in the text *)

\* A sequence that begins with x and ends with y, without overlap
LEMMA EdgesKept ==
  ASSUME NEW x \in Seq(Bytes), NEW y \in Seq(Bytes), NEW z \in Seq(Bytes),
         Len(x) + Len(y) <= Len(z),
         \A k \in 1 .. Len(x) : z[k] = x[k],
         \A k \in 1 .. Len(y) : z[Len(z) - Len(y) + k] = y[k]
  PROVE  z = x \o SubSeq(z, Len(x) + 1, Len(z) - Len(y)) \o y
<1> DEFINE m == SubSeq(z, Len(x) + 1, Len(z) - Len(y))
           r == x \o m \o y
<1>1. Len(x) \in Nat /\ Len(y) \in Nat /\ Len(z) \in Nat
  OBVIOUS
<1>2. /\ m \in Seq(Bytes) /\ Len(m) = Len(z) - Len(y) - Len(x)
      /\ \A k \in 1 .. Len(z) - Len(y) - Len(x) : m[k] = z[Len(x) + k]
  <2>1. Len(x) + 1 \in 1 .. Len(z) + 1 /\ Len(z) - Len(y) \in 0 .. Len(z)
        /\ Len(x) + 1 <= Len(z) - Len(y) + 1
    BY <1>1
  <2>2. QED
    BY <1>1, <2>1
<1> HIDE DEF m
<1>3. x \o m \in Seq(Bytes) /\ Len(x \o m) = Len(x) + Len(m)
      /\ \A k \in 1 .. Len(x) + Len(m) : (x \o m)[k] = IF k <= Len(x) THEN x[k] ELSE m[k - Len(x)]
  BY <1>2, ConcatProperties
<1>4. r \in Seq(Bytes) /\ Len(r) = Len(x \o m) + Len(y)
      /\ \A k \in 1 .. Len(x \o m) + Len(y) :
           r[k] = IF k <= Len(x \o m) THEN (x \o m)[k] ELSE y[k - Len(x \o m)]
  BY <1>2, <1>3, ConcatProperties
<1> HIDE DEF r
<1>5. Len(r) = Len(z)
  BY <1>1, <1>2, <1>3, <1>4
<1>6. ASSUME NEW k \in 1 .. Len(z)
      PROVE  z[k] = r[k]
  <2>1. CASE k <= Len(x)
    BY <1>1, <1>2, <1>3, <1>4, <2>1
  <2>2. CASE Len(x) < k /\ k <= Len(z) - Len(y)
    <3>1. k - Len(x) \in 1 .. Len(z) - Len(y) - Len(x) /\ Len(x) + (k - Len(x)) = k
      BY <1>1, <2>2
    <3>2. m[k - Len(x)] = z[k]
      BY <1>2, <3>1
    <3>3. r[k] = m[k - Len(x)]
      <4>1. k \in 1 .. Len(x \o m) + Len(y) /\ k <= Len(x \o m)
            /\ k \in 1 .. Len(x) + Len(m) /\ ~ (k <= Len(x))
        BY <1>1, <1>2, <1>3, <2>2
      <4>2. r[k] = (x \o m)[k]
        BY <1>4, <4>1
      <4>3. QED
        BY <1>3, <4>1, <4>2
    <3>4. QED
      BY <3>2, <3>3
  <2>3. CASE Len(z) - Len(y) < k
    <3>1. k - (Len(z) - Len(y)) \in 1 .. Len(y)
          /\ Len(z) - Len(y) + (k - (Len(z) - Len(y))) = k
      BY <1>1, <2>3
    <3>2. z[k] = y[k - (Len(z) - Len(y))]
      BY <3>1
    <3>3. Len(x \o m) = Len(z) - Len(y)
      BY <1>1, <1>2, <1>3
    <3>4. r[k] = y[k - (Len(z) - Len(y))]
      BY <1>1, <1>4, <2>3, <3>3
    <3>5. QED
      BY <3>2, <3>4
  <2>4. QED
    BY <1>1, <2>1, <2>2, <2>3
<1>7. z = r
  BY <1>4, <1>5, <1>6, SeqEqual
<1>8. QED
  BY <1>7 DEF r, m

\* The bytes of the first and the last of three sequences in a row
LEMMA ThreeParts ==
  ASSUME NEW u \in Seq(Bytes), NEW s \in Seq(Bytes), NEW v \in Seq(Bytes)
  PROVE  /\ u \o s \o v \in Seq(Bytes) /\ Len(u \o s \o v) = Len(u) + Len(s) + Len(v)
         /\ \A k \in 1 .. Len(u) : (u \o s \o v)[k] = u[k]
         /\ \A k \in 1 .. Len(v) : (u \o s \o v)[Len(u) + Len(s) + k] = v[k]
<1> DEFINE w == u \o s
<1>0. Len(u) \in Nat /\ Len(s) \in Nat /\ Len(v) \in Nat
  OBVIOUS
<1>1. w \in Seq(Bytes) /\ Len(w) = Len(u) + Len(s)
      /\ \A k \in 1 .. Len(u) + Len(s) : w[k] = IF k <= Len(u) THEN u[k] ELSE s[k - Len(u)]
  BY ConcatProperties
<1> HIDE DEF w
<1>2. w \in Seq(Bytes)
  BY <1>1
<1>3. w \o v \in Seq(Bytes) /\ Len(w \o v) = Len(w) + Len(v)
      /\ \A k \in 1 .. Len(w) + Len(v) :
           (w \o v)[k] = IF k <= Len(w) THEN w[k] ELSE v[k - Len(w)]
  BY <1>2, ConcatProperties
<1>4. ASSUME NEW k \in 1 .. Len(u)
      PROVE  (w \o v)[k] = u[k]
  BY <1>0, <1>1, <1>3
<1>5. ASSUME NEW k \in 1 .. Len(v)
      PROVE  (w \o v)[Len(u) + Len(s) + k] = v[k]
  BY <1>0, <1>1, <1>3
<1>6. QED
  BY <1>0, <1>1, <1>3, <1>4, <1>5 DEF w

\* A key replaces the bytes between i and j of the text by s; the bytes up to a and
\* behind e stay.
LEMMA ReplaceKeeps ==
  ASSUME NEW b \in Seq(Bytes), NEW i \in 0 .. Len(b), NEW j \in i .. Len(b), NEW s \in Seq(Bytes),
         NEW a \in 0 .. i, NEW e \in j .. Len(b)
  PROVE  LET above == SubSeq(b, 1, a)
             below == SubSeq(b, e + 1, Len(b))
             z == SubSeq(b, 1, i) \o s \o SubSeq(b, j + 1, Len(b))
         IN  z = above \o SubSeq(z, Len(above) + 1, Len(z) - Len(below)) \o below
<1> DEFINE u == SubSeq(b, 1, i)
           v == SubSeq(b, j + 1, Len(b))
           x == SubSeq(b, 1, a)
           y == SubSeq(b, e + 1, Len(b))
           z == u \o s \o v
<1>0. Len(b) \in Nat /\ Len(s) \in Nat /\ i \in Nat /\ j \in Nat /\ a \in Nat /\ e \in Nat
      /\ a <= i /\ i <= j /\ j <= e /\ e <= Len(b)
  OBVIOUS
<1>1. u \in Seq(Bytes) /\ Len(u) = i /\ \A k \in 1 .. i : u[k] = b[k]
  BY <1>0
<1>2. v \in Seq(Bytes) /\ Len(v) = Len(b) - j /\ \A k \in 1 .. Len(b) - j : v[k] = b[j + k]
  BY <1>0
<1>3. x \in Seq(Bytes) /\ Len(x) = a /\ \A k \in 1 .. a : x[k] = b[k]
  BY <1>0
<1>4. y \in Seq(Bytes) /\ Len(y) = Len(b) - e /\ \A k \in 1 .. Len(b) - e : y[k] = b[e + k]
  BY <1>0
<1> HIDE DEF u, v, x, y
<1>5. u \in Seq(Bytes) /\ v \in Seq(Bytes)
  BY <1>1, <1>2
<1>6. /\ z \in Seq(Bytes) /\ Len(z) = Len(u) + Len(s) + Len(v)
      /\ \A k \in 1 .. Len(u) : z[k] = u[k]
      /\ \A k \in 1 .. Len(v) : z[Len(u) + Len(s) + k] = v[k]
  BY <1>5, ThreeParts
<1> HIDE DEF z
<1>7. Len(u) = i /\ Len(v) = Len(b) - j /\ Len(x) = a /\ Len(y) = Len(b) - e
      /\ Len(z) = i + Len(s) + (Len(b) - j)
  BY <1>1, <1>2, <1>3, <1>4, <1>6
<1>8. Len(x) + Len(y) <= Len(z)
  BY <1>0, <1>7
<1>9. ASSUME NEW k \in 1 .. Len(x)
      PROVE  z[k] = x[k]
  <2>1. k \in 1 .. i /\ k \in 1 .. a
    BY <1>0, <1>7
  <2>2. QED
    BY <1>1, <1>3, <1>6, <2>1
<1>10. ASSUME NEW k \in 1 .. Len(y)
       PROVE  z[Len(z) - Len(y) + k] = y[k]
  <2> DEFINE q == e - j + k
  <2>1. /\ q \in 1 .. Len(b) - j /\ Len(z) - Len(y) + k = Len(u) + Len(s) + q
        /\ j + q = e + k /\ k \in 1 .. Len(b) - e
    BY <1>0, <1>7
  <2> HIDE DEF q
  <2>2. q \in 1 .. Len(v)
    BY <1>7, <2>1
  <2>3. z[Len(u) + Len(s) + q] = v[q]
    BY <1>6, <2>2
  <2>4. v[q] = b[e + k] /\ y[k] = b[e + k]
    BY <1>2, <1>4, <2>1
  <2>5. QED
    BY <2>1, <2>3, <2>4
<1>11. x \in Seq(Bytes) /\ y \in Seq(Bytes) /\ z \in Seq(Bytes)
  BY <1>3, <1>4, <1>6
<1>12. z = x \o SubSeq(z, Len(x) + 1, Len(z) - Len(y)) \o y
  BY <1>8, <1>9, <1>10, <1>11, EdgesKept
<1>13. QED
  BY <1>12 DEF u, v, x, y, z

\* Where the line of the cursor begins with the newline before it, and where it ends
\* with the newline behind it
From == IF LineStart(buf, cur) = 0 THEN 0 ELSE LineStart(buf, cur) - 1
To == IF LineEnd(buf, cur) = Len(buf) THEN Len(buf) ELSE LineEnd(buf, cur) + 1

LEMMA LineExtent ==
  ASSUME EdTypeOK
  PROVE  /\ From \in 0 .. cur /\ To \in cur .. Len(buf)
         /\ cur > 0 => From <= cur - 1
         /\ cur < Len(buf) => cur + 1 <= To
         /\ SubSeq(buf, 1, Max({0, LineStart(buf, cur) - 1})) = SubSeq(buf, 1, From)
         /\ SubSeq(buf, LineEnd(buf, cur) + 2, Len(buf)) = SubSeq(buf, To + 1, Len(buf))
<1> DEFINE s == LineStart(buf, cur)
           e == LineEnd(buf, cur)
<1>1. buf \in Seq(Bytes) /\ Len(buf) \in Nat /\ cur \in 0 .. Len(buf)
  BY DEF EdTypeOK
<1>2. s \in 0 .. cur /\ e \in cur .. Len(buf)
  BY <1>1, LineStartBefore, LineEndBehind
<1>3. From = (IF s = 0 THEN 0 ELSE s - 1) /\ To = (IF e = Len(buf) THEN Len(buf) ELSE e + 1)
  BY DEF From, To
<1> HIDE DEF s, e
<1>4. /\ From \in 0 .. cur /\ To \in cur .. Len(buf)
      /\ cur > 0 => From <= cur - 1
      /\ cur < Len(buf) => cur + 1 <= To
  BY <1>1, <1>2, <1>3
<1>5. Max({0, s - 1}) = From
  <2> DEFINE S == {0, s - 1}
  <2>1. \E x \in S : \A y \in S : x >= y
    <3>1. 0 >= s - 1 \/ s - 1 >= 0
      BY <1>1, <1>2
    <3>2. 0 >= 0 /\ s - 1 >= s - 1
      BY <1>1, <1>2
    <3>3. QED
      BY <3>1, <3>2
  <2>2. Max(S) \in S /\ \A y \in S : Max(S) >= y
    <3> HIDE DEF S
    <3>1. QED
      BY <2>1 DEF Max
  <2>3. (Max(S) = 0 \/ Max(S) = s - 1) /\ Max(S) >= 0 /\ Max(S) >= s - 1
    BY <2>2
  <2>4. QED
    BY <1>1, <1>2, <1>3, <2>3
<1>6. SubSeq(buf, e + 2, Len(buf)) = SubSeq(buf, To + 1, Len(buf))
  <2>1. CASE e = Len(buf)
    <3>1. e + 2 \in Int /\ Len(buf) + 1 \in Int /\ Len(buf) \in Int
          /\ Len(buf) < e + 2 /\ Len(buf) < Len(buf) + 1
      BY <1>1, <1>2, <2>1
    <3>2. SubSeq(buf, e + 2, Len(buf)) = << >> /\ SubSeq(buf, Len(buf) + 1, Len(buf)) = << >>
      BY <3>1, SubSeqEmpty
    <3>3. QED
      BY <1>3, <2>1, <3>2
  <2>2. CASE e # Len(buf)
    <3>1. To + 1 = e + 2
      BY <1>1, <1>2, <1>3, <2>2
    <3>2. QED
      BY <3>1
  <2>3. QED
    BY <2>1, <2>2
<1>7. QED
  BY <1>4, <1>5, <1>6 DEF s, e

\* The text above the line and the text below it are still there.
Kept ==
  LET above == SubSeq(buf, 1, From)
      below == SubSeq(buf, To + 1, Len(buf))
  IN  buf' = above \o SubSeq(buf', Len(above) + 1, Len(buf') - Len(below)) \o below

LEMMA CutKeeps ==
  ASSUME EdTypeOK, NEW i \in 0 .. Len(buf), NEW j \in i .. Len(buf), From <= i, j <= To,
         buf' = Cut(buf, i, j)
  PROVE  Kept
<1>1. buf \in Seq(Bytes) /\ Len(buf) \in Nat /\ << >> \in Seq(Bytes)
  BY DEF EdTypeOK
<1>2. From \in 0 .. cur /\ To \in cur .. Len(buf) /\ cur \in 0 .. Len(buf)
  BY LineExtent DEF EdTypeOK
<1>3. From \in 0 .. i /\ To \in j .. Len(buf)
  BY <1>1, <1>2
<1> DEFINE u == SubSeq(buf, 1, i)
           v == SubSeq(buf, j + 1, Len(buf))
<1>4. u \in Seq(Bytes)
  BY <1>1
<1>5. u \o << >> = u
  <2> HIDE DEF u
  <2>1. QED
    BY <1>4, ConcatEmptySeq
<1>6. buf' = u \o << >> \o v
  BY <1>5 DEF Cut
<1> HIDE DEF u, v
<1>7. LET above == SubSeq(buf, 1, From)
          below == SubSeq(buf, To + 1, Len(buf))
          z == SubSeq(buf, 1, i) \o << >> \o SubSeq(buf, j + 1, Len(buf))
      IN  z = above \o SubSeq(z, Len(above) + 1, Len(z) - Len(below)) \o below
  BY <1>1, <1>3, ReplaceKeeps
<1>8. QED
  BY <1>6, <1>7 DEF Kept, u, v

LEMMA PutKeeps ==
  ASSUME EdTypeOK, NEW s \in Seq(Bytes), buf' = Put(buf, cur, s)
  PROVE  Kept
<1>1. buf \in Seq(Bytes) /\ Len(buf) \in Nat /\ cur \in 0 .. Len(buf) /\ cur \in cur .. Len(buf)
  BY DEF EdTypeOK
<1>2. From \in 0 .. cur /\ To \in cur .. Len(buf)
  BY LineExtent
<1>3. LET above == SubSeq(buf, 1, From)
          below == SubSeq(buf, To + 1, Len(buf))
          z == SubSeq(buf, 1, cur) \o s \o SubSeq(buf, cur + 1, Len(buf))
      IN  z = above \o SubSeq(z, Len(above) + 1, Len(z) - Len(below)) \o below
  BY <1>1, <1>2, ReplaceKeeps
<1>4. QED
  BY <1>3 DEF Kept, Put

LEMMA SameKeeps ==
  ASSUME EdTypeOK, buf' = buf
  PROVE  Kept
<1>1. buf \in Seq(Bytes) /\ Len(buf) \in Nat /\ cur \in 0 .. Len(buf)
  BY DEF EdTypeOK
<1>2. From \in 0 .. cur /\ To \in cur .. Len(buf)
  BY LineExtent
<1> DEFINE x == SubSeq(buf, 1, From)
           y == SubSeq(buf, To + 1, Len(buf))
<1>3. x \in Seq(Bytes) /\ Len(x) = From /\ \A k \in 1 .. From : x[k] = buf[k]
  BY <1>1, <1>2
<1>4. y \in Seq(Bytes) /\ Len(y) = Len(buf) - To /\ \A k \in 1 .. Len(buf) - To : y[k] = buf[To + k]
  BY <1>1, <1>2
<1> HIDE DEF x, y
<1>5. Len(x) + Len(y) <= Len(buf) /\ \A k \in 1 .. Len(x) : buf[k] = x[k]
  BY <1>1, <1>2, <1>3, <1>4
<1>6. ASSUME NEW k \in 1 .. Len(y) PROVE buf[Len(buf) - Len(y) + k] = y[k]
  <2>1. Len(buf) - Len(y) + k = To + k /\ k \in 1 .. Len(buf) - To
    BY <1>1, <1>2, <1>4
  <2>2. QED
    BY <1>4, <2>1
<1>7. x \in Seq(Bytes) /\ y \in Seq(Bytes)
  BY <1>3, <1>4
<1>8. buf = x \o SubSeq(buf, Len(x) + 1, Len(buf) - Len(y)) \o y
  BY <1>1, <1>5, <1>6, <1>7, EdgesKept
<1>9. QED
  BY <1>8 DEF Kept, x, y

\* Ctrl-K cuts its line and the newline behind it, no further.
LEMMA KillKeeps ==
  ASSUME EdTypeOK, KillLine
  PROVE  Kept
<1> DEFINE s == LineStart(buf, cur)
           e == LineEnd(buf, cur)
           E == {Len(buf)} \cup {k - 1 : k \in {j \in Breaks(buf) : j > cur}}
           S == {Len(buf)} \cup {k \in Breaks(buf) : k > e}
<1>1. buf \in Seq(Bytes) /\ Len(buf) \in Nat /\ cur \in 0 .. Len(buf)
  BY DEF EdTypeOK
<1>2. s \in 0 .. cur /\ e \in cur .. Len(buf)
  BY <1>1, LineStartBefore, LineEndBehind
<1>3. e \in E
  <2>1. E \subseteq Nat /\ E # {}
    BY <1>1 DEF Breaks
  <2>2. e = Min(E)
    BY DEF LineEnd
  <2> HIDE DEF E, e
  <2>3. QED
    BY <2>1, <2>2, MinIn
<1>4. S \subseteq Nat /\ S # {} /\ S \subseteq s .. Len(buf)
  <2> HIDE DEF s, e
  <2>1. QED
    BY <1>1, <1>2 DEF Breaks
<1>5. To \in S
  <2>1. CASE e = Len(buf)
    BY <2>1 DEF To
  <2>2. CASE e # Len(buf)
    <3>1. PICK k \in Breaks(buf) : e = k - 1
      BY <1>3, <2>2
    <3>2. k \in Nat
      BY <1>1 DEF Breaks
    <3>3. To = e + 1
      BY <2>2 DEF To
    <3> HIDE DEF e
    <3>4. e + 1 = k /\ k > e
      BY <3>1, <3>2
    <3>5. QED
      BY <3>1, <3>3, <3>4
  <2>3. QED
    BY <2>1, <2>2
<1>6. LineWithBreak = Min(S) /\ buf' = Cut(buf, s, LineWithBreak)
  BY DEF KillLine, LineWithBreak, Text
<1>7. Min(S) \in S /\ Min(S) <= To
  <2> HIDE DEF S
  <2>1. QED
    BY <1>4, <1>5, MinIn
<1>8. From <= s /\ s \in 0 .. Len(buf)
  <2>1. From = IF s = 0 THEN 0 ELSE s - 1
    BY DEF From
  <2> HIDE DEF s
  <2>2. QED
    BY <1>1, <1>2, <2>1
<1> HIDE DEF s, e, E, S
<1>9. LineWithBreak \in s .. Len(buf) /\ LineWithBreak <= To
  BY <1>4, <1>6, <1>7
<1>10. QED
  BY <1>6, <1>8, <1>9, CutKeeps

LEMMA DeletesKeep ==
  ASSUME EdTypeOK, Backspace \/ DeleteUnder
  PROVE  Kept
<1>1. buf \in Seq(Bytes) /\ Len(buf) \in Nat /\ cur \in 0 .. Len(buf)
  BY DEF EdTypeOK
<1>2. /\ From \in 0 .. cur /\ To \in cur .. Len(buf)
      /\ cur > 0 => From <= cur - 1
      /\ cur < Len(buf) => cur + 1 <= To
  BY LineExtent
<1>3. CASE buf' = buf
  BY <1>3, SameKeeps
<1>4. CASE cur > 0 /\ buf' = Cut(buf, cur - 1, cur)
  <2>1. cur - 1 \in 0 .. Len(buf) /\ cur \in cur - 1 .. Len(buf) /\ From <= cur - 1 /\ cur <= To
    BY <1>1, <1>2, <1>4
  <2>2. QED
    BY <1>4, <2>1, CutKeeps
<1>5. CASE cur < Len(buf) /\ buf' = Cut(buf, cur, cur + 1)
  <2>1. cur + 1 \in cur .. Len(buf) /\ From <= cur /\ cur + 1 <= To
    BY <1>1, <1>2, <1>5
  <2>2. QED
    BY <1>1, <1>5, <2>1, CutKeeps
<1>6. QED
  BY <1>3, <1>4, <1>5 DEF Backspace, DeleteUnder, Marked, Text

LEMMA InsertsKeep ==
  ASSUME EdTypeOK, InsertTab \/ \E ch \in Bytes, flag \in {"line", "structure"} : Insert(ch, flag)
  PROVE  Kept
<1>1. CASE buf' = buf
  BY <1>1, SameKeeps
<1>2. CASE buf' = Put(buf, cur, [i \in 1 .. TabWidth |-> " "])
  <2> DEFINE s == [i \in 1 .. TabWidth |-> " "]
  <2>1. s \in [1 .. TabWidth -> Bytes] /\ TabWidth \in Nat
    <3>1. " " \in Bytes
      BY BytesAssumption
    <3>2. s \in [1 .. TabWidth -> Bytes]
      BY <3>1, Zenon
    <3>3. QED
      BY <3>2, EditorAssumption
  <2> HIDE DEF s
  <2>2. s \in Seq(Bytes)
    BY <2>1, SeqDef
  <2>3. QED
    BY <1>2, <2>2, PutKeeps DEF s
<1>3. CASE \E ch \in Bytes : buf' = Put(buf, cur, <<ch>>)
  <2>1. PICK ch \in Bytes : buf' = Put(buf, cur, <<ch>>)
    BY <1>3
  <2>2. <<ch>> \in Seq(Bytes)
    OBVIOUS
  <2>3. QED
    BY <2>1, <2>2, PutKeeps
<1>4. QED
  BY <1>1, <1>2, <1>3 DEF InsertTab, Insert, Marked, Text

\* The keys that do not edit
LEMMA OthersKeep ==
  ASSUME EdTypeOK,
         \/ Nothing \/ Save \/ RunCode \/ Marked("structure")
         \/ CursorRight \/ CursorLeft \/ Home \/ End
         \/ \E c, flag : Text(buf, c, flag)
  PROVE  Kept
<1>1. buf' = buf
  BY DEF Nothing, Save, RunCode, Marked, CursorRight, CursorLeft, Home, End, MoveCursor, Text
<1>2. QED
  BY <1>1, SameKeeps

LEMMA EdKeeps ==
  ASSUME EdTypeOK, EdNext, mode' = "edit", buf' # << >>
  PROVE  Kept
<1>0. NL \in Bytes /\ Typed \subseteq Bytes
  BY BytesAssumption DEF NL
<1>1. ~ (\E f : Quit(f)) /\ ~ Text(<< >>, 0, "structure")
  BY DEF Quit, Text
<1>2. CASE Control
  <2>1. \/ Nothing \/ Save \/ RunCode \/ Marked("structure") \/ KillLine
        \/ \E c, flag : Text(buf, c, flag)
    BY <1>1, <1>2 DEF Control
  <2>2. QED
    BY <2>1, KillKeeps, OthersKeep
<1>3. CASE Tab \/ Rubout
  BY <1>3, InsertsKeep, DeletesKeep DEF Tab, Rubout
<1>4. CASE CarriageReturn \/ LineFeed \/ Unknown8bit
  <2>1. Insert(NL, "structure") \/ Nothing
    BY <1>4 DEF CarriageReturn, LineFeed, Unknown8bit
  <2>2. QED
    BY <1>0, <2>1, InsertsKeep, OthersKeep
<1>5. CASE \E ch \in Typed : Printable(ch)
  <2>1. PICK ch \in Typed : Insert(ch, "line")
    BY <1>5 DEF Printable
  <2>2. QED
    BY <1>0, <2>1, InsertsKeep
<1>6. CASE AfterEscape
  <2>1. \/ Nothing \/ Save \/ RunCode \/ \E ch \in Typed : Insert(ch, "line")
    BY <1>1, <1>6 DEF AfterEscape
  <2>2. QED
    BY <1>0, <2>1, InsertsKeep, OthersKeep
<1>7. CASE AfterO
  <2>1. \/ Nothing \/ Save \/ Marked("structure") \/ CursorRight \/ CursorLeft \/ Home \/ End
        \/ \E c, flag : Text(buf, c, flag)
    BY <1>7 DEF AfterO, MoveCursor
  <2>2. QED
    BY <2>1, OthersKeep
<1>8. CASE \E p \in Params : AfterBracket(p)
  <2>1. PICK p \in Params : AfterBracket(p)
    BY <1>8
  <2>2. \/ CursorRight \/ CursorLeft \/ Home \/ End \/ Numbered(p[1]) \/ DeleteUnder \/ Nothing
        \/ \E c, flag : Text(buf, c, flag)
    BY <2>1 DEF AfterBracket, MoveCursor
  <2>3. CASE Numbered(p[1])
    <3>1. \/ Save \/ RunCode \/ DeleteUnder \/ Home \/ End \/ Marked("structure") \/ Nothing
          \/ \E c, flag : Text(buf, c, flag)
      BY <1>1, <2>3, NumberedKeys
    <3>2. QED
      BY <3>1, DeletesKeep, OthersKeep
  <2>4. QED
    BY <2>2, <2>3, DeletesKeep, OthersKeep
<1>9. CASE AnyKey \/ Refresh
  <2>1. buf' = buf
    BY <1>9 DEF AnyKey, Refresh
  <2>2. QED
    BY <2>1, SameKeeps
<1>10. QED
  BY <1>2, <1>3, <1>4, <1>5, <1>6, <1>7, <1>8, <1>9 DEF EdNext

\* A key of the screen editor, other than Esc C, edits the line of the cursor and at
\* most one newline around it; all text above and below stays in its place.
THEOREM EditsStayInLine == ConsoleSpec => OtherLinesKept
<1> DEFINE A == mode = "edit" /\ mode' = "edit" /\ buf' # << >> =>
                  LET above == SubSeq(buf, 1, Max({0, LineStart(buf, cur) - 1}))
                      below == SubSeq(buf, LineEnd(buf, cur) + 2, Len(buf))
                  IN  buf' = above \o SubSeq(buf', Len(above) + 1, Len(buf') - Len(below)) \o below
<1>1. ASSUME EdTypeOK, [ConsoleNext]_consoleVars
      PROVE  [A]_edVars
  <2>1. SUFFICES ASSUME mode = "edit", mode' = "edit", buf' # << >>, ~ UNCHANGED edVars
                 PROVE  A
    OBVIOUS
  <2>2. EdNext
    <3>1. ~ ShellByte
      BY <2>1 DEF ShellByte
    <3>2. QED
      BY <1>1, <2>1, <3>1 DEF ConsoleNext, EditorByte, consoleVars
  <2>3. Kept
    BY <1>1, <2>1, <2>2, EdKeeps
  <2>4. /\ SubSeq(buf, 1, Max({0, LineStart(buf, cur) - 1})) = SubSeq(buf, 1, From)
        /\ SubSeq(buf, LineEnd(buf, cur) + 2, Len(buf)) = SubSeq(buf, To + 1, Len(buf))
    BY <1>1, LineExtent
  <2>5. QED
    BY <2>3, <2>4 DEF Kept
<1>2. ConsoleTypeOK => EdTypeOK
  BY DEF ConsoleTypeOK
<1>3. QED
  BY <1>1, <1>2, ConsoleTypeCorrect, PTL DEF ConsoleSpec, OtherLinesKept

-----------------------------------------------------------------------------
(* Lines of a text: b[s + 1] .. b[e] between two newlines or ends *)

IsLine(b, s, e) ==
  /\ e \in 0 .. Len(b) /\ s \in 0 .. e
  /\ s = 0 \/ b[s] = NL
  /\ e = Len(b) \/ b[e + 1] = NL
  /\ \A k \in s + 1 .. e : b[k] # NL

\* A newline more, a row more.
LEMMA RowSteps ==
  ASSUME NEW b \in Seq(Bytes)
  PROVE  /\ Row(b, 0) = 1
         /\ \A c \in 0 .. Len(b) - 1 : Row(b, c + 1) = IF b[c + 1] = NL THEN Row(b, c) + 1 ELSE Row(b, c)
<1>0. Len(b) \in Nat
  OBVIOUS
<1>1. Row(b, 0) = 1
  <2> DEFINE S == {k \in Breaks(b) : k <= 0}
  <2>1. S = {}
    BY DEF Breaks
  <2>2. Row(b, 0) = 1 + Cardinality(S)
    BY DEF Row
  <2> HIDE DEF S
  <2>3. Cardinality(S) = 0
    BY <2>1, FS_EmptySet
  <2>4. QED
    BY <2>2, <2>3
<1>2. ASSUME NEW c \in 0 .. Len(b) - 1
      PROVE  Row(b, c + 1) = IF b[c + 1] = NL THEN Row(b, c) + 1 ELSE Row(b, c)
  <2> DEFINE S == {k \in Breaks(b) : k <= c}
             T == {k \in Breaks(b) : k <= c + 1}
  <2>1. S \subseteq 1 .. Len(b) /\ c + 1 \notin S
    BY DEF Breaks
  <2>2. T = IF b[c + 1] = NL THEN S \cup {c + 1} ELSE S
    <3>1. \A k \in Breaks(b) : k \in Nat /\ (k <= c + 1 <=> k <= c \/ k = c + 1)
      BY <1>0 DEF Breaks
    <3>2. c + 1 \in Breaks(b) <=> b[c + 1] = NL
      BY <1>0 DEF Breaks
    <3>3. QED
      BY <3>1, <3>2
  <2>3. IsFiniteSet(S)
    <3>1. IsFiniteSet(1 .. Len(b))
      BY <1>0, FS_Interval
    <3> HIDE DEF S
    <3>2. QED
      BY <2>1, <3>1, FS_Subset
  <2>4. Row(b, c) = 1 + Cardinality(S) /\ Row(b, c + 1) = 1 + Cardinality(T)
    BY DEF Row
  <2> HIDE DEF S, T
  <2>5. Cardinality(S) \in Nat /\ Cardinality(S \cup {c + 1}) = Cardinality(S) + 1
    BY <2>1, <2>3, FS_CardinalityType, FS_AddElement
  <2>6. QED
    BY <2>2, <2>4, <2>5
<1>3. QED
  BY <1>1, <1>2

LEMMA RowGrows ==
  ASSUME NEW b \in Seq(Bytes), NEW i \in 0 .. Len(b), NEW j \in i .. Len(b)
  PROVE  Row(b, i) <= Row(b, j)
<1> DEFINE S == {k \in Breaks(b) : k <= i}
           T == {k \in Breaks(b) : k <= j}
<1>1. Len(b) \in Nat /\ S \subseteq T /\ T \subseteq 1 .. Len(b)
  BY DEF Breaks
<1>2. Row(b, i) = 1 + Cardinality(S) /\ Row(b, j) = 1 + Cardinality(T)
  BY DEF Row
<1> HIDE DEF S, T
<1>3. IsFiniteSet(T)
  <2>1. IsFiniteSet(1 .. Len(b))
    BY <1>1, FS_Interval
  <2>2. QED
    BY <1>1, <2>1, FS_Subset
<1>4. IsFiniteSet(S) /\ Cardinality(S) <= Cardinality(T)
  BY <1>1, <1>3, FS_Subset
<1>5. Cardinality(S) \in Nat /\ Cardinality(T) \in Nat
  BY <1>3, <1>4, FS_CardinalityType
<1>6. QED
  BY <1>2, <1>4, <1>5

LEMMA RowGrowsOverBreak ==
  ASSUME NEW b \in Seq(Bytes), NEW i \in 0 .. Len(b), NEW j \in i .. Len(b),
         NEW k \in i + 1 .. j, b[k] = NL
  PROVE  Row(b, i) < Row(b, j)
<1>1. Len(b) \in Nat /\ k - 1 \in i .. Len(b) /\ k - 1 \in 0 .. Len(b) - 1 /\ (k - 1) + 1 = k
      /\ j \in k .. Len(b) /\ k \in 0 .. Len(b) /\ k - 1 \in 0 .. Len(b) /\ j \in 0 .. Len(b)
  OBVIOUS
<1>2. Row(b, i) <= Row(b, k - 1)
  BY <1>1, RowGrows
<1>3. Row(b, k) <= Row(b, j)
  BY <1>1, RowGrows
<1>4. Row(b, k) = Row(b, k - 1) + 1
  BY <1>1, RowSteps
<1>5. Row(b, i) \in 1 .. Len(b) + 1 /\ Row(b, k - 1) \in 1 .. Len(b) + 1
      /\ Row(b, k) \in 1 .. Len(b) + 1 /\ Row(b, j) \in 1 .. Len(b) + 1
  BY <1>1, RowBounds
<1>6. QED
  BY <1>1, <1>2, <1>3, <1>4, <1>5

\* The positions of a line, and no others, are in its row.
LEMMA RowOfLine ==
  ASSUME NEW b \in Seq(Bytes), NEW s, NEW e, IsLine(b, s, e), NEW j \in 0 .. Len(b)
  PROVE  Row(b, j) = Row(b, s) <=> j \in s .. e
<1>1. Len(b) \in Nat /\ e \in 0 .. Len(b) /\ s \in 0 .. e /\ s \in 0 .. Len(b)
  BY DEF IsLine
<1>2. Row(b, j) \in Nat /\ Row(b, s) \in Nat
  <2>1. Row(b, j) \in 1 .. Len(b) + 1 /\ Row(b, s) \in 1 .. Len(b) + 1
    BY <1>1, RowBounds
  <2>2. QED
    BY <1>1, <2>1
<1>3. CASE j \in s .. e
  <2>1. {k \in Breaks(b) : k <= j} = {k \in Breaks(b) : k <= s}
    <3>1. \A k \in Breaks(b) : k \in 1 .. Len(b) /\ ~ (k \in s + 1 .. e)
      BY DEF Breaks, IsLine
    <3>2. \A k \in 1 .. Len(b) : ~ (k \in s + 1 .. e) => (k <= j <=> k <= s)
      BY <1>1, <1>3
    <3>3. QED
      BY <3>1, <3>2
  <2>2. QED
    BY <1>3, <2>1 DEF Row
<1>4. CASE j < s
  <2>1. s \in j .. Len(b) /\ s \in j + 1 .. s /\ b[s] = NL
    BY <1>1, <1>4 DEF IsLine
  <2>2. Row(b, j) < Row(b, s)
    BY <1>1, <2>1, RowGrowsOverBreak
  <2>3. QED
    BY <1>1, <1>2, <1>4, <2>2
<1>5. CASE j > e
  <2>1. j \in s .. Len(b) /\ e + 1 \in s + 1 .. j /\ b[e + 1] = NL
    BY <1>1, <1>5 DEF IsLine
  <2>2. Row(b, s) < Row(b, j)
    BY <1>1, <2>1, RowGrowsOverBreak
  <2>3. QED
    BY <1>1, <1>2, <1>5, <2>2
<1>6. QED
  BY <1>1, <1>3, <1>4, <1>5

\* LineStart and LineEnd delimit the line of a position.
LEMMA LineAt ==
  ASSUME NEW b \in Seq(Bytes), NEW c \in 0 .. Len(b)
  PROVE  IsLine(b, LineStart(b, c), LineEnd(b, c)) /\ c \in LineStart(b, c) .. LineEnd(b, c)
<1> DEFINE s == LineStart(b, c)
           e == LineEnd(b, c)
           S == {0} \cup {k \in Breaks(b) : k <= c}
           E == {Len(b)} \cup {k - 1 : k \in {j \in Breaks(b) : j > c}}
<1>1. s \in 0 .. c /\ e \in c .. Len(b) /\ Len(b) \in Nat
  BY LineStartBefore, LineEndBehind
<1>2. s \in S /\ \A y \in S : y <= s
  <2>1. S \subseteq 0 .. c /\ S # {} /\ c \in Nat
    BY DEF Breaks
  <2>2. s = Max(S)
    BY DEF LineStart
  <2> HIDE DEF S, s
  <2>3. QED
    BY <2>1, <2>2, MaxIn
<1>3. e \in E /\ \A y \in E : e <= y
  <2>1. E \subseteq Nat /\ E # {}
    BY DEF Breaks
  <2>2. e = Min(E)
    BY DEF LineEnd
  <2> HIDE DEF E, e
  <2>3. QED
    BY <2>1, <2>2, MinIn
<1>4. s = 0 \/ b[s] = NL
  BY <1>2 DEF Breaks
<1>5. e = Len(b) \/ b[e + 1] = NL
  BY <1>3 DEF Breaks
<1>6. ASSUME NEW k \in s + 1 .. e, b[k] = NL
      PROVE  FALSE
  <2> HIDE DEF s, e
  <2>1. k \in Breaks(b)
    BY <1>1, <1>6 DEF Breaks
  <2>2. CASE k <= c
    <3>1. k \in S
      BY <2>1, <2>2
    <3>2. k <= s
      BY <1>2, <3>1
    <3>3. QED
      BY <1>1, <3>2
  <2>3. CASE k > c
    <3>1. k - 1 \in E
      BY <2>1, <2>3
    <3>2. e <= k - 1
      BY <1>3, <3>1
    <3>3. QED
      BY <1>1, <3>2
  <2>4. QED
    BY <1>1, <2>2, <2>3
<1> HIDE DEF s, e, S, E
<1>7. IsLine(b, s, e) /\ c \in s .. e
  BY <1>1, <1>4, <1>5, <1>6 DEF IsLine
<1>8. QED
  BY <1>7 DEF s, e

\* Two lines with a common row are the same.
LEMMA LinesDisjoint ==
  ASSUME NEW b \in Seq(Bytes), NEW s, NEW e, IsLine(b, s, e),
         NEW t, NEW f, IsLine(b, t, f), Row(b, s) = Row(b, t)
  PROVE  s = t /\ e = f
<1>1. /\ Len(b) \in Nat /\ e \in 0 .. Len(b) /\ s \in 0 .. e /\ f \in 0 .. Len(b) /\ t \in 0 .. f
      /\ s \in 0 .. Len(b) /\ t \in 0 .. Len(b)
  BY DEF IsLine
<1>2. s \in t .. f /\ t \in s .. e
  BY <1>1, RowOfLine
<1>3. e \in s .. e /\ f \in t .. f
  BY <1>1
<1>4. Row(b, e) = Row(b, t) /\ Row(b, f) = Row(b, s)
  BY <1>1, <1>3, RowOfLine
<1>5. e \in t .. f /\ f \in s .. e
  BY <1>1, <1>4, RowOfLine
<1>6. QED
  BY <1>1, <1>2, <1>5

LEMMA LineTextIs ==
  ASSUME NEW b \in Seq(Bytes), NEW s, NEW e, IsLine(b, s, e)
  PROVE  LineText(b, Row(b, s)) = SubSeq(b, s + 1, e)
<1> DEFINE n == Row(b, s)
<1>1. s \in 0 .. Len(b)
  BY DEF IsLine
<1>2. PICK c : c = CHOOSE k \in 0 .. Len(b) : Row(b, k) = n
  OBVIOUS
<1>3. c \in 0 .. Len(b) /\ Row(b, c) = n
  BY <1>1, <1>2
<1>4. LineText(b, n) = SubSeq(b, LineStart(b, c) + 1, LineEnd(b, c))
  BY <1>2 DEF LineText
<1> DEFINE t == LineStart(b, c)
           f == LineEnd(b, c)
<1>5. IsLine(b, t, f) /\ c \in t .. f
  BY <1>3, LineAt
<1> HIDE DEF n, t, f
<1>6. Row(b, c) = Row(b, t)
  BY <1>3, <1>5, RowOfLine
<1>7. s = t /\ e = f
  BY <1>3, <1>5, <1>6, LinesDisjoint DEF n
<1>8. QED
  BY <1>4, <1>7 DEF n, t, f

\* Every row up to the last one has a line.
LEMMA RowHasLine ==
  ASSUME NEW b \in Seq(Bytes), NEW n \in 1 .. NumLines(b)
  PROVE  \E s, e : IsLine(b, s, e) /\ Row(b, s) = n
<1> DEFINE S == {c \in 0 .. Len(b) : Row(b, c) >= n}
<1>0. Len(b) \in Nat /\ Len(b) \in 0 .. Len(b) /\ NumLines(b) = Row(b, Len(b))
  BY DEF NumLines
<1>1. Row(b, Len(b)) \in 1 .. Len(b) + 1
  BY <1>0, RowBounds
<1>2. S \subseteq Nat /\ Len(b) \in S
  BY <1>0, <1>1
<1>3. PICK c \in S : \A y \in S : c <= y
  <2> HIDE DEF S
  <2>1. QED
    BY <1>2, LeastExists
<1>4. c \in 0 .. Len(b) /\ Row(b, c) >= n
  OBVIOUS
<1>5. Row(b, c) = n
  <2>1. CASE c = 0
    BY <1>0, <1>1, <1>4, <2>1, RowSteps
  <2>2. CASE c # 0
    <3>1. c - 1 \in 0 .. Len(b) - 1 /\ c - 1 \in 0 .. Len(b) /\ (c - 1) + 1 = c /\ ~ (c <= c - 1)
      BY <1>0, <1>4, <2>2
    <3>2. ~ (Row(b, c - 1) >= n)
      BY <1>3, <3>1
    <3>3. Row(b, c) = Row(b, c - 1) + 1 \/ Row(b, c) = Row(b, c - 1)
      BY <3>1, RowSteps
    <3>4. Row(b, c - 1) \in 1 .. Len(b) + 1 /\ Row(b, c) \in 1 .. Len(b) + 1
      BY <1>4, <3>1, RowBounds
    <3>5. QED
      BY <1>0, <1>1, <1>4, <3>2, <3>3, <3>4
  <2>3. QED
    BY <2>1, <2>2
<1> DEFINE s == LineStart(b, c)
           e == LineEnd(b, c)
<1>6. IsLine(b, s, e) /\ c \in s .. e
  BY <1>4, LineAt
<1> HIDE DEF s, e
<1>7. Row(b, s) = n
  BY <1>4, <1>5, <1>6, RowOfLine
<1>8. QED
  BY <1>6, <1>7

LEMMA LineIsText ==
  ASSUME NEW b \in Seq(Bytes), NEW n \in 1 .. NumLines(b)
  PROVE  LineText(b, n) \in Seq(Bytes)
<1>1. PICK s, e : IsLine(b, s, e) /\ Row(b, s) = n
  BY RowHasLine
<1>2. LineText(b, n) = SubSeq(b, s + 1, e)
  BY <1>1, LineTextIs
<1>3. Len(b) \in Nat /\ e \in 0 .. Len(b) /\ s \in 0 .. e
  BY <1>1 DEF IsLine
<1>4. \A k \in s + 1 .. e : b[k] \in Bytes
  BY <1>3
<1>5. QED
  BY <1>2, <1>3, <1>4, SubSeqProperties

-----------------------------------------------------------------------------
(* Bytes without a newline, put into a line *)

\* The text z is b with m bytes, none of them a newline, put in at c.
Widened(b, z, c, m) ==
  /\ z \in Seq(Bytes) /\ m \in Nat /\ Len(z) = Len(b) + m
  /\ \A k \in 1 .. c : z[k] = b[k]
  /\ \A k \in c + 1 .. c + m : z[k] # NL
  /\ \A k \in c + 1 .. Len(b) : z[k + m] = b[k]

LEMMA PutWidens ==
  ASSUME NEW b \in Seq(Bytes), NEW c \in 0 .. Len(b), NEW s \in Seq(Bytes),
         \A k \in 1 .. Len(s) : s[k] # NL
  PROVE  Widened(b, Put(b, c, s), c, Len(s))
<1> DEFINE u == SubSeq(b, 1, c)
           v == SubSeq(b, c + 1, Len(b))
           z == Put(b, c, s)
<1>1. u \in Seq(Bytes) /\ Len(u) = c /\ \A k \in 1 .. c : u[k] = b[k]
  OBVIOUS
<1>2. v \in Seq(Bytes) /\ Len(v) = Len(b) - c /\ \A k \in 1 .. Len(b) - c : v[k] = b[c + k]
  OBVIOUS
<1>3. z \in Seq(Bytes) /\ Len(z) = Len(b) + Len(s)
  BY PutText
<1>4. z = u \o s \o v
  BY DEF Put
<1>5. Len(s) \in Nat /\ Len(b) \in Nat
  OBVIOUS
<1> HIDE DEF u, v, z
<1>6. PICK w : w = u \o s
  OBVIOUS
<1>7. /\ w \in Seq(Bytes) /\ Len(w) = c + Len(s)
      /\ \A k \in 1 .. c : w[k] = b[k]
      /\ \A k \in 1 .. Len(s) : w[c + k] = s[k]
  <2>1. /\ w \in Seq(Bytes) /\ Len(w) = Len(u) + Len(s)
        /\ \A k \in 1 .. Len(u) : w[k] = u[k]
        /\ \A k \in 1 .. Len(s) : w[Len(u) + k] = s[k]
    <3>1. u \in Seq(Bytes)
      BY <1>1
    <3>2. QED
      BY <1>6, <3>1
  <2>2. QED
    BY <1>1, <1>5, <2>1
<1>8. /\ \A k \in 1 .. c + Len(s) : z[k] = w[k]
      /\ \A k \in 1 .. Len(b) - c : z[c + Len(s) + k] = v[k]
  <2>1. /\ \A k \in 1 .. Len(w) : z[k] = w[k]
        /\ \A k \in 1 .. Len(v) : z[Len(w) + k] = v[k]
    <3>1. v \in Seq(Bytes) /\ w \in Seq(Bytes) /\ z = w \o v
      BY <1>2, <1>4, <1>6, <1>7
    <3>2. QED
      BY <3>1
  <2>2. QED
    BY <1>2, <1>7, <2>1
<1>9. \A k \in 1 .. c : z[k] = b[k]
  <2>1. \A k \in 1 .. c : k \in 1 .. c + Len(s)
    BY <1>5
  <2>2. QED
    BY <1>7, <1>8, <2>1
<1>10. \A k \in c + 1 .. c + Len(s) : z[k] # NL
  <2>1. SUFFICES ASSUME NEW k \in c + 1 .. c + Len(s) PROVE z[k] # NL
    OBVIOUS
  <2>2. k \in 1 .. c + Len(s) /\ k - c \in 1 .. Len(s) /\ c + (k - c) = k
    BY <1>5
  <2>3. QED
    BY <1>7, <1>8, <2>2
<1>11. \A k \in c + 1 .. Len(b) : z[k + Len(s)] = b[k]
  <2>1. SUFFICES ASSUME NEW k \in c + 1 .. Len(b) PROVE z[k + Len(s)] = b[k]
    OBVIOUS
  <2>2. k - c \in 1 .. Len(b) - c /\ c + Len(s) + (k - c) = k + Len(s) /\ c + (k - c) = k
    BY <1>5
  <2>3. QED
    BY <1>2, <1>8, <2>2
<1>12. QED
  BY <1>3, <1>5, <1>9, <1>10, <1>11 DEF Widened, z

\* The rows of the positions before the bytes, in them and behind them
LEMMA WidenedRows ==
  ASSUME NEW b \in Seq(Bytes), NEW c \in 0 .. Len(b), NEW m, NEW z, Widened(b, z, c, m)
  PROVE  /\ \A j \in 0 .. c : Row(z, j) = Row(b, j)
         /\ \A j \in c .. Len(b) : Row(z, j + m) = Row(b, j)
<1>0. /\ Len(b) \in Nat /\ m \in Nat /\ z \in Seq(Bytes) /\ Len(z) = Len(b) + m
      /\ \A k \in 1 .. c : z[k] = b[k]
      /\ \A k \in c + 1 .. c + m : z[k] # NL
      /\ \A k \in c + 1 .. Len(b) : z[k + m] = b[k]
  BY DEF Widened
<1>1. ASSUME NEW j \in 0 .. c
      PROVE  {k \in Breaks(z) : k <= j} = {k \in Breaks(b) : k <= j}
  <2>1. \A k : k \in Breaks(z) /\ k <= j => k \in Breaks(b)
    BY <1>0 DEF Breaks
  <2>2. \A k : k \in Breaks(b) /\ k <= j => k \in Breaks(z)
    BY <1>0 DEF Breaks
  <2>3. QED
    BY <2>1, <2>2
<1>2. \A j \in 0 .. c : Row(z, j) = Row(b, j)
  BY <1>1 DEF Row
<1>3. Row(z, c + m) = Row(b, c)
  <2>1. {k \in Breaks(z) : k <= c + m} = {k \in Breaks(z) : k <= c}
    <3>1. \A k \in Breaks(z) : k \in 1 .. Len(z) /\ ~ (k \in c + 1 .. c + m)
      BY <1>0 DEF Breaks
    <3>2. \A k \in 1 .. Len(z) : ~ (k \in c + 1 .. c + m) => (k <= c + m <=> k <= c)
      BY <1>0
    <3>3. QED
      BY <3>1, <3>2
  <2>2. Row(z, c + m) = Row(z, c)
    BY <2>1 DEF Row
  <2>3. c \in 0 .. c
    BY <1>0
  <2>4. QED
    BY <1>2, <2>2, <2>3
<1> DEFINE S == {i \in Nat : c + i <= Len(b) => Row(z, c + i + m) = Row(b, c + i)}
<1>4. 0 \in S
  <2>1. c + 0 = c /\ c + 0 + m = c + m
    BY <1>0
  <2>2. QED
    BY <1>3, <2>1
<1>5. ASSUME NEW i \in Nat, i \in S
      PROVE  i + 1 \in S
  <2>1. SUFFICES ASSUME c + (i + 1) <= Len(b)
                 PROVE  Row(z, c + (i + 1) + m) = Row(b, c + (i + 1))
    OBVIOUS
  <2> DEFINE k == c + i
  <2>2. k \in 0 .. Len(b) - 1 /\ k + m \in 0 .. Len(z) - 1 /\ c + i <= Len(b)
        /\ c + (i + 1) = k + 1 /\ c + (i + 1) + m = (k + m) + 1
        /\ k + 1 \in c + 1 .. Len(b) /\ (k + m) + 1 = (k + 1) + m
    BY <1>0, <2>1
  <2>3. Row(z, k + m) = Row(b, k)
    BY <1>5, <2>2
  <2> HIDE DEF k
  <2>4. z[(k + m) + 1] = b[k + 1]
    BY <1>0, <2>2
  <2>5. /\ Row(z, (k + m) + 1) = IF z[(k + m) + 1] = NL THEN Row(z, k + m) + 1 ELSE Row(z, k + m)
        /\ Row(b, k + 1) = IF b[k + 1] = NL THEN Row(b, k) + 1 ELSE Row(b, k)
    BY <1>0, <2>2, RowSteps
  <2>6. QED
    BY <2>2, <2>3, <2>4, <2>5
<1>6. Nat \subseteq S
  <2> HIDE DEF S
  <2>1. QED
    BY <1>4, <1>5, Induction
<1>7. ASSUME NEW j \in c .. Len(b)
      PROVE  Row(z, j + m) = Row(b, j)
  <2>1. j - c \in Nat /\ c + (j - c) = j
    BY <1>0
  <2>2. c + (j - c) <= Len(b) => Row(z, c + (j - c) + m) = Row(b, c + (j - c))
    BY <1>6, <2>1
  <2>3. QED
    BY <1>0, <2>1, <2>2
<1>8. QED
  BY <1>2, <1>7

\* Only the line of the position is another one.
LEMMA WidenedLines ==
  ASSUME NEW b \in Seq(Bytes), NEW c \in 0 .. Len(b), NEW m, NEW z, Widened(b, z, c, m)
  PROVE  /\ NumLines(z) = NumLines(b)
         /\ Row(z, c + m) = Row(b, c)
         /\ \A n \in 1 .. NumLines(b) : n # Row(b, c) => LineText(z, n) = LineText(b, n)
<1>0. /\ Len(b) \in Nat /\ m \in Nat /\ z \in Seq(Bytes) /\ Len(z) = Len(b) + m
      /\ \A k \in 1 .. c : z[k] = b[k]
      /\ \A k \in c + 1 .. c + m : z[k] # NL
      /\ \A k \in c + 1 .. Len(b) : z[k + m] = b[k]
  BY DEF Widened
<1>1. /\ \A j \in 0 .. c : Row(z, j) = Row(b, j)
      /\ \A j \in c .. Len(b) : Row(z, j + m) = Row(b, j)
  BY WidenedRows
<1>2. Len(b) \in c .. Len(b) /\ c \in c .. Len(b)
  BY <1>0
<1>3. NumLines(z) = NumLines(b) /\ Row(z, c + m) = Row(b, c)
  BY <1>0, <1>1, <1>2 DEF NumLines
<1>4. ASSUME NEW n \in 1 .. NumLines(b), n # Row(b, c)
      PROVE  LineText(z, n) = LineText(b, n)
  <2>1. PICK s, e : IsLine(b, s, e) /\ Row(b, s) = n
    BY RowHasLine
  <2>2. /\ e \in 0 .. Len(b) /\ s \in 0 .. e
        /\ s = 0 \/ b[s] = NL
        /\ e = Len(b) \/ b[e + 1] = NL
        /\ \A k \in s + 1 .. e : b[k] # NL
    BY <2>1 DEF IsLine
  <2>3. ~ (c \in s .. e)
    BY <1>4, <2>1, RowOfLine
  <2>4. LineText(b, n) = SubSeq(b, s + 1, e)
    BY <2>1, LineTextIs
  <2>5. CASE e < c
    <3>1. e + 1 \in 1 .. c /\ s \in 0 .. c /\ e \in 0 .. Len(z) /\ e # Len(b)
      BY <1>0, <2>2, <2>5
    <3>2. \A k \in s + 1 .. e : k \in 1 .. c
      BY <1>0, <2>2, <2>5
    <3>3. IsLine(z, s, e)
      BY <1>0, <2>2, <3>1, <3>2 DEF IsLine
    <3>4. LineText(z, n) = SubSeq(z, s + 1, e)
      <4>1. LineText(z, Row(z, s)) = SubSeq(z, s + 1, e)
        BY <1>0, <3>3, LineTextIs
      <4>2. Row(z, s) = n
        BY <1>1, <2>1, <3>1
      <4>3. QED
        BY <4>1, <4>2
    <3>5. SubSeq(z, s + 1, e) = SubSeq(b, s + 1, e)
      BY <1>0, <2>2, <3>1, <3>2
    <3>6. QED
      BY <2>4, <3>4, <3>5
  <2>6. CASE s > c
    <3>1. /\ s \in c + 1 .. Len(b) /\ s \in c .. Len(b) /\ s # 0
          /\ e + m \in 0 .. Len(z) /\ s + m \in 0 .. e + m
      BY <1>0, <2>2, <2>6
    <3>2. z[s + m] = NL
      BY <1>0, <2>2, <3>1
    <3>3. e + m = Len(z) \/ z[(e + m) + 1] = NL
      <4>1. CASE e = Len(b)
        BY <1>0, <4>1
      <4>2. CASE e # Len(b)
        <5>1. e + 1 \in c + 1 .. Len(b) /\ (e + m) + 1 = (e + 1) + m
          BY <1>0, <2>2, <2>6, <4>2
        <5>2. QED
          BY <1>0, <2>2, <4>2, <5>1
      <4>3. QED
        BY <4>1, <4>2
    <3>4. \A k \in (s + m) + 1 .. e + m : k - m \in s + 1 .. e /\ k - m \in c + 1 .. Len(b) /\ (k - m) + m = k
      BY <1>0, <2>2, <2>6
    <3>5. \A k \in (s + m) + 1 .. e + m : z[k] = b[k - m]
      BY <1>0, <3>4
    <3>6. IsLine(z, s + m, e + m)
      BY <2>2, <3>1, <3>2, <3>3, <3>4, <3>5 DEF IsLine
    <3>7. LineText(z, n) = SubSeq(z, (s + m) + 1, e + m)
      <4>1. LineText(z, Row(z, s + m)) = SubSeq(z, (s + m) + 1, e + m)
        BY <1>0, <3>6, LineTextIs
      <4>2. Row(z, s + m) = n
        BY <1>1, <2>1, <3>1
      <4>3. QED
        BY <4>1, <4>2
    <3>8. SubSeq(z, (s + m) + 1, e + m) = SubSeq(b, s + 1, e)
      BY <1>0, <2>2, <3>1, <3>5
    <3>9. QED
      BY <2>4, <3>7, <3>8
  <2>7. QED
    BY <1>0, <2>2, <2>3, <2>5, <2>6
<1>5. QED
  BY <1>3, <1>4

-----------------------------------------------------------------------------
(* What the terminal shows between two refreshes *)

\* Row k of the terminal shows its line of a text b, from line t on, as far as it is
\* ever drawn.
Shows(b, t, rs, k) ==
  LET n == t + k - 1
  IN  \/ n > NumLines(b) /\ rs[k] = Line(0, << >>)
      \/ /\ n <= NumLines(b)
         /\ rs[k].num = n
         /\ IF k = Rows /\ n < NumLines(b)
              THEN SubSeq(rs[k].text, 1, Len(LineText(b, n))) = LineText(b, n)
              ELSE rs[k].text = LineText(b, n)

\* Unless everything is to be drawn, the only rows that do not show their line are
\* the line that is to be drawn and the lines left in this burst.
RowsShown ==
  mode = "edit" /\ due # "structure" =>
    \A k \in 1 .. Rows :
      \/ top + k - 1 \in left
      \/ due = "line" /\ top + k - 1 = Row(buf, cur)
      \/ Shows(buf, top, rows, k)

CursorShown == mode = "edit" /\ due = "nothing" => Row(buf, cur) \in top .. top + Rows - 1

Screens == [1 .. Rows -> [num : Nat, text : Seq(Bytes)]]

ScreenInv ==
  /\ rows \in Screens
  /\ mode = "closed" => due = "nothing" /\ left = {}
  /\ mode = "output" => due = "structure"
  /\ RowsShown
  /\ CursorShown

LEMMA OverBegins ==
  ASSUME NEW old \in Seq(Bytes), NEW new \in Seq(Bytes)
  PROVE  Over(old, new) \in Seq(Bytes) /\ SubSeq(Over(old, new), 1, Len(new)) = new
<1> DEFINE v == SubSeq(old, Len(new) + 1, Len(old))
           w == new \o v
<1>1. Len(old) \in Nat /\ Len(new) \in Nat
  OBVIOUS
<1>2. v \in Seq(Bytes)
  <2>1. \A k \in Len(new) + 1 .. Len(old) : old[k] \in Bytes
    BY <1>1
  <2>2. QED
    BY <1>1, <2>1, SubSeqProperties
<1>3. Over(old, new) = w
  BY DEF Over
<1> HIDE DEF v
<1>4. w \in Seq(Bytes) /\ Len(w) = Len(new) + Len(v) /\ \A k \in 1 .. Len(new) : w[k] = new[k]
  BY <1>2
<1> HIDE DEF w
<1>5. Len(v) \in Nat
  BY <1>2
<1>6. SubSeq(w, 1, Len(new)) = new
  BY <1>1, <1>4, <1>5
<1>7. QED
  BY <1>3, <1>4, <1>6

LEMMA WholeText ==
  ASSUME NEW x \in Seq(Bytes)
  PROVE  SubSeq(x, 1, Len(x)) = x
OBVIOUS

\* redraw leaves no row behind.
LEMMA DrawnShows ==
  ASSUME NEW b \in Seq(Bytes), NEW t \in Nat \ {0}, NEW old \in Screens
  PROVE  /\ Drawn(b, t, old) \in Screens
         /\ \A k \in 1 .. Rows : Shows(b, t, Drawn(b, t, old), k)
<1>0. Rows \in Nat
  BY EditorAssumption
<1>1. NumLines(b) \in Nat
  <2>1. Len(b) \in Nat /\ Len(b) \in 0 .. Len(b)
    OBVIOUS
  <2>2. Row(b, Len(b)) \in 1 .. Len(b) + 1
    BY <2>1, RowBounds
  <2>3. QED
    BY <2>1, <2>2 DEF NumLines
<1>2. ASSUME NEW k \in 1 .. Rows
      PROVE  Drawn(b, t, old)[k] \in [num : Nat, text : Seq(Bytes)] /\ Shows(b, t, Drawn(b, t, old), k)
  <2> DEFINE n == t + k - 1
             x == LineText(b, n)
             d == Drawn(b, t, old)[k]
             last == k = Rows /\ n < NumLines(b)
  <2>1. n \in Nat \ {0}
    BY <1>0
  <2>2. d = IF n > NumLines(b) THEN Line(0, << >>)
            ELSE Line(n, IF last THEN Over(old[k].text, x) ELSE x)
    BY DEF Drawn
  <2>3. old[k].text \in Seq(Bytes)
    BY DEF Screens
  <2>4. Shows(b, t, Drawn(b, t, old), k)
          <=> \/ n > NumLines(b) /\ d = Line(0, << >>)
              \/ /\ n <= NumLines(b)
                 /\ d.num = n
                 /\ IF last THEN SubSeq(d.text, 1, Len(x)) = x ELSE d.text = x
    BY DEF Shows
  <2> HIDE DEF n, d
  <2>5. CASE n > NumLines(b)
    <3>1. << >> \in Seq(Bytes) /\ 0 \in Nat
      OBVIOUS
    <3>2. d = Line(0, << >>) /\ d \in [num : Nat, text : Seq(Bytes)]
      BY <2>2, <2>5, <3>1 DEF Line
    <3>3. QED
      BY <2>4, <2>5, <3>2 DEF d
  <2>6. CASE ~ (n > NumLines(b))
    <3>1. n \in 1 .. NumLines(b) /\ n <= NumLines(b)
      BY <1>1, <2>1, <2>6
    <3>2. x \in Seq(Bytes)
      BY <3>1, LineIsText
    <3> HIDE DEF x
    <3>3. PICK y : y = IF last THEN Over(old[k].text, x) ELSE x
      OBVIOUS
    <3>4. y \in Seq(Bytes) /\ IF last THEN SubSeq(y, 1, Len(x)) = x ELSE y = x
      <4>1. CASE last
        <5>1. y = Over(old[k].text, x)
          BY <3>3, <4>1
        <5>2. QED
          BY <2>3, <3>2, <4>1, <5>1, OverBegins
      <4>2. CASE ~ last
        BY <3>2, <3>3, <4>2
      <4>3. QED
        BY <4>1, <4>2
    <3>5. d = Line(n, y)
      BY <2>2, <2>6, <3>3
    <3> HIDE DEF last
    <3>6. d.num = n /\ d.text = y /\ d \in [num : Nat, text : Seq(Bytes)]
      BY <2>1, <3>4, <3>5 DEF Line
    <3>7. QED
      BY <2>4, <3>1, <3>4, <3>6 DEF d
  <2>7. QED
    BY <2>5, <2>6
<1>3. Drawn(b, t, old) \in Screens
  <2> DEFINE D == Drawn(b, t, old)
  <2>1. D = [k \in 1 .. Rows |-> D[k]]
    BY DEF Drawn
  <2> HIDE DEF D
  <2>2. \A k \in 1 .. Rows : D[k] \in [num : Nat, text : Seq(Bytes)]
    BY <1>2 DEF D
  <2>3. D \in Screens
    BY <2>1, <2>2 DEF Screens
  <2>4. QED
    BY <2>3 DEF D
<1>4. QED
  BY <1>2, <1>3

\* adjust_scroll brings the cursor into the window.
LEMMA ScrolledToCursor ==
  ASSUME EdTypeOK
  PROVE  Row(buf, cur) \in Scrolled .. Scrolled + Rows - 1 /\ Scrolled \in Nat \ {0}
<1> DEFINE r == Row(buf, cur)
<1>1. buf \in Seq(Bytes) /\ Len(buf) \in Nat /\ cur \in 0 .. Len(buf) /\ top \in 1 .. MaxBuf + 1
  BY DEF EdTypeOK
<1>2. r \in 1 .. Len(buf) + 1
  BY <1>1, RowBounds
<1>3. Scrolled = IF r < top THEN r ELSE IF r >= top + Rows THEN r - Rows + 1 ELSE top
  BY DEF Scrolled
<1>4. Scrolled \in 1 .. MaxBuf + 1
  BY ScrolledInText
<1> HIDE DEF r
<1>5. r \in Scrolled .. Scrolled + Rows - 1 /\ Scrolled \in Nat \ {0}
  BY <1>1, <1>2, <1>3, <1>4, EditorAssumption
<1>6. QED
  BY <1>5 DEF r

LEMMA RedrawShows ==
  ASSUME EdTypeOK, rows \in Screens, Redraw, UNCHANGED <<buf, cur>>
  PROVE  /\ rows' \in Screens
         /\ \A k \in 1 .. Rows : Shows(buf', top', rows', k)
         /\ Row(buf', cur') \in top' .. top' + Rows - 1
<1>1. buf \in Seq(Bytes) /\ Scrolled \in Nat \ {0}
  BY ScrolledToCursor DEF EdTypeOK
<1>2. top' = Scrolled /\ rows' = Drawn(buf, Scrolled, rows) /\ buf' = buf /\ cur' = cur
  BY DEF Redraw
<1>3. QED
  BY <1>1, <1>2, DrawnShows, ScrolledToCursor

-----------------------------------------------------------------------------
(* The screen after a key *)

LEMMA UrgencyIs ==
  Urgency["nothing"] = 0 /\ Urgency["cursor"] = 1 /\ Urgency["line"] = 2 /\ Urgency["structure"] = 3
BY DEF Urgency

LEMMA DueIs ==
  ASSUME NEW flag \in {"nothing", "cursor", "line", "structure"}, Due(flag),
         due \in {"nothing", "cursor", "line", "structure"}, rows \in Screens
  PROVE  /\ due = "structure" \/ flag = "structure" => due' = "structure"
         /\ due' # "structure" /\ (due = "line" \/ flag = "line") => due' = "line"
         /\ due' = "nothing" => due = "nothing" /\ flag = "nothing"
         /\ due' # "structure" => rows' = rows
         /\ rows' \in Screens
<1>1. /\ due' = (IF Urgency[flag] > Urgency[due] THEN flag ELSE due)
      /\ rows' = IF due' = "structure"
                   THEN [k \in 1 .. Rows |-> IF k < Rows THEN Line(0, << >>) ELSE rows[k]] ELSE rows
  BY DEF Due
<1>2. /\ due = "structure" \/ flag = "structure" => due' = "structure"
      /\ due' # "structure" /\ (due = "line" \/ flag = "line") => due' = "line"
      /\ due' = "nothing" => due = "nothing" /\ flag = "nothing"
  BY <1>1, UrgencyIs
<1>3. [k \in 1 .. Rows |-> IF k < Rows THEN Line(0, << >>) ELSE rows[k]] \in Screens
  <2>1. Line(0, << >>) \in [num : Nat, text : Seq(Bytes)]
    <3>1. << >> \in Seq(Bytes) /\ 0 \in Nat
      OBVIOUS
    <3>2. QED
      BY <3>1 DEF Line
  <2>2. \A k \in 1 .. Rows : (IF k < Rows THEN Line(0, << >>) ELSE rows[k]) \in [num : Nat, text : Seq(Bytes)]
    BY <2>1 DEF Screens
  <2>3. QED
    BY <2>2, Zenon DEF Screens
<1>4. rows' \in Screens
  <2>1. CASE due' = "structure"
    BY <1>1, <1>3, <2>1
  <2>2. CASE due' # "structure"
    BY <1>1, <2>2
  <2>3. QED
    BY <2>1, <2>2
<1>5. QED
  BY <1>1, <1>2, <1>4

\* A row other than the widened line shows what it showed.
LEMMA StillShows ==
  ASSUME EdTypeOK, NEW z, NEW m, Widened(buf, z, cur, m), NEW k \in 1 .. Rows,
         top + k - 1 # Row(buf, cur), Shows(buf, top, rows, k)
  PROVE  Shows(z, top, rows, k)
<1> DEFINE n == top + k - 1
<1>1. buf \in Seq(Bytes) /\ cur \in 0 .. Len(buf) /\ top \in 1 .. MaxBuf + 1 /\ Len(buf) \in Nat
  BY DEF EdTypeOK
<1>2. /\ NumLines(z) = NumLines(buf)
      /\ \A i \in 1 .. NumLines(buf) : i # Row(buf, cur) => LineText(z, i) = LineText(buf, i)
  BY <1>1, WidenedLines
<1>3. n \in Nat \ {0}
  BY <1>1, EditorAssumption
<1>4. NumLines(buf) \in Nat
  <2>1. Len(buf) \in 0 .. Len(buf)
    BY <1>1
  <2>2. Row(buf, Len(buf)) \in 1 .. Len(buf) + 1
    BY <1>1, <2>1, RowBounds
  <2>3. QED
    BY <1>1, <2>2 DEF NumLines
<1>5. n <= NumLines(buf) => LineText(z, n) = LineText(buf, n)
  BY <1>2, <1>3, <1>4
<1>6. QED
  BY <1>2, <1>4, <1>5 DEF Shows

\* What a key may do: have everything drawn, move the cursor in the same text, or put
\* bytes into the line of the cursor.
KeyDoes(b, c, flag) ==
  /\ flag \in {"nothing", "cursor", "line", "structure"}
  /\ \/ flag = "structure"
     \/ b = buf /\ (flag = "cursor" \/ c = cur)
     \/ flag = "line" /\ \E m : Widened(buf, b, cur, m) /\ c = cur + m

LEMMA KeyShows ==
  ASSUME EdTypeOK, ScreenInv, mode # "closed", NEW b, NEW c, NEW flag,
         KeyDoes(b, c, flag), Text(b, c, flag)
  PROVE  ScreenInv'
<1>0. /\ flag \in {"nothing", "cursor", "line", "structure"}
      /\ due \in {"nothing", "cursor", "line", "structure"}
      /\ rows \in Screens /\ RowsShown /\ CursorShown
      /\ mode = "output" => due = "structure"
  BY EdTyped DEF KeyDoes, ScreenInv, TextOK
<1>1. /\ buf' = b /\ cur' = c /\ mode' = mode /\ top' = top
      /\ left' = IF due = "line" /\ Row(b, c) # Row(buf, cur) THEN left \cup {Row(buf, cur)} ELSE left
  BY DEF Text
<1>2. /\ due = "structure" \/ flag = "structure" => due' = "structure"
      /\ due' # "structure" /\ (due = "line" \/ flag = "line") => due' = "line"
      /\ due' = "nothing" => due = "nothing" /\ flag = "nothing"
      /\ due' # "structure" => rows' = rows
      /\ rows' \in Screens
  BY <1>0, DueIs DEF Text
<1>3. RowsShown'
  <2>1. SUFFICES ASSUME mode' = "edit", due' # "structure", NEW k \in 1 .. Rows
                 PROVE  \/ top' + k - 1 \in left'
                        \/ due' = "line" /\ top' + k - 1 = Row(buf', cur')
                        \/ Shows(buf', top', rows', k)
    BY DEF RowsShown
  <2> DEFINE n == top + k - 1
  <2>2. n \in left \/ (due = "line" /\ n = Row(buf, cur)) \/ Shows(buf, top, rows, k)
    BY <1>0, <1>1, <1>2, <2>1 DEF RowsShown
  <2>3. flag # "structure" /\ rows' = rows
    BY <1>2, <2>1
  <2> HIDE DEF n
  <2>4. CASE n \in left
    BY <1>1, <2>4 DEF n
  <2>5. CASE due = "line" /\ n = Row(buf, cur)
    <3>1. due' = "line"
      BY <1>2, <2>1, <2>5
    <3>2. QED
      BY <1>1, <2>5, <3>1 DEF n
  <2>6. CASE Shows(buf, top, rows, k)
    <3>1. CASE b = buf
      BY <1>1, <2>3, <2>6, <3>1
    <3>2. CASE flag = "line" /\ \E m : Widened(buf, b, cur, m) /\ c = cur + m
      <4>1. PICK m : Widened(buf, b, cur, m) /\ c = cur + m
        BY <3>2
      <4>2. CASE n = Row(buf, cur)
        <5>1. due' = "line"
          BY <1>2, <2>1, <3>2
        <5>2. Row(b, c) = Row(buf, cur)
          BY <4>1, WidenedLines DEF EdTypeOK
        <5>3. QED
          BY <1>1, <4>2, <5>1, <5>2 DEF n
      <4>3. CASE n # Row(buf, cur)
        <5>1. Shows(b, top, rows, k)
          BY <2>6, <4>1, <4>3, StillShows DEF n
        <5>2. QED
          BY <1>1, <2>3, <5>1
      <4>4. QED
        BY <4>2, <4>3
    <3>3. QED
      BY <2>3, <3>1, <3>2 DEF KeyDoes
  <2>7. QED
    BY <2>2, <2>4, <2>5, <2>6
<1>4. CursorShown'
  <2>1. SUFFICES ASSUME mode' = "edit", due' = "nothing"
                 PROVE  Row(buf', cur') \in top' .. top' + Rows - 1
    BY DEF CursorShown
  <2>2. due = "nothing" /\ flag = "nothing"
    BY <1>2, <2>1
  <2>3. b = buf /\ c = cur
    BY <2>2 DEF KeyDoes
  <2>4. QED
    BY <1>0, <1>1, <2>1, <2>2, <2>3 DEF CursorShown
<1>5. (mode = "closed" => due = "nothing" /\ left = {})' /\ (mode = "output" => due = "structure")'
  BY <1>0, <1>1, <1>2
<1>6. QED
  BY <1>2, <1>3, <1>4, <1>5 DEF ScreenInv

LEMMA SaveShows ==
  ASSUME EdTypeOK, ScreenInv, mode # "closed", Save
  PROVE  ScreenInv'
<1>1. due \in {"nothing", "cursor", "line", "structure"} /\ rows \in Screens /\ Due("structure")
  BY EdTyped DEF ScreenInv, TextOK, Save
<1>2. due' = "structure" /\ rows' \in Screens
  BY <1>1, DueIs
<1>3. mode' # "closed"
  BY DEF Save
<1>4. QED
  BY <1>2, <1>3 DEF ScreenInv, RowsShown, CursorShown

LEMMA BlankScreen ==
  ASSUME NEW t \in Seq(Bytes)
  PROVE  [k \in 1 .. Rows |-> Line(0, t)] \in Screens
<1>1. Line(0, t) \in [num : Nat, text : Seq(Bytes)]
  BY DEF Line
<1>2. QED
  BY <1>1, Zenon DEF Screens

LEMMA QuitShows ==
  ASSUME NEW f, Quit(f)
  PROVE  ScreenInv'
<1>1. << >> \in Seq(Bytes)
  OBVIOUS
<1>2. rows' \in Screens
  BY <1>1, BlankScreen DEF Quit
<1>3. mode' = "closed" /\ due' = "nothing" /\ left' = {}
  BY DEF Quit
<1>4. QED
  BY <1>2, <1>3 DEF ScreenInv, RowsShown, CursorShown

LEMMA RunShows ==
  ASSUME RunCode
  PROVE  ScreenInv'
<1>1. PICK t \in Junk : rows' = [k \in 1 .. Rows |-> Line(0, t)]
  BY DEF RunCode
<1>2. t \in Seq(Bytes)
  BY BytesAssumption
<1>3. rows' \in Screens
  BY <1>1, <1>2, BlankScreen
<1>4. mode' = "output" /\ due' = "structure"
  BY DEF RunCode
<1>5. QED
  BY <1>3, <1>4 DEF ScreenInv, RowsShown, CursorShown

LEMMA AnyKeyShows ==
  ASSUME EdTypeOK, ScreenInv, AnyKey
  PROVE  ScreenInv'
<1>1. mode' = "edit" /\ due' = "structure" /\ Redraw /\ UNCHANGED <<buf, cur>> /\ rows \in Screens
  BY DEF AnyKey, ScreenInv
<1>2. rows' \in Screens
  BY <1>1, RedrawShows
<1>3. QED
  BY <1>1, <1>2 DEF ScreenInv, RowsShown, CursorShown

\* redraw_current_line, where the window stays
LEMMA LineShows ==
  ASSUME EdTypeOK, ScreenInv, mode = "edit", due = "line", Scrolled = top, RedrawLine, UNCHANGED <<buf, cur>>
  PROVE  /\ rows' \in Screens
         /\ \A k \in 1 .. Rows : top' + k - 1 \in left' \/ Shows(buf', top', rows', k)
         /\ Row(buf', cur') \in top' .. top' + Rows - 1
<1> DEFINE r == Row(buf, cur)
           i == r - top + 1
           x == LineText(buf, r)
<1>1. /\ buf \in Seq(Bytes) /\ Len(buf) \in Nat /\ cur \in 0 .. Len(buf) /\ top \in 1 .. MaxBuf + 1
      /\ rows \in Screens /\ RowsShown /\ Rows \in Nat /\ MaxBuf \in Nat
  BY EditorAssumption DEF EdTypeOK, ScreenInv
<1>2. r \in top .. top + Rows - 1
  BY ScrolledToCursor
<1>3. /\ rows' = [rows EXCEPT ![i] = Line(r, x)]
      /\ left' = left \ {r} /\ top' = top /\ buf' = buf /\ cur' = cur
  BY DEF RedrawLine
<1>4. r \in 1 .. NumLines(buf) /\ NumLines(buf) \in Nat
  <2>1. Len(buf) \in 0 .. Len(buf) /\ Len(buf) \in cur .. Len(buf)
    BY <1>1
  <2>2. r \in 1 .. Len(buf) + 1 /\ Row(buf, Len(buf)) \in 1 .. Len(buf) + 1
    BY <1>1, <2>1, RowBounds
  <2>3. r <= Row(buf, Len(buf))
    BY <1>1, <2>1, RowGrows
  <2> HIDE DEF r
  <2>4. QED
    BY <1>1, <2>2, <2>3 DEF NumLines
<1>5. x \in Seq(Bytes)
  BY <1>1, <1>4, LineIsText
<1>6. \A k \in 1 .. Rows : Shows(buf, top, rows, k) \/ top + k - 1 \in left \/ top + k - 1 = r
  BY <1>1 DEF RowsShown
<1> HIDE DEF r, x
<1>7. i \in 1 .. Rows /\ top + i - 1 = r
  BY <1>1, <1>2
<1>8. Line(r, x) \in [num : Nat, text : Seq(Bytes)] /\ Line(r, x).num = r /\ Line(r, x).text = x
  <2>1. r \in Nat
    BY <1>4
  <2>2. QED
    BY <1>5, <2>1 DEF Line
<1>9. rows' \in Screens
  BY <1>1, <1>3, <1>8 DEF Screens
<1>10. ASSUME NEW k \in 1 .. Rows
       PROVE  top + k - 1 \in left \ {r} \/ Shows(buf, top, rows', k)
  <2>1. CASE k = i
    <3>1. rows'[k] = Line(r, x)
      BY <1>1, <1>3, <1>7, <2>1 DEF Screens
    <3>2. SubSeq(x, 1, Len(x)) = x
      BY <1>5, WholeText
    <3>3. rows'[k].num = r /\ rows'[k].text = x /\ r <= NumLines(buf) /\ top + k - 1 = r
      BY <1>4, <1>7, <1>8, <2>1, <3>1
    <3>4. QED
      BY <3>2, <3>3 DEF Shows, x
  <2>2. CASE k # i
    <3>1. top + k - 1 # r
      BY <1>1, <1>4, <2>2
    <3>2. rows'[k] = rows[k]
      BY <1>1, <1>3, <2>2 DEF Screens
    <3>3. Shows(buf, top, rows, k) \/ top + k - 1 \in left
      BY <1>6, <3>1
    <3>4. QED
      BY <3>1, <3>2, <3>3 DEF Shows
  <2>3. QED
    BY <2>1, <2>2
<1>11. QED
  BY <1>2, <1>3, <1>9, <1>10 DEF r

LEMMA RefreshShows ==
  ASSUME EdTypeOK, ScreenInv, Refresh
  PROVE  ScreenInv'
<1>1. mode = "edit" /\ mode' = "edit" /\ due' = "nothing" /\ UNCHANGED <<buf, cur>> /\ rows \in Screens
  BY DEF Refresh, ScreenInv
<1>2. /\ rows' \in Screens
      /\ \A k \in 1 .. Rows : top' + k - 1 \in left' \/ Shows(buf', top', rows', k)
      /\ Row(buf', cur') \in top' .. top' + Rows - 1
  <2>1. CASE Redraw
    BY <1>1, <2>1, RedrawShows
  <2>2. CASE due = "line" /\ RedrawLine /\ Scrolled = top
    BY <1>1, <2>2, LineShows
  <2>3. CASE due = "cursor" /\ Scrolled = top /\ UNCHANGED <<top, rows, left>>
    <3>1. \A k \in 1 .. Rows : top + k - 1 \in left \/ Shows(buf, top, rows, k)
      BY <1>1, <2>3 DEF ScreenInv, RowsShown
    <3>2. Row(buf, cur) \in top .. top + Rows - 1
      BY <2>3, ScrolledToCursor
    <3>3. QED
      BY <1>1, <2>3, <3>1, <3>2
  <2>4. QED
    BY <2>1, <2>2, <2>3 DEF Refresh, RedrawLine, MoveOnly
<1>3. QED
  BY <1>1, <1>2 DEF ScreenInv, RowsShown, CursorShown

LEMMA StartShows ==
  ASSUME EdTypeOK, ScreenInv, Start
  PROVE  ScreenInv'
<1>1. mode' = "edit" /\ due' = "nothing" /\ left' = {} /\ cur' = 0 /\ top' = 1
  BY DEF Start, ScreenInv
<1>2. buf' \in Seq(Bytes)
  <2>1. EdTypeOK'
    BY StartStep
  <2>2. QED
    BY <2>1 DEF EdTypeOK
<1>3. PICK t \in Junk : rows' = Drawn(buf', 1, [k \in 1 .. Rows |-> Line(0, t)])
  BY DEF Start
<1>4. [k \in 1 .. Rows |-> Line(0, t)] \in Screens
  <2>1. t \in Seq(Bytes)
    BY BytesAssumption
  <2>2. QED
    BY <2>1, BlankScreen
<1>5. rows' \in Screens /\ \A k \in 1 .. Rows : Shows(buf', 1, rows', k)
  <2>1. PICK old : old = [k \in 1 .. Rows |-> Line(0, t)]
    OBVIOUS
  <2>2. old \in Screens /\ 1 \in Nat \ {0}
    BY <1>4, <2>1
  <2>3. /\ Drawn(buf', 1, old) \in Screens
        /\ \A k \in 1 .. Rows : Shows(buf', 1, Drawn(buf', 1, old), k)
    BY <1>2, <2>2, DrawnShows
  <2>4. QED
    BY <1>3, <2>1, <2>3
<1>6. Row(buf', 0) = 1
  BY <1>2, RowSteps
<1>7. Row(buf', cur') \in top' .. top' + Rows - 1
  BY <1>1, <1>6, EditorAssumption
<1>8. RowsShown' /\ CursorShown'
  BY <1>1, <1>5, <1>7 DEF RowsShown, CursorShown
<1>9. QED
  BY <1>1, <1>5, <1>8 DEF ScreenInv

\* Every key that goes through Text does what KeyDoes allows.
Keys == \E b, c, flag : Text(b, c, flag) /\ KeyDoes(b, c, flag)

LEMMA MoveKeys ==
  ASSUME \/ Nothing \/ Marked("structure") \/ Marked("line")
         \/ CursorRight \/ CursorLeft \/ Home \/ End
         \/ \E b, c : Text(b, c, "structure")
         \/ \E c : Text(buf, c, "cursor")
         \/ Backspace \/ DeleteUnder \/ KillLine \/ \E ch : Insert(ch, "structure")
  PROVE  Keys
<1>1. CASE Nothing
  BY <1>1 DEF Nothing, Keys, KeyDoes
<1>2. CASE Marked("line")
  BY <1>2 DEF Marked, Keys, KeyDoes
<1>3. CASE \E c : Text(buf, c, "cursor")
  BY <1>3 DEF Keys, KeyDoes
<1>4. CASE CursorRight \/ CursorLeft \/ Home \/ End
  <2>1. \E c : Text(buf, c, "cursor")
    BY <1>4 DEF CursorRight, CursorLeft, Home, End, MoveCursor
  <2>2. QED
    BY <1>3, <2>1
<1>5. CASE \E b, c : Text(b, c, "structure")
  BY <1>5 DEF Keys, KeyDoes
<1>6. CASE Marked("structure") \/ Backspace \/ DeleteUnder \/ KillLine \/ \E ch : Insert(ch, "structure")
  <2>1. \E b, c : Text(b, c, "structure")
    BY <1>6 DEF Marked, Backspace, DeleteUnder, KillLine, Insert
  <2>2. QED
    BY <1>5, <2>1
<1>7. QED
  BY <1>1, <1>2, <1>3, <1>4, <1>5, <1>6

LEMMA InsertKeys ==
  ASSUME EdTypeOK, InsertTab \/ \E ch \in Typed : Insert(ch, "line")
  PROVE  Keys
<1>0. buf \in Seq(Bytes) /\ cur \in 0 .. Len(buf)
  BY DEF EdTypeOK
<1>1. CASE Marked("line")
  BY <1>1, MoveKeys
<1>2. ASSUME NEW s \in Seq(Bytes), \A k \in 1 .. Len(s) : s[k] # NL,
             Text(Put(buf, cur, s), cur + Len(s), "line")
      PROVE  Keys
  <2>1. Widened(buf, Put(buf, cur, s), cur, Len(s))
    BY <1>0, <1>2, PutWidens
  <2>2. KeyDoes(Put(buf, cur, s), cur + Len(s), "line")
    BY <2>1 DEF KeyDoes
  <2>3. QED
    BY <1>2, <2>2 DEF Keys
<1>3. CASE InsertTab /\ ~ Marked("line")
  <2> DEFINE s == [i \in 1 .. TabWidth |-> " "]
  <2>1. Text(Put(buf, cur, s), cur + TabWidth, "line")
    BY <1>3 DEF InsertTab
  <2>2. s \in [1 .. TabWidth -> Bytes] /\ DOMAIN s = 1 .. TabWidth /\ TabWidth \in Nat /\ \A k \in 1 .. TabWidth : s[k] = " "
    <3>1. " " \in Bytes
      BY BytesAssumption
    <3>2. s \in [1 .. TabWidth -> Bytes] /\ DOMAIN s = 1 .. TabWidth
      BY <3>1, Zenon
    <3>3. QED
      BY <3>2, EditorAssumption
  <2> HIDE DEF s
  <2>3. s \in Seq(Bytes)
    BY <2>2, SeqDef
  <2>4. Len(s) = TabWidth
    <3>1. DOMAIN s = 1 .. TabWidth /\ TabWidth \in Nat
      BY <2>2
    <3>2. QED
      BY <2>3, <3>1
  <2>5. " " # NL
    BY DEF NL
  <2>6. QED
    BY <1>2, <2>1, <2>2, <2>3, <2>4, <2>5
<1>4. CASE (\E ch \in Typed : Insert(ch, "line")) /\ ~ Marked("line")
  <2>1. PICK ch \in Typed : Insert(ch, "line")
    BY <1>4
  <2>2. Text(Put(buf, cur, <<ch>>), cur + 1, "line")
    BY <1>4, <2>1 DEF Insert
  <2>3. ch \in Bytes /\ ch # NL
    BY BytesAssumption DEF NL
  <2>4. PICK s : s = <<ch>>
    OBVIOUS
  <2>5. s \in Seq(Bytes) /\ Len(s) = 1 /\ \A k \in 1 .. Len(s) : s[k] # NL
    BY <2>3, <2>4
  <2>6. QED
    BY <1>2, <2>2, <2>4, <2>5
<1>5. QED
  BY <1>1, <1>3, <1>4

LEMMA EdShows ==
  ASSUME EdTypeOK, ScreenInv, mode # "closed", EdNext
  PROVE  ScreenInv'
<1>1. CASE Keys
  BY <1>1, KeyShows DEF Keys
<1>2. CASE Save \/ RunCode \/ \E f : Quit(f)
  BY <1>2, SaveShows, RunShows, QuitShows
<1>3. CASE AnyKey \/ Refresh
  BY <1>3, AnyKeyShows, RefreshShows
<1>4. CASE Control
  <2>1. \/ Nothing \/ (\E f : Quit(f)) \/ Save \/ RunCode \/ Marked("structure") \/ KillLine
        \/ \E b, c : Text(b, c, "structure")
    BY <1>4 DEF Control
  <2>2. QED
    BY <1>1, <1>2, <2>1, MoveKeys
<1>5. CASE Tab \/ Rubout \/ \E ch \in Typed : Printable(ch)
  <2>1. InsertTab \/ Backspace \/ \E ch \in Typed : Insert(ch, "line")
    BY <1>5 DEF Tab, Rubout, Printable
  <2>2. QED
    BY <1>1, <2>1, MoveKeys, InsertKeys
<1>6. CASE CarriageReturn \/ LineFeed \/ Unknown8bit
  <2>1. Insert(NL, "structure") \/ Nothing
    BY <1>6 DEF CarriageReturn, LineFeed, Unknown8bit
  <2>2. QED
    BY <1>1, <2>1, MoveKeys
<1>7. CASE AfterEscape
  <2>1. \/ Nothing \/ Save \/ RunCode \/ (\E f : Quit(f)) \/ (\E b, c : Text(b, c, "structure"))
        \/ \E ch \in Typed : Insert(ch, "line")
    BY <1>7 DEF AfterEscape
  <2>2. QED
    BY <1>1, <1>2, <2>1, MoveKeys, InsertKeys
<1>8. CASE AfterO
  <2>1. \/ Nothing \/ Save \/ Marked("structure") \/ CursorRight \/ CursorLeft \/ Home \/ End
        \/ \E c : Text(buf, c, "cursor")
    BY <1>8 DEF AfterO, MoveCursor
  <2>2. QED
    BY <1>1, <1>2, <2>1, MoveKeys
<1>9. CASE \E p \in Params : AfterBracket(p)
  <2>1. PICK p \in Params : AfterBracket(p)
    BY <1>9
  <2>2. \/ CursorRight \/ CursorLeft \/ Home \/ End \/ Numbered(p[1]) \/ DeleteUnder \/ Nothing
        \/ \E c : Text(buf, c, "cursor")
    BY <2>1 DEF AfterBracket, MoveCursor
  <2>3. CASE Numbered(p[1])
    <3>1. \/ Save \/ RunCode \/ (\E f : Quit(f)) \/ DeleteUnder \/ Home \/ End \/ Marked("structure")
          \/ Nothing \/ \E b, c : Text(b, c, "structure")
      BY <2>3, NumberedKeys
    <3>2. QED
      BY <1>1, <1>2, <3>1, MoveKeys
  <2>4. QED
    BY <1>1, <2>2, <2>3, MoveKeys
<1>10. QED
  BY <1>3, <1>4, <1>5, <1>6, <1>7, <1>8, <1>9 DEF EdNext

\* Whenever the receive buffer has been empty, the terminal shows the text of the
\* screen editor, row by row and with the line of the cursor among them, although
\* editor.rs redraws one line or only moves the cursor for most keys: for every size of
\* the screen and the buffer, every file and every sequence of bytes.
THEOREM EditorScreenIsText == ConsoleSpec => []ScreenShowsBuffer
<1>1. ConsoleInit => ScreenInv
  <2> SUFFICES ASSUME EdInit PROVE ScreenInv
    BY DEF ConsoleInit
  <2>1. << >> \in Seq(Bytes)
    OBVIOUS
  <2>2. rows \in Screens
    BY <2>1, BlankScreen DEF EdInit
  <2>3. QED
    BY <2>2 DEF EdInit, ScreenInv, RowsShown, CursorShown
<1>2. EdTypeOK /\ ScreenInv /\ [ConsoleNext]_consoleVars => ScreenInv'
  <2> SUFFICES ASSUME EdTypeOK, ScreenInv, [ConsoleNext]_consoleVars PROVE ScreenInv'
    OBVIOUS
  <2>1. CASE EditorByte
    BY <2>1, EdShows DEF EditorByte
  <2>2. CASE UNCHANGED edVars
    BY <2>2 DEF edVars, ScreenInv, RowsShown, CursorShown
  <2>3. CASE ShellByte
    <3>1. CASE Start
      BY <3>1, StartShows
    <3>2. QED
      BY <2>2, <2>3, <3>1 DEF ShellByte, Execute
  <2>4. QED
    BY <2>1, <2>2, <2>3 DEF ConsoleNext, consoleVars
<1>3. ConsoleTypeOK => EdTypeOK
  BY DEF ConsoleTypeOK
<1>4. ScreenInv => ScreenShowsBuffer
  <2> SUFFICES ASSUME ScreenInv, mode = "edit", due = "nothing"
               PROVE  /\ \A k \in 1 .. Rows : top + k - 1 \in left \/ Shows(buf, top, rows, k)
                      /\ Row(buf, cur) \in top .. top + Rows - 1
    BY DEF ScreenShowsBuffer, Shows
  <2>1. QED
    BY DEF ScreenInv, RowsShown, CursorShown
<1>5. QED
  BY <1>1, <1>2, <1>3, <1>4, ConsoleTypeCorrect, PTL DEF ConsoleSpec

=============================================================================
