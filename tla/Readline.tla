------------------------------ MODULE Readline ------------------------------
(***************************************************************************)
(* The line editor of userland/libc/readline.c, with the shell's loop      *)
(* around it. The screen's copy of the line, which is printed anew after   *)
(* every change, is left out. A line is edited in an array of BufSize      *)
(* cells; the history is a ring of HistMax lines.                          *)
(***************************************************************************)
EXTENDS Integers, Sequences, FiniteSets, SequencesExt, FiniteSetsExt

CONSTANTS BufSize,       \* size of the buffer, one cell of which ends the line
          HistMax,       \* HIST_MAX
          ParamMax,      \* bound: parameter of an escape sequence
          Typing         \* what is typed: control characters, keys and letters

ASSUME ReadlineAssumption == BufSize \in Nat \ {0, 1} /\ HistMax \in Nat \ {0} /\ ParamMax \in Nat

VARIABLES rl,
          pushed     \* the lines entered, the latest first, as far as they are kept

readlineVars == <<rl, pushed>>

Nul == "nul"
Cells == 0..(BufSize - 1)
TextOf(r) == [i \in 1..r.len |-> r.buf[i - 1]]

---------------------------------------------------------------------------
(* Changes of the line *)

\* The characters after the cursor move up by one.
InsertChar(r, c) ==
    IF r.len >= BufSize - 1 THEN r
    ELSE [r EXCEPT !.buf = [i \in Cells |-> CASE i = r.cursor -> c
                                               [] i > r.cursor /\ i <= r.len -> @[i - 1]
                                               [] OTHER -> @[i]],
                   !.len = @ + 1, !.cursor = @ + 1]

\* As if the characters were moved only from behind the one deleted.
CloseLate(r) ==
    [r EXCEPT !.buf = [i \in Cells |-> IF i > r.cursor /\ i < r.len - 1 THEN @[i + 1] ELSE @[i]],
              !.len = @ - 1]
\* The characters after the one at the cursor move down by one.
CloseGap(r) ==
    [r EXCEPT !.buf = [i \in Cells |-> IF i >= r.cursor /\ i < r.len - 1 THEN @[i + 1] ELSE @[i]],
              !.len = @ - 1]
DeleteChar(r) == IF r.cursor < r.len THEN CloseGap(r) ELSE r
Backspace(r) == IF r.cursor > 0 THEN CloseGap([r EXCEPT !.cursor = @ - 1]) ELSE r
MoveTo(r, n) == [r EXCEPT !.cursor = Min({Max({n, 0}), r.len})]
Blanked(r) == [r EXCEPT !.len = 0, !.cursor = 0]

---------------------------------------------------------------------------
(* The history *)

HistLast(r) == (r.head + r.count - 1) % HistMax
\* A line is not entered twice in a row; the oldest makes room.
HistoryPush(r, s) ==
    IF s = <<>> \/ (r.count > 0 /\ r.hist[HistLast(r)] = s) THEN r
    ELSE IF r.count < HistMax
         THEN [r EXCEPT !.hist[(r.head + r.count) % HistMax] = s, !.count = @ + 1]
         ELSE [r EXCEPT !.hist[r.head] = s, !.head = (@ + 1) % HistMax]

\* The line is taken from cell idx of the ring, wherever the ring begins.
HistLoad(r) ==
    [r EXCEPT !.buf = [i \in Cells |-> IF i < Len(r.hist[r.idx]) THEN r.hist[r.idx][i + 1] ELSE @[i]],
              !.len = Len(r.hist[r.idx]), !.cursor = Len(r.hist[r.idx])]
HistUp(r) ==
    LET i == IF r.idx < 0 THEN r.count ELSE r.idx IN
    IF r.count = 0 \/ i = 0 THEN r ELSE HistLoad([r EXCEPT !.idx = i - 1])
HistDown(r) ==
    CASE r.idx < 0 -> r
      [] r.idx >= 0 /\ r.idx + 1 >= r.count -> Blanked([r EXCEPT !.idx = -1])
      [] r.idx >= 0 /\ r.idx + 1 < r.count -> HistLoad([r EXCEPT !.idx = @ + 1])

---------------------------------------------------------------------------
(* Keys and escape sequences *)

Steps(r) == IF r.param > 0 THEN r.param ELSE 1
HandleCsi(r, c) ==
    CASE c = "~" -> IF r.last = "3" THEN DeleteChar(r) ELSE r
      [] c = "A" -> HistUp(r)
      [] c = "B" -> HistDown(r)
      [] c = "C" -> MoveTo(r, r.cursor + Steps(r))
      [] c = "D" -> MoveTo(r, r.cursor - Steps(r))
      [] c = "H" -> MoveTo(r, 0)
      [] c = "F" -> MoveTo(r, r.len)
      [] OTHER -> r

HandleSentinel(r, key) ==
    CASE key = "up" -> HandleCsi(r, "A")
      [] key = "down" -> HandleCsi(r, "B")
      [] key = "left" -> HandleCsi([r EXCEPT !.param = 0], "D")
      [] key = "right" -> HandleCsi([r EXCEPT !.param = 0], "C")
      [] key = "home" -> HandleCsi(r, "H")
      [] key = "end" -> HandleCsi(r, "F")
      [] key = "del" -> DeleteChar(r)

Sentinels == {"up", "down", "left", "right", "home", "end", "del"}
Digits == [d \in {"1", "3"} |-> IF d = "1" THEN 1 ELSE 3]
Letters == Typing \ ({"esc", "^C", "enter", "backspace"} \cup Sentinels)

AfterEsc(r, c) == IF c = "[" THEN [r EXCEPT !.esc = 2, !.param = 0, !.last = Nul] ELSE [r EXCEPT !.esc = 0]
InSequence(r, c) ==
    IF c \in DOMAIN Digits
    THEN [r EXCEPT !.param = Min({10 * @ + Digits[c], ParamMax}), !.last = c]
    ELSE HandleCsi([r EXCEPT !.esc = 0], c)

\* readline_readline starts with an empty line; the array and the history stay.
StartLine(r) == [Blanked(r) EXCEPT !.esc = 0, !.idx = -1]

Typed(r, c) ==
    CASE r.esc = 1 -> AfterEsc(r, c)
      [] r.esc = 2 -> InSequence(r, c)
      [] r.esc = 0 /\ c = "esc" -> [r EXCEPT !.esc = 1]
      [] r.esc = 0 /\ c = "^C" -> StartLine(r)
      [] r.esc = 0 /\ c = "enter" -> StartLine(HistoryPush(r, TextOf(r)))
      [] r.esc = 0 /\ c = "backspace" -> Backspace(r)
      [] r.esc = 0 /\ c \in Sentinels -> HandleSentinel(r, c)
      [] OTHER -> InsertChar(r, c)

Enters(r, c) == r.esc = 0 /\ c = "enter" /\ r.len > 0
Kept(lines, s) == IF lines # <<>> /\ Head(lines) = s THEN lines ELSE SubSeq(<<s>> \o lines, 1, Min({HistMax, Len(lines) + 1}))

ReadChar(c) ==
    /\ rl' = Typed(rl, c)
    /\ pushed' = IF Enters(rl, c) THEN Kept(pushed, TextOf(rl)) ELSE pushed

ReadlineInit ==
    /\ rl = [buf |-> [i \in Cells |-> Nul], len |-> 0, cursor |-> 0, esc |-> 0, param |-> 0, last |-> Nul,
             hist |-> [i \in 0..(HistMax - 1) |-> <<>>], head |-> 0, count |-> 0, idx |-> -1]
    /\ pushed = <<>>

ReadlineNext == \E c \in Typing : ReadChar(c)

ReadlineSpec == ReadlineInit /\ [][ReadlineNext]_readlineVars

---------------------------------------------------------------------------
(* Properties *)

\* What is left and right of the cursor.
Before == SubSeq(TextOf(rl), 1, rl.cursor)
After == SubSeq(TextOf(rl), rl.cursor + 1, rl.len)
Editor == INSTANCE LineEditor WITH before <- Before, after <- After, kept <- pushed, Room <- BufSize - 1
\* Through the array, the cursor and the history the user sees a plain editor: a
\* key changes the line at the cursor only, and a recalled line is one of those
\* that were entered last.
ImplementsEditor == Editor!EditorSpec

\* Going up and down shows the lines in the order in which they were entered:
\* "Up - prev history" (readline.c:133).
HistoryInOrder == [][rl'.idx >= 0 /\ rl'.idx # rl.idx => TextOf(rl)' = pushed[rl.count - rl'.idx]]_readlineVars
=============================================================================
