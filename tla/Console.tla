------------------------------ MODULE Console ------------------------------
(***************************************************************************)
(* The terminal emulator of userland/libc/termemu.c and the two programs   *)
(* that show it: userland/fbcon.c on the bare screen, which the window     *)
(* server may take away at any time, and userland/term.c in a window.      *)
(* What is printed matters as far as it moves the cursor or the lines. The *)
(* pipe to the shell is left out, and so are pixels.                       *)
(***************************************************************************)
EXTENDS Integers, Sequences, FiniteSets, SequencesExt, FiniteSetsExt

CONSTANTS Cols, TermRows,   \* size of the terminal
          SbLines,          \* sb_lines: lines kept
          TabStop,          \* 8
          Texts,            \* what programs print at once
          PressMax          \* bound: keys in one pass

ASSUME ConsoleAssumption ==
    /\ {Cols, TermRows, SbLines, TabStop} \subseteq Nat \ {0} /\ TermRows <= SbLines
    /\ Texts \subseteq Seq(STRING)

VARIABLES temu,      \* struct termemu, and what was printed, line by line
          con,       \* the program
          shown      \* rows on the screen, and in the shadow of it

consoleVars == <<temu, con, shown>>

TermRow == 0 .. TermRows - 1
Col == 0 .. Cols - 1
Filled(c) == [i \in Col |-> c]
EmptyLine == Filled(" ")

---------------------------------------------------------------------------
(* The emulator *)

RingIndex(t, i) == (t.sb_head + i) % SbLines
LiveLine(t, r) == RingIndex(t, t.sb_count - Min({t.sb_count, TermRows}) + r)
VisibleTop(t) == Max({0, t.sb_count - TermRows - t.scroll_offset})
VisibleRow(t, r) == IF r >= t.sb_count THEN EmptyLine ELSE t.sb[RingIndex(t, VisibleTop(t) + r)]

MarkAllDirty(t) == [t EXCEPT !.dirty = TermRow]
MarkDirty(t) == [t EXCEPT !.dirty = @ \cup {t.cur_row}]

\* paper remembers the lines in the order printed, as many as the ring has room for.
LastLines(lines) == IF Len(lines) > SbLines THEN Tail(lines) ELSE lines
NewLine(t) ==
    LET full == t.sb_count = SbLines IN
    [t EXCEPT !.sb[IF full THEN t.sb_head ELSE RingIndex(t, t.sb_count)] = EmptyLine,
              !.sb_head = IF full THEN (@ + 1) % SbLines ELSE @,
              !.sb_count = IF full THEN @ ELSE @ + 1,
              !.paper = LastLines(Append(@, EmptyLine))]

\* As if only the row of the cursor changed when the lines move up.
AdvanceOneRow(t) == MarkDirty([NewLine(t) EXCEPT !.cur_row = Min({@ + 1, TermRows - 1})])
AdvanceRow(t) ==
    IF t.cur_row < TermRows - 1 THEN MarkDirty([NewLine(t) EXCEPT !.cur_row = @ + 1])
    ELSE MarkAllDirty(NewLine(t))

WrapLine(t) == AdvanceRow([t EXCEPT !.cur_col = 0])
SetLine(t, line) ==
    MarkDirty([t EXCEPT !.sb[LiveLine(t, t.cur_row)] = line, !.paper[Len(t.paper)] = line])

Within(n, last) == Max({0, Min({n, last})})
ToCol(t, n) == MarkDirty([t EXCEPT !.cur_col = Within(n, Cols - 1)])
\* moved remembers that a program has moved the cursor to another row.
ToRow(t, n) == MarkDirty([t EXCEPT !.cur_row = Within(n, TermRows - 1), !.moved = TRUE])

\* P with a count larger than the row blanks it; that the code also writes before the
\* row then is left out.
CsiDispatch(t, final) ==
    LET n == Max({1, t.csi_param})
        line == t.sb[LiveLine(t, t.cur_row)] IN
    CASE final = "D" -> ToCol(t, t.cur_col - n)
      [] final = "C" -> ToCol(t, t.cur_col + n)
      [] final = "G" -> ToCol(t, n - 1)
      [] final = "A" -> ToRow(t, t.cur_row - n)
      [] final = "B" -> ToRow(t, t.cur_row + n)
      [] final = "K" /\ t.csi_param = 1 -> SetLine(t, [i \in Col |-> IF i <= t.cur_col THEN " " ELSE line[i]])
      [] final = "K" /\ t.csi_param = 2 -> SetLine(t, EmptyLine)
      [] final = "K" /\ t.csi_param \notin {1, 2} -> SetLine(t, [i \in Col |-> IF i >= t.cur_col THEN " " ELSE line[i]])
      [] final = "P" -> SetLine(t, [i \in Col |-> CASE i >= Cols - n -> " "
                                                   [] i < Cols - n /\ i >= t.cur_col -> line[i + n]
                                                   [] OTHER -> line[i]])
      [] OTHER -> t

\* New output brings the last lines back into view.
Snapped(t) == IF t.scroll_offset # 0 THEN MarkAllDirty([t EXCEPT !.scroll_offset = 0]) ELSE t

Tabbed(t) ==
    LET stop == Min({(t.cur_col \div TabStop + 1) * TabStop, Cols})
        line == t.sb[LiveLine(t, t.cur_row)] IN
    CASE t.cur_col >= Cols -> WrapLine(t)
      [] t.cur_col < Cols ->
            LET u == SetLine(t, [i \in Col |-> IF i \in t.cur_col .. stop - 1 THEN " " ELSE line[i]])
            IN  IF stop = Cols THEN WrapLine(u) ELSE [u EXCEPT !.cur_col = stop]

\* The last column is filled before the line is wrapped.
Printed(t, ch) ==
    LET u == IF t.cur_col >= Cols THEN WrapLine(t) ELSE t IN
    [SetLine(u, [u.sb[LiveLine(u, u.cur_row)] EXCEPT ![u.cur_col] = ch]) EXCEPT !.cur_col = @ + 1]

PlainChar(t, ch) ==
    CASE ch = "nl" -> WrapLine(MarkDirty(t))
      [] ch = "cr" -> MarkDirty([t EXCEPT !.cur_col = 0])
      [] ch = "bs" -> IF t.cur_col > 0 THEN MarkDirty([t EXCEPT !.cur_col = @ - 1]) ELSE t
      [] ch = "tab" -> Tabbed(t)
      [] ch = "bell" -> t
      [] OTHER -> Printed(t, ch)

CountDigits == {"1", "2"}
Controls == {"nl", "cr", "bs", "tab", "bell", "esc"}
PutChar(t, ch) ==
    CASE t.esc = 1 -> [t EXCEPT !.esc = IF ch = "[" THEN 2 ELSE 0, !.csi_param = IF ch = "[" THEN 0 ELSE @]
      [] t.esc = 2 /\ ch \in CountDigits -> [t EXCEPT !.csi_param = 10 * @ + (IF ch = "1" THEN 1 ELSE 2)]
      [] t.esc = 2 /\ ch \in Controls -> [t EXCEPT !.esc = 0]
      [] t.esc = 2 /\ ch \notin CountDigits \cup Controls -> CsiDispatch([t EXCEPT !.esc = 0], ch)
      [] t.esc = 0 /\ ch = "esc" -> [Snapped(t) EXCEPT !.esc = 1]
      [] t.esc = 0 /\ ch # "esc" -> PlainChar(Snapped(t), ch)
Feed(t, text) ==
    LET fed[n \in 0 .. Len(text)] == IF n = 0 THEN t ELSE PutChar(fed[n - 1], text[n])
    IN  fed[Len(text)]

ScrollUp(t) ==
    MarkAllDirty([t EXCEPT !.scroll_offset = Min({@ + TermRows, Max({0, t.sb_count - TermRows})})])
ScrollDown(t) == MarkAllDirty([t EXCEPT !.scroll_offset = Max({0, @ - TermRows})])

TermemuInit ==
    [sb |-> [i \in 0 .. SbLines - 1 |-> EmptyLine], sb_head |-> 0, sb_count |-> 1, cur_col |-> 0, cur_row |-> 0,
     scroll_offset |-> 0, dirty |-> {}, esc |-> 0, csi_param |-> 0, paper |-> <<EmptyLine>>, moved |-> FALSE]

---------------------------------------------------------------------------
(* Drawing *)

OnScreen(line, marks) == [text |-> line, marks |-> marks]
CursorMarks(t) == IF t.scroll_offset = 0 /\ t.cur_col < Cols THEN {t.cur_col} ELSE {}

\* fbcon draws the dirty rows and then the cursor, and shows all rows between those. (It
\* draws on the screen itself if there is no memory for the shadow.)
FbconDrawn ==
    LET rows == [r \in TermRow |-> IF r \in temu.dirty THEN OnScreen(VisibleRow(temu, r), {})
                                   ELSE shown.shadow[r]]
        shadow == [rows EXCEPT ![temu.cur_row].marks = @ \cup CursorMarks(temu)]
        span == temu.dirty \cup (IF temu.scroll_offset = 0 THEN {temu.cur_row} ELSE {}) IN
    [shadow |-> shadow,
     screen |-> [r \in TermRow |-> IF r \in Min(span) .. Max(span) THEN shadow[r] ELSE shown.screen[r]]]

\* term draws the cursor with the row it is in.
TermDrawn ==
    [shown EXCEPT !.screen = [r \in TermRow |->
        IF r \notin temu.dirty THEN @[r]
        ELSE OnScreen(VisibleRow(temu, r), IF r = temu.cur_row THEN CursorMarks(temu) ELSE {})]]

Goto(pc) == [con EXCEPT !.pc = pc, !.next = pc]
\* Drawing, and then going on at next.
Drawing(next) == [con EXCEPT !.pc = IF con.program = "fbcon" THEN "check" ELSE "draw", !.next = next]

\* While the window server has the keyboard rows stay dirty.
RenderCheck ==
    /\ con.pc = "check"
    /\ con' = IF con.owned THEN Goto(con.next) ELSE [con EXCEPT !.pc = "draw"]
    /\ UNCHANGED <<temu, shown>>

Render ==
    /\ con.pc = "draw"
    /\ shown' = IF temu.dirty = {} THEN shown ELSE IF con.program = "fbcon" THEN FbconDrawn ELSE TermDrawn
    /\ temu' = [temu EXCEPT !.dirty = {}]
    /\ con' = [Goto(con.next) EXCEPT !.missed = @ /\ temu.dirty # TermRow]

---------------------------------------------------------------------------
(* The loop of both programs; start, poll and console are of fbcon only *)

SessionEnds == con' = [Drawing("start") EXCEPT !.shell = <<>>] /\ temu' = Feed(temu, <<"nl", "m", "nl">>)

\* There may be no pipe or no task for a shell.
SessionFails ==
    /\ con.pc = "start"
    /\ SessionEnds
    /\ UNCHANGED shown
\* A session starts with what the kernel has printed.
SessionStart ==
    /\ con.pc = "start"
    /\ temu' = MarkAllDirty(Feed(temu, con.console))
    /\ con' = [Drawing("poll") EXCEPT !.console = <<>>, !.prev_gui = FALSE, !.child = "running"]
    /\ UNCHANGED shown

Repaints == con.prev_gui /\ ~con.owned
\* missed remembers a server that came and went since fbcon last asked.
Poll ==
    /\ con.pc = "poll"
    /\ temu' = IF Repaints THEN MarkAllDirty(temu) ELSE temu
    /\ con' = [IF Repaints THEN Drawing("console") ELSE Goto("console") EXCEPT
                  !.prev_gui = con.owned, !.came = con.owned,
                  !.missed = @ \/ (con.came /\ ~con.owned /\ ~con.prev_gui)]
    /\ UNCHANGED shown

ReadConsole ==
    /\ con.pc = "console"
    /\ temu' = Feed(temu, con.console)
    /\ con' = IF con.console = <<>> THEN Goto("shell") ELSE [con EXCEPT !.console = <<>>, !.got = TRUE]
    /\ UNCHANGED shown

ReadShell ==
    /\ con.pc = "shell"
    /\ temu' = Feed(temu, con.shell)
    /\ con' = IF con.shell # <<>> THEN [con EXCEPT !.shell = <<>>, !.got = TRUE]
              ELSE [IF con.got THEN Drawing("keys") ELSE Goto("keys") EXCEPT !.got = FALSE]
    /\ UNCHANGED shown

\* Scrolling is drawn when all keys have been read. The server keeps keys from fbcon.
Press(up) ==
    /\ con.pc = "keys" /\ con.pressed < PressMax /\ ~con.owned
    /\ temu' = IF up THEN ScrollUp(temu) ELSE ScrollDown(temu)
    /\ con' = [con EXCEPT !.pressed = @ + 1]
    /\ UNCHANGED shown
KeysRead ==
    /\ con.pc = "keys"
    /\ temu' = IF con.pressed > 0 THEN MarkAllDirty(temu) ELSE temu
    /\ con' = [IF con.pressed > 0 THEN Drawing("yield") ELSE Goto("yield") EXCEPT !.pressed = 0]
    /\ UNCHANGED shown

CloseEvent ==
    /\ con.pc = "keys" /\ con.program = "term"
    /\ con' = Goto("closed")
    /\ UNCHANGED <<temu, shown>>

\* What the shell printed since it was last read goes with it.
Yield ==
    /\ con.pc = "yield"
    /\ CASE con.child = "running" -> con' = Goto(IF con.program = "fbcon" THEN "poll" ELSE "shell") /\ UNCHANGED temu
         [] con.child = "exited" /\ con.program = "fbcon" -> SessionEnds
         [] con.child = "exited" /\ con.program = "term" -> con' = Goto("closed") /\ UNCHANGED temu
    /\ UNCHANGED shown

---------------------------------------------------------------------------
(* The others *)

ShellPrints(text) ==
    /\ con.child = "running" /\ con.shell = <<>>
    /\ con' = [con EXCEPT !.shell = text]
    /\ UNCHANGED <<temu, shown>>
KernelPrints(text) ==
    /\ con.program = "fbcon" /\ con.console = <<>>
    /\ con' = [con EXCEPT !.console = text]
    /\ UNCHANGED <<temu, shown>>
ShellExits ==
    /\ con.child = "running"
    /\ con' = [con EXCEPT !.child = "exited"]
    /\ UNCHANGED <<temu, shown>>

\* The server draws on the screen and leaves it as it is when it ends. (One that loses its
\* last window while it scales a background draws once more; that is left out.)
ServerStarts ==
    /\ con.program = "fbcon" /\ ~con.owned
    /\ con' = [con EXCEPT !.owned = TRUE, !.came = TRUE]
    /\ shown' = [shown EXCEPT !.screen = [r \in TermRow |-> OnScreen(Filled("gui"), {})]]
    /\ UNCHANGED temu
ServerEnds ==
    /\ con.owned
    /\ con' = [con EXCEPT !.owned = FALSE]
    /\ UNCHANGED <<temu, shown>>

Program(name, pc) ==
    [program |-> name, pc |-> pc, next |-> pc, child |-> "running", console |-> <<>>, shell |-> <<>>,
     got |-> FALSE, pressed |-> 0, owned |-> FALSE, prev_gui |-> FALSE, came |-> FALSE, missed |-> FALSE]
ConsoleInit ==
    /\ temu = TermemuInit
    /\ con \in {Program("fbcon", "start"), Program("term", "shell")}
    /\ shown = [screen |-> [r \in TermRow |-> OnScreen(EmptyLine, {})], shadow |-> [r \in TermRow |-> OnScreen(EmptyLine, {})]]

ConsoleStep ==
    SessionFails \/ SessionStart \/ Poll \/ ReadConsole \/ ReadShell \/ (\E up \in BOOLEAN : Press(up))
    \/ KeysRead \/ CloseEvent \/ Yield \/ RenderCheck \/ Render
ConsoleEvent ==
    (\E text \in Texts : ShellPrints(text) \/ KernelPrints(text)) \/ ShellExits \/ ServerStarts \/ ServerEnds

ConsoleSpec == ConsoleInit /\ [][ConsoleStep \/ ConsoleEvent]_consoleVars

---------------------------------------------------------------------------
(* Properties *)

\* The rows in view, read off what was printed.
PaperRow(r) ==
    IF r >= Len(temu.paper) THEN EmptyLine
    ELSE temu.paper[Max({0, Len(temu.paper) - TermRows - temu.scroll_offset}) + r + 1]
CursorRow == Min({Len(temu.paper), TermRows}) - 1

\* When a pass of the loop is over the screen shows the lines that were printed last, or
\* those that the user has scrolled to, and a cursor nowhere but where the next character
\* goes, also after the window server has had the screen. (Not when that came and went
\* between two passes, nor after a program has moved the cursor up or down.)
ConsoleCurrent ==
    con.pc \in {"poll", "yield"} /\ ~con.owned /\ ~con.came /\ ~con.missed /\ ~temu.moved =>
        \A r \in TermRow :
            /\ shown.screen[r].text = PaperRow(r)
            /\ shown.screen[r].marks \subseteq IF r = CursorRow THEN CursorMarks(temu) ELSE {}
=============================================================================
