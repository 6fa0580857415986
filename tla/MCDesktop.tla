----------------------------- MODULE MCDesktop -----------------------------
(***************************************************************************)
(* What stands between a user and the disk, side by side: the window       *)
(* server, the drivers of keyboard and mouse, the terminal, the line       *)
(* editor, the shell and the block devices. Which of them runs is chosen   *)
(* at the start, and the others stay as they are. Runs are followed for    *)
(* the first calls.                                                        *)
(***************************************************************************)
EXTENDS Desktop, Input, Console, Readline, Shell, BlockDevices, TLC

CONSTANTS Parts,                                              \* that a run looks at
          GuiCalls, ConsoleCalls, KeysTyped, ShellLines, BlockCalls         \* bounds: calls of a run

VARIABLES part, calls

MCPlaces == {[y |-> 1, h |-> 2], [y |-> 2, h |-> 2]}
MCDeltas == {-40, 1}

Cmd(c, redirs) == [cmd |-> c, redirs |-> redirs]
Line(segs, bg) == [segs |-> segs, bg |-> bg]
Ls == Cmd("ls", <<>>)
MCLines ==
    {Line(<<Cmd("cd", <<"out", "err">>)>>, FALSE), Line(<<Cmd("cd", <<"here">>)>>, FALSE),
     Line(<<Cmd("jobs", <<>>)>>, FALSE), Line(<<Cmd("fg", <<>>)>>, FALSE),
     Line(<<Cmd("exit", <<>>)>>, FALSE),
     Line(<<Ls, Cmd("wc", <<"out">>)>>, FALSE),
     Line(<<Cmd("cat", <<"here">>), Cmd("cd", <<>>), Cmd("wc", <<>>)>>, TRUE),
     Line(<<Ls, Cmd("none", <<>>), Cmd("wc", <<"in">>)>>, TRUE),
     Line(<<Ls, Cmd("ls", <<"bad">>)>>, FALSE)}
MCScripts == {<<Line(<<Ls, Cmd("wc", <<>>)>>, TRUE), Line(<<Cmd("ls", <<"here">>)>>, FALSE)>>}

Entry(type, start, count) == [type |-> type, start |-> start, count |-> count]
\* The second partition of the second table ends behind the disk.
MCTables == {<<>>, <<Entry(0, 0, 0), Entry(1, 1, 1), Entry(1, 2, 2)>>}

\* The server without windows, with one that is shown, with two of which the second
\* covers a row of the first, or with one that got the slot of a window that was closed
\* while the mouse held it, each after the first pass of the compositor; and with two
\* windows before that pass.
Early(g, p) == Flipped(Opened(StartCompositor(g), Min(FreeSlots(g)), "p", p), Min(FreeSlots(g)))
WithWindow(g, p) == CompositorPass(Early(g, p), mouse)
ClosedInDrag(g) == CompositorPass(DestroyWindow(MouseEvent(g, TRUE, mouse.row, mouse.spot), Head(g.list)), mouse)
MCDesktopInit ==
    /\ mouse = [row |-> 1, spot |-> "mid", events |-> <<>>]
    /\ keys = <<>>
    /\ \E one \in {WithWindow(NoGui, [y |-> 1, h |-> 2])} :
       \E two \in {WithWindow(one, [y |-> 2, h |-> 2])}, other \in {WithWindow(ClosedInDrag(one), [y |-> 2, h |-> 2])},
          early \in {Early(Early(NoGui, [y |-> 1, h |-> 2]), [y |-> 2, h |-> 2])} :
          /\ gui \in IF part = "desktop" THEN {NoGui, one, two, other, early} ELSE {NoGui}
          /\ first = IF gui = early THEN UpTo(NoPass, "mouse") ELSE NoPass

MCTexts ==
    {<<"a">>, <<"nl">>, <<"a", "a", "a">>, <<"cr", "bell">>, <<"bs">>, <<"tab">>, <<"esc">>, <<"[", "1", "D">>,
     <<"esc", "[", "K">>, <<"esc", "[", "1", "K">>, <<"esc", "[", "2", "K">>, <<"esc", "[", "C">>,
     <<"esc", "[", "2", "G">>, <<"esc", "[", "P">>, <<"esc", "[", "A">>, <<"esc", "[", "B">>}
\* The terminal at its start, or later with all its lines in use.
Later == [Feed(TermemuInit, <<"a", "nl", "nl", "a", "nl">>) EXCEPT !.dirty = {}]
LaterRows == [r \in TermRow |-> OnScreen(VisibleRow(Later, r), IF r = Later.cur_row THEN CursorMarks(Later) ELSE {})]
MCConsoleInit ==
    \/ ConsoleInit /\ (part # "console" => con.program = "term")
    \/ /\ part = "console"
       /\ con = Program("fbcon", "poll") /\ temu = Later /\ shown = [screen |-> LaterRows, shadow |-> LaterRows]
\* What is printed before it is read might as well be printed just before.
PrintedLate ==
    /\ con'.shell # con.shell => con.pc \in {"shell", "yield"}
    /\ con'.console # con.console => con.pc \in {"start", "console"}

MCInit ==
    /\ part \in Parts
    /\ calls = 0
    /\ MCDesktopInit /\ InputInit /\ MCConsoleInit /\ ReadlineInit
    /\ IF part = "shell" THEN ShellInit
       ELSE ShellInit /\ ~sh.script
    /\ IF part = "disk" THEN BlockInit
       ELSE BlockInit /\ stuck = {} /\ devices = <<>> /\ \A d \in Drive : drives[d] = "none"

Others(p) ==
    /\ part = p /\ UNCHANGED part
    /\ p # "desktop" => UNCHANGED desktopVars
    /\ p \notin {"keyboard", "mouse"} => UNCHANGED inputVars
    /\ p # "console" => UNCHANGED consoleVars
    /\ p # "editor" => UNCHANGED readlineVars
    /\ p # "shell" => UNCHANGED shellVars
    /\ p # "disk" => UNCHANGED blockVars
CallsOf ==
    CASE part = "desktop" -> GuiCalls
      [] part = "console" -> ConsoleCalls
      [] part = "editor" -> KeysTyped
      [] part = "shell" -> ShellLines
      [] OTHER -> BlockCalls
Call == calls < CallsOf /\ calls' = calls + 1
NoCall == calls' = calls

MCNext ==
    \/ Others("desktop") /\ Call /\ (ClientCall \/ Interrupt)
    \/ Others("desktop") /\ NoCall /\ (StdinRead \/ CompositorTask \/ FinishScaling \/ FirstPass)
    \/ Others("keyboard") /\ NoCall /\ KeyboardNext
    \/ Others("mouse") /\ NoCall /\ MouseNext
    \/ Others("console") /\ Call /\ ConsoleEvent /\ PrintedLate
    \/ Others("console") /\ NoCall /\ ConsoleStep
    \/ Others("editor") /\ Call /\ ReadlineNext
    \/ Others("shell") /\ Call /\ Command
    \/ Others("shell") /\ NoCall /\ ShellStep
    \/ Others("disk") /\ Call /\ BlockNext

mcVars == <<part, calls, desktopVars, inputVars, consoleVars, readlineVars, shellVars, blockVars>>
MCSpec == MCInit /\ [][MCNext]_mcVars

\* Of the mouse all that its property does not tell apart is left out.
MCView ==
    CASE part = "desktop" -> <<calls, desktopVars>>
      [] part = "keyboard" -> kbVars
      [] part = "mouse" -> <<part, packet, mouseLine, sent, lost + noisy - wrong>>
      [] part = "console" -> consoleVars
      [] part = "editor" -> readlineVars
      [] part = "shell" -> shellVars
      [] part = "disk" -> blockVars
============================================================================
