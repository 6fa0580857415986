------------------------------ MODULE Desktop ------------------------------
(***************************************************************************)
(* The window server of src/src/kernel/gui.c: the calls of clients on      *)
(* /dev/x, the events of mouse and keyboard, and the compositor task.      *)
(* The screen is a column of rows: row BarRow is the status bar, the first *)
(* row of a window is its title and the others are its client area. Left   *)
(* and right edges and moves to the side are left out, and so are the      *)
(* sprite of the cursor, titles and colours. Kernel memory does not run    *)
(* out. Calls and passes of the compositor run with interrupts disabled,   *)
(* except while it scales a background, and except its first pass: a new   *)
(* task has them enabled, and compositor_task disables them only at the    *)
(* end of its loop. Calls and interrupts come between the steps of the     *)
(* first pass.                                                             *)
(***************************************************************************)
EXTENDS Integers, Sequences, FiniteSets, SequencesExt, FiniteSetsExt

CONSTANTS WindowMax,     \* GUI_MAX_WINDOWS
          RowMax,        \* last row of the screen
          MinHeight,     \* WIN_MIN_H
          QueueSize,     \* GUI_EVENT_QUEUE_SIZE
          RingSize,      \* MOUSE_BUF_SIZE and KB_BUFFER_SIZE
          Clients,       \* programs that open windows
          Places,        \* where they open them: [y, h]
          Pictures       \* backgrounds they set

ASSUME DesktopAssumption ==
    /\ WindowMax \in Nat \ {0} /\ RowMax \in Nat \ {0} /\ MinHeight \in Nat /\ MinHeight >= 2
    /\ QueueSize > 1 /\ RingSize > 1
    /\ \A p \in Places : p.y \in Int /\ p.h \in Nat

VARIABLES gui, mouse, keys,
          first          \* how far the first pass of the compositor is

desktopVars == <<gui, mouse, keys, first>>

Slot == 1..WindowMax
Row == 0..RowMax
BarRow == 0
NoWin == 0
Nowhere == [row |-> RowMax + 1, spot |-> "none"]
\* Pointers at a window: on the close buttons, elsewhere, and on the upper
\* border of a title (in the status bar: on the second button).
Spot == {"close", "mid", "top"}

---------------------------------------------------------------------------
(* The list of windows: the first one is on top *)

Above(g, s) == {g.list[i] : i \in {j \in DOMAIN g.list : \A k \in 1..j : g.list[k] # s}}
RowsOf(w) == w.y..(w.y + w.h - 1)
OnShow(g) == {s \in ToSet(g.list) : g.win[s].visible}
\* The buttons of the status bar are numbered from the lowest window on.
ButtonOf(g, s) == Cardinality(OnShow(g) \ Above(g, s))
HitTest(g, row) ==
    LET under == {i \in DOMAIN g.list : g.win[g.list[i]].visible /\ row \in RowsOf(g.win[g.list[i]])} IN
    IF under = {} THEN NoWin ELSE g.list[Min(under)]

\* whole remembers that a redraw was asked for by something other than a drag.
SceneDirty(g) == [g EXCEPT !.scene = TRUE, !.whole = TRUE]
Wake(g) == IF g.running THEN [g EXCEPT !.dirty = TRUE] ELSE g
WakeScene(g) == Wake(SceneDirty(g))

\* Window s comes to the front and takes the focus from the first one.
PushFront(g, s) ==
    [g EXCEPT !.list = <<s>> \o @,
              !.win = [t \in Slot |-> [g.win[t] EXCEPT !.focused =
                          IF t = s THEN TRUE ELSE @ /\ (g.list = <<>> \/ t # Head(g.list))]]]

WithoutWindow(list, s) ==
    LET at == {i \in DOMAIN list : list[i] = s} IN IF at = {} THEN list ELSE RemoveAt(list, Min(at))

FocusWindow(g, s) ==
    IF Head(g.list) = s THEN [g EXCEPT !.win[s].focused = TRUE]
    ELSE [PushFront(g, s) EXCEPT !.list = <<s>> \o WithoutWindow(g.list, s)]

PushEvent(g, s, ev) ==
    IF Len(g.win[s].queue) < QueueSize - 1 THEN [g EXCEPT !.win[s].queue = Append(@, ev)] ELSE g

\* A backbuffer as high as the client area, filled with the default colour.
Backbuffer(w) == [w EXCEPT !.bb = w.h - 1, !.content = "blank", !.fresh = {"blank"}]

NoWindow == [id |-> 0, owner |-> "none", y |-> 0, h |-> 0, bb |-> 0, content |-> "blank", fresh |-> {},
             visible |-> FALSE, focused |-> FALSE, dirty |-> FALSE, queue |-> <<>>]

\* As if the next window was redrawn without the focus.
NoFocusNext(g) == WakeScene(g)
FocusNext(g) == WakeScene([g EXCEPT !.win[Head(g.list)].focused = TRUE])
LastClosed(g) == [g EXCEPT !.owned = FALSE, !.quit = TRUE, !.dirty = TRUE]

Unlisted(g, s) == [g EXCEPT !.list = WithoutWindow(@, s), !.win[s].bb = 0, !.win[s].id = 0]
AfterDestroy(g) == IF g.list = <<>> THEN LastClosed(g) ELSE FocusNext(g)
DestroyWindow(g, s) == AfterDestroy(Unlisted(g, s))

---------------------------------------------------------------------------
(* Drawing *)

Cell(kind, id, mark) == [kind |-> kind, id |-> id, mark |-> mark]
Focus(w) == IF w.focused THEN "focused" ELSE "plain"
DesktopCell(g) == Cell("desk", 0, g.scaled)
BarCell(g) == Cell("bar", 0, {<<ButtonOf(g, s), g.win[s].id, Focus(g.win[s])>> : s \in OnShow(g)})
\* While its size differs from that of its backbuffer the client area is bare.
WindowCell(w, r) ==
    IF r = w.y THEN Cell("title", w.id, Focus(w))
    ELSE Cell("client", w.id, IF w.bb = w.h - 1 THEN w.content ELSE "bare")

DrawWindow(rows, w) == [r \in Row |-> IF r \in RowsOf(w) THEN WindowCell(w, r) ELSE rows[r]]
DrawDesktop(g) == [r \in Row |-> DesktopCell(g)]
DrawStatusbar(rows, g) == [rows EXCEPT ![BarRow] = BarCell(g)]
\* Some windows, from the lowest to the one on top.
DrawWindows(rows, g, slots) ==
    LET last == Len(g.list)
        drawn[i \in 0..last] ==
            IF i = 0 THEN rows
            ELSE IF g.list[last + 1 - i] \in slots THEN DrawWindow(drawn[i - 1], g.win[g.list[last + 1 - i]])
            ELSE drawn[i - 1]
    IN  drawn[last]

Clean(g, slots) == [g EXCEPT !.win = [s \in Slot |-> [g.win[s] EXCEPT !.dirty = @ /\ s \notin slots]]]
BlitRows(g, rows) == [g EXCEPT !.hw = [r \in Row |-> IF r \in rows THEN g.back[r] ELSE @[r]]]

Banded(g) == g.band.bottom > g.band.top
BandRows(g) == g.band.top..(g.band.bottom - 1)
NoBand == [top |-> 0, bottom |-> 0]

\* Only the band of a drag reaches the screen. What else asked for the redraw is
\* then missing on it, and so are flips of windows outside of the band.
BandMisses(g) ==
    \/ g.whole
    \/ \E s \in OnShow(g) : g.win[s].dirty /\ ~(RowsOf(g.win[s]) \cap Row \subseteq BandRows(g))

Redrawn(g) == [g EXCEPT !.back = DrawStatusbar(DrawWindows(DrawDesktop(g), g, OnShow(g)), g)]
Presented(g) ==
    [BlitRows(g, IF Banded(g) THEN BandRows(g) ELSE Row)
        EXCEPT !.excused = Banded(g) /\ (@ \/ BandMisses(g))]
FullComposite(g) ==
    [Clean(Presented(Redrawn(g)), OnShow(g)) EXCEPT !.scene = FALSE, !.whole = FALSE, !.band = NoBand]

Repaint(g) == {s \in OnShow(g) : g.win[s].dirty}
\* A window redrawn alone is drawn over the windows that cover it.
Covered(g, s) ==
    \/ BarRow \in RowsOf(g.win[s])
    \/ \E t \in Above(g, s) : g.win[t].visible /\ RowsOf(g.win[t]) \cap RowsOf(g.win[s]) # {}
\* From the lowest to the highest of the rows of dirty windows and of the cursor.
PartialRows(g, row) ==
    LET touched == {row, g.prev.row} \cup UNION {RowsOf(g.win[s]) : s \in Repaint(g)} IN
    Min(touched \cap Row)..Max(touched \cap Row)
PartialDrawn(g) ==
    [g EXCEPT !.back = DrawWindows(@, g, Repaint(g)),
              !.excused = @ \/ \E s \in Repaint(g) : Covered(g, s)]
PartialComposite(g, row) == Clean(BlitRows(PartialDrawn(g), PartialRows(g, row)), Repaint(g))

Composite(g, row) == IF g.scene THEN FullComposite(g) ELSE PartialComposite(g, row)

---------------------------------------------------------------------------
(* Events of the mouse: process_mouse *)

\* The rows that a window leaves and enters, added to those of earlier moves.
Widened(g, top, bottom) ==
    LET rows == [top |-> Max({top, 0}), bottom |-> Min({Max({bottom, 0}), RowMax + 1})] IN
    [g EXCEPT !.band = IF @ = NoBand THEN rows
                       ELSE [top |-> Min({@.top, rows.top}), bottom |-> Max({@.bottom, rows.bottom})]]

\* As if only the rows that the window enters were copied to the screen.
MovedTo(g, s, row) ==
    [Widened(g, row, row + g.win[s].h)
        EXCEPT !.win[s].y = row, !.drag.prev = row, !.scene = TRUE]
\* A window that got the slot of the one that was dragged leaves other rows than
\* those that are added.
Moved(g, s, row) ==
    [Widened(g, Min({g.drag.prev, row}), Max({g.drag.prev, row}) + g.win[s].h)
        EXCEPT !.win[s].y = row, !.drag.prev = row, !.scene = TRUE,
               !.whole = @ \/ g.win[s].y # g.drag.prev]
Dragged(g, left, row) ==
    IF left /\ g.drag.win # NoWin /\ g.win[g.drag.win].y # row THEN Moved(g, g.drag.win, row) ELSE g

\* The place and height of the resized window for a pointer at row; a window that
\* would be too low keeps the edge that is not held.
Stretched(z, row) ==
    IF z.edge = "bottom" THEN [y |-> z.y, h |-> Max({z.h + row, z.row + MinHeight}) - z.row]
    ELSE LET low == z.y + z.h IN
         LET top == Min({z.y + row, low - MinHeight + z.row}) - z.row IN [y |-> top, h |-> low - top]
Resize(g, s, to) ==
    [Widened(g, Min({g.win[s].y, to.y}), Max({g.win[s].y + g.win[s].h, to.y + to.h}))
        EXCEPT !.win[s].y = to.y, !.win[s].h = to.h, !.scene = TRUE]
Resized(g, left, row) ==
    LET s == g.resize.win IN
    IF left /\ s # NoWin /\ [y |-> g.win[s].y, h |-> g.win[s].h] # Stretched(g.resize, row)
    THEN Resize(g, s, Stretched(g.resize, row)) ELSE g

NoDrag == [win |-> NoWin, prev |-> 0]
NoResize == [win |-> NoWin, edge |-> "none", y |-> 0, h |-> 0, row |-> 0]
LetGo(g) == [g EXCEPT !.drag = NoDrag, !.resize = NoResize]

\* The windows that have button i: the one above i - 1 others that are shown.
WithButton(g, i) == {s \in OnShow(g) : ButtonOf(g, s) = i}
Taskbar(g, i) ==
    IF WithButton(g, i) = {} THEN g ELSE SceneDirty(FocusWindow(g, CHOOSE s \in WithButton(g, i) : TRUE))
PressBar(g, spot) ==
    LetGo(CASE spot = "close" -> IF g.list = <<>> THEN g ELSE DestroyWindow(g, Head(g.list))
            [] spot = "mid" -> Taskbar(g, 1)
            [] spot = "top" -> Taskbar(g, 2))

\* The edge of window w under the pointer. The close button and the title go
\* before the edge that they lie on.
EdgeAt(w, row, spot) ==
    CASE row = w.y + w.h - 1 -> "bottom"
      [] row = w.y /\ spot = "top" -> "top"
      [] OTHER -> "none"
StartResize(g, s, edge, row) ==
    [g EXCEPT !.resize = [win |-> s, edge |-> edge, y |-> g.win[s].y, h |-> g.win[s].h, row |-> row]]
PressIn(g, s, row, spot) ==
    LET w == g.win[s] IN
    CASE EdgeAt(w, row, spot) # "none" -> StartResize(g, s, EdgeAt(w, row, spot), row)
      [] row = w.y /\ spot = "close" -> LetGo(DestroyWindow(g, s))
      [] row = w.y /\ spot = "mid" -> [g EXCEPT !.drag = [win |-> s, prev |-> w.y]]
      [] OTHER -> PushEvent(g, s, "button")

\* A press on a window that is not on top raises it, and asks for no redraw.
Raised(g, s) == [FocusWindow(g, s) EXCEPT !.excused = @ \/ Head(g.list) # s]
PressAt(g, s, row, spot) == IF s = NoWin THEN g ELSE PressIn(Raised(g, s), s, row, spot)
Pressed(g, press, row, spot) ==
    CASE ~press -> g
      [] press /\ row = BarRow -> PressBar(g, spot)
      [] press /\ row # BarRow -> PressAt(g, HitTest(g, row), row, spot)

Realloc(g, s) == [g EXCEPT !.win[s] = [Backbuffer(@) EXCEPT !.dirty = TRUE]]
EndResize(g, s) == IF s = NoWin THEN g ELSE PushEvent(Realloc(g, s), s, "resize")
Released(g, release) == IF release THEN LetGo(EndResize(g, g.resize.win)) ELSE g

Pulled(g, left, row) == Resized(Dragged([g EXCEPT !.dirty = TRUE, !.held = left], left, row), left, row)
MouseEvent(g, left, row, spot) ==
    Released(Pressed(Pulled(g, left, row), left /\ ~g.held, row, spot), ~left /\ g.held)
\* Every event is taken with the place where the mouse is now.
ProcessMouse(g, m) ==
    LET after[n \in 0..Len(m.events)] ==
            IF n = 0 THEN g ELSE MouseEvent(after[n - 1], m.events[n], m.row, m.spot)
    IN  after[Len(m.events)]

---------------------------------------------------------------------------
(* Keys: process_keyboard, and the console's stdin_read_op *)

\* Keys are taken up to the first Alt-F4.
KeysTaken(g, ks) ==
    LET closes == {i \in DOMAIN ks : ks[i] = "altf4"} IN
    CASE g.list = <<>> \/ ~g.win[Head(g.list)].focused -> 0
      [] OTHER -> IF closes = {} THEN Len(ks) ELSE Min(closes)

KeyEvent(g, key) ==
    IF key = "altf4" THEN DestroyWindow(g, Head(g.list)) ELSE PushEvent(g, Head(g.list), "key")
ProcessKeyboard(g, ks) ==
    LET after[n \in 0..KeysTaken(g, ks)] == IF n = 0 THEN g ELSE KeyEvent(after[n - 1], ks[n])
    IN  after[KeysTaken(g, ks)]
KeysLeft(g, ks) == SubSeq(ks, KeysTaken(g, ks) + 1, Len(ks))

---------------------------------------------------------------------------
(* One pass of compositor_task *)

\* The compositor leaves the screen as it is, and does not let go of a window
\* that is being moved.
Quit(g) == [SceneDirty(g) EXCEPT !.quit = FALSE, !.dirty = FALSE, !.prev = Nowhere, !.hover = NoWin,
                                 !.running = FALSE]

HoverFocus(g, s) ==
    IF s # NoWin /\ s # Head(g.list) THEN SceneDirty(FocusWindow(g, s)) ELSE g
Hover(g, s) == IF s # g.hover THEN HoverFocus([g EXCEPT !.hover = s], s) ELSE g
PointerMoved(g, m) ==
    IF g.prev = [row |-> m.row, spot |-> m.spot] THEN g
    ELSE IF m.row = BarRow THEN [g EXCEPT !.dirty = TRUE]
    ELSE Hover([g EXCEPT !.dirty = TRUE], HitTest(g, m.row))

\* A new background is scaled first, with interrupts enabled.
BeginScale(g) == [g EXCEPT !.step = "scaling", !.source = g.raw]
\* A picture that came in meanwhile is mixed with the old one, and is forgotten.
EndScale(g) ==
    SceneDirty([g EXCEPT !.step = "rest", !.rawValid = FALSE, !.source = "none",
                         !.scaled = IF g.raw = g.source THEN g.raw ELSE "mixed"])
Shown(g, m) == [Composite(g, m.row) EXCEPT !.prev = [row |-> m.row, spot |-> m.spot]]

CompositePass(g, m) ==
    CASE ~g.dirty -> g
      [] g.dirty /\ g.rawValid -> BeginScale([g EXCEPT !.dirty = FALSE])
      [] g.dirty /\ ~g.rawValid -> Shown([g EXCEPT !.dirty = FALSE], m)
CompositorPass(g, m) == IF g.quit THEN Quit(g) ELSE CompositePass(PointerMoved(g, m), m)

CompositorTask ==
    /\ gui.running /\ first.step = "done" /\ gui.step = "rest"
    /\ \E g \in {ProcessMouse(gui, mouse)} :
          /\ gui' = CompositorPass(ProcessKeyboard(g, keys), mouse)
          /\ keys' = KeysLeft(g, keys)
    /\ mouse' = [mouse EXCEPT !.events = <<>>]
    /\ UNCHANGED first

FinishScaling ==
    /\ gui.step = "scaling"
    /\ gui' = Shown(EndScale(gui), mouse)
    /\ UNCHANGED <<mouse, keys, first>>

---------------------------------------------------------------------------
(* The first pass of compositor_task, one step after the other             *)
(*   "mouse"    before the next event of the mouse                         *)
(*   "hit"      before focus_window raises the window first.win            *)
(*   "out"      in focus_window, with first.win off the list of windows    *)
(*   "closing"  in gui_window_destroy, with the window off the list        *)
(*   "keys"     before the next key                                        *)
(*   "look"     before it looks whether to quit and where the pointer is   *)
(*   "paint"    before the screen is drawn                                 *)
(*   "drawn"    before the request that was served is taken back           *)
(*   "done"     when the pass is over                                      *)
(* In the steps of Midway the list of windows is half changed. torn        *)
(* remembers that a call changed it then, or that the window to raise had  *)
(* left it.                                                                *)

Midway == {"out", "closing"}
NoPass ==
    [step |-> "done", win |-> NoWin, why |-> "none", row |-> 0, spot |-> "none", last |-> FALSE, torn |-> FALSE]
UpTo(f, step) == [NoPass EXCEPT !.step = step, !.torn = f.torn]
\* focus_window is called for window s, and the pointer is where it was read.
Raise(f, s, why, m) == [UpTo(f, "hit") EXCEPT !.win = s, !.why = why, !.row = m.row, !.spot = m.spot]
\* gui_window_destroy has taken a window off a list, and has seen whether one is left.
Close(f, list, why) == [UpTo(f, "closing") EXCEPT !.why = why, !.last = list = <<>>]

Closing(g, s, f, why) == gui' = Unlisted(g, s) /\ first' = Close(f, Unlisted(g, s).list, why)

BarPress(g, f, m) ==
    LET button == WithButton(g, IF m.spot = "mid" THEN 1 ELSE 2) IN
    \/ m.spot = "close" /\ g.list # <<>> /\ Closing(g, Head(g.list), f, "bar")
    \/ m.spot # "close" /\ button # {} /\ gui' = g /\ first' = Raise(f, CHOOSE s \in button : TRUE, "bar", m)
    \/ (IF m.spot = "close" THEN g.list = <<>> ELSE button = {}) /\ gui' = LetGo(g) /\ first' = f
WindowPress(g, f, m) ==
    /\ gui' = g
    /\ first' = IF HitTest(g, m.row) = NoWin THEN f ELSE Raise(f, HitTest(g, m.row), "press", m)
NextEvent ==
    /\ first.step = "mouse" /\ mouse.events # <<>>
    /\ \E g \in {Pulled(gui, Head(mouse.events), mouse.row)} :
          \/ ~(g.held /\ ~gui.held) /\ gui' = Released(g, ~g.held /\ gui.held) /\ UNCHANGED first
          \/ g.held /\ ~gui.held /\ mouse.row = BarRow /\ BarPress(g, first, mouse)
          \/ g.held /\ ~gui.held /\ mouse.row # BarRow /\ WindowPress(g, first, mouse)
    /\ mouse' = [mouse EXCEPT !.events = Tail(@)]
    /\ UNCHANGED keys
EndMouse ==
    /\ first.step = "mouse" /\ mouse.events = <<>>
    /\ first' = UpTo(first, IF gui.list # <<>> /\ gui.win[Head(gui.list)].focused THEN "keys" ELSE "look")
    /\ UNCHANGED <<gui, mouse, keys>>

\* What the caller of focus_window does next, in g.
OnClose(w, row, spot) == EdgeAt(w, row, spot) = "none" /\ row = w.y /\ spot = "close"
Continue(g, f) ==
    LET s == f.win IN
    \/ f.why = "bar" /\ gui' = LetGo(SceneDirty(g)) /\ first' = UpTo(f, "mouse")
    \/ f.why = "hover" /\ gui' = SceneDirty(g) /\ first' = UpTo(f, "paint")
    \/ f.why = "press" /\ OnClose(g.win[s], f.row, f.spot) /\ Closing(g, s, f, "press")
    \/ /\ f.why = "press" /\ ~OnClose(g.win[s], f.row, f.spot)
       /\ gui' = PressIn(g, s, f.row, f.spot) /\ first' = UpTo(f, "mouse")

IsTop(g, s) == g.list # <<>> /\ Head(g.list) = s
Out(g, s) ==
    [g EXCEPT !.win = [t \in Slot |-> [g.win[t] EXCEPT !.focused = @ /\ ~IsTop(g, t)]],
              !.list = WithoutWindow(@, s)]
In(g, s) == [g EXCEPT !.list = <<s>> \o @, !.win[s].focused = TRUE]
TakeOut ==
    /\ first.step = "hit"
    /\ \/ IsTop(gui, first.win) /\ Continue([gui EXCEPT !.win[first.win].focused = TRUE], first)
       \/ /\ ~IsTop(gui, first.win)
          /\ gui' = Out(gui, first.win)
          /\ first' = [first EXCEPT !.step = "out", !.torn = @ \/ first.win \notin ToSet(gui.list)]
    /\ UNCHANGED <<mouse, keys>>
PutIn ==
    /\ first.step = "out"
    /\ Continue(In(gui, first.win), first)
    /\ UNCHANGED <<mouse, keys>>

\* A list that was emptied meanwhile has no window to focus.
Ended(g, last) ==
    CASE last -> LastClosed(g)
      [] ~last -> IF g.list = <<>> THEN WakeScene(g) ELSE FocusNext(g)
FinishClose ==
    /\ first.step = "closing"
    /\ \E g \in {Ended(gui, first.last)} :
          IF first.why = "key" THEN gui' = g /\ first' = UpTo(first, "look")
          ELSE gui' = LetGo(g) /\ first' = UpTo(first, "mouse")
    /\ UNCHANGED <<mouse, keys>>

\* A key for a window that is no longer there is lost.
TopKey(g, f, key) ==
    \/ key = "altf4" /\ Closing(g, Head(g.list), f, "key")
    \/ key # "altf4" /\ gui' = PushEvent(g, Head(g.list), "key") /\ first' = f
NextKey ==
    /\ first.step = "keys" /\ keys # <<>>
    /\ \/ gui.list # <<>> /\ TopKey(gui, first, Head(keys))
       \/ gui.list = <<>> /\ UNCHANGED gui /\ first' = UpTo(first, IF Head(keys) = "altf4" THEN "look" ELSE "keys")
    /\ keys' = Tail(keys)
    /\ UNCHANGED mouse
EndKeys ==
    /\ first.step = "keys" /\ keys = <<>>
    /\ first' = UpTo(first, "look")
    /\ UNCHANGED <<gui, mouse, keys>>

\* The cursor was nowhere, so that it has moved.
Looked(g, f, m) ==
    LET s == IF m.row = BarRow THEN g.hover ELSE HitTest(g, m.row) IN
    /\ gui' = [g EXCEPT !.dirty = TRUE, !.hover = s]
    /\ first' = IF s \in {g.hover, NoWin} \/ IsTop(g, s) THEN UpTo(f, "paint") ELSE Raise(f, s, "hover", m)
LookAround ==
    /\ first.step = "look"
    /\ IF gui.quit THEN gui' = Quit(gui) /\ first' = UpTo(first, "done") ELSE Looked(gui, first, mouse)
    /\ UNCHANGED <<mouse, keys>>

FirstComposite ==
    /\ first.step = "paint"
    /\ \E g \in {[gui EXCEPT !.dirty = FALSE]} :
          IF g.rawValid THEN gui' = BeginScale(g) /\ first' = UpTo(first, "done")
          ELSE gui' = FullComposite(g) /\ first' = UpTo(first, "drawn")
    /\ UNCHANGED <<mouse, keys>>

\* What asked for a redraw while the screen was drawn is forgotten.
EndFirst ==
    /\ first.step = "drawn"
    /\ gui' = [gui EXCEPT !.excused = @ \/ gui.scene, !.scene = FALSE, !.whole = FALSE,
                          !.prev = [row |-> mouse.row, spot |-> mouse.spot]]
    /\ first' = UpTo(first, "done")
    /\ UNCHANGED <<mouse, keys>>

FirstPass ==
    \/ NextEvent \/ EndMouse \/ TakeOut \/ PutIn \/ FinishClose \/ NextKey \/ EndKeys
    \/ LookAround \/ FirstComposite \/ EndFirst

---------------------------------------------------------------------------
(* Interrupts *)

MouseMoves(row, spot, left) ==
    /\ mouse' = [row |-> row, spot |-> spot,
                 events |-> IF Len(mouse.events) < RingSize - 1 THEN Append(mouse.events, left)
                            ELSE mouse.events]
    /\ gui' = Wake(gui)
    /\ UNCHANGED <<keys, first>>

KeyPressed(key) ==
    /\ keys' = IF Len(keys) < RingSize - 1 THEN Append(keys, key) ELSE keys
    /\ gui' = IF gui.list = <<>> THEN gui ELSE Wake(gui)
    /\ UNCHANGED <<mouse, first>>

\* A program reads a key of the console; Alt-F4 is dropped.
StdinRead ==
    /\ ~gui.owned /\ keys # <<>>
    /\ keys' = Tail(keys)
    /\ UNCHANGED <<gui, mouse, first>>

---------------------------------------------------------------------------
(* Calls of clients on /dev/x. A window is named by its number, and any client *)
(* may name any window.                                                      *)

StartCompositor(g) == IF g.running THEN g ELSE [g EXCEPT !.running = TRUE, !.back = g.hw]

\* A call that makes h of the windows g in the middle of a change of the list.
Noted(f, g, h) == [f EXCEPT !.torn = @ \/ (f.step \in Midway /\ h # g)]

FreeSlots(g) == {s \in Slot : g.win[s].id = 0}
Opened(g, s, c, p) ==
    [PushFront([g EXCEPT !.win[s] = Backbuffer([NoWindow EXCEPT !.id = g.nextId, !.owner = c, !.y = p.y,
                                                !.h = p.h, !.dirty = TRUE])], s)
        EXCEPT !.nextId = @ + 1, !.owned = @ \/ g.list = <<>>,
               !.excused = @ \/ g.list # <<>>]
WinCreate(c, p) ==
    /\ gui' = LET g == StartCompositor(gui) IN
              IF FreeSlots(g) = {} THEN g ELSE Opened(g, Min(FreeSlots(g)), c, p)
    /\ first' = LET f == Noted(first, gui, gui') IN IF gui.running THEN f ELSE UpTo(f, "mouse")
    /\ UNCHANGED <<mouse, keys>>

OnWindow(s) == s \in ToSet(gui.list) /\ UNCHANGED <<mouse, keys>>

WinDestroy(s) == OnWindow(s) /\ gui' = DestroyWindow(gui, s) /\ first' = Noted(first, gui, gui')

\* What is drawn is clipped to the size that the window has now. During a resize the
\* backbuffer still has the old one, and a store may miss it: this is left out.
WinDraw(s, c) ==
    /\ OnWindow(s) /\ UNCHANGED first
    /\ gui' = IF gui.win[s].bb = 0 THEN gui
              ELSE [gui EXCEPT !.win[s].content = c, !.win[s].fresh = @ \cup {c}]

\* The first flip shows the window.
Flipped(g, s) ==
    Wake([IF g.win[s].visible THEN g ELSE WakeScene(g)
             EXCEPT !.win[s].visible = TRUE, !.win[s].dirty = TRUE, !.win[s].fresh = {g.win[s].content}])
WinFlip(s) == OnWindow(s) /\ UNCHANGED first /\ gui' = Flipped(gui, s)

WinPollEvent(s) ==
    /\ OnWindow(s) /\ UNCHANGED first /\ gui.win[s].queue # <<>>
    /\ gui' = [gui EXCEPT !.win[s].queue = Tail(@)]

\* A window that is off the list is not found by its number, and stays.
DestroyIfOf(g, s, c) ==
    IF g.win[s].id # 0 /\ g.win[s].owner = c /\ s \in ToSet(g.list) THEN DestroyWindow(g, s) ELSE g
OwnerDies(c) ==
    /\ gui' = LET after[s \in 0..WindowMax] == IF s = 0 THEN gui ELSE DestroyIfOf(after[s - 1], s, c)
              IN  after[WindowMax]
    /\ first' = Noted(first, gui, gui')
    /\ UNCHANGED <<mouse, keys>>

\* wanted is the picture that the desktop should show.
SetBg(pic) ==
    /\ gui' = WakeScene([gui EXCEPT !.rawValid = pic # "huge", !.raw = IF pic = "huge" THEN @ ELSE pic,
                                    !.scaled = "none",
                                    !.wanted = CASE gui.step = "scaling" -> "any"
                                                 [] gui.step = "rest" /\ pic = "huge" -> "none"
                                                 [] OTHER -> pic])
    /\ UNCHANGED <<mouse, keys, first>>

---------------------------------------------------------------------------
(* Specification *)

Console == [r \in Row |-> Cell("console", 0, "text")]

NoGui ==
    [win |-> [s \in Slot |-> NoWindow], list |-> <<>>, nextId |-> 1, running |-> FALSE, quit |-> FALSE,
     dirty |-> FALSE, scene |-> TRUE, whole |-> TRUE, excused |-> FALSE, prev |-> Nowhere,
     held |-> FALSE, drag |-> NoDrag, resize |-> NoResize, band |-> NoBand, hover |-> NoWin,
     back |-> Console, hw |-> Console, owned |-> FALSE, raw |-> "none", rawValid |-> FALSE,
     source |-> "none", scaled |-> "none", wanted |-> "none", step |-> "rest"]

DesktopInit ==
    /\ gui = NoGui
    /\ mouse = [row |-> 1, spot |-> "mid", events |-> <<>>]
    /\ keys = <<>>
    /\ first = NoPass

ClientCall ==
    \/ \E c \in Clients, p \in Places : WinCreate(c, p)
    \/ \E s \in Slot : WinDestroy(s)
    \/ \E s \in Slot, c \in {"drawn", "redrawn"} : WinDraw(s, c)
    \/ \E s \in Slot : WinFlip(s)
    \/ \E s \in Slot : WinPollEvent(s)
    \/ \E c \in Clients : OwnerDies(c)
    \/ \E pic \in Pictures : SetBg(pic)

Interrupt ==
    \/ \E row \in Row, spot \in Spot, left \in BOOLEAN : MouseMoves(row, spot, left)
    \/ \E key \in {"char", "altf4"} : KeyPressed(key)

DesktopNext == ClientCall \/ Interrupt \/ StdinRead \/ CompositorTask \/ FinishScaling \/ FirstPass

DesktopSpec == DesktopInit /\ [][DesktopNext]_desktopVars

---------------------------------------------------------------------------
(* Properties *)

\* The keyboard belongs to the window server exactly while a window is open, and then
\* exactly the window on top, which keys go to, has the focus that its title shows:
\* whatever mouse, keys, clients and deaths of clients did, except while the first
\* pass of a compositor moves or closes a window, and up to the first call that
\* changes the list of windows in the middle of that (KeyboardHeld).
KeysReachTop ==
    ~first.torn /\ first.step \notin Midway =>
        /\ gui.owned <=> gui.list # <<>>
        /\ \A i \in DOMAIN gui.list : gui.win[gui.list[i]].focused <=> i = 1

\* Keyboard ownership is released "when last window closes" (gui.c:1362), and so
\* never while a window is open.
KeyboardHeld == gui.list # <<>> => gui.owned

\* What a row of the screen should show: a window shows the content of its last
\* flip, or one drawn since.
Shows(cell, r) ==
    LET s == HitTest(gui, r) IN
    CASE r = BarRow -> cell = BarCell(gui)
      [] r # BarRow /\ s = NoWin -> cell.kind = "desk" /\ gui.wanted \in {cell.mark, "any"}
      [] OTHER -> LET w == gui.win[s] IN
                  \/ cell = WindowCell(w, r)
                  \/ \E c \in w.fresh : cell = WindowCell([w EXCEPT !.content = c], r)

\* Nothing is left for the compositor to do.
Settled ==
    /\ gui.running /\ first.step = "done" /\ gui.step = "rest"
    /\ ~gui.dirty /\ gui.prev = [row |-> mouse.row, spot |-> mouse.spot]

\* When the compositor has nothing left to do the screen shows the desktop, the
\* windows from top to bottom, and the status bar. Excused are, until the next
\* redraw of the whole screen: a press that raised a window, a window opened over
\* others and not flipped yet, a flip of a covered window, what a redraw of only
\* the band of a drag misses, and what a call asks for while the first pass draws
\* the screen (gui.c:716). As KeysReachTop up to the first call that finds the
\* list of windows half changed.
ScreenCurrent == Settled /\ ~gui.excused /\ ~first.torn => \A r \in Row : Shows(gui.hw[r], r)

\* While windows are open there is a compositor to serve them: it exits "when the
\* last window is closed" (docs/gui.md:57).
CompositorServesWindows == gui.list # <<>> => gui.running
=============================================================================
