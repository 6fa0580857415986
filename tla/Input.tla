------------------------------- MODULE Input -------------------------------
(***************************************************************************)
(* What the interrupt handlers of src/src/drivers/keyboard.c and mouse.c   *)
(* make of the bytes of a PS/2 keyboard and mouse. Bytes wait on the line  *)
(* until the interrupt is taken; the line may lose a byte of the mouse.    *)
(* Keys and letters stand for the classes that the handler tells apart.    *)
(* The programming of the controller at start is left out.                 *)
(***************************************************************************)
EXTENDS Integers, Sequences, FiniteSets, SequencesExt

CONSTANTS KbRing,        \* KB_BUFFER_SIZE
          LineMax,       \* bound: bytes on a line
          TypedMax,      \* bound: keys pressed and let go of
          PacketMax,     \* bound: packets of the mouse
          Deltas,        \* moves in one packet, as decoded from byte and sign
          DeltaMax,      \* 32: longest move of a packet
          ScreenW, ScreenH

ASSUME InputAssumption == KbRing > 1 /\ Deltas \subseteq Int /\ {DeltaMax, ScreenW, ScreenH} \subseteq Nat \ {0}

VARIABLES kb, down, kbLine, typed,        \* keyboard: driver, keys held, line
          packet, pointer, mouseLine, sent, lost, noisy, wrong    \* mouse

kbVars == <<kb, down, kbLine, typed>>
mouseVars == <<packet, pointer, mouseLine, sent, lost, noisy, wrong>>
inputVars == <<kbVars, mouseVars>>

---------------------------------------------------------------------------
(* The keyboard. A key sends a byte when it goes down and one when it comes up, *)
(* extended keys after the prefix E0.                                        *)

Plain == {"lshift", "rshift", "lctrl", "lalt", "caps", "f4", "letter", "digit", "none"}
Extended == {"rctrl", "ralt", "page", "kpenter"}
Key == Plain \cup Extended
Prefix == [key |-> "E0", make |-> TRUE]
BytesOf(key, make) ==
    IF key \in Extended THEN <<Prefix, [key |-> key, make |-> make]>> ELSE <<[key |-> key, make |-> make]>>

PutKey(k, c) == IF Len(k.data) < KbRing - 1 THEN [k EXCEPT !.data = Append(@, c)] ELSE k

\* Letters obey ctrl, else shift and caps; other keys obey shift only.
Char(k, key) ==
    CASE key = "letter" /\ k.ctrl -> "control"
      [] key = "letter" /\ ~k.ctrl -> IF k.shift # k.caps THEN "upper" ELSE "lower"
      [] key = "digit" -> IF k.shift THEN "sign" ELSE "digit"

AfterPrefix(k, b) ==
    CASE b.key = "rctrl" -> [k EXCEPT !.ctrl = b.make]
      [] b.key = "page" /\ b.make -> PutKey(k, "page")
      [] OTHER -> k

\* As if the bytes of keys that come up were dropped before those of ctrl.
PlainByteLate(k, b) ==
    CASE b.key \in {"lshift", "rshift"} -> [k EXCEPT !.shift = b.make]
      [] b.key = "lctrl" /\ b.make -> [k EXCEPT !.ctrl = TRUE]
      [] b.key = "lalt" /\ b.make -> [k EXCEPT !.alt = TRUE]
      [] b.key = "f4" /\ b.make /\ k.alt -> PutKey(k, "altf4")
      [] b.key = "caps" /\ b.make -> [k EXCEPT !.caps = ~@]
      [] b.key \in {"letter", "digit"} /\ b.make -> PutKey(k, Char(k, b.key))
      [] OTHER -> k
\* Both keys of a pair set and clear the same flag.
PlainByte(k, b) ==
    CASE b.key \in {"lshift", "rshift"} -> [k EXCEPT !.shift = b.make]
      [] b.key = "lctrl" -> [k EXCEPT !.ctrl = b.make]
      [] b.key = "lalt" -> [k EXCEPT !.alt = b.make]
      [] b.key = "f4" /\ b.make /\ k.alt -> PutKey(k, "altf4")
      [] b.key = "caps" /\ b.make -> [k EXCEPT !.caps = ~@]
      [] b.key \in {"letter", "digit"} /\ b.make -> PutKey(k, Char(k, b.key))
      [] OTHER -> k

KeyByte(k, b) ==
    CASE b = Prefix -> [k EXCEPT !.extended = TRUE]
      [] b # Prefix /\ k.extended -> AfterPrefix([k EXCEPT !.extended = FALSE], b)
      [] b # Prefix /\ ~k.extended -> PlainByte(k, b)

KeyChanges(key) ==
    /\ typed < TypedMax /\ Len(kbLine) + 2 <= LineMax
    /\ down' = IF key \in down THEN down \ {key} ELSE down \cup {key}
    /\ kbLine' = kbLine \o BytesOf(key, key \notin down)
    /\ typed' = typed + 1
    /\ UNCHANGED <<kb, mouseVars>>

KeyboardIrq ==
    /\ kbLine # <<>>
    /\ kb' = KeyByte(kb, Head(kbLine))
    /\ kbLine' = Tail(kbLine)
    /\ UNCHANGED <<down, typed, mouseVars>>

KeyboardRead(len) ==
    /\ kb.data # <<>>
    /\ kb' = [kb EXCEPT !.data = IF len >= Len(@) THEN <<>> ELSE SubSeq(@, len + 1, Len(@))]
    /\ UNCHANGED <<down, kbLine, typed, mouseVars>>

---------------------------------------------------------------------------
(* The mouse. A packet is three bytes; bit 3 is always set in the first one, *)
(* and may be set in the others.                                             *)

Limit(n, lo, hi) == IF n < lo THEN lo ELSE IF n > hi THEN hi ELSE n
\* Moves count twice and end at the edges of the screen; up is down on the screen.
Position(p, dx, dy) ==
    [x |-> Limit(p.x + 2 * Limit(dx, -DeltaMax, DeltaMax), 0, ScreenW - 1),
     y |-> Limit(p.y - 2 * Limit(dy, -DeltaMax, DeltaMax), 0, ScreenH - 1)]

\* The first byte of a packet is known by its bit 3. As if it was not looked at.
AnyFirst(bytes) == TRUE
LooksFirst(bytes) == bytes[1].bit3
\* Out of step: the first later byte with bit 3 set is taken for a first one.
Realign(bytes) ==
    CASE bytes[2].bit3 -> SubSeq(bytes, 2, 3)
      [] ~bytes[2].bit3 /\ bytes[3].bit3 -> SubSeq(bytes, 3, 3)
      [] OTHER -> <<>>

InOrder(bytes) == \A i \in 1..3 : bytes[i].of = bytes[1].of /\ bytes[i].pos = i

\* Bytes out of order can mean any move, and an overflow, which is ignored.
Decoded(bytes) ==
    IF ~LooksFirst(bytes) THEN packet' = Realign(bytes) /\ UNCHANGED <<pointer, wrong>>
    ELSE /\ packet' = <<>>
         /\ \/ /\ InOrder(bytes) => bytes[1].overflow
               /\ UNCHANGED <<pointer, wrong>>
            \/ /\ InOrder(bytes) /\ ~bytes[1].overflow
               /\ pointer' = Position(pointer, bytes[2].delta, bytes[3].delta) /\ UNCHANGED wrong
            \/ /\ ~InOrder(bytes)
               /\ \E dx, dy \in Deltas : pointer' = Position(pointer, dx, dy)
               /\ wrong' = wrong + 1

MouseIrq ==
    /\ mouseLine # <<>>
    /\ mouseLine' = Tail(mouseLine)
    /\ \E bytes \in {Append(packet, Head(mouseLine))} :
          IF Len(bytes) < 3 THEN packet' = bytes /\ UNCHANGED <<pointer, wrong>> ELSE Decoded(bytes)
    /\ UNCHANGED <<kbVars, sent, lost, noisy>>

MouseByte(pos, bit3, overflow, delta) ==
    [of |-> sent, pos |-> pos, bit3 |-> bit3, overflow |-> overflow, delta |-> delta]
MouseSends(dx, dy, xbit, ybit, overflow) ==
    /\ sent < PacketMax /\ Len(mouseLine) + 3 <= LineMax
    /\ mouseLine' = mouseLine \o <<MouseByte(1, TRUE, overflow, 0), MouseByte(2, xbit, FALSE, dx),
                                   MouseByte(3, ybit, FALSE, dy)>>
    /\ sent' = sent + 1
    /\ noisy' = noisy + Cardinality({i \in {1, 2} : <<xbit, ybit>>[i]})
    /\ UNCHANGED <<kbVars, packet, pointer, lost, wrong>>

\* The controller drops a byte, as when the interrupt comes too late.
MouseLoses ==
    /\ mouseLine # <<>>
    /\ mouseLine' = Tail(mouseLine)
    /\ lost' = lost + 1
    /\ UNCHANGED <<kbVars, packet, pointer, sent, noisy, wrong>>

---------------------------------------------------------------------------

InputInit ==
    /\ kb = [data |-> <<>>, shift |-> FALSE, ctrl |-> FALSE, alt |-> FALSE, caps |-> FALSE, extended |-> FALSE]
    /\ down = {} /\ kbLine = <<>> /\ typed = 0
    /\ packet = <<>> /\ pointer = [x |-> ScreenW \div 2, y |-> ScreenH \div 2]
    /\ mouseLine = <<>> /\ sent = 0 /\ lost = 0 /\ noisy = 0 /\ wrong = 0

KeyboardNext ==
    \/ \E key \in Key : KeyChanges(key)
    \/ KeyboardIrq
    \/ \E len \in {1, KbRing} : KeyboardRead(len)

MouseNext ==
    \/ \E dx, dy \in Deltas, xbit, ybit, over \in BOOLEAN : MouseSends(dx, dy, xbit, ybit, over)
    \/ MouseIrq
    \/ MouseLoses

InputNext == KeyboardNext \/ MouseNext

---------------------------------------------------------------------------
(* Properties *)

\* Once every byte has been taken, no modifier is on unless one of its keys is
\* held, and no prefix waits for a second byte. (The keys of both sides share a
\* flag, so that one coming up turns off the other.)
NoStuckModifier ==
    kbLine = <<>> =>
        /\ kb.shift => down \cap {"lshift", "rshift"} # {}
        /\ kb.ctrl => down \cap {"lctrl", "rctrl"} # {}
        /\ kb.alt => "lalt" \in down
        /\ ~kb.extended

\* A lost byte costs at most one wrong event, and one more for each byte of a
\* movement that looks like a first byte; then packets are in step again.
MouseRecovers == wrong <= lost + noisy
=============================================================================
