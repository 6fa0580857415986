--------------------------- MODULE DeviceProofs ---------------------------
(***************************************************************************)
(* Proofs about devices.                                                   *)
(* The keyboard of Input, for any ring and any number of bytes on the line:*)
(* no modifier sticks. A flag of the driver is right about the keys only once*)
(* the line is empty; what holds all the time is that the last byte on the *)
(* line that concerns it will put it right, and that a byte of an extended *)
(* key always follows its prefix.                                          *)
(* Its mouse: the driver gets back in step. Each wrong event is paid for by*)
(* a byte that was lost or by a noise, and what was paid and has not shown *)
(* yet can be counted: the noises still on the way, and the packet in the  *)
(* driver when it misses a byte.                                           *)
(* BlockDevices, for any sectors and bytes: a write that was acknowledged  *)
(* stays on the disk.                                                      *)
(* Desktop, for any windows: keys reach the one on top; and the screen shows*)
(* what it should when the compositor is at rest. Until then every row either*)
(* shows what it should, or a window that will be drawn lies on it, or the *)
(* scene will be drawn in it; and so it is with the backbuffer, which the next*)
(* redraw of some windows starts from. Clients may call in between the steps*)
(* of a compositor's first pass: what it has begun is part of the invariant, up*)
(* to the first call that finds the list half changed.                     *)
(* Console, for any terminal: what was printed last is on the screen.      *)
(***************************************************************************)
EXTENDS Input, BlockDevices, Desktop, Console, SeqLemmas, FiniteSetTheorems, TLAPS

InputSpec == InputInit /\ [][InputNext]_inputVars

KeyBytes == {Prefix} \cup [key : Key, make : BOOLEAN]

IsDriver(k) ==
    k = [data |-> k.data, shift |-> k.shift, ctrl |-> k.ctrl, alt |-> k.alt,
         caps |-> k.caps, extended |-> k.extended]

\* The line, with the driver between a prefix and the byte after it or not.
Paired(line, extended) ==
    /\ \A i \in 1 .. Len(line) :
          line[i].key \in Extended <=> IF i = 1 THEN extended ELSE line[i - 1] = Prefix
    /\ IF line = <<>> THEN ~extended ELSE line[Len(line)] # Prefix

\* The flag `on` of these keys after the bytes on the line: TRUE only if one is held.
FlagFollows(line, on, mods, held) ==
    /\ (\A i \in 1 .. Len(line) : line[i].key \notin mods) /\ on => held \cap mods # {}
    /\ \A i \in 1 .. Len(line) :
          /\ line[i].key \in mods /\ line[i].make
          /\ \A j \in 1 .. Len(line) : i < j => line[j].key \notin mods
          => held \cap mods # {}

Shifts == {"lshift", "rshift"}
Ctrls == {"lctrl", "rctrl"}
Alts == {"lalt"}

KeyboardInv ==
    /\ IsDriver(kb)
    /\ {kb.shift, kb.ctrl, kb.alt, kb.extended} \subseteq BOOLEAN
    /\ kbLine \in Seq(KeyBytes)
    /\ Paired(kbLine, kb.extended)
    /\ FlagFollows(kbLine, kb.shift, Shifts, down)
    /\ FlagFollows(kbLine, kb.ctrl, Ctrls, down)
    /\ FlagFollows(kbLine, kb.alt, Alts, down)

-----------------------------------------------------------------------------
(* The line. *)

\* Taking a byte off the line.
LEMMA FlagAfterByte ==
    ASSUME NEW line \in Seq(KeyBytes), line # <<>>, NEW on, NEW mods, NEW held,
           FlagFollows(line, on, mods, held),
           NEW on2, on2 <=> IF line[1].key \in mods THEN line[1].make ELSE on
    PROVE  FlagFollows(Tail(line), on2, mods, held)
<1>. DEFINE rest == Tail(line)
<1>1. /\ Len(line) \in Nat \ {0} /\ Len(rest) = Len(line) - 1
      /\ \A i \in 1 .. Len(rest) : rest[i] = line[i + 1]
  OBVIOUS
<1>. HIDE DEF rest
<1>2. \A i \in 1 .. Len(line) : i # 1 => i - 1 \in 1 .. Len(rest) /\ line[i] = rest[i - 1]
  BY <1>1
<1>3. ASSUME \A i \in 1 .. Len(rest) : rest[i].key \notin mods, on2
      PROVE  held \cap mods # {}
  <2>1. \A j \in 1 .. Len(line) : 1 < j => line[j].key \notin mods
    BY <1>2, <1>3
  <2>2. CASE line[1].key \in mods
    BY <1>1, <1>3, <2>1, <2>2 DEF FlagFollows
  <2>3. CASE line[1].key \notin mods
    <3>1. \A j \in 1 .. Len(line) : line[j].key \notin mods
      BY <1>1, <2>1, <2>3
    <3>. QED
      BY <1>3, <2>3, <3>1 DEF FlagFollows
  <2>. QED
    BY <2>2, <2>3
<1>4. ASSUME NEW i \in 1 .. Len(rest), rest[i].key \in mods, rest[i].make,
             \A j \in 1 .. Len(rest) : i < j => rest[j].key \notin mods
      PROVE  held \cap mods # {}
  <2>1. i + 1 \in 1 .. Len(line) /\ line[i + 1] = rest[i]
    BY <1>1
  <2>2. \A j \in 1 .. Len(line) : i + 1 < j => line[j].key \notin mods
    BY <1>2, <1>4, SMTT(40)
  <2>. QED
    BY <1>4, <2>1, <2>2 DEF FlagFollows
<1>5. FlagFollows(rest, on2, mods, held)
  BY <1>3, <1>4 DEF FlagFollows
<1>. QED
  BY <1>5 DEF rest

\* A key that moves: its byte is the last on the line, behind its prefix.
LEMMA FlagAfterKey ==
    ASSUME NEW line \in Seq(KeyBytes), NEW bytes \in Seq(KeyBytes), bytes # <<>>,
           NEW on, NEW mods, NEW held, NEW key, NEW held2,
           FlagFollows(line, on, mods, held),
           held2 = IF key \in held THEN held \ {key} ELSE held \cup {key},
           bytes[Len(bytes)].key = key, bytes[Len(bytes)].make <=> key \notin held,
           \A i \in 1 .. Len(bytes) : i < Len(bytes) => bytes[i].key \notin mods
    PROVE  FlagFollows(line \o bytes, on, mods, held2)
<1>. DEFINE all == line \o bytes
<1>1. /\ Len(line) \in Nat /\ Len(bytes) \in Nat \ {0} /\ Len(all) = Len(line) + Len(bytes)
      /\ \A i \in 1 .. Len(line) : all[i] = line[i]
      /\ \A i \in 1 .. Len(bytes) : all[Len(line) + i] = bytes[i]
  OBVIOUS
<1>. HIDE DEF all
<1>2. Len(all) \in 1 .. Len(all) /\ all[Len(all)] = bytes[Len(bytes)]
  BY <1>1
<1>3. \A i \in 1 .. Len(all) : i > Len(line) =>
         i - Len(line) \in 1 .. Len(bytes) /\ all[i] = bytes[i - Len(line)]
  BY <1>1
<1>4. CASE key \in mods
  <2>1. \A i \in 1 .. Len(all) :
           (\A j \in 1 .. Len(all) : i < j => all[j].key \notin mods) => i = Len(all)
    BY <1>1, <1>2, <1>4, SMTT(40)
  <2>2. all[Len(all)].make => key \in held2 \cap mods
    BY <1>2, <1>4
  <2>3. ~ \A i \in 1 .. Len(all) : all[i].key \notin mods
    BY <1>2, <1>4
  <2>. QED
    BY <2>1, <2>2, <2>3 DEF FlagFollows, all
<1>5. CASE key \notin mods
  <2>1. held2 \cap mods = held \cap mods
    BY <1>5
  <2>2. \A i \in 1 .. Len(all) : i > Len(line) => all[i].key \notin mods
    <3>1. \A i \in 1 .. Len(bytes) : bytes[i].key \notin mods
      BY <1>1, <1>5
    <3>. QED
      BY <1>3, <3>1
  <2>3. ASSUME \A i \in 1 .. Len(all) : all[i].key \notin mods, on
        PROVE  held2 \cap mods # {}
    <3>1. \A i \in 1 .. Len(line) : line[i].key \notin mods
      BY <1>1, <2>3
    <3>. QED
      BY <2>1, <2>3, <3>1 DEF FlagFollows
  <2>4. ASSUME NEW i \in 1 .. Len(all), all[i].key \in mods, all[i].make,
               \A j \in 1 .. Len(all) : i < j => all[j].key \notin mods
        PROVE  held2 \cap mods # {}
    <3>1. i \in 1 .. Len(line) /\ all[i] = line[i]
      BY <1>1, <2>2, <2>4
    <3>2. \A j \in 1 .. Len(line) : i < j => line[j].key \notin mods
      BY <1>1, <2>4
    <3>. QED
      BY <2>1, <2>4, <3>1, <3>2 DEF FlagFollows
  <2>. QED
    BY <2>3, <2>4 DEF FlagFollows, all
<1>. QED
  BY <1>4, <1>5

LEMMA PairedAfterByte ==
    ASSUME NEW line \in Seq(KeyBytes), line # <<>>, NEW extended, Paired(line, extended),
           NEW extended2, extended2 <=> line[1] = Prefix
    PROVE  Paired(Tail(line), extended2)
<1>. DEFINE rest == Tail(line)
<1>1. /\ Len(line) \in Nat \ {0} /\ rest \in Seq(KeyBytes) /\ Len(rest) = Len(line) - 1
      /\ \A i \in 1 .. Len(rest) : rest[i] = line[i + 1]
  OBVIOUS
<1>2. rest = <<>> <=> Len(line) = 1
  BY <1>1
<1>. HIDE DEF rest
<1>3. ASSUME NEW i \in 1 .. Len(rest)
      PROVE  rest[i].key \in Extended <=> IF i = 1 THEN extended2 ELSE rest[i - 1] = Prefix
  <2>1. i + 1 \in 1 .. Len(line) /\ i + 1 # 1 /\ rest[i] = line[i + 1] /\ (i + 1) - 1 = i
    BY <1>1
  <2>2. rest[i].key \in Extended <=> line[i] = Prefix
    BY <2>1 DEF Paired
  <2>3. i # 1 => i - 1 \in 1 .. Len(rest) /\ rest[i - 1] = line[i]
    BY <1>1
  <2>. QED
    BY <2>2, <2>3
<1>4. IF rest = <<>> THEN ~extended2 ELSE rest[Len(rest)] # Prefix
  BY <1>1, <1>2 DEF Paired
<1>5. Paired(rest, extended2)
  BY <1>3, <1>4 DEF Paired
<1>. QED
  BY <1>5 DEF rest

LEMMA PairedAfterKey ==
    ASSUME NEW line \in Seq(KeyBytes), NEW bytes \in Seq(KeyBytes), bytes # <<>>,
           NEW extended, Paired(line, extended),
           \A i \in 1 .. Len(bytes) :
              bytes[i].key \in Extended <=> IF i = 1 THEN FALSE ELSE bytes[i - 1] = Prefix,
           bytes[Len(bytes)] # Prefix
    PROVE  line # <<>> => Paired(line \o bytes, extended)
<1>. SUFFICES ASSUME line # <<>> PROVE Paired(line \o bytes, extended)
  OBVIOUS
<1>. DEFINE all == line \o bytes
<1>1. /\ Len(line) \in Nat \ {0} /\ Len(bytes) \in Nat \ {0} /\ Len(all) = Len(line) + Len(bytes)
      /\ \A i \in 1 .. Len(line) : all[i] = line[i]
      /\ \A i \in 1 .. Len(bytes) : all[Len(line) + i] = bytes[i]
  OBVIOUS
<1>2. all # <<>>
  OBVIOUS
<1>. HIDE DEF all
<1>3. \A i \in 1 .. Len(all) : i > Len(line) =>
         i - Len(line) \in 1 .. Len(bytes) /\ all[i] = bytes[i - Len(line)]
  BY <1>1
<1>4. ASSUME NEW i \in 1 .. Len(all)
      PROVE  all[i].key \in Extended <=> IF i = 1 THEN extended ELSE all[i - 1] = Prefix
  <2>1. CASE i <= Len(line)
    <3>1. i \in 1 .. Len(line) /\ all[i] = line[i] /\ (i # 1 => all[i - 1] = line[i - 1])
      <4>1. i \in 1 .. Len(line) /\ (i # 1 => i - 1 \in 1 .. Len(line))
        BY <1>1, <2>1
      <4>. QED
        BY <1>1, <4>1
    <3>. QED
      BY <3>1 DEF Paired
  <2>2. CASE i = Len(line) + 1
    <3>1. all[i] = bytes[1] /\ all[i - 1] = line[Len(line)] /\ i # 1 /\ 1 \in 1 .. Len(bytes)
      <4>1. i = Len(line) + 1 /\ i - 1 = Len(line) /\ Len(line) \in 1 .. Len(line)
            /\ i # 1 /\ 1 \in 1 .. Len(bytes)
        BY <1>1, <2>2
      <4>. QED
        BY <1>1, <4>1
    <3>. QED
      BY <3>1 DEF Paired
  <2>3. CASE i > Len(line) + 1
    <3>1. /\ i - Len(line) \in 1 .. Len(bytes) /\ i - Len(line) # 1 /\ i # 1
          /\ all[i] = bytes[i - Len(line)] /\ all[i - 1] = bytes[(i - Len(line)) - 1]
      <4>1. i - 1 \in 1 .. Len(all) /\ i - 1 > Len(line) /\ (i - 1) - Len(line) = (i - Len(line)) - 1
        BY <1>1, <2>3
      <4>. QED
        BY <1>1, <1>3, <2>3, <4>1
    <3>. QED
      BY <3>1
  <2>. QED
    BY <1>1, <2>1, <2>2, <2>3
<1>5. all[Len(all)] # Prefix
  BY <1>1
<1>. QED
  BY <1>2, <1>4, <1>5 DEF Paired, all

LEMMA PairedFirstKey ==
    ASSUME NEW bytes \in Seq(KeyBytes), bytes # <<>>,
           NEW extended, Paired(<<>>, extended),
           \A i \in 1 .. Len(bytes) :
              bytes[i].key \in Extended <=> IF i = 1 THEN FALSE ELSE bytes[i - 1] = Prefix,
           bytes[Len(bytes)] # Prefix
    PROVE  Paired(<<>> \o bytes, extended)
<1>1. <<>> \o bytes = bytes
  OBVIOUS
<1>. QED
  BY <1>1 DEF Paired

\* What a key sends: its byte, behind a prefix if it is an extended one.
SentBy(bytes, key, make) ==
    /\ bytes \in Seq(KeyBytes) /\ bytes # <<>>
    /\ bytes[Len(bytes)].key = key /\ bytes[Len(bytes)].make = make
    /\ \A i \in 1 .. Len(bytes) : i < Len(bytes) => bytes[i].key = "E0"
    /\ \A i \in 1 .. Len(bytes) :
          bytes[i].key \in Extended <=> IF i = 1 THEN FALSE ELSE bytes[i - 1] = Prefix
    /\ bytes[Len(bytes)] # Prefix

LEMMA BytesOfKey ==
    ASSUME NEW key \in Key, NEW make \in BOOLEAN
    PROVE  SentBy(BytesOf(key, make), key, make)
<1>. DEFINE b == [key |-> key, make |-> make]
<1>1. b \in KeyBytes /\ Prefix \in KeyBytes /\ b.key = key /\ b.make = make /\ Prefix.key = "E0"
  BY DEF KeyBytes, Prefix
<1>2. key # "E0" /\ "E0" \notin Extended
  BY DEF Key, Plain, Extended
<1>3. b # Prefix
  BY <1>1, <1>2
<1>4. BytesOf(key, make) = IF key \in Extended THEN <<Prefix, b>> ELSE <<b>>
  BY DEF BytesOf
<1>. HIDE DEF b
<1>5. CASE key \in Extended
  BY <1>1, <1>2, <1>3, <1>4, <1>5 DEF SentBy
<1>6. CASE key \notin Extended
  BY <1>1, <1>2, <1>3, <1>4, <1>6 DEF SentBy
<1>. QED
  BY <1>5, <1>6

-----------------------------------------------------------------------------
(* The driver. *)

\* Setting one of the fields.
WithShift(k, v) == [k EXCEPT !.shift = v]
WithCtrl(k, v) == [k EXCEPT !.ctrl = v]
WithAlt(k, v) == [k EXCEPT !.alt = v]
WithExtended(k, v) == [k EXCEPT !.extended = v]
WithData(k, v) == [k EXCEPT !.data = v]
WithCaps(k, v) == [k EXCEPT !.caps = v]

Flags(k, shift, ctrl, alt, extended) ==
    IsDriver(k) /\ k.shift = shift /\ k.ctrl = ctrl /\ k.alt = alt /\ k.extended = extended

LEMMA FieldEffect ==
    ASSUME NEW k, IsDriver(k), NEW v
    PROVE  /\ Flags(WithShift(k, v), v, k.ctrl, k.alt, k.extended)
           /\ Flags(WithCtrl(k, v), k.shift, v, k.alt, k.extended)
           /\ Flags(WithAlt(k, v), k.shift, k.ctrl, v, k.extended)
           /\ Flags(WithCaps(k, v), k.shift, k.ctrl, k.alt, k.extended)
           /\ Flags(WithExtended(k, v), k.shift, k.ctrl, k.alt, v)
           /\ Flags(WithData(k, v), k.shift, k.ctrl, k.alt, k.extended)
<1>1. PICK d, s, t, a, u, e :
         k = [data |-> d, shift |-> s, ctrl |-> t, alt |-> a, caps |-> u, extended |-> e]
  BY DEF IsDriver
<1>2. WithShift(k, v)
         = [data |-> d, shift |-> v, ctrl |-> t, alt |-> a, caps |-> u, extended |-> e]
  BY <1>1 DEF WithShift
<1>3. WithCtrl(k, v)
         = [data |-> d, shift |-> s, ctrl |-> v, alt |-> a, caps |-> u, extended |-> e]
  BY <1>1 DEF WithCtrl
<1>4. WithAlt(k, v)
         = [data |-> d, shift |-> s, ctrl |-> t, alt |-> v, caps |-> u, extended |-> e]
  BY <1>1 DEF WithAlt
<1>5. WithCaps(k, v)
         = [data |-> d, shift |-> s, ctrl |-> t, alt |-> a, caps |-> v, extended |-> e]
  BY <1>1 DEF WithCaps
<1>6. WithExtended(k, v)
         = [data |-> d, shift |-> s, ctrl |-> t, alt |-> a, caps |-> u, extended |-> v]
  BY <1>1 DEF WithExtended
<1>7. WithData(k, v)
         = [data |-> v, shift |-> s, ctrl |-> t, alt |-> a, caps |-> u, extended |-> e]
  BY <1>1 DEF WithData
<1>. QED
  BY <1>1, <1>2, <1>3, <1>4, <1>5, <1>6, <1>7 DEF IsDriver, Flags

LEMMA PutKeyEffect ==
    ASSUME NEW k, IsDriver(k), NEW c
    PROVE  Flags(PutKey(k, c), k.shift, k.ctrl, k.alt, k.extended)
<1>. DEFINE more == Append(k.data, c)
<1>1. PutKey(k, c) = k \/ PutKey(k, c) = WithData(k, more)
  BY DEF PutKey, WithData
<1>. HIDE DEF more
<1>. QED
  BY <1>1, FieldEffect DEF Flags

\* A byte of a key sets the flag of that key, a prefix only says what follows.
RightAfter(r, k, b) ==
    /\ IsDriver(r)
    /\ r.extended = (b = Prefix)
    /\ r.shift = IF b.key \in Shifts THEN b.make ELSE k.shift
    /\ r.ctrl = IF b.key \in Ctrls THEN b.make ELSE k.ctrl
    /\ r.alt = IF b.key \in Alts THEN b.make ELSE k.alt

LEMMA KeyByteEffect ==
    ASSUME NEW k, IsDriver(k), NEW b \in KeyBytes, k.extended \in BOOLEAN,
           k.extended <=> b.key \in Extended
    PROVE  RightAfter(KeyByte(k, b), k, b)
<1>1. CASE b = Prefix
  <2>1. b.key \notin Shifts /\ b.key \notin Ctrls /\ b.key \notin Alts
    BY <1>1 DEF Prefix, Shifts, Ctrls, Alts
  <2>2. KeyByte(k, b) = WithExtended(k, TRUE)
    BY <1>1 DEF KeyByte, WithExtended
  <2>3. Flags(KeyByte(k, b), k.shift, k.ctrl, k.alt, TRUE)
    BY <2>2, FieldEffect
  <2>. QED
    BY <1>1, <2>1, <2>3 DEF Flags, RightAfter
<1>2. CASE b # Prefix /\ b.key \in Extended
  <2>. DEFINE j == WithExtended(k, FALSE)
  <2>1. Flags(j, k.shift, k.ctrl, k.alt, FALSE)
    BY FieldEffect
  <2>2. KeyByte(k, b) = AfterPrefix(j, b)
    BY <1>2 DEF KeyByte, WithExtended
  <2>3. b.key \notin Shifts /\ b.key \notin Alts /\ (b.key \in Ctrls <=> b.key = "rctrl")
    BY <1>2 DEF Extended, Shifts, Ctrls, Alts
  <2>. HIDE DEF j
  <2>4. IsDriver(j)
    BY <2>1 DEF Flags
  <2>5. CASE b.key = "rctrl"
    <3>1. AfterPrefix(j, b) = WithCtrl(j, b.make)
      BY <2>5 DEF AfterPrefix, WithCtrl
    <3>2. Flags(KeyByte(k, b), j.shift, b.make, j.alt, j.extended)
      BY <2>2, <2>4, <3>1, FieldEffect
    <3>. QED
      BY <1>2, <2>1, <2>3, <2>5, <3>2 DEF Flags, RightAfter
  <2>6. CASE b.key # "rctrl"
    <3>1. AfterPrefix(j, b) = j \/ AfterPrefix(j, b) = PutKey(j, "page")
      BY <2>6 DEF AfterPrefix
    <3>2. Flags(KeyByte(k, b), j.shift, j.ctrl, j.alt, j.extended)
      BY <2>2, <2>4, <3>1, PutKeyEffect DEF Flags
    <3>. QED
      BY <1>2, <2>1, <2>3, <2>6, <3>2 DEF Flags, RightAfter
  <2>. QED
    BY <2>5, <2>6
<1>3. CASE b # Prefix /\ b.key \notin Extended
  <2>1. KeyByte(k, b) = PlainByte(k, b) /\ k.extended = FALSE
    BY <1>3 DEF KeyByte
  <2>2. CASE b.key \in Shifts
    <3>1. PlainByte(k, b) = WithShift(k, b.make)
      BY <2>2 DEF PlainByte, Shifts, WithShift
    <3>2. b.key \notin Ctrls /\ b.key \notin Alts
      BY <2>2 DEF Shifts, Ctrls, Alts
    <3>3. Flags(KeyByte(k, b), b.make, k.ctrl, k.alt, k.extended)
      BY <2>1, <3>1, FieldEffect
    <3>. QED
      BY <1>3, <2>1, <2>2, <3>2, <3>3 DEF Flags, RightAfter
  <2>3. CASE b.key = "lctrl"
    <3>1. PlainByte(k, b) = WithCtrl(k, b.make)
      BY <2>3 DEF PlainByte, WithCtrl
    <3>2. b.key \notin Shifts /\ b.key \in Ctrls /\ b.key \notin Alts
      BY <2>3 DEF Shifts, Ctrls, Alts
    <3>3. Flags(KeyByte(k, b), k.shift, b.make, k.alt, k.extended)
      BY <2>1, <3>1, FieldEffect
    <3>. QED
      BY <1>3, <2>1, <3>2, <3>3 DEF Flags, RightAfter
  <2>4. CASE b.key = "lalt"
    <3>1. PlainByte(k, b) = WithAlt(k, b.make)
      BY <2>4 DEF PlainByte, WithAlt
    <3>2. b.key \notin Shifts /\ b.key \notin Ctrls /\ b.key \in Alts
      BY <2>4 DEF Shifts, Ctrls, Alts
    <3>3. Flags(KeyByte(k, b), k.shift, k.ctrl, b.make, k.extended)
      BY <2>1, <3>1, FieldEffect
    <3>. QED
      BY <1>3, <2>1, <3>2, <3>3 DEF Flags, RightAfter
  <2>5. CASE b.key \notin Shifts /\ b.key # "lctrl" /\ b.key # "lalt"
    <3>. DEFINE caps == ~k.caps
    <3>1. \/ PlainByte(k, b) = PutKey(k, "altf4")
          \/ PlainByte(k, b) = WithCaps(k, caps)
          \/ PlainByte(k, b) = PutKey(k, Char(k, b.key))
          \/ PlainByte(k, b) = k
      BY <2>5 DEF PlainByte, Shifts, WithCaps
    <3>2. b.key \notin Ctrls /\ b.key \notin Alts
      BY <1>3, <2>5 DEF Ctrls, Alts, Extended
    <3>. HIDE DEF caps
    <3>3. Flags(KeyByte(k, b), k.shift, k.ctrl, k.alt, k.extended)
      BY <2>1, <3>1, FieldEffect, PutKeyEffect DEF Flags
    <3>. QED
      BY <1>3, <2>1, <2>5, <3>2, <3>3 DEF Flags, RightAfter
  <2>. QED
    BY <2>2, <2>3, <2>4, <2>5
<1>. QED
  BY <1>1, <1>2, <1>3

-----------------------------------------------------------------------------
(* The steps. *)

LEMMA KeyInit == InputInit => KeyboardInv
<1>. SUFFICES ASSUME InputInit PROVE KeyboardInv
  OBVIOUS
<1>1. kb = [data |-> <<>>, shift |-> FALSE, ctrl |-> FALSE, alt |-> FALSE, caps |-> FALSE, extended |-> FALSE]
  BY DEF InputInit
<1>2. IsDriver(kb) /\ kb.shift = FALSE /\ kb.ctrl = FALSE /\ kb.alt = FALSE /\ kb.extended = FALSE
  BY <1>1 DEF IsDriver
<1>3. kbLine = <<>> /\ Len(kbLine) = 0 /\ kbLine \in Seq(KeyBytes)
  BY DEF InputInit
<1>4. Paired(kbLine, kb.extended)
  BY <1>2, <1>3 DEF Paired
<1>5. \A mods : FlagFollows(kbLine, FALSE, mods, down)
  BY <1>3 DEF FlagFollows
<1>. QED
  BY <1>2, <1>3, <1>4, <1>5 DEF KeyboardInv

LEMMA KeyChangesStep == ASSUME KeyboardInv, NEW key \in Key, KeyChanges(key) PROVE KeyboardInv'
<1>. DEFINE bytes == BytesOf(key, key \notin down)
<1>1. /\ down' = IF key \in down THEN down \ {key} ELSE down \cup {key}
      /\ kbLine' = kbLine \o bytes /\ kb' = kb
  BY DEF KeyChanges
<1>2. SentBy(bytes, key, key \notin down)
  <2>. DEFINE make == key \notin down
  <2>1. make \in BOOLEAN
    OBVIOUS
  <2>. HIDE DEF make
  <2>2. SentBy(BytesOf(key, make), key, make)
    BY <2>1, BytesOfKey
  <2>. QED
    BY <2>2 DEF make
<1>3. "E0" \notin Shifts /\ "E0" \notin Ctrls /\ "E0" \notin Alts
  BY DEF Shifts, Ctrls, Alts
<1>. HIDE DEF bytes
<1>4. kbLine \in Seq(KeyBytes) /\ kbLine' \in Seq(KeyBytes)
  BY <1>1, <1>2 DEF KeyboardInv, SentBy
<1>5. Paired(kbLine', kb.extended)
  <2>1. CASE kbLine # <<>>
    BY <1>1, <1>2, <1>4, <2>1, PairedAfterKey DEF KeyboardInv, SentBy
  <2>2. CASE kbLine = <<>>
    BY <1>1, <1>2, <2>2, PairedFirstKey DEF KeyboardInv, SentBy
  <2>. QED
    BY <2>1, <2>2
<1>6. ASSUME NEW on, NEW mods, "E0" \notin mods, FlagFollows(kbLine, on, mods, down)
      PROVE  FlagFollows(kbLine', on, mods, down')
  <2>1. \A i \in 1 .. Len(bytes) : i < Len(bytes) => bytes[i].key \notin mods
    BY <1>2, <1>6 DEF SentBy
  <2>. QED
    BY <1>1, <1>2, <1>4, <1>6, <2>1, FlagAfterKey DEF SentBy
<1>7. /\ FlagFollows(kbLine', kb.shift, Shifts, down')
      /\ FlagFollows(kbLine', kb.ctrl, Ctrls, down')
      /\ FlagFollows(kbLine', kb.alt, Alts, down')
  BY <1>3, <1>6 DEF KeyboardInv
<1>. QED
  BY <1>1, <1>4, <1>5, <1>7 DEF KeyboardInv

LEMMA KeyboardIrqStep == ASSUME KeyboardInv, KeyboardIrq PROVE KeyboardInv'
<1>. DEFINE b == kbLine[1]
<1>1. /\ kbLine # <<>> /\ kbLine \in Seq(KeyBytes) /\ b \in KeyBytes /\ 1 \in 1 .. Len(kbLine)
      /\ kb' = KeyByte(kb, b) /\ kbLine' = Tail(kbLine) /\ down' = down
  BY DEF KeyboardIrq, KeyboardInv
<1>. HIDE DEF b
<1>2. kbLine' \in Seq(KeyBytes)
  BY <1>1
<1>3. kb.extended \in BOOLEAN /\ (kb.extended <=> b.key \in Extended) /\ IsDriver(kb)
  BY <1>1 DEF KeyboardInv, Paired, b
<1>4. /\ IsDriver(kb') /\ kb'.extended = (b = Prefix)
      /\ kb'.shift = IF b.key \in Shifts THEN b.make ELSE kb.shift
      /\ kb'.ctrl = IF b.key \in Ctrls THEN b.make ELSE kb.ctrl
      /\ kb'.alt = IF b.key \in Alts THEN b.make ELSE kb.alt
  BY <1>1, <1>3, KeyByteEffect DEF RightAfter
<1>5. b.make \in BOOLEAN
  <2>1. CASE b = Prefix
    <3>1. Prefix.make = TRUE
      BY DEF Prefix
    <3>. QED
      BY <2>1, <3>1
  <2>2. CASE b \in [key : Key, make : BOOLEAN]
    BY <2>2
  <2>. QED
    BY <1>1, <2>1, <2>2 DEF KeyBytes
<1>6. Paired(kbLine', kb'.extended)
  BY <1>1, <1>4, PairedAfterByte DEF KeyboardInv, b
<1>7. /\ FlagFollows(kbLine', kb'.shift, Shifts, down)
      /\ FlagFollows(kbLine', kb'.ctrl, Ctrls, down)
      /\ FlagFollows(kbLine', kb'.alt, Alts, down)
  BY <1>1, <1>4, FlagAfterByte DEF KeyboardInv, b
<1>8. {kb'.shift, kb'.ctrl, kb'.alt, kb'.extended} \subseteq BOOLEAN
  BY <1>4, <1>5 DEF KeyboardInv
<1>. QED
  BY <1>1, <1>2, <1>4, <1>6, <1>7, <1>8 DEF KeyboardInv

LEMMA KeyboardReadStep == ASSUME KeyboardInv, NEW len, KeyboardRead(len) PROVE KeyboardInv'
<1>1. PICK d : kb' = WithData(kb, d) /\ kbLine' = kbLine /\ down' = down
  BY DEF KeyboardRead, WithData
<1>2. /\ IsDriver(kb') /\ kb'.shift = kb.shift /\ kb'.ctrl = kb.ctrl
      /\ kb'.alt = kb.alt /\ kb'.extended = kb.extended
  BY <1>1, FieldEffect DEF KeyboardInv, Flags
<1>. QED
  BY <1>1, <1>2 DEF KeyboardInv

\* The inductive invariant of the keyboard: the bytes on the line account for
\* whatever the flags of the driver and the keys held have apart.
THEOREM KeyboardInvariant == InputSpec => []KeyboardInv
<1>1. KeyboardInv /\ [InputNext]_inputVars => KeyboardInv'
  <2>. SUFFICES ASSUME KeyboardInv, [InputNext]_inputVars PROVE KeyboardInv'
    OBVIOUS
  <2>1. CASE UNCHANGED inputVars
    BY <2>1 DEF KeyboardInv, inputVars, kbVars
  <2>2. CASE KeyboardNext
    BY <2>2, KeyChangesStep, KeyboardIrqStep, KeyboardReadStep DEF KeyboardNext
  <2>3. CASE MouseNext
    BY <2>3 DEF MouseNext, MouseSends, MouseIrq, MouseLoses, KeyboardInv, kbVars
  <2>. QED
    BY <2>1, <2>2, <2>3 DEF InputNext
<1>. QED
  BY <1>1, KeyInit, PTL DEF InputSpec

\* keyboard.c:83-172: when every byte has been taken no modifier is on unless
\* one of its keys is held.
THEOREM ModifiersNeverStick == InputSpec => []NoStuckModifier
<1>1. KeyboardInv => NoStuckModifier
  <2>. SUFFICES ASSUME KeyboardInv, kbLine = <<>>
                PROVE  /\ kb.shift => down \cap Shifts # {}
                       /\ kb.ctrl => down \cap Ctrls # {}
                       /\ kb.alt => "lalt" \in down
                       /\ ~kb.extended
    BY DEF NoStuckModifier, Shifts, Ctrls
  <2>1. Len(kbLine) = 0
    OBVIOUS
  <2>2. /\ kb.shift => down \cap Shifts # {}
        /\ kb.ctrl => down \cap Ctrls # {}
        /\ kb.alt => down \cap Alts # {}
    BY <2>1 DEF KeyboardInv, FlagFollows
  <2>. QED
    BY <2>2 DEF KeyboardInv, Paired, Alts
<1>. QED
  BY <1>1, KeyboardInvariant, PTL

-----------------------------------------------------------------------------
(* The mouse.                                                              *)

\* The place of a byte in all that the mouse sends.
Serial(b) == 3 * b.of + b.pos

\* A byte of a movement that looks like a first byte.
Noise(b) == b.pos # 1 /\ b.bit3

MouseBytes ==
    {b \in [of : Nat, pos : 1 .. 3, bit3 : BOOLEAN, overflow : BOOLEAN, delta : Int] :
        b.pos = 1 => b.bit3}

Noises(s) == {Serial(s[i]) : i \in {j \in 1 .. Len(s) : Noise(s[j])}}

\* The byte the driver is to take next.
Upcoming(line, n) == 3 * n + 1 - Len(line)

Ascending(p, next) ==
    /\ \A i \in 1 .. Len(p) : Serial(p[i]) < next
    /\ \A i, j \in 1 .. Len(p) : i < j => Serial(p[i]) < Serial(p[j])

InLine(line, next) == \A i \in 1 .. Len(line) : Serial(line[i]) = next + i - 1

\* A byte behind the first one of a packet was lost: the driver is out of step
\* and does not know.
Missed(p, next) ==
    \E i, j \in 1 .. Len(p) :
        p[i].pos = 1 /\ i <= j /\ Serial(p[j]) # next - Len(p) - 1 + j

\* All wrong events are paid for: by noise, or by the loss of a byte.
Paid(p, line, next, paid, events) ==
    /\ IsFiniteSet(Noises(p) \cup Noises(line))
    /\ events + Cardinality(Noises(p) \cup Noises(line)) + (IF Missed(p, next) THEN 1 ELSE 0) <= paid

MouseInv ==
    /\ packet \in Seq(MouseBytes) /\ Len(packet) <= 2
    /\ mouseLine \in Seq(MouseBytes) /\ {sent, lost, noisy, wrong} \subseteq Nat
    /\ Ascending(packet, Upcoming(mouseLine, sent))
    /\ InLine(mouseLine, Upcoming(mouseLine, sent))
    /\ Paid(packet, mouseLine, Upcoming(mouseLine, sent), lost + noisy, wrong)

LEMMA InNoises ==
    ASSUME NEW s, NEW x
    PROVE  x \in Noises(s) <=> \E i \in 1 .. Len(s) : Noise(s[i]) /\ Serial(s[i]) = x
BY DEF Noises

LEMMA SerialIsInt == ASSUME NEW b \in MouseBytes PROVE Serial(b) \in Int /\ b.pos \in 1 .. 3 /\ b.of \in Nat
BY DEF MouseBytes, Serial

\* Fewer noises, and the same for the rest.
LEMMA PaidLess ==
    ASSUME NEW p, NEW line, NEW next, NEW paid \in Nat, NEW events \in Nat,
           Paid(p, line, next, paid, events),
           NEW p2, NEW line2, NEW next2, NEW paid2 \in Nat, NEW events2 \in Nat,
           Noises(p2) \cup Noises(line2) \subseteq Noises(p) \cup Noises(line),
           events2 - paid2 + (IF Missed(p2, next2) THEN 1 ELSE 0)
              <= events - paid + (IF Missed(p, next) THEN 1 ELSE 0)
    PROVE  Paid(p2, line2, next2, paid2, events2)
<1>. DEFINE A == Noises(p) \cup Noises(line)
            B == Noises(p2) \cup Noises(line2)
            m == IF Missed(p, next) THEN 1 ELSE 0
            m2 == IF Missed(p2, next2) THEN 1 ELSE 0
<1>1. IsFiniteSet(A) /\ events + Cardinality(A) + m <= paid /\ B \subseteq A
  BY DEF Paid
<1>2. m \in Nat /\ m2 \in Nat /\ events2 - paid2 + m2 <= events - paid + m
  OBVIOUS
<1>. HIDE DEF A, B, m, m2
<1>3. IsFiniteSet(B) /\ Cardinality(B) <= Cardinality(A)
  BY <1>1, FS_Subset
<1>4. Cardinality(A) \in Nat /\ Cardinality(B) \in Nat
  BY <1>1, <1>3, FS_CardinalityType
<1>5. events2 + Cardinality(B) + m2 <= paid2
  BY <1>1, <1>2, <1>3, <1>4
<1>. QED
  BY <1>3, <1>5 DEF Paid, B, m2

\* One noise is used up, and pays for an event.
LEMMA PaidByNoise ==
    ASSUME NEW p, NEW line, NEW next, NEW paid \in Nat, NEW events \in Nat,
           Paid(p, line, next, paid, events),
           NEW p2, NEW line2, NEW next2, ~Missed(p2, next2),
           NEW x \in Noises(p) \cup Noises(line),
           Noises(p2) \cup Noises(line2) \subseteq (Noises(p) \cup Noises(line)) \ {x}
    PROVE  Paid(p2, line2, next2, paid, events + 1)
<1>. DEFINE A == Noises(p) \cup Noises(line)
            B == Noises(p2) \cup Noises(line2)
            m == IF Missed(p, next) THEN 1 ELSE 0
<1>1. IsFiniteSet(A) /\ events + Cardinality(A) + m <= paid /\ B \subseteq A \ {x} /\ x \in A
  BY DEF Paid
<1>2. m \in Nat
  OBVIOUS
<1>. HIDE DEF A, B, m
<1>3. IsFiniteSet(A \ {x}) /\ Cardinality(A \ {x}) = Cardinality(A) - 1
  BY <1>1, FS_RemoveElement
<1>4. IsFiniteSet(B) /\ Cardinality(B) <= Cardinality(A \ {x})
  BY <1>1, <1>3, FS_Subset
<1>5. Cardinality(A) \in Nat /\ Cardinality(B) \in Nat
  BY <1>1, <1>4, FS_CardinalityType
<1>6. events + 1 + Cardinality(B) + 0 <= paid
  BY <1>1, <1>2, <1>3, <1>4, <1>5
<1>. QED
  BY <1>4, <1>6 DEF Paid, B

\* The line without its first byte.
LEMMA LineTail ==
    ASSUME NEW line \in Seq(MouseBytes), line # <<>>, NEW n \in Nat,
           InLine(line, Upcoming(line, n))
    PROVE  /\ Tail(line) \in Seq(MouseBytes)
           /\ Upcoming(Tail(line), n) = Upcoming(line, n) + 1 /\ Upcoming(line, n) \in Int
           /\ InLine(Tail(line), Upcoming(Tail(line), n))
           /\ Head(line) \in MouseBytes /\ Serial(Head(line)) = Upcoming(line, n)
           /\ \A x \in Noises(Tail(line)) : x \in Noises(line) /\ x > Upcoming(line, n)
           /\ \A x \in Noises(line) : x \in Noises(Tail(line)) \/ (Noise(Head(line)) /\ x = Upcoming(line, n))
           /\ Noise(Head(line)) => Upcoming(line, n) \in Noises(line)
<1>. DEFINE t == Tail(line)
<1>1. /\ Len(line) \in Nat \ {0} /\ t \in Seq(MouseBytes) /\ Len(t) = Len(line) - 1
      /\ \A i \in 1 .. Len(t) : t[i] = line[i + 1]
      /\ Head(line) = line[1] /\ line[1] \in MouseBytes
  OBVIOUS
<1>. HIDE DEF t
<1>2. Upcoming(t, n) = Upcoming(line, n) + 1 /\ Upcoming(line, n) \in Int
  BY <1>1 DEF Upcoming
<1>. DEFINE u == Upcoming(line, n)
<1>3. \A i \in 1 .. Len(line) : Serial(line[i]) = u + i - 1
  BY DEF InLine
<1>4. \A i \in 1 .. Len(t) : i + 1 \in 1 .. Len(line) /\ Serial(t[i]) = u + i
  <2>. SUFFICES ASSUME NEW i \in 1 .. Len(t)
                PROVE  i + 1 \in 1 .. Len(line) /\ Serial(t[i]) = u + i
    OBVIOUS
  <2>1. i + 1 \in 1 .. Len(line) /\ t[i] = line[i + 1]
    BY <1>1
  <2>2. Serial(line[i + 1]) = u + (i + 1) - 1
    BY <1>3, <2>1
  <2>3. u \in Int /\ i \in Int
    BY <1>2
  <2>. HIDE DEF u
  <2>4. u + (i + 1) - 1 = u + i
    BY <2>3
  <2>. QED
    BY <2>1, <2>2, <2>4
<1>5. InLine(t, Upcoming(t, n))
  BY <1>2, <1>4 DEF InLine
<1>6. Serial(line[1]) = u
  BY <1>1, <1>2, <1>3
<1>. HIDE DEF u
<1>7. ASSUME NEW x \in Noises(t) PROVE x \in Noises(line) /\ x > u
  <2>1. PICK i \in 1 .. Len(t) : Noise(t[i]) /\ Serial(t[i]) = x
    BY <1>7, InNoises
  <2>2. i + 1 \in 1 .. Len(line) /\ Noise(line[i + 1]) /\ Serial(line[i + 1]) = x
    BY <1>1, <1>4, <2>1
  <2>3. x \in Noises(line)
    BY <2>2, InNoises
  <2>4. x > u
    BY <1>2, <1>4, <2>1 DEF u
  <2>. QED
    BY <2>3, <2>4
<1>8. ASSUME NEW x \in Noises(line) PROVE x \in Noises(t) \/ (Noise(line[1]) /\ x = u)
  <2>1. PICK i \in 1 .. Len(line) : Noise(line[i]) /\ Serial(line[i]) = x
    BY <1>8, InNoises
  <2>2. CASE i = 1
    BY <1>6, <2>1, <2>2
  <2>3. CASE i # 1
    <3>1. i - 1 \in 1 .. Len(t) /\ t[i - 1] = line[i]
      BY <1>1, <2>3
    <3>. QED
      BY <2>1, <3>1, InNoises
  <2>. QED
    BY <2>2, <2>3
<1>9. Noise(line[1]) => u \in Noises(line)
  BY <1>1, <1>6, InNoises
<1>. QED
  BY <1>1, <1>2, <1>5, <1>6, <1>7, <1>8, <1>9 DEF t, u

\* The packet with another byte, the upcoming one.
LEMMA PacketGrows ==
    ASSUME NEW p \in Seq(MouseBytes), NEW b \in MouseBytes, NEW next \in Int,
           Ascending(p, next), Serial(b) = next
    PROVE  /\ Append(p, b) \in Seq(MouseBytes) /\ Len(Append(p, b)) = Len(p) + 1
           /\ Ascending(Append(p, b), next + 1)
           /\ Missed(Append(p, b), next + 1) => Missed(p, next)
           /\ \A x : x \in Noises(Append(p, b)) => x \in Noises(p) \/ (Noise(b) /\ x = next)
<1>. DEFINE q == Append(p, b)
<1>1. /\ Len(p) \in Nat /\ q \in Seq(MouseBytes) /\ Len(q) = Len(p) + 1
      /\ \A i \in 1 .. Len(p) : q[i] = p[i]
      /\ q[Len(p) + 1] = b
  OBVIOUS
<1>. HIDE DEF q
<1>2. \A i \in 1 .. Len(q) : i \in 1 .. Len(p) \/ i = Len(p) + 1
  BY <1>1
<1>3. \A i \in 1 .. Len(p) : Serial(p[i]) \in Int
  BY SerialIsInt
<1>4. Ascending(q, next + 1)
  <2>1. \A i \in 1 .. Len(q) : Serial(q[i]) < next + 1
    BY <1>1, <1>2, <1>3 DEF Ascending
  <2>2. ASSUME NEW i \in 1 .. Len(q), NEW j \in 1 .. Len(q), i < j PROVE Serial(q[i]) < Serial(q[j])
    <3>1. i \in 1 .. Len(p)
      BY <1>1, <2>2
    <3>. QED
      BY <1>1, <1>2, <3>1, <2>2 DEF Ascending
  <2>. QED
    BY <2>1, <2>2 DEF Ascending
<1>5. ASSUME Missed(q, next + 1) PROVE Missed(p, next)
  <2>1. PICK i, j \in 1 .. Len(q) :
          q[i].pos = 1 /\ i <= j /\ Serial(q[j]) # (next + 1) - Len(q) - 1 + j
    BY <1>5 DEF Missed
  <2>2. j # Len(p) + 1
    BY <1>1, <2>1
  <2>3. i \in 1 .. Len(p) /\ j \in 1 .. Len(p)
    BY <1>1, <2>1, <2>2
  <2>4. p[i].pos = 1 /\ i <= j /\ Serial(p[j]) # next - Len(p) - 1 + j
    BY <1>1, <2>1, <2>3
  <2>. QED
    BY <2>3, <2>4 DEF Missed
<1>6. ASSUME NEW x \in Noises(q) PROVE x \in Noises(p) \/ (Noise(b) /\ x = next)
  <2>1. PICK i \in 1 .. Len(q) : Noise(q[i]) /\ Serial(q[i]) = x
    BY <1>6, InNoises
  <2>2. CASE i \in 1 .. Len(p)
    BY <1>1, <2>1, <2>2, InNoises
  <2>3. CASE i = Len(p) + 1
    BY <1>1, <2>1, <2>3
  <2>. QED
    BY <1>2, <2>2, <2>3
<1>. QED
  BY <1>1, <1>4, <1>5, <1>6 DEF q

\* Bytes dropped at the front.
LEMMA PacketDrops ==
    ASSUME NEW p \in Seq(MouseBytes), NEW next \in Int, Ascending(p, next), NEW k \in 1 .. Len(p)
    PROVE  /\ SubSeq(p, k, Len(p)) \in Seq(MouseBytes)
           /\ Len(SubSeq(p, k, Len(p))) = Len(p) - k + 1
           /\ Ascending(SubSeq(p, k, Len(p)), next)
           /\ Missed(SubSeq(p, k, Len(p)), next) => Missed(p, next)
           /\ Noises(SubSeq(p, k, Len(p))) \subseteq Noises(p)
<1>. DEFINE q == SubSeq(p, k, Len(p))
<1>1. /\ Len(p) \in Nat /\ q \in Seq(MouseBytes) /\ Len(q) = Len(p) - k + 1
      /\ \A i \in 1 .. Len(q) : q[i] = p[k + i - 1] /\ k + i - 1 \in 1 .. Len(p)
  OBVIOUS
<1>. HIDE DEF q
<1>2. Ascending(q, next)
  <2>1. \A i \in 1 .. Len(q) : Serial(q[i]) < next
    BY <1>1 DEF Ascending
  <2>2. ASSUME NEW i \in 1 .. Len(q), NEW j \in 1 .. Len(q), i < j PROVE Serial(q[i]) < Serial(q[j])
    <3>1. k + i - 1 < k + j - 1
      BY <2>2
    <3>. QED
      BY <1>1, <3>1 DEF Ascending
  <2>. QED
    BY <2>1, <2>2 DEF Ascending
<1>3. ASSUME Missed(q, next) PROVE Missed(p, next)
  <2>1. PICK i, j \in 1 .. Len(q) :
          q[i].pos = 1 /\ i <= j /\ Serial(q[j]) # next - Len(q) - 1 + j
    BY <1>3 DEF Missed
  <2>. DEFINE a == k + i - 1
              c == k + j - 1
  <2>2. a \in 1 .. Len(p) /\ c \in 1 .. Len(p) /\ a <= c /\ q[i] = p[a] /\ q[j] = p[c]
    BY <1>1, <2>1
  <2>3. next - Len(q) - 1 + j = next - Len(p) - 1 + c
    BY <1>1
  <2>. HIDE DEF a, c
  <2>. QED
    BY <2>1, <2>2, <2>3 DEF Missed
<1>4. ASSUME NEW x \in Noises(q) PROVE x \in Noises(p)
  <2>1. PICK i \in 1 .. Len(q) : Noise(q[i]) /\ Serial(q[i]) = x
    BY <1>4, InNoises
  <2>2. Noise(p[k + i - 1]) /\ Serial(p[k + i - 1]) = x /\ k + i - 1 \in 1 .. Len(p)
    BY <1>1, <2>1
  <2>. QED
    BY <2>2, InNoises
<1>. QED
  BY <1>1, <1>2, <1>3, <1>4 DEF q

LEMMA NoBytes ==
    ASSUME NEW next
    PROVE  <<>> \in Seq(MouseBytes) /\ Len(<<>>) = 0 /\ Noises(<<>>) = {}
           /\ Ascending(<<>>, next) /\ ~Missed(<<>>, next)
BY DEF Noises, Ascending, Missed

\* Three bytes in step are in order.
LEMMA InStep ==
    ASSUME NEW p \in Seq(MouseBytes), Len(p) = 3, NEW next \in Int, ~Missed(p, next), p[1].pos = 1
    PROVE  InOrder(p)
<1>1. \A j \in 1 .. 3 : Serial(p[j]) = next - 3 - 1 + j
  BY DEF Missed
<1>2. \A j \in 1 .. 3 : p[j].of \in Nat /\ p[j].pos \in 1 .. 3
  <2>1. ASSUME NEW j \in 1 .. 3 PROVE p[j] \in MouseBytes
    <3>1. j \in 1 .. Len(p)
      OBVIOUS
    <3>. HIDE DEF MouseBytes
    <3>. QED
      BY <3>1, ElementOfSeq
  <2>. QED
    BY <2>1, SerialIsInt
<1>3. ASSUME NEW j \in 1 .. 3 PROVE p[j].of = p[1].of /\ p[j].pos = j
  <2>. DEFINE m == p[j].of
              k == p[j].pos
              o == p[1].of
  <2>1. Serial(p[j]) = next - 3 - 1 + j /\ Serial(p[1]) = next - 3 - 1 + 1
    BY <1>1
  <2>2. m \in Nat /\ o \in Nat /\ k \in 1 .. 3
    BY <1>2
  <2>3. 3 * m + k = next - 3 - 1 + j /\ 3 * o + 1 = next - 3 - 1 + 1
    BY <2>1 DEF Serial
  <2>. HIDE DEF m, k, o
  <2>4. 3 * m + k = 3 * o + j
    BY <2>2, <2>3
  <2>5. m = o /\ k = j
    BY <2>2, <2>4
  <2>. QED
    BY <2>5 DEF m, k, o
<1>. QED
  BY <1>3 DEF InOrder

LEMMA MouseLosesInv == ASSUME MouseInv, MouseLoses PROVE MouseInv'
<1>. DEFINE u == Upcoming(mouseLine, sent)
<1>1. /\ mouseLine # <<>> /\ mouseLine' = Tail(mouseLine) /\ lost' = lost + 1
      /\ UNCHANGED <<packet, sent, noisy, wrong>>
  BY DEF MouseLoses
<1>2. /\ mouseLine' \in Seq(MouseBytes) /\ Upcoming(mouseLine', sent) = u + 1 /\ u \in Int
      /\ InLine(mouseLine', u + 1)
      /\ Noises(mouseLine') \subseteq Noises(mouseLine)
  BY <1>1, LineTail DEF MouseInv
<1>. HIDE DEF u
<1>3. Ascending(packet, u + 1)
  <2>1. \A i \in 1 .. Len(packet) : Serial(packet[i]) \in Int
    BY SerialIsInt DEF MouseInv
  <2>2. Ascending(packet, u)
    BY DEF MouseInv, u
  <2>3. ASSUME NEW i \in 1 .. Len(packet) PROVE Serial(packet[i]) < u + 1
    <3>1. Serial(packet[i]) < u /\ Serial(packet[i]) \in Int
      BY <2>1, <2>2 DEF Ascending
    <3>. QED
      BY <1>2, <3>1
  <2>. QED
    BY <2>2, <2>3 DEF Ascending
<1>4. Paid(packet, mouseLine', u + 1, lost + 1 + noisy, wrong)
  <2>. DEFINE before == lost + noisy
              after == lost + 1 + noisy
  <2>1. Paid(packet, mouseLine, u, before, wrong)
    BY DEF MouseInv, u
  <2>2. before \in Nat /\ after = before + 1 /\ wrong \in Nat
    BY DEF MouseInv
  <2>. HIDE DEF before, after
  <2>3. after \in Nat
        /\ wrong - after + (IF Missed(packet, u + 1) THEN 1 ELSE 0)
             <= wrong - before + (IF Missed(packet, u) THEN 1 ELSE 0)
    BY <2>2
  <2>4. Noises(packet) \cup Noises(mouseLine') \subseteq Noises(packet) \cup Noises(mouseLine)
    BY <1>2
  <2>. QED
    <3>1. Paid(packet, mouseLine', u + 1, after, wrong)
      BY <2>1, <2>2, <2>3, <2>4, PaidLess
    <3>. QED
      BY <3>1 DEF after
<1>. QED
  BY <1>1, <1>2, <1>3, <1>4 DEF MouseInv

LEMMA MouseIrqInv == ASSUME MouseInv, MouseIrq PROVE MouseInv'
<1>. DEFINE u == Upcoming(mouseLine, sent)
            b == Head(mouseLine)
            bytes == Append(packet, b)
<1>1. /\ mouseLine # <<>> /\ mouseLine' = Tail(mouseLine)
      /\ UNCHANGED <<sent, lost, noisy>>
      /\ IF Len(bytes) < 3 THEN packet' = bytes /\ UNCHANGED <<pointer, wrong>> ELSE Decoded(bytes)
  BY DEF MouseIrq
<1>2. /\ mouseLine' \in Seq(MouseBytes) /\ Upcoming(mouseLine', sent) = u + 1 /\ u \in Int
      /\ InLine(mouseLine', u + 1) /\ b \in MouseBytes /\ Serial(b) = u
      /\ \A x \in Noises(mouseLine') : x \in Noises(mouseLine) /\ x > u
      /\ Noise(b) => u \in Noises(mouseLine)
  BY <1>1, LineTail DEF MouseInv
<1>3. /\ packet \in Seq(MouseBytes) /\ Len(packet) \in Nat /\ Len(packet) <= 2
      /\ Ascending(packet, u) /\ Paid(packet, mouseLine, u, lost + noisy, wrong)
      /\ sent \in Nat /\ lost \in Nat /\ noisy \in Nat /\ wrong \in Nat /\ lost + noisy \in Nat
  BY DEF MouseInv
<1>. HIDE DEF u, b
<1>4. /\ bytes \in Seq(MouseBytes) /\ Len(bytes) = Len(packet) + 1
      /\ Ascending(bytes, u + 1)
      /\ Missed(bytes, u + 1) => Missed(packet, u)
      /\ \A x : x \in Noises(bytes) => x \in Noises(packet) \/ (Noise(b) /\ x = u)
  BY <1>2, <1>3, PacketGrows
<1>. HIDE DEF bytes
<1>5. Noises(bytes) \subseteq Noises(packet) \cup Noises(mouseLine)
  BY <1>2, <1>4
<1>6. ASSUME packet' \in Seq(MouseBytes), Len(packet') <= 2, Ascending(packet', u + 1),
             Missed(packet', u + 1) => Missed(bytes, u + 1),
             Noises(packet') \subseteq Noises(bytes), wrong' = wrong
      PROVE  MouseInv'
  <2>1. Noises(packet') \cup Noises(mouseLine') \subseteq Noises(packet) \cup Noises(mouseLine)
    BY <1>2, <1>5, <1>6
  <2>2. wrong - (lost + noisy) + (IF Missed(packet', u + 1) THEN 1 ELSE 0)
           <= wrong - (lost + noisy) + (IF Missed(packet, u) THEN 1 ELSE 0)
    BY <1>3, <1>4, <1>6
  <2>3. Paid(packet', mouseLine', u + 1, lost + noisy, wrong)
    BY <1>3, <2>1, <2>2, PaidLess
  <2>. QED
    BY <1>1, <1>2, <1>3, <1>6, <2>3 DEF MouseInv
<1>7. CASE Len(bytes) < 3
  BY <1>1, <1>4, <1>6, <1>7
<1>8. CASE Len(bytes) = 3 /\ ~LooksFirst(bytes)
  <2>1. packet' = Realign(bytes) /\ wrong' = wrong
    BY <1>1, <1>8 DEF Decoded
  <2>2. \/ packet' = SubSeq(bytes, 2, Len(bytes)) \/ packet' = SubSeq(bytes, 3, Len(bytes))
        \/ packet' = <<>>
    BY <1>8, <2>1 DEF Realign
  <2>3. 2 \in 1 .. Len(bytes) /\ 3 \in 1 .. Len(bytes)
    BY <1>8
  <2>4. ASSUME NEW k \in {2, 3}, packet' = SubSeq(bytes, k, Len(bytes)) PROVE MouseInv'
    <3>1. k \in 1 .. Len(bytes) /\ u + 1 \in Int
      BY <1>2, <2>3
    <3>2. /\ SubSeq(bytes, k, Len(bytes)) \in Seq(MouseBytes)
          /\ Len(SubSeq(bytes, k, Len(bytes))) = Len(bytes) - k + 1
          /\ Ascending(SubSeq(bytes, k, Len(bytes)), u + 1)
          /\ Missed(SubSeq(bytes, k, Len(bytes)), u + 1) => Missed(bytes, u + 1)
          /\ Noises(SubSeq(bytes, k, Len(bytes))) \subseteq Noises(bytes)
      BY <1>4, <3>1, PacketDrops
    <3>. QED
      BY <1>6, <1>8, <2>1, <2>4, <3>2
  <2>5. ASSUME packet' = <<>> PROVE MouseInv'
    <3>1. /\ packet' \in Seq(MouseBytes) /\ Len(packet') = 0 /\ Noises(packet') = {}
          /\ Ascending(packet', u + 1) /\ ~Missed(packet', u + 1)
      BY <2>5, NoBytes
    <3>. QED
      BY <1>6, <2>1, <3>1
  <2>. QED
    BY <2>2, <2>4, <2>5
<1>9. CASE Len(bytes) = 3 /\ LooksFirst(bytes)
  <2>1. packet' = <<>> /\ (wrong' = wrong \/ (wrong' = wrong + 1 /\ ~InOrder(bytes)))
    BY <1>1, <1>9 DEF Decoded
  <2>2. /\ packet' \in Seq(MouseBytes) /\ Len(packet') = 0 /\ Noises(packet') = {}
        /\ Ascending(packet', u + 1) /\ ~Missed(packet', u + 1)
    BY <2>1, NoBytes
  <2>3. CASE wrong' = wrong
    BY <1>6, <2>2, <2>3
  <2>4. CASE wrong' = wrong + 1 /\ ~InOrder(bytes)
    <3>1. Paid(packet', mouseLine', u + 1, lost + noisy, wrong + 1)
      <4>1. CASE bytes[1].pos = 1
        <5>1. Missed(bytes, u + 1) /\ Missed(packet, u)
          BY <1>2, <1>4, <1>9, <2>4, <4>1, InStep
        <5>2. Noises(packet') \cup Noises(mouseLine') \subseteq Noises(packet) \cup Noises(mouseLine)
          BY <1>2, <2>2
        <5>3. wrong + 1 \in Nat
              /\ (wrong + 1) - (lost + noisy) + (IF Missed(packet', u + 1) THEN 1 ELSE 0)
                   <= wrong - (lost + noisy) + (IF Missed(packet, u) THEN 1 ELSE 0)
          BY <1>3, <2>2, <5>1
        <5>. QED
          BY <1>3, <5>2, <5>3, PaidLess
      <4>2. CASE bytes[1].pos # 1
        <5>. DEFINE x == Serial(bytes[1])
        <5>1. 1 \in 1 .. Len(bytes) /\ Noise(bytes[1]) /\ x \in Int
          BY <1>4, <1>9, <4>2, SerialIsInt DEF LooksFirst, Noise
        <5>2. x \in Noises(bytes)
          BY <5>1, InNoises
        <5>3. x < u + 1
          BY <1>4, <5>1 DEF Ascending
        <5>. HIDE DEF x
        <5>4. \A y \in Noises(mouseLine') : y # x
          BY <1>2, <5>1, <5>3
        <5>5. /\ x \in Noises(packet) \cup Noises(mouseLine)
              /\ Noises(packet') \cup Noises(mouseLine') \subseteq (Noises(packet) \cup Noises(mouseLine)) \ {x}
          BY <1>2, <1>5, <2>2, <5>2, <5>4
        <5>. QED
          BY <1>3, <2>2, <5>5, PaidByNoise
      <4>. QED
        BY <4>1, <4>2
    <3>. QED
      BY <1>1, <1>2, <1>3, <2>2, <2>4, <3>1 DEF MouseInv
  <2>. QED
    BY <2>1, <2>3, <2>4
<1>. QED
  BY <1>3, <1>4, <1>7, <1>8, <1>9

\* As many noises as bits set in the two movements.
LEMMA NoisesSent ==
    ASSUME NEW A, IsFiniteSet(A), NEW x, NEW y, x \notin A, y \notin A, x # y,
           NEW xbit \in BOOLEAN, NEW ybit \in BOOLEAN
    PROVE  LET B == A \cup (IF xbit THEN {x} ELSE {}) \cup (IF ybit THEN {y} ELSE {})
           IN  /\ IsFiniteSet(B)
               /\ Cardinality(B) = Cardinality(A) + Cardinality({i \in {1, 2} : <<xbit, ybit>>[i]})
<1>1. Cardinality(A) \in Nat
  BY FS_CardinalityType
<1>2. IsFiniteSet({}) /\ Cardinality({}) = 0
  BY FS_EmptySet
<1>3. Cardinality({1}) = 1 /\ Cardinality({2}) = 1 /\ IsFiniteSet({1})
  BY FS_Singleton
<1>4. Cardinality({1} \cup {2}) = 2
  <2>. DEFINE S == {1}
  <2>1. IsFiniteSet(S) /\ Cardinality(S) = 1 /\ 2 \notin S
    BY <1>3
  <2>. HIDE DEF S
  <2>2. Cardinality(S \cup {2}) = Cardinality(S) + 1
    BY <2>1, FS_AddElement
  <2>3. Cardinality(S \cup {2}) = 2
    BY <2>1, <2>2
  <2>. QED
    BY <2>3 DEF S
<1>. DEFINE C == {i \in {1, 2} : <<xbit, ybit>>[i]}
            Ax == A \cup {x}
<1>5. IsFiniteSet(Ax) /\ Cardinality(Ax) = Cardinality(A) + 1
  BY FS_AddElement
<1>6. IsFiniteSet(A \cup {y}) /\ Cardinality(A \cup {y}) = Cardinality(A) + 1
  BY FS_AddElement
<1>7. y \notin Ax
  OBVIOUS
<1>8. IsFiniteSet(Ax \cup {y}) /\ Cardinality(Ax \cup {y}) = Cardinality(Ax) + 1
  <2>. HIDE DEF Ax
  <2>. QED
    BY <1>5, <1>7, FS_AddElement
<1>. DEFINE bits == <<xbit, ybit>>
<1>13. (bits[1] <=> xbit) /\ (bits[2] <=> ybit)
  OBVIOUS
<1>. HIDE DEF bits
<1>9. CASE xbit /\ ybit
  <2>1. C = {1} \cup {2}
    <3>1. C = {i \in {1, 2} : bits[i]}
      BY DEF bits
    <3>2. bits[1] /\ bits[2]
      BY <1>9, <1>13
    <3>. QED
      BY <3>1, <3>2, Zenon
  <2>. QED
    BY <1>1, <1>4, <1>5, <1>8, <1>9, <2>1
<1>10. CASE xbit /\ ~ybit
  <2>1. C = {1}
    <3>1. C = {i \in {1, 2} : bits[i]}
      BY DEF bits
    <3>2. bits[1] /\ ~bits[2]
      BY <1>10, <1>13
    <3>3. C = {i \in {1, 2} : bits[i]} /\ 1 # 2
      BY <3>1
    <3>. HIDE DEF C
    <3>. QED
      BY <3>2, <3>3
  <2>2. A \cup {x} \cup {} = Ax
    OBVIOUS
  <2>. QED
    BY <1>1, <1>3, <1>5, <1>10, <2>1, <2>2
<1>11. CASE ~xbit /\ ybit
  <2>1. C = {2}
    <3>1. C = {i \in {1, 2} : bits[i]}
      BY DEF bits
    <3>2. ~bits[1] /\ bits[2]
      BY <1>11, <1>13
    <3>3. C = {i \in {1, 2} : bits[i]} /\ 1 # 2
      BY <3>1
    <3>. HIDE DEF C
    <3>. QED
      BY <3>2, <3>3
  <2>2. A \cup {} \cup {y} = A \cup {y}
    OBVIOUS
  <2>. QED
    BY <1>1, <1>3, <1>6, <1>11, <2>1, <2>2
<1>12. CASE ~xbit /\ ~ybit
  <2>1. C = {} /\ A \cup {} \cup {} = A
    BY <1>12
  <2>. QED
    BY <1>1, <1>2, <1>12, <2>1
<1>. QED
  BY <1>9, <1>10, <1>11, <1>12

LEMMA MouseSendsInv ==
    ASSUME MouseInv, NEW dx \in Deltas, NEW dy \in Deltas,
           NEW xbit \in BOOLEAN, NEW ybit \in BOOLEAN, NEW over \in BOOLEAN,
           MouseSends(dx, dy, xbit, ybit, over)
    PROVE  MouseInv'
<1>. DEFINE u == Upcoming(mouseLine, sent)
            b1 == MouseByte(1, TRUE, over, 0)
            b2 == MouseByte(2, xbit, FALSE, dx)
            b3 == MouseByte(3, ybit, FALSE, dy)
            more == <<b1, b2, b3>>
            line == mouseLine \o more
            n == Cardinality({i \in {1, 2} : <<xbit, ybit>>[i]})
            x == 3 * sent + 2
            y == 3 * sent + 3
            A == Noises(packet) \cup Noises(mouseLine)
<1>1. /\ mouseLine' = line /\ sent' = sent + 1 /\ noisy' = noisy + n
      /\ UNCHANGED <<packet, lost, wrong>>
  BY DEF MouseSends
<1>2. /\ packet \in Seq(MouseBytes) /\ mouseLine \in Seq(MouseBytes) /\ Len(packet) <= 2
      /\ sent \in Nat /\ lost \in Nat /\ noisy \in Nat /\ wrong \in Nat
      /\ Ascending(packet, u) /\ InLine(mouseLine, u)
      /\ Paid(packet, mouseLine, u, lost + noisy, wrong)
  BY DEF MouseInv
<1>3. dx \in Int /\ dy \in Int
  BY InputAssumption
<1>4. /\ b1 \in MouseBytes /\ b2 \in MouseBytes /\ b3 \in MouseBytes
      /\ Serial(b1) = 3 * sent + 1 /\ Serial(b2) = x /\ Serial(b3) = y
      /\ ~Noise(b1) /\ (Noise(b2) <=> xbit) /\ (Noise(b3) <=> ybit)
  BY <1>2, <1>3 DEF MouseByte, MouseBytes, Serial, Noise
<1>. HIDE DEF b1, b2, b3
<1>5. more \in Seq(MouseBytes) /\ Len(more) = 3 /\ more[1] = b1 /\ more[2] = b2 /\ more[3] = b3
  BY <1>4
<1>. HIDE DEF more
<1>6. /\ line \in Seq(MouseBytes) /\ Len(line) = Len(mouseLine) + 3 /\ Len(mouseLine) \in Nat
      /\ \A i \in 1 .. Len(mouseLine) : line[i] = mouseLine[i]
      /\ line[Len(mouseLine) + 1] = b1 /\ line[Len(mouseLine) + 2] = b2
      /\ line[Len(mouseLine) + 3] = b3
  <2>1. line \in Seq(MouseBytes) /\ Len(line) = Len(mouseLine) + Len(more) /\ Len(mouseLine) \in Nat
    BY <1>2, <1>5, ConcatProperties, LenProperties
  <2>2. \A i \in 1 .. Len(mouseLine) + Len(more) :
           line[i] = IF i <= Len(mouseLine) THEN mouseLine[i] ELSE more[i - Len(mouseLine)]
    BY <1>2, <1>5, ConcatProperties
  <2>. HIDE DEF line
  <2>. DEFINE l == Len(mouseLine)
  <2>. HIDE DEF l
  <2>3. l \in Nat /\ Len(more) = 3
        /\ \A i \in 1 .. l + 3 : line[i] = IF i <= l THEN mouseLine[i] ELSE more[i - l]
    BY <1>5, <2>1, <2>2 DEF l
  <2>4. line[l + 1] = more[1] /\ line[l + 2] = more[2] /\ line[l + 3] = more[3]
    <3>1. ASSUME NEW j \in 1 .. 3 PROVE line[l + j] = more[j]
      <4>1. l + j \in 1 .. l + 3 /\ ~(l + j <= l) /\ (l + j) - l = j
        BY <2>3
      <4>. QED
        BY <2>3, <4>1
    <3>. QED
      BY <3>1
  <2>5. \A i \in 1 .. l : line[i] = mouseLine[i]
    BY <2>3
  <2>. QED
    BY <1>5, <2>1, <2>4, <2>5 DEF l
<1>. HIDE DEF line
<1>7. \A i \in 1 .. Len(line) : \/ i \in 1 .. Len(mouseLine) \/ i = Len(mouseLine) + 1
                                \/ i = Len(mouseLine) + 2 \/ i = Len(mouseLine) + 3
  BY <1>6
<1>8. u = 3 * sent + 1 - Len(mouseLine) /\ Upcoming(line, sent + 1) = u /\ u \in Int
  BY <1>2, <1>6 DEF Upcoming
<1>. HIDE DEF u
<1>9. InLine(line, u)
  <2>. SUFFICES ASSUME NEW i \in 1 .. Len(line) PROVE Serial(line[i]) = u + i - 1
    BY DEF InLine
  <2>1. CASE i \in 1 .. Len(mouseLine)
    BY <1>2, <1>6, <2>1 DEF InLine
  <2>2. CASE i = Len(mouseLine) + 1
    BY <1>2, <1>4, <1>6, <1>8, <2>2
  <2>3. CASE i = Len(mouseLine) + 2
    BY <1>2, <1>4, <1>6, <1>8, <2>3
  <2>4. CASE i = Len(mouseLine) + 3
    BY <1>2, <1>4, <1>6, <1>8, <2>4
  <2>. QED
    BY <1>7, <2>1, <2>2, <2>3, <2>4
<1>10. ASSUME NEW z
       PROVE  z \in Noises(line) <=> \/ z \in Noises(mouseLine) \/ (xbit /\ z = x) \/ (ybit /\ z = y)
  <2>1. z \in Noises(line) <=> \E i \in 1 .. Len(line) : Noise(line[i]) /\ Serial(line[i]) = z
    BY InNoises
  <2>2. z \in Noises(mouseLine)
           <=> \E i \in 1 .. Len(mouseLine) : Noise(mouseLine[i]) /\ Serial(mouseLine[i]) = z
    BY InNoises
  <2>3. /\ \A i \in 1 .. Len(mouseLine) : i \in 1 .. Len(line)
        /\ Len(mouseLine) + 2 \in 1 .. Len(line) /\ Len(mouseLine) + 3 \in 1 .. Len(line)
    BY <1>6
  <2>. HIDE DEF x, y
  <2>4. ASSUME z \in Noises(line)
        PROVE  z \in Noises(mouseLine) \/ (xbit /\ z = x) \/ (ybit /\ z = y)
    <3>1. PICK i \in 1 .. Len(line) : Noise(line[i]) /\ Serial(line[i]) = z
      BY <2>1, <2>4
    <3>. QED
      BY <1>4, <1>6, <1>7, <2>2, <3>1
  <2>5. ASSUME z \in Noises(mouseLine) PROVE z \in Noises(line)
    BY <1>6, <2>1, <2>2, <2>3, <2>5
  <2>6. ASSUME (xbit /\ z = x) \/ (ybit /\ z = y) PROVE z \in Noises(line)
    BY <1>4, <1>6, <2>1, <2>3, <2>6
  <2>. QED
    BY <2>4, <2>5, <2>6
<1>11. x \notin A /\ y \notin A /\ x # y
  <2>1. \A i \in 1 .. Len(packet) : Serial(packet[i]) \in Int /\ Serial(packet[i]) < u
    BY <1>2, SerialIsInt DEF Ascending
  <2>2. \A i \in 1 .. Len(mouseLine) : Serial(mouseLine[i]) = u + i - 1 /\ i <= Len(mouseLine)
    BY <1>2 DEF InLine
  <2>3. \A i \in 1 .. Len(packet) : Serial(packet[i]) # x /\ Serial(packet[i]) # y
    BY <1>2, <1>6, <1>8, <2>1
  <2>4. \A i \in 1 .. Len(mouseLine) : Serial(mouseLine[i]) # x /\ Serial(mouseLine[i]) # y
    <3>. SUFFICES ASSUME NEW i \in 1 .. Len(mouseLine) PROVE Serial(mouseLine[i]) # x /\ Serial(mouseLine[i]) # y
      OBVIOUS
    <3>. DEFINE l == Len(mouseLine)
                z == Serial(mouseLine[i])
    <3>1. z = u + i - 1 /\ l \in Nat /\ i \in 1 .. l /\ u = 3 * sent + 1 - l
      BY <1>6, <1>8, <2>2
    <3>. HIDE DEF l, z
    <3>2. z <= 3 * sent /\ z \in Int
      BY <1>2, <3>1
    <3>3. z # x /\ z # y
      BY <1>2, <3>2
    <3>. QED
      BY <3>3 DEF z
  <2>5. x # y
    BY <1>2
  <2>. QED
    BY <2>3, <2>4, <2>5, InNoises
<1>. HIDE DEF x, y, n
<1>12. Noises(packet) \cup Noises(line)
         = A \cup (IF xbit THEN {x} ELSE {}) \cup (IF ybit THEN {y} ELSE {})
  BY <1>10
<1>13. /\ IsFiniteSet(A) /\ wrong + Cardinality(A) + (IF Missed(packet, u) THEN 1 ELSE 0) <= lost + noisy
  BY <1>2 DEF Paid
<1>. HIDE DEF A
<1>14. IsFiniteSet(Noises(packet) \cup Noises(line))
       /\ Cardinality(Noises(packet) \cup Noises(line)) = Cardinality(A) + n
  BY <1>11, <1>12, <1>13, NoisesSent DEF n
<1>15. Cardinality(A) \in Nat /\ n \in Nat
  <2>1. IsFiniteSet({i \in {1, 2} : <<xbit, ybit>>[i]})
    <3>1. IsFiniteSet({1, 2})
      <4>1. IsFiniteSet({1} \cup {2})
        BY FS_Singleton, FS_AddElement
      <4>2. {1} \cup {2} = {1, 2}
        OBVIOUS
      <4>. QED
        BY <4>1, <4>2
    <3>. QED
      BY <3>1, FS_Subset
  <2>. QED
    BY <1>13, <2>1, FS_CardinalityType DEF n
<1>16. Paid(packet, line, u, lost + (noisy + n), wrong)
  <2>. DEFINE m == IF Missed(packet, u) THEN 1 ELSE 0
              c == Cardinality(Noises(packet) \cup Noises(line))
  <2>1. m \in Nat /\ wrong + Cardinality(A) + m <= lost + noisy /\ c = Cardinality(A) + n
    BY <1>13, <1>14
  <2>. HIDE DEF m, c
  <2>2. wrong + c + m <= lost + (noisy + n)
    BY <1>2, <1>15, <2>1
  <2>. QED
    BY <1>14, <2>2 DEF Paid, m, c
<1>17. sent + 1 \in Nat /\ noisy + n \in Nat
  BY <1>2, <1>15
<1>. QED
  BY <1>1, <1>2, <1>6, <1>8, <1>9, <1>16, <1>17 DEF MouseInv

LEMMA MouseInitInv == InputInit => MouseInv
<1>. SUFFICES ASSUME InputInit PROVE MouseInv
  OBVIOUS
<1>1. /\ packet = <<>> /\ mouseLine = <<>> /\ sent = 0 /\ lost = 0 /\ noisy = 0 /\ wrong = 0
  BY DEF InputInit
<1>2. /\ <<>> \in Seq(MouseBytes) /\ Len(<<>>) = 0 /\ Noises(<<>>) = {}
      /\ Ascending(<<>>, 1) /\ ~Missed(<<>>, 1)
  BY NoBytes
<1>3. IsFiniteSet({}) /\ Cardinality({}) = 0
  BY FS_EmptySet
<1>4. Upcoming(mouseLine, sent) = 1
  BY <1>1, <1>2 DEF Upcoming
<1>5. Paid(packet, mouseLine, 1, lost + noisy, wrong)
  <2>1. Noises(packet) \cup Noises(mouseLine) = {}
    BY <1>1, <1>2
  <2>2. IsFiniteSet(Noises(packet) \cup Noises(mouseLine))
        /\ Cardinality(Noises(packet) \cup Noises(mouseLine)) = 0
    BY <1>3, <2>1
  <2>. QED
    BY <1>1, <1>2, <2>2 DEF Paid
<1>6. InLine(mouseLine, 1)
  BY <1>1, <1>2 DEF InLine
<1>. QED
  BY <1>1, <1>2, <1>4, <1>5, <1>6 DEF MouseInv

\* The inductive invariant of the mouse: each wrong event was paid for by a byte
\* lost or by a noise, and what was paid in advance is what is still on its way.
THEOREM MouseInvariant == InputSpec => []MouseInv
<1>1. MouseInv /\ [InputNext]_inputVars => MouseInv'
  <2>. SUFFICES ASSUME MouseInv, [InputNext]_inputVars PROVE MouseInv'
    OBVIOUS
  <2>1. CASE UNCHANGED inputVars
    BY <2>1 DEF MouseInv, inputVars, mouseVars
  <2>2. CASE MouseNext
    BY <2>2, MouseSendsInv, MouseIrqInv, MouseLosesInv DEF MouseNext
  <2>3. CASE KeyboardNext
    <3>1. UNCHANGED mouseVars
      BY <2>3 DEF KeyboardNext, KeyChanges, KeyboardIrq, KeyboardRead
    <3>. QED
      BY <3>1 DEF MouseInv, mouseVars
  <2>. QED
    BY <2>1, <2>2, <2>3 DEF InputNext
<1>. QED
  BY <1>1, MouseInitInv, PTL DEF InputSpec

\* mouse.c:60-128: a lost byte costs at most one wrong event, and one more for
\* each byte of a movement that looks like a first byte.
THEOREM MouseGetsInStep == InputSpec => []MouseRecovers
<1>1. MouseInv => MouseRecovers
  <2>. SUFFICES ASSUME MouseInv PROVE wrong <= lost + noisy
    BY DEF MouseRecovers
  <2>. DEFINE A == Noises(packet) \cup Noises(mouseLine)
              m == IF Missed(packet, Upcoming(mouseLine, sent)) THEN 1 ELSE 0
  <2>1. IsFiniteSet(A) /\ wrong + Cardinality(A) + m <= lost + noisy
    BY DEF MouseInv, Paid
  <2>2. Cardinality(A) \in Nat /\ m \in Nat
    BY <2>1, FS_CardinalityType
  <2>3. {wrong, lost, noisy} \subseteq Nat
    BY DEF MouseInv
  <2>. HIDE DEF A, m
  <2>. QED
    BY <2>1, <2>2, <2>3
<1>. QED
  BY <1>1, MouseInvariant, PTL

-----------------------------------------------------------------------------
(* Disks. A sector is written whole, from a copy read before: what is in it*)
(* but not in the call stays only if no other command comes between, and none*)
(* does once a command of the channel was lost.                            *)

\* No byte of a disk lies in a sector behind its end.
LEMMA PlaceInSector == \A p \in Place : SectorOf(p) # Sectors
<1>. SUFFICES ASSUME NEW p \in Place, SectorOf(p) = Sectors PROVE FALSE
  OBVIOUS
<1>. DEFINE n == SectorSize
            d == p \div n
            m == p % n
<1>1. n \in Nat \ {0} /\ Sectors \in Nat
  BY BlockAssumption
<1>2. p \in Int /\ p < Sectors * n
  BY <1>1 DEF Place
<1>3. m \in 0 .. n - 1 /\ p = n * d + m
  BY <1>1, <1>2
<1>4. d = Sectors
  BY DEF SectorOf
<1>. HIDE DEF m, d, n
<1>. QED
  BY <1>1, <1>2, <1>3, <1>4

\* A sector that was lost keeps its channel from any other command.
LostSectorsStick ==
    \A d \in Drive, p \in Place : stored[d][p] = Unknown => Channel(d) \in stuck

BlockInv ==
    /\ DOMAIN sectors = Drive /\ DOMAIN stored = Drive
    /\ StoredAsAcknowledged
    /\ LostSectorsStick

\* A write of a call: what is lost is in one sector, and shows as an error.
LEMMA WriteStep ==
    ASSUME BlockInv, NEW dev, NEW bytes, NEW v \in Bytes, NEW fault, NEW at, NEW lead, NEW last,
           NotStuck(dev), Latch(dev, lead, last, fault, at),
           Write(dev, bytes, v, Dropped(dev, Served(dev, lead, last, fault, at), fault, at))
    PROVE  BlockInv'
<1>. DEFINE served == Served(dev, lead, last, fault, at)
            dropped == Dropped(dev, served, fault, at)
            disk == dev.drive
            there == {ByteOf(dev, b) : b \in bytes}
<1>1. /\ DOMAIN sectors' = Drive /\ DOMAIN stored' = Drive
      /\ \A d \in Drive : d # disk => sectors'[d] = sectors[d] /\ stored'[d] = stored[d]
      /\ disk \in Drive => \A p \in Place :
            /\ sectors'[disk][p] = IF SectorOf(p) = dropped THEN sectors[disk][p]
                                   ELSE IF p \in there THEN v ELSE sectors[disk][p]
            /\ stored'[disk][p] = IF SectorOf(p) = dropped THEN Unknown
                                  ELSE IF p \in there THEN v ELSE stored[disk][p]
  BY DEF BlockInv, Write, Stores, Acknowledged, ReadFirst, ByteOf
<1>2. stuck \subseteq stuck'
  BY DEF Latch
<1>3. ASSUME NEW p \in Place, SectorOf(p) = dropped PROVE Channel(disk) \in stuck'
  <2>1. fault = "lost" /\ at \in served
    BY <1>3, PlaceInSector DEF Dropped
  <2>2. at \in lead..last /\ OnDisk(dev, at)
    BY <2>1 DEF Served, Answers
  <2>3. ShowsError(dev, lead, last, fault, at)
    BY <2>1, <2>2 DEF ShowsError
  <2>. QED
    BY <2>3 DEF Latch
<1>. HIDE DEF served, dropped, there
<1>4. ASSUME NEW d \in Drive, NEW p \in Place
      PROVE stored'[d][p] \in {sectors'[d][p], Unknown}
  BY <1>1 DEF BlockInv, StoredAsAcknowledged
<1>5. ASSUME NEW d \in Drive, NEW p \in Place, Channel(d) = Channel(disk), stored'[d][p] = Unknown
      PROVE  d = disk /\ SectorOf(p) = dropped
  <2>1. stored[d][p] # Unknown
    BY <1>5 DEF BlockInv, LostSectorsStick, NotStuck
  <2>. QED
    BY <1>1, <1>5, <2>1, BlockAssumption
<1>6. ASSUME NEW d \in Drive, NEW p \in Place, Channel(d) # Channel(disk)
      PROVE  stored'[d] = stored[d]
  BY <1>1, <1>6
<1>7. StoredAsAcknowledged'
  <2>1. ASSUME NEW d \in Drive, NEW e \in Drive, NEW p \in Place, NEW q \in Place,
               Channel(d) = Channel(e), stored'[d][p] = Unknown, stored'[e][q] = Unknown
        PROVE  d = e /\ SectorOf(p) = SectorOf(q)
    <3>1. CASE Channel(d) = Channel(disk)
      <4>1. d = disk /\ SectorOf(p) = dropped
        BY <1>5, <2>1, <3>1
      <4>2. e = disk /\ SectorOf(q) = dropped
        BY <1>5, <2>1, <3>1
      <4>. QED
        BY <4>1, <4>2
    <3>2. CASE Channel(d) # Channel(disk)
      <4>1. stored'[d] = stored[d] /\ stored'[e] = stored[e]
        BY <1>6, <2>1, <3>2
      <4>. QED
        BY <2>1, <4>1 DEF BlockInv, StoredAsAcknowledged
    <3>. QED
      BY <3>1, <3>2
  <2>. QED
    BY <1>4, <2>1 DEF StoredAsAcknowledged
<1>8. LostSectorsStick'
  <2>1. ASSUME NEW d \in Drive, NEW p \in Place, stored'[d][p] = Unknown PROVE Channel(d) \in stuck'
    <3>1. CASE Channel(d) = Channel(disk)
      BY <1>3, <1>5, <2>1, <3>1
    <3>2. CASE Channel(d) # Channel(disk)
      BY <1>2, <1>6, <2>1, <3>2 DEF BlockInv, LostSectorsStick
    <3>. QED
      BY <3>1, <3>2
  <2>. QED
    BY <2>1 DEF LostSectorsStick
<1>. QED
  BY <1>1, <1>7, <1>8 DEF BlockInv

\* A read changes what the driver knows, not the disk.
LEMMA ReadStep ==
    ASSUME BlockInv, NEW dev, NEW fault, NEW at, NEW lead, NEW last,
           Latch(dev, lead, last, fault, at), UNCHANGED <<sectors, stored>>
    PROVE  BlockInv'
BY DEF BlockInv, StoredAsAcknowledged, LostSectorsStick, Latch

\* Every call keeps the invariant.
LEMMA BlockNextInv == BlockInv /\ [BlockNext]_blockVars => BlockInv'
<1>. SUFFICES ASSUME BlockInv, [BlockNext]_blockVars PROVE BlockInv'
  OBVIOUS
<1>1. CASE UNCHANGED blockVars
  BY <1>1 DEF blockVars, BlockInv, StoredAsAcknowledged, LostSectorsStick
<1>2. ASSUME NEW dev, NEW off, NEW len, NEW v \in Bytes, NEW fault, NEW at, BlkWrite(dev, off, len, v, fault, at)
      PROVE  BlockInv'
  BY <1>2, WriteStep DEF BlkWrite
<1>3. ASSUME NEW dev, NEW lead, NEW count, NEW v \in Bytes, NEW fault, NEW at, WriteSectors(dev, lead, count, v, fault, at)
      PROVE  BlockInv'
  BY <1>3, WriteStep DEF WriteSectors
<1>4. ASSUME NEW dev, NEW off, NEW len, NEW fault, NEW at, BlkRead(dev, off, len, fault, at) PROVE BlockInv'
  BY <1>4, ReadStep DEF BlkRead
<1>5. ASSUME NEW dev, NEW lead, NEW count, NEW fault, NEW at, ReadSectors(dev, lead, count, fault, at) PROVE BlockInv'
  BY <1>5, ReadStep DEF ReadSectors
<1>. QED
  BY <1>1, <1>2, <1>3, <1>4, <1>5 DEF BlockNext

\* Disks are blank, and so is what callers were told of them.
LEMMA BlockStart == BlockInit => BlockInv
BY DEF BlockInit, BlockInv, StoredAsAcknowledged, LostSectorsStick, Blank, Unknown

\* What was acknowledged is on the disk, in its place and nowhere else, but for the
\* sectors that a drive lost (ata.c, part.c).
THEOREM WritesStay == BlockSpec => []StoredAsAcknowledged
<1>1. BlockInv => StoredAsAcknowledged
  BY DEF BlockInv
<1>. QED
  BY <1>1, BlockStart, BlockNextInv, PTL DEF BlockSpec


---------------------------------------------------------------------------
(* The window server *)

\* Windows in use are those on the list, once each; the first one has the focus and
\* no other has; the keyboard is taken while there is one.
DeskFields == {"win", "list", "nextId", "owned"}
WinFields == {"id", "focused"}
DeskShape(g) ==
    /\ DeskFields \subseteq DOMAIN g /\ DOMAIN g.win = Slot
    /\ \A s \in Slot : WinFields \subseteq DOMAIN g.win[s] /\ g.win[s].focused \in BOOLEAN
    /\ g.list \in Seq(Slot) /\ g.nextId \in Nat \ {0} /\ g.owned \in BOOLEAN
Distinct(q) == \A i, j \in 1..Len(q) : q[i] = q[j] => i = j
OpenListed(g) ==
    /\ Distinct(g.list)
    /\ \A s \in Slot : g.win[s].id = 0 <=> s \notin ToSet(g.list)
TopFocused(g) == \A s \in ToSet(g.list) : g.win[s].focused <=> s = g.list[1]
DeskOK(g) == DeskShape(g) /\ OpenListed(g) /\ TopFocused(g) /\ (g.owned <=> g.list # <<>>)

SameWindows(g, h) ==
    /\ DeskFields \subseteq DOMAIN h /\ DOMAIN h.win = Slot
    /\ h.list = g.list /\ h.owned = g.owned /\ h.nextId = g.nextId
    /\ \A s \in Slot : /\ WinFields \subseteq DOMAIN h.win[s]
                       /\ h.win[s].id = g.win[s].id /\ h.win[s].focused = g.win[s].focused
Keeps(g, h) == DeskOK(h) /\ h.list = g.list

\* What leaves the list, the numbers and the focus alone keeps the invariant.
LEMMA SameKeeps ==
    ASSUME NEW g, NEW h, DeskOK(g), SameWindows(g, h)
    PROVE  Keeps(g, h)
<1>0. h.list \in Seq(Slot) /\ \A s \in ToSet(h.list) : s \in Slot
  BY InToSet DEF DeskOK, DeskShape, SameWindows
<1>1. DeskShape(h)
  BY DEF DeskOK, DeskShape, SameWindows
<1>2. OpenListed(h)
  BY DEF DeskOK, OpenListed, SameWindows
<1>3. TopFocused(h)
  BY <1>0 DEF DeskOK, TopFocused, SameWindows
<1>. QED
  BY <1>1, <1>2, <1>3 DEF DeskOK, SameWindows, Keeps

\* It keeps the form of the windows, whatever the invariant says.
LEMMA SameShape ==
    ASSUME NEW g, NEW h, DeskShape(g), SameWindows(g, h)
    PROVE  DeskShape(h)
BY DEF DeskShape, SameWindows

\* Requests for a redraw leave the windows alone.
LEMMA WakeSame ==
    ASSUME NEW g, DeskShape(g)
    PROVE  SameWindows(g, SceneDirty(g)) /\ SameWindows(g, Wake(g)) /\ SameWindows(g, WakeScene(g))
<1>1. SameWindows(g, SceneDirty(g))
  BY DEF SameWindows, SceneDirty, DeskShape, DeskFields
<1>2. ASSUME NEW k, DeskShape(k) PROVE SameWindows(k, Wake(k))
  BY <1>2 DEF SameWindows, Wake, DeskShape, DeskFields
<1>3. SameWindows(SceneDirty(g), Wake(SceneDirty(g)))
  BY <1>1, <1>2, SameShape
<1>. HIDE DEF SceneDirty
<1>. QED
  BY <1>1, <1>2, <1>3 DEF WakeScene, SameWindows

\* One after the other.
LEMMA KeepsAgain ==
    ASSUME NEW g, NEW h, NEW k, Keeps(g, h), Keeps(h, k)
    PROVE  Keeps(g, k)
BY DEF Keeps

\* And so they keep the invariant.
LEMMA WakeKeeps ==
    ASSUME NEW g, DeskOK(g)
    PROVE  Keeps(g, SceneDirty(g)) /\ Keeps(g, Wake(g)) /\ Keeps(g, WakeScene(g))
<1>1. DeskShape(g)
  BY DEF DeskOK
<1>. QED
  BY <1>1, WakeSame, SameKeeps

\* An event finds its place in the queue of its window, or is dropped.
LEMMA PushKeeps ==
    ASSUME NEW g, DeskOK(g), NEW s, NEW ev
    PROVE  Keeps(g, PushEvent(g, s, ev))
<1>1. SameWindows(g, PushEvent(g, s, ev))
  BY DEF SameWindows, PushEvent, DeskOK, DeskShape, DeskFields, WinFields
<1>. QED
  BY <1>1, SameKeeps

\* What is put in front of a list.
LEMMA InFront ==
    ASSUME NEW r \in Seq(Slot), NEW s \in Slot, s \notin ToSet(r), Distinct(r)
    PROVE  /\ <<s>> \o r \in Seq(Slot) /\ <<s>> \o r # <<>> /\ (<<s>> \o r)[1] = s
           /\ ToSet(<<s>> \o r) = ToSet(r) \cup {s}
           /\ Distinct(<<s>> \o r)
<1>. DEFINE q == <<s>> \o r
<1>1. q \in Seq(Slot) /\ Len(q) = Len(r) + 1 /\ q[1] = s /\ \A i \in 1..Len(r) : q[i + 1] = r[i]
  OBVIOUS
<1>. HIDE DEF q
<1>2. \A i \in 1..Len(q) : i # 1 => i - 1 \in 1..Len(r) /\ q[i] = r[i - 1]
  <2>. SUFFICES ASSUME NEW i \in 1..Len(q), i # 1 PROVE i - 1 \in 1..Len(r) /\ q[i] = r[i - 1]
    OBVIOUS
  <2>1. i - 1 \in 1..Len(r) /\ (i - 1) + 1 = i
    BY <1>1
  <2>2. q[(i - 1) + 1] = r[i - 1]
    BY <1>1, <2>1
  <2>. QED
    BY <2>1, <2>2
<1>3. \A x : x \in ToSet(q) <=> \E i \in 1..Len(q) : q[i] = x
  BY <1>1, InToSet
<1>4. \A x : x \in ToSet(r) <=> \E i \in 1..Len(r) : r[i] = x
  BY InToSet
<1>5. ToSet(q) \subseteq ToSet(r) \cup {s}
  BY <1>1, <1>2, <1>3, <1>4
<1>6. ToSet(r) \cup {s} \subseteq ToSet(q)
  <2>1. s \in ToSet(q)
    BY <1>1, <1>3
  <2>2. ASSUME NEW x \in ToSet(r) PROVE x \in ToSet(q)
    <3>1. PICK i \in 1..Len(r) : r[i] = x
      BY <1>4
    <3>2. i + 1 \in 1..Len(q) /\ q[i + 1] = x
      BY <1>1, <3>1
    <3>. QED
      BY <1>3, <3>2
  <2>. QED
    BY <2>1, <2>2
<1>7. Distinct(q)
  <2>1. ASSUME NEW i \in 1..Len(q), NEW j \in 1..Len(q), q[i] = q[j], i # 1, j # 1 PROVE i = j
    <3>1. i - 1 \in 1..Len(r) /\ j - 1 \in 1..Len(r) /\ r[i - 1] = r[j - 1]
      BY <1>2, <2>1
    <3>2. i - 1 = j - 1
      BY <3>1 DEF Distinct
    <3>. QED
      BY <3>2
  <2>2. ASSUME NEW i \in 1..Len(q), i # 1 PROVE q[i] # s
    BY <1>2, <1>4, <2>2
  <2>. QED
    BY <1>1, <2>1, <2>2 DEF Distinct
<1>8. q # <<>>
  BY <1>1
<1>. QED
  BY <1>1, <1>5, <1>6, <1>7, <1>8 DEF q

\* What is left of a list.
LEMMA WithoutIs ==
    ASSUME NEW q \in Seq(Slot), Distinct(q), NEW s \in ToSet(q)
    PROVE  /\ WithoutWindow(q, s) \in Seq(Slot)
           /\ ToSet(WithoutWindow(q, s)) = ToSet(q) \ {s}
           /\ Distinct(WithoutWindow(q, s))
           /\ s # q[1] => WithoutWindow(q, s)[1] = q[1]
<1>. DEFINE at == {i \in DOMAIN q : q[i] = s}
<1>1. at \subseteq 1..Len(q) /\ at # {}
  BY InToSet
<1>2. WithoutWindow(q, s) = RemoveAt(q, Min(at))
  BY <1>1 DEF WithoutWindow
<1>3. \A i \in at : q[i] = s
  OBVIOUS
<1>. HIDE DEF at
<1>4. Min(at) \in at
  <2>1. at \subseteq Nat
    BY <1>1
  <2>. QED
    BY <1>1, <2>1, MinOfNats
<1>. DEFINE k == Min(at)
            r == RemoveAt(q, k)
<1>5. k \in 1..Len(q) /\ q[k] = s
  BY <1>1, <1>3, <1>4
<1>. HIDE DEF k
<1>6. r \in Seq(Slot) /\ IsRemoval(r, q, k)
  BY <1>5, RemoveAtProperties
<1>. HIDE DEF r
<1>7. ToSet(r) = ToSet(q) \ {q[k]}
  <2>1. \A i \in 1..Len(q) : q[i] = q[k] => i = k
    BY <1>5 DEF Distinct
  <2>. QED
    BY <1>5, <1>6, <2>1, RemovedMembers
<1>8. Distinct(r)
  <2>. DEFINE place(i) == IF i < k THEN i ELSE i + 1
  <2>1. \A i \in 1..Len(r) : place(i) \in 1..Len(q) /\ r[i] = q[place(i)]
    <3>. SUFFICES ASSUME NEW i \in 1..Len(r) PROVE place(i) \in 1..Len(q) /\ r[i] = q[place(i)]
      OBVIOUS
    <3>1. Len(r) = Len(q) - 1 /\ Len(q) \in Nat
      BY <1>6 DEF IsRemoval
    <3>. QED
      BY <1>5, <1>6, <3>1 DEF IsRemoval
  <2>2. ASSUME NEW i \in 1..Len(r), NEW j \in 1..Len(r), place(i) = place(j) PROVE i = j
    BY <1>5, <2>2
  <2>. HIDE DEF place
  <2>. QED
    BY <2>1, <2>2 DEF Distinct
<1>9. s # q[1] => r[1] = q[1]
  <2>1. Len(r) = Len(q) - 1 /\ Len(q) \in Nat /\ \A j \in 1..Len(r) : r[j] = IF j < k THEN q[j] ELSE q[j + 1]
    BY <1>6 DEF IsRemoval
  <2>2. s # q[1] => 1 < k /\ 1 \in 1..Len(r)
    BY <1>5, <2>1
  <2>. QED
    BY <2>1, <2>2
<1>. QED
  BY <1>2, <1>5, <1>6, <1>7, <1>8, <1>9 DEF r, k

\* A window of the list that takes the focus comes to the front.
LEMMA FocusKeeps ==
    ASSUME NEW g, DeskOK(g), NEW s \in ToSet(g.list)
    PROVE  DeskOK(FocusWindow(g, s)) /\ ToSet(FocusWindow(g, s).list) = ToSet(g.list)
<1>0. s \in Slot /\ g.list # <<>> /\ Len(g.list) \in Nat /\ Len(g.list) > 0 /\ Head(g.list) = g.list[1] /\ g.list[1] \in ToSet(g.list)
  <2>1. g.list \in Seq(Slot)
    BY DEF DeskOK, DeskShape
  <2>2. PICK i \in 1..Len(g.list) : g.list[i] = s
    BY <2>1, InToSet
  <2>3. Len(g.list) \in Nat /\ 1 \in 1..Len(g.list)
    BY <2>1, <2>2
  <2>4. g.list[1] \in ToSet(g.list)
    BY <2>1, <2>3, InToSet
  <2>. QED
    BY <2>1, <2>2, <2>3, <2>4
<1>1. CASE Head(g.list) = s
  <2>. DEFINE h == [g EXCEPT !.win[s].focused = TRUE]
  <2>1. FocusWindow(g, s) = h
    BY <1>1 DEF FocusWindow
  <2>2. g.win[s].focused
    BY <1>0, <1>1 DEF DeskOK, TopFocused
  <2>3. SameWindows(g, h)
    BY <2>2 DEF SameWindows, DeskOK, DeskShape, DeskFields, WinFields
  <2>. HIDE DEF h
  <2>. QED
    BY <2>1, <2>3, SameKeeps DEF Keeps
<1>2. CASE Head(g.list) # s
  <2>. DEFINE r == WithoutWindow(g.list, s)
              h == FocusWindow(g, s)
  <2>1. r \in Seq(Slot) /\ ToSet(r) = ToSet(g.list) \ {s} /\ Distinct(r)
    BY WithoutIs DEF DeskOK, DeskShape, OpenListed
  <2>2. /\ <<s>> \o r \in Seq(Slot) /\ <<s>> \o r # <<>> /\ (<<s>> \o r)[1] = s
        /\ ToSet(<<s>> \o r) = ToSet(r) \cup {s} /\ Distinct(<<s>> \o r)
    BY <1>0, <2>1, InFront
  <2>3. /\ h.list = <<s>> \o r /\ DeskFields \subseteq DOMAIN h
        /\ h.nextId = g.nextId /\ h.owned = g.owned /\ DOMAIN h.win = Slot
    BY <1>2 DEF FocusWindow, PushFront, DeskOK, DeskShape, DeskFields
  <2>4. \A t \in Slot : /\ WinFields \subseteq DOMAIN h.win[t] /\ h.win[t].id = g.win[t].id
                        /\ h.win[t].focused = IF t = s THEN TRUE ELSE g.win[t].focused /\ (g.list = <<>> \/ t # Head(g.list))
    <3>. DEFINE on(t) == IF t = s THEN TRUE ELSE g.win[t].focused /\ (g.list = <<>> \/ t # Head(g.list))
    <3>1. h.win = [t \in Slot |-> [g.win[t] EXCEPT !.focused = on(t)]]
      <4>1. PushFront(g, s).win = [t \in Slot |-> [g.win[t] EXCEPT !.focused = on(t)]]
        BY DEF PushFront, DeskOK, DeskShape, DeskFields
      <4>2. h.win = PushFront(g, s).win
        BY <1>2 DEF FocusWindow
      <4>. QED
        BY <4>1, <4>2
    <3>. SUFFICES ASSUME NEW t \in Slot
                  PROVE  /\ WinFields \subseteq DOMAIN h.win[t] /\ h.win[t].id = g.win[t].id
                         /\ h.win[t].focused = on(t)
      OBVIOUS
    <3>2. WinFields \subseteq DOMAIN g.win[t]
      BY DEF DeskOK, DeskShape
    <3>. HIDE DEF on, h
    <3>. QED
      BY <3>1, <3>2 DEF WinFields
  <2>. HIDE DEF h, r
  <2>5. ToSet(h.list) = ToSet(g.list)
    BY <2>1, <2>2, <2>3
  <2>6. DeskShape(h)
    BY <2>2, <2>3, <2>4 DEF DeskOK, DeskShape
  <2>7. OpenListed(h)
    BY <2>2, <2>3, <2>4, <2>5 DEF DeskOK, OpenListed
  <2>8. TopFocused(h)
    <3>. SUFFICES ASSUME NEW t \in ToSet(h.list) PROVE h.win[t].focused <=> t = s
      BY <2>2, <2>3 DEF TopFocused
    <3>1. t \in Slot
      BY <2>6, InToSet DEF DeskShape
    <3>2. g.win[t].focused <=> t = g.list[1]
      BY <2>5 DEF DeskOK, TopFocused
    <3>. QED
      BY <1>0, <2>4, <3>1, <3>2
  <2>. QED
    BY <1>0, <2>2, <2>3, <2>5, <2>6, <2>7, <2>8 DEF DeskOK, h
<1>. QED
  BY <1>1, <1>2

\* A window that goes leaves the focus to the next one, or the keyboard to the console.
LEMMA DestroyKeeps ==
    ASSUME NEW g, DeskOK(g), NEW s \in ToSet(g.list)
    PROVE  DeskShape(Unlisted(g, s)) /\ DeskOK(DestroyWindow(g, s))
<1>. DEFINE u == Unlisted(g, s)
<1>0. s \in Slot
  BY InToSet DEF DeskOK, DeskShape
<1>1. /\ u.list \in Seq(Slot) /\ ToSet(u.list) = ToSet(g.list) \ {s} /\ Distinct(u.list)
      /\ s # g.list[1] => u.list[1] = g.list[1]
  <2>1. u.list = WithoutWindow(g.list, s)
    BY DEF Unlisted, DeskOK, DeskShape, DeskFields
  <2>. QED
    BY <2>1, WithoutIs DEF DeskOK, DeskShape, OpenListed
<1>2. /\ DeskFields \subseteq DOMAIN u /\ DOMAIN u.win = Slot /\ u.nextId = g.nextId /\ u.owned = g.owned
      /\ \A t \in Slot : /\ WinFields \subseteq DOMAIN u.win[t] /\ u.win[t].focused = g.win[t].focused
                         /\ u.win[t].id = IF t = s THEN 0 ELSE g.win[t].id
  BY <1>0 DEF Unlisted, DeskOK, DeskShape, DeskFields, WinFields
<1>. HIDE DEF u
<1>3. DeskShape(u)
  BY <1>1, <1>2 DEF DeskOK, DeskShape
<1>4. OpenListed(u)
  BY <1>1, <1>2 DEF DeskOK, OpenListed
<1>5. g.owned = TRUE
  <2>1. g.list # <<>>
    BY InToSet DEF DeskOK, DeskShape
  <2>. QED
    BY <2>1 DEF DeskOK, DeskShape
<1>6. CASE u.list = <<>>
  <2>. DEFINE h == LastClosed(u)
  <2>1. /\ DeskFields \subseteq DOMAIN h /\ h.win = u.win /\ h.list = u.list /\ h.nextId = u.nextId
        /\ h.owned = FALSE
    BY <1>3 DEF LastClosed, DeskShape, DeskFields
  <2>2. AfterDestroy(u) = h
    BY <1>6 DEF AfterDestroy
  <2>. HIDE DEF h
  <2>3. DeskShape(h) /\ OpenListed(h)
    BY <1>3, <1>4, <2>1 DEF DeskShape, OpenListed
  <2>4. TopFocused(h)
    <3>1. \A t \in ToSet(h.list) : FALSE
      BY <1>6, <2>1 DEF ToSet
    <3>. QED
      BY <3>1 DEF TopFocused
  <2>. QED
    BY <1>3, <1>6, <2>1, <2>2, <2>3, <2>4 DEF DeskOK, DestroyWindow, u
<1>7. CASE u.list # <<>>
  <2>. DEFINE h == [u EXCEPT !.win[Head(u.list)].focused = TRUE]
  <2>0. Head(u.list) = u.list[1] /\ u.list[1] \in ToSet(u.list) /\ u.list[1] \in Slot
    <3>1. Len(u.list) \in Nat /\ 1 \in 1..Len(u.list)
      BY <1>1, <1>7
    <3>. QED
      BY <1>1, <1>7, <3>1, InToSet
  <2>1. /\ DeskFields \subseteq DOMAIN h /\ DOMAIN h.win = Slot /\ h.list = u.list /\ h.nextId = u.nextId
        /\ h.owned = u.owned
        /\ \A t \in Slot : /\ WinFields \subseteq DOMAIN h.win[t] /\ h.win[t].id = u.win[t].id
                           /\ h.win[t].focused = IF t = u.list[1] THEN TRUE ELSE u.win[t].focused
    BY <1>3, <2>0 DEF DeskShape, DeskFields, WinFields
  <2>2. AfterDestroy(u) = WakeScene(h)
    BY <1>7 DEF AfterDestroy, FocusNext
  <2>. HIDE DEF h
  <2>3. DeskShape(h) /\ OpenListed(h)
    BY <1>3, <1>4, <2>1 DEF DeskShape, OpenListed
  <2>4. TopFocused(h)
    <3>. SUFFICES ASSUME NEW t \in ToSet(h.list) PROVE h.win[t].focused <=> t = h.list[1]
      BY DEF TopFocused
    <3>1. t \in Slot /\ t \in ToSet(g.list) /\ t # s
      BY <1>1, <2>1, InToSet
    <3>2. CASE t = u.list[1]
      BY <2>0, <2>1, <3>1, <3>2
    <3>3. CASE t # u.list[1]
      <4>1. ~u.win[t].focused
        <5>1. g.win[t].focused <=> t = g.list[1]
          BY <3>1 DEF DeskOK, TopFocused
        <5>2. t # g.list[1]
          BY <1>1, <3>1, <3>3
        <5>. QED
          BY <1>2, <3>1, <5>1, <5>2
      <4>. QED
        BY <2>1, <3>1, <3>3, <4>1
    <3>. QED
      BY <3>2, <3>3
  <2>5. DeskOK(h)
    BY <1>2, <1>5, <1>7, <2>1, <2>3, <2>4 DEF DeskOK
  <2>. QED
    BY <1>3, <2>2, <2>5, WakeKeeps DEF DestroyWindow, Keeps, u
<1>. QED
  BY <1>6, <1>7

\* A new window is on top.
LEMMA OpenKeeps ==
    ASSUME NEW g, DeskOK(g), NEW s \in FreeSlots(g), NEW c, NEW p
    PROVE  DeskOK(Opened(g, s, c, p))
<1>. DEFINE w == Backbuffer([NoWindow EXCEPT !.id = g.nextId, !.owner = c, !.y = p.y, !.h = p.h, !.dirty = TRUE])
            o == [g EXCEPT !.win[s] = w]
            h == Opened(g, s, c, p)
<1>0. /\ s \in Slot /\ g.win[s].id = 0 /\ s \notin ToSet(g.list) /\ g.nextId \in Nat \ {0}
      /\ g.list \in Seq(Slot) /\ Distinct(g.list)
  BY DEF FreeSlots, DeskOK, DeskShape, OpenListed
<1>1. WinFields \subseteq DOMAIN w /\ w.id = g.nextId
  BY DEF Backbuffer, NoWindow, WinFields
<1>. HIDE DEF w
<1>2. /\ DeskFields \subseteq DOMAIN o /\ DOMAIN o.win = Slot
      /\ o.list = g.list /\ o.owned = g.owned /\ o.nextId = g.nextId
      /\ \A t \in Slot : o.win[t] = IF t = s THEN w ELSE g.win[t]
  BY <1>0 DEF DeskOK, DeskShape, DeskFields
<1>3. h = [PushFront(o, s) EXCEPT !.nextId = @ + 1, !.owned = @ \/ g.list = <<>>,
               !.excused = @ \/ g.list # <<>>]
  BY DEF Opened, w
<1>. HIDE DEF h, o
<1>4. /\ DeskFields \subseteq DOMAIN PushFront(o, s) /\ PushFront(o, s).list = <<s>> \o g.list
      /\ PushFront(o, s).owned = g.owned /\ PushFront(o, s).nextId = g.nextId
  BY <1>2 DEF PushFront, DeskFields
<1>. DEFINE on(t) == IF t = s THEN TRUE ELSE o.win[t].focused /\ (o.list = <<>> \/ t # Head(o.list))
<1>5. PushFront(o, s).win = [t \in Slot |-> [o.win[t] EXCEPT !.focused = on(t)]]
  BY <1>2 DEF PushFront, DeskFields
<1>6. /\ DeskFields \subseteq DOMAIN h /\ h.list = <<s>> \o g.list /\ h.nextId = g.nextId + 1
      /\ h.win = PushFront(o, s).win /\ (h.owned <=> g.owned \/ g.list = <<>>) /\ h.owned \in BOOLEAN
  BY <1>3, <1>4 DEF DeskFields
<1>7. \A t \in Slot : /\ WinFields \subseteq DOMAIN h.win[t] /\ h.win[t].id = o.win[t].id
                      /\ h.win[t].focused = on(t)
  <2>. SUFFICES ASSUME NEW t \in Slot
                PROVE  /\ WinFields \subseteq DOMAIN h.win[t] /\ h.win[t].id = o.win[t].id
                       /\ h.win[t].focused = on(t)
    OBVIOUS
  <2>1. WinFields \subseteq DOMAIN o.win[t]
    BY <1>1, <1>2 DEF DeskOK, DeskShape
  <2>. HIDE DEF on
  <2>. QED
    BY <1>5, <1>6, <2>1 DEF WinFields
<1>8. /\ <<s>> \o g.list \in Seq(Slot) /\ <<s>> \o g.list # <<>> /\ (<<s>> \o g.list)[1] = s
      /\ ToSet(<<s>> \o g.list) = ToSet(g.list) \cup {s} /\ Distinct(<<s>> \o g.list)
  BY <1>0, InFront
<1>a. \A t \in Slot : on(t) \in BOOLEAN
  OBVIOUS
<1>9. DeskShape(h)
  <2>. HIDE DEF on
  <2>. QED
    BY <1>0, <1>5, <1>6, <1>7, <1>8, <1>a DEF DeskShape
<1>10. OpenListed(h)
  <2>1. \A t \in Slot : h.win[t].id = IF t = s THEN g.nextId ELSE g.win[t].id
    BY <1>1, <1>2, <1>7
  <2>. QED
    BY <1>0, <1>6, <1>8, <2>1 DEF DeskOK, OpenListed
<1>11. TopFocused(h)
  <2>. SUFFICES ASSUME NEW t \in ToSet(h.list) PROVE h.win[t].focused <=> t = s
    BY <1>6, <1>8 DEF TopFocused
  <2>1. t \in Slot
    BY <1>6, <1>8, InToSet
  <2>2. h.win[t].focused = on(t)
    BY <1>7, <2>1
  <2>3. CASE t = s
    BY <2>2, <2>3
  <2>4. CASE t # s
    <3>1. t \in ToSet(g.list)
      BY <1>6, <1>8, <2>4
    <3>2. g.win[t].focused <=> t = g.list[1]
      BY <3>1 DEF DeskOK, TopFocused
    <3>3. g.list # <<>> /\ Head(g.list) = g.list[1]
      BY <1>0, <3>1, InToSet
    <3>. QED
      BY <1>2, <2>1, <2>2, <2>4, <3>2, <3>3
  <2>. QED
    BY <2>3, <2>4
<1>. QED
  BY <1>6, <1>8, <1>9, <1>10, <1>11 DEF DeskOK, h

\* The window on top is on the list,
LEMMA TopListed ==
    ASSUME NEW g, DeskOK(g), g.list # <<>>
    PROVE  Head(g.list) \in ToSet(g.list)
<1>1. g.list \in Seq(Slot)
  BY DEF DeskOK, DeskShape
<1>2. 1 \in 1..Len(g.list) /\ Head(g.list) = g.list[1]
  BY <1>1
<1>. QED
  BY <1>1, <1>2, InToSet

\* and so is the window under the pointer.
LEMMA HitIs ==
    ASSUME NEW g, DeskOK(g), NEW row, HitTest(g, row) # NoWin
    PROVE  HitTest(g, row) \in ToSet(g.list)
<1>. DEFINE under == {i \in DOMAIN g.list : g.win[g.list[i]].visible /\ row \in RowsOf(g.win[g.list[i]])}
<1>1. g.list \in Seq(Slot) /\ under \subseteq 1..Len(g.list)
  BY DEF DeskOK, DeskShape
<1>2. HitTest(g, row) = IF under = {} THEN NoWin ELSE g.list[Min(under)]
  BY DEF HitTest
<1>. HIDE DEF under
<1>3. Min(under) \in under
  <2>1. under \subseteq Nat /\ under # {}
    BY <1>1, <1>2
  <2>. QED
    BY <2>1, MinOfNats
<1>. QED
  BY <1>1, <1>2, <1>3, InToSet

\* The list is not touched by moves, new sizes and releases.
LEMMA WidenKeeps ==
    ASSUME NEW g, DeskOK(g), NEW top, NEW bottom
    PROVE  Keeps(g, Widened(g, top, bottom))
<1>1. SameWindows(g, Widened(g, top, bottom))
  BY DEF SameWindows, Widened, DeskOK, DeskShape, DeskFields
<1>. QED
  BY <1>1, SameKeeps

\* So does the drag of a window or of an edge.
LEMMA DragKeeps ==
    ASSUME NEW g, DeskOK(g), NEW left, NEW row
    PROVE  Keeps(g, Dragged(g, left, row)) /\ Keeps(g, Resized(g, left, row))
<1>0. Keeps(g, g)
  BY DEF Keeps
<1>1. ASSUME NEW s PROVE Keeps(g, Moved(g, s, row))
  <2>. DEFINE k == Widened(g, Min({g.drag.prev, row}), Max({g.drag.prev, row}) + g.win[s].h)
  <2>1. Keeps(g, k)
    BY WidenKeeps
  <2>2. Moved(g, s, row) = [k EXCEPT !.win[s].y = row, !.drag.prev = row, !.scene = TRUE,
                                     !.whole = @ \/ g.win[s].y # g.drag.prev]
    BY DEF Moved
  <2>. HIDE DEF k
  <2>3. SameWindows(k, Moved(g, s, row))
    BY <2>1, <2>2 DEF Keeps, SameWindows, DeskOK, DeskShape, DeskFields, WinFields
  <2>. QED
    BY <2>1, <2>3, SameKeeps DEF Keeps
<1>2. ASSUME NEW s, NEW to PROVE Keeps(g, Resize(g, s, to))
  <2>. DEFINE k == Widened(g, Min({g.win[s].y, to.y}), Max({g.win[s].y + g.win[s].h, to.y + to.h}))
  <2>1. Keeps(g, k)
    BY WidenKeeps
  <2>2. Resize(g, s, to) = [k EXCEPT !.win[s].y = to.y, !.win[s].h = to.h, !.scene = TRUE]
    BY DEF Resize
  <2>. HIDE DEF k
  <2>3. SameWindows(k, Resize(g, s, to))
    BY <2>1, <2>2 DEF Keeps, SameWindows, DeskOK, DeskShape, DeskFields, WinFields
  <2>. QED
    BY <2>1, <2>3, SameKeeps DEF Keeps
<1>3. Keeps(g, Dragged(g, left, row))
  BY <1>0, <1>1 DEF Dragged
<1>4. Keeps(g, Resized(g, left, row))
  BY <1>0, <1>2 DEF Resized
<1>. QED
  BY <1>3, <1>4

\* So does the end of a drag.
LEMMA LetGoKeeps ==
    ASSUME NEW g, DeskOK(g)
    PROVE  Keeps(g, LetGo(g))
<1>1. SameWindows(g, LetGo(g))
  BY DEF SameWindows, LetGo, DeskOK, DeskShape, DeskFields
<1>. QED
  BY <1>1, SameKeeps

\* So does the release of the button.
LEMMA ReleaseKeeps ==
    ASSUME NEW g, DeskOK(g), NEW release
    PROVE  Keeps(g, Released(g, release))
<1>0. Keeps(g, g)
  BY DEF Keeps
<1>1. ASSUME NEW s PROVE Keeps(g, EndResize(g, s))
  <2>1. SameWindows(g, Realloc(g, s))
    BY DEF SameWindows, Realloc, Backbuffer, DeskOK, DeskShape, DeskFields, WinFields
  <2>2. Keeps(g, Realloc(g, s))
    BY <2>1, SameKeeps
  <2>3. Keeps(Realloc(g, s), PushEvent(Realloc(g, s), s, "resize"))
    BY <2>2, PushKeeps DEF Keeps
  <2>4. Keeps(g, PushEvent(Realloc(g, s), s, "resize"))
    BY <2>2, <2>3, KeepsAgain
  <2>. QED
    BY <1>0, <2>4 DEF EndResize
<1>2. Keeps(g, LetGo(EndResize(g, g.resize.win)))
  <2>1. Keeps(g, EndResize(g, g.resize.win))
    BY <1>1
  <2>2. Keeps(EndResize(g, g.resize.win), LetGo(EndResize(g, g.resize.win)))
    BY <2>1, LetGoKeeps DEF Keeps
  <2>. QED
    BY <2>1, <2>2, KeepsAgain
<1>. QED
  BY <1>0, <1>2 DEF Released

\* A press in a window of the list closes or grabs it, or is left to its program.
LEMMA PressInKeeps ==
    ASSUME NEW k, DeskOK(k), NEW s \in ToSet(k.list), NEW row, NEW spot
    PROVE  DeskOK(PressIn(k, s, row, spot))
<1>. DEFINE w == k.win[s]
<1>2. ASSUME NEW edge PROVE DeskOK(StartResize(k, s, edge, row))
  <2>1. SameWindows(k, StartResize(k, s, edge, row))
    BY DEF StartResize, SameWindows, DeskOK, DeskShape, DeskFields
  <2>. QED
    BY <2>1, SameKeeps DEF Keeps
<1>3. DeskOK(LetGo(DestroyWindow(k, s)))
  BY DestroyKeeps, LetGoKeeps DEF Keeps
<1>4. DeskOK([k EXCEPT !.drag = [win |-> s, prev |-> w.y]])
  <2>1. SameWindows(k, [k EXCEPT !.drag = [win |-> s, prev |-> w.y]])
    BY DEF SameWindows, DeskOK, DeskShape, DeskFields
  <2>. QED
    BY <2>1, SameKeeps DEF Keeps
<1>5. DeskOK(PushEvent(k, s, "button"))
  BY PushKeeps DEF Keeps
<1>6. PressIn(k, s, row, spot) \in {StartResize(k, s, EdgeAt(w, row, spot), row), LetGo(DestroyWindow(k, s)),
                                    [k EXCEPT !.drag = [win |-> s, prev |-> w.y]], PushEvent(k, s, "button")}
  BY DEF PressIn
<1>. QED
  BY <1>2, <1>3, <1>4, <1>5, <1>6

\* Presses raise, close or grab windows of the list.
LEMMA PressKeeps ==
    ASSUME NEW g, DeskOK(g), NEW press, NEW row, NEW spot \in Spot
    PROVE  DeskOK(Pressed(g, press, row, spot))
<1>1. DeskOK(PressBar(g, spot))
  <2>1. CASE spot = "close"
    <3>1. ASSUME g.list # <<>> PROVE DeskOK(LetGo(DestroyWindow(g, Head(g.list))))
      <4>1. Head(g.list) \in ToSet(g.list)
        BY <3>1, TopListed
      <4>2. DeskOK(DestroyWindow(g, Head(g.list)))
        BY <4>1, DestroyKeeps
      <4>. QED
        BY <4>2, LetGoKeeps DEF Keeps
    <3>2. DeskOK(LetGo(g))
      BY LetGoKeeps DEF Keeps
    <3>. QED
      BY <2>1, <3>1, <3>2 DEF PressBar
  <2>2. ASSUME NEW i PROVE DeskOK(LetGo(Taskbar(g, i)))
    <3>. DEFINE s == CHOOSE s \in WithButton(g, i) : TRUE
    <3>1. ASSUME WithButton(g, i) # {} PROVE DeskOK(SceneDirty(FocusWindow(g, s)))
      <4>1. s \in ToSet(g.list)
        BY <3>1 DEF WithButton, OnShow
      <4>. HIDE DEF s
      <4>2. DeskOK(FocusWindow(g, s))
        BY <4>1, FocusKeeps
      <4>. QED
        BY <4>2, WakeKeeps DEF Keeps
    <3>2. DeskOK(Taskbar(g, i))
      BY <3>1 DEF Taskbar
    <3>. QED
      BY <3>2, LetGoKeeps DEF Keeps
  <2>3. spot = "mid" => PressBar(g, spot) = LetGo(Taskbar(g, 1))
    BY DEF PressBar
  <2>4. spot = "top" => PressBar(g, spot) = LetGo(Taskbar(g, 2))
    BY DEF PressBar
  <2>. QED
    BY <2>1, <2>2, <2>3, <2>4 DEF Spot
<1>2. ASSUME NEW s \in ToSet(g.list) PROVE DeskOK(PressIn(Raised(g, s), s, row, spot))
  <2>. DEFINE k == Raised(g, s)
  <2>1. DeskOK(k) /\ s \in ToSet(k.list)
    <3>1. DeskOK(FocusWindow(g, s)) /\ ToSet(FocusWindow(g, s).list) = ToSet(g.list)
      BY FocusKeeps
    <3>2. SameWindows(FocusWindow(g, s), k)
      BY <3>1 DEF Raised, SameWindows, DeskOK, DeskShape, DeskFields
    <3>3. Keeps(FocusWindow(g, s), k)
      BY <3>1, <3>2, SameKeeps
    <3>. QED
      BY <3>1, <3>3 DEF Keeps
  <2>. HIDE DEF k
  <2>2. DeskOK(PressIn(k, s, row, spot))
    BY <2>1, PressInKeeps
  <2>. QED
    BY <2>2 DEF k
<1>3. DeskOK(PressAt(g, HitTest(g, row), row, spot))
  BY <1>2, HitIs DEF PressAt
<1>4. Pressed(g, press, row, spot) \in {g, PressBar(g, spot), PressAt(g, HitTest(g, row), row, spot)}
  BY DEF Pressed
<1>. QED
  BY <1>1, <1>3, <1>4

\* What is held by the mouse follows it.
LEMMA PullKeeps ==
    ASSUME NEW g, DeskOK(g), NEW left, NEW row
    PROVE  DeskOK(Pulled(g, left, row))
<1>. DEFINE k == [g EXCEPT !.dirty = TRUE, !.held = left]
<1>1. DeskOK(k)
  <2>1. SameWindows(g, k)
    BY DEF SameWindows, DeskOK, DeskShape, DeskFields
  <2>. QED
    BY <2>1, SameKeeps DEF Keeps
<1>. HIDE DEF k
<1>2. DeskOK(Dragged(k, left, row))
  BY <1>1, DragKeeps DEF Keeps
<1>3. DeskOK(Resized(Dragged(k, left, row), left, row))
  BY <1>2, DragKeeps DEF Keeps
<1>. QED
  BY <1>3 DEF Pulled, k

\* One event of the mouse.
LEMMA EventKeeps ==
    ASSUME NEW g, DeskOK(g), NEW left, NEW row, NEW spot \in Spot
    PROVE  DeskOK(MouseEvent(g, left, row, spot))
<1>. DEFINE d == Pulled(g, left, row)
            p == Pressed(d, left /\ ~g.held, row, spot)
<1>1. DeskOK(d)
  BY PullKeeps
<1>. HIDE DEF d
<1>2. DeskOK(p)
  BY <1>1, PressKeeps
<1>. HIDE DEF p
<1>3. DeskOK(Released(p, ~left /\ g.held))
  BY <1>2, ReleaseKeeps DEF Keeps
<1>. QED
  BY <1>3 DEF MouseEvent, d, p

\* The loops over events, keys and windows: h[i] is what the first i of them make of g.
DrawNth(rows, on, i) ==
    IF on.list[Len(on.list) + 1 - i] \in on.slots THEN DrawWindow(rows, on.win[on.list[Len(on.list) + 1 - i]]) ELSE rows
Turn(what, g, i) ==
    CASE what.of = "mouse" -> MouseEvent(g, what.with.events[i], what.with.row, what.with.spot)
      [] what.of = "keys" -> KeyEvent(g, what.with[i])
      [] what.of = "death" -> DestroyIfOf(g, i, what.with)
      [] what.of = "draw" -> DrawNth(g, what.with, i)
Loop(of, with) == [of |-> of, with |-> with]
Runs(h, n, g, what) == h = [i \in 0..n |-> IF i = 0 THEN g ELSE Turn(what, h[i - 1], i)]

\* Each of these loops has a run.
LEMMA EventLoopRuns ==
    ASSUME NEW g, NEW what, NEW n \in Nat
    PROVE  \E h : Runs(h, n, g, what)
<1>. DEFINE S == {k \in Nat : \E h : Runs(h, k, g, what)}
<1>1. 0 \in S
  <2>1. Runs([i \in 0..0 |-> g], 0, g, what)
    BY DEF Runs
  <2>. QED
    BY <2>1
<1>2. ASSUME NEW k \in 1..n, k - 1 \in S PROVE k \in S
  <2>1. PICK h : Runs(h, k - 1, g, what)
    BY <1>2
  <2>. DEFINE at(i) == Turn(what, h[i - 1], i)
              f == [i \in 0..k |-> IF i = 0 THEN g ELSE at(i)]
  <2>2. \A i \in 0..k - 1 : h[i] = IF i = 0 THEN g ELSE at(i)
    BY <2>1 DEF Runs
  <2>3. \A i \in 1..k : f[i - 1] = h[i - 1]
    <3>. HIDE DEF at
    <3>. SUFFICES ASSUME NEW i \in 1..k PROVE f[i - 1] = h[i - 1]
      OBVIOUS
    <3>1. i - 1 \in 0..k - 1 /\ i - 1 \in 0..k
      OBVIOUS
    <3>. QED
      BY <2>2, <3>1
  <2>4. \A i \in 1..k : at(i) = Turn(what, f[i - 1], i)
    <3>. HIDE DEF f
    <3>. QED
      BY <2>3
  <2>5. f = [i \in 0..k |-> IF i = 0 THEN g ELSE Turn(what, f[i - 1], i)]
    <3>1. \A i \in 0..k : i # 0 => i \in 1..k
      OBVIOUS
    <3>2. f = [i \in 0..k |-> IF i = 0 THEN g ELSE at(i)]
      OBVIOUS
    <3>. HIDE DEF f, at
    <3>. QED
      BY <2>4, <3>1, <3>2
  <2>6. Runs(f, k, g, what)
    <3>. HIDE DEF f
    <3>. QED
      BY <2>5 DEF Runs
  <2>. QED
    BY <2>6
<1>. HIDE DEF S
<1>3. 0..n \subseteq S
  BY <1>1, <1>2, CountingUp
<1>. QED
  BY <1>3 DEF S

\* The loop of process_mouse.
LEMMA MouseRuns ==
    ASSUME NEW g, NEW m, Len(m.events) \in Nat
    PROVE  \E h : Runs(h, Len(m.events), g, Loop("mouse", m)) /\ ProcessMouse(g, m) = h[Len(m.events)]
<1>. DEFINE n == Len(m.events)
            it == CHOOSE h : Runs(h, n, g, Loop("mouse", m))
<1>1. ProcessMouse(g, m) = it[n]
  BY DEF ProcessMouse, Runs, Turn, Loop
<1>2. \E h : Runs(h, n, g, Loop("mouse", m))
  BY EventLoopRuns
<1>. QED
  BY <1>1, <1>2

\* The loop of process_keyboard.
LEMMA KeysRun ==
    ASSUME NEW g, NEW ks, KeysTaken(g, ks) \in Nat
    PROVE  \E h : Runs(h, KeysTaken(g, ks), g, Loop("keys", ks)) /\ ProcessKeyboard(g, ks) = h[KeysTaken(g, ks)]
<1>. DEFINE n == KeysTaken(g, ks)
            it == CHOOSE h : Runs(h, n, g, Loop("keys", ks))
<1>1. ProcessKeyboard(g, ks) = it[n]
  BY DEF ProcessKeyboard, Runs, Turn, Loop
<1>2. \E h : Runs(h, n, g, Loop("keys", ks))
  BY EventLoopRuns
<1>. QED
  BY <1>1, <1>2

\* All events of the mouse.
LEMMA MouseKeeps ==
    ASSUME NEW g, DeskOK(g), NEW m, Len(m.events) \in Nat, m.spot \in Spot
    PROVE  DeskOK(ProcessMouse(g, m))
<1>. DEFINE n == Len(m.events)
<1>1. PICK h : Runs(h, n, g, Loop("mouse", m)) /\ ProcessMouse(g, m) = h[n]
  BY MouseRuns
<1>. HIDE DEF n
<1>n. n \in Nat
  BY DEF n
<1>. DEFINE S == {i \in 0..n : DeskOK(h[i])}
<1>2. \A i \in 0..n : h[i] = IF i = 0 THEN g ELSE MouseEvent(h[i - 1], m.events[i], m.row, m.spot)
  BY <1>1 DEF Runs, Turn, Loop
<1>3. 0 \in S
  BY <1>2, <1>n
<1>4. ASSUME NEW i \in 1..n, i - 1 \in S PROVE i \in S
  <2>1. i \in 0..n /\ i # 0
    OBVIOUS
  <2>2. h[i] = MouseEvent(h[i - 1], m.events[i], m.row, m.spot)
    BY <1>2, <2>1
  <2>3. DeskOK(h[i])
    BY <1>4, <2>2, EventKeeps
  <2>. QED
    BY <2>1, <2>3
<1>. HIDE DEF S
<1>5. 0..n \subseteq S
  BY <1>3, <1>4, <1>n, CountingUp
<1>6. n \in S
  BY <1>5, <1>n
<1>. QED
  BY <1>1, <1>6 DEF S

\* Keys are taken while there is a window, and none after the one that closes it.
LEMMA TakenIs ==
    ASSUME NEW g, NEW T, NEW ks \in Seq(T)
    PROVE  /\ KeysTaken(g, ks) \in 0..Len(ks) /\ (KeysTaken(g, ks) > 0 => g.list # <<>>)
           /\ \A i \in 1..KeysTaken(g, ks) - 1 : ks[i] # "altf4"
<1>. DEFINE n == KeysTaken(g, ks)
            closes == {i \in DOMAIN ks : ks[i] = "altf4"}
<1>1. /\ n \in 0..Len(ks) /\ (n > 0 => g.list # <<>>)
      /\ \A i \in 1..n - 1 : ks[i] # "altf4"
  <2>1. n = IF g.list = <<>> \/ ~g.win[Head(g.list)].focused THEN 0
            ELSE IF closes = {} THEN Len(ks) ELSE Min(closes)
    BY DEF KeysTaken
  <2>2. closes \subseteq 1..Len(ks) /\ \A i \in 1..Len(ks) : ks[i] = "altf4" => i \in closes
    OBVIOUS
  <2>. HIDE DEF closes, n
  <2>3. CASE closes = {}
    BY <2>1, <2>2, <2>3
  <2>4. CASE closes # {}
    <3>1. closes \subseteq Nat
      BY <2>2
    <3>2. Min(closes) \in closes /\ \A i \in closes : Min(closes) <= i
      BY <2>4, <3>1, MinOfNats
    <3>. QED
      BY <2>1, <2>2, <2>4, <3>2
  <2>. QED
    BY <2>3, <2>4
<1>. QED
  BY <1>1

\* Only the last key taken may close a window.
LEMMA KeysKeep ==
    ASSUME NEW g, DeskOK(g), NEW T, NEW ks \in Seq(T)
    PROVE  DeskOK(ProcessKeyboard(g, ks))
<1>. DEFINE n == KeysTaken(g, ks)
<1>0. /\ n \in 0..Len(ks) /\ (n > 0 => g.list # <<>>)
      /\ \A i \in 1..n - 1 : ks[i] # "altf4"
  BY TakenIs
<1>1. PICK h : Runs(h, n, g, Loop("keys", ks)) /\ ProcessKeyboard(g, ks) = h[n]
  BY <1>0, KeysRun
<1>. HIDE DEF n
<1>. DEFINE S == {i \in 0..n : DeskOK(h[i]) /\ (i < n => h[i].list = g.list)}
<1>2. \A i \in 0..n : h[i] = IF i = 0 THEN g ELSE KeyEvent(h[i - 1], ks[i])
  BY <1>1 DEF Runs, Turn, Loop
<1>3. 0 \in S
  BY <1>0, <1>2
<1>4. ASSUME NEW i \in 1..n, i - 1 \in S PROVE i \in S
  <2>1. i \in 0..n /\ i # 0 /\ i - 1 < n /\ n > 0
    BY <1>0
  <2>2. h[i] = KeyEvent(h[i - 1], ks[i])
    BY <1>2, <2>1
  <2>3. DeskOK(h[i - 1]) /\ h[i - 1].list # <<>> /\ h[i - 1].list = g.list
    BY <1>0, <1>4, <2>1
  <2>. DEFINE k == h[i - 1]
  <2>4. CASE ks[i] = "altf4"
    <3>1. Head(k.list) \in ToSet(k.list)
      BY <2>3, TopListed
    <3>2. DeskOK(h[i])
      BY <2>2, <2>3, <2>4, <3>1, DestroyKeeps DEF KeyEvent
    <3>3. ~(i < n)
      BY <1>0, <2>4
    <3>. QED
      BY <2>1, <3>2, <3>3
  <2>5. CASE ks[i] # "altf4"
    <3>1. h[i] = PushEvent(k, Head(k.list), "key")
      BY <2>2, <2>5 DEF KeyEvent
    <3>2. Keeps(k, h[i])
      BY <2>3, <3>1, PushKeeps
    <3>. QED
      BY <2>1, <2>3, <3>2 DEF Keeps
  <2>. QED
    BY <2>4, <2>5
<1>. HIDE DEF S
<1>5. 0..n \subseteq S
  BY <1>0, <1>3, <1>4, CountingUp
<1>6. n \in S
  BY <1>0, <1>5
<1>. QED
  BY <1>1, <1>6 DEF S

\* All windows of a program go when it dies.
LEMMA DeathKeeps ==
    ASSUME DeskOK(gui), NEW c, OwnerDies(c), WindowMax \in Nat
    PROVE  DeskOK(gui')
<1>. DEFINE it == CHOOSE h : Runs(h, WindowMax, gui, Loop("death", c))
<1>1. gui' = it[WindowMax]
  BY DEF OwnerDies, Runs, Turn, Loop
<1>2. \E h : Runs(h, WindowMax, gui, Loop("death", c))
  BY EventLoopRuns
<1>3. PICK h : Runs(h, WindowMax, gui, Loop("death", c)) /\ gui' = h[WindowMax]
  BY <1>1, <1>2
<1>. DEFINE S == {i \in 0..WindowMax : DeskOK(h[i])}
<1>4. \A i \in 0..WindowMax : h[i] = IF i = 0 THEN gui ELSE DestroyIfOf(h[i - 1], i, c)
  BY <1>3 DEF Runs, Turn, Loop
<1>5. 0 \in S
  BY <1>4
<1>6. ASSUME NEW i \in 1..WindowMax, i - 1 \in S PROVE i \in S
  <2>1. i \in 0..WindowMax /\ i # 0 /\ i \in Slot
    BY DEF Slot
  <2>2. h[i] = DestroyIfOf(h[i - 1], i, c)
    BY <1>4, <2>1
  <2>3. DeskOK(h[i])
    BY <1>6, <2>2, DestroyKeeps DEF DestroyIfOf
  <2>. QED
    BY <2>1, <2>3
<1>. HIDE DEF S
<1>7. 0..WindowMax \subseteq S
  BY <1>5, <1>6, CountingUp
<1>8. WindowMax \in S
  BY <1>7
<1>. QED
  BY <1>3, <1>8 DEF S

\* Drawing leaves the windows alone.
LEMMA CompositeKeeps ==
    ASSUME NEW g, DeskOK(g), NEW row
    PROVE  Keeps(g, Composite(g, row)) /\ Keeps(g, FullComposite(g))
<1>1. ASSUME NEW k, DeskOK(k), NEW slots PROVE Keeps(k, Clean(k, slots))
  <2>. DEFINE h == Clean(k, slots)
  <2>1. /\ DeskFields \subseteq DOMAIN h /\ h.list = k.list /\ h.owned = k.owned /\ h.nextId = k.nextId
        /\ h.win = [s \in Slot |-> [k.win[s] EXCEPT !.dirty = k.win[s].dirty /\ s \notin slots]]
    BY <1>1 DEF Clean, DeskOK, DeskShape, DeskFields
  <2>. HIDE DEF h
  <2>2. SameWindows(k, h)
    BY <1>1, <2>1 DEF SameWindows, DeskOK, DeskShape, WinFields
  <2>. QED
    BY <1>1, <2>2, SameKeeps DEF h
<1>2. ASSUME NEW k, DeskOK(k), NEW rows PROVE Keeps(k, BlitRows(k, rows))
  <2>1. SameWindows(k, BlitRows(k, rows))
    BY <1>2 DEF SameWindows, BlitRows, DeskOK, DeskShape, DeskFields
  <2>. QED
    BY <1>2, <2>1, SameKeeps
<1>3. Keeps(g, FullComposite(g))
  <2>. DEFINE r == Redrawn(g)
              b == BlitRows(r, IF Banded(r) THEN BandRows(r) ELSE Row)
              p == Presented(r)
              c == Clean(p, OnShow(g))
  <2>1. Keeps(g, r)
    <3>1. SameWindows(g, r)
      BY DEF Redrawn, SameWindows, DeskOK, DeskShape, DeskFields
    <3>. HIDE DEF r
    <3>. QED
      BY <3>1, SameKeeps
  <2>. HIDE DEF r
  <2>2. Keeps(r, b)
    BY <1>2, <2>1 DEF Keeps
  <2>3. Keeps(b, p)
    <3>1. SameWindows(b, p)
      <4>1. p = [b EXCEPT !.excused = Banded(r) /\ (@ \/ BandMisses(r))]
        BY DEF Presented
      <4>. HIDE DEF b, p
      <4>. QED
        BY <2>2, <4>1 DEF Keeps, SameWindows, DeskOK, DeskShape, DeskFields
    <3>. HIDE DEF b, p
    <3>. QED
      BY <2>2, <3>1, SameKeeps DEF Keeps
  <2>. HIDE DEF p, b
  <2>4. Keeps(p, c)
    BY <1>1, <2>3 DEF Keeps
  <2>5. FullComposite(g) = [c EXCEPT !.scene = FALSE, !.whole = FALSE, !.band = NoBand]
    BY DEF FullComposite, c, p, r
  <2>. HIDE DEF c
  <2>6. SameWindows(c, FullComposite(g))
    BY <2>4, <2>5 DEF Keeps, SameWindows, DeskOK, DeskShape, DeskFields
  <2>7. Keeps(c, FullComposite(g))
    BY <2>4, <2>6, SameKeeps DEF Keeps
  <2>. QED
    BY <2>1, <2>2, <2>3, <2>4, <2>7 DEF Keeps
<1>4. Keeps(g, PartialComposite(g, row))
  <2>. DEFINE d == PartialDrawn(g)
              b == BlitRows(d, PartialRows(g, row))
  <2>1. SameWindows(g, d)
    BY DEF PartialDrawn, SameWindows, DeskOK, DeskShape, DeskFields
  <2>. HIDE DEF d
  <2>2. Keeps(g, d)
    BY <2>1, SameKeeps
  <2>3. Keeps(d, b)
    BY <1>2, <2>2 DEF Keeps
  <2>4. PartialComposite(g, row) = Clean(b, Repaint(g))
    BY DEF PartialComposite, b, d
  <2>. HIDE DEF b
  <2>5. Keeps(b, PartialComposite(g, row))
    BY <1>1, <2>3, <2>4 DEF Keeps
  <2>. QED
    BY <2>2, <2>3, <2>5 DEF Keeps
<1>. QED
  BY <1>3, <1>4 DEF Composite

\* So does the end of a pass.
LEMMA ShownKeeps ==
    ASSUME NEW g, DeskOK(g), NEW m
    PROVE  DeskOK(Shown(g, m))
<1>. DEFINE c == Composite(g, m.row)
<1>1. DeskOK(c)
  BY CompositeKeeps DEF Keeps
<1>2. Shown(g, m) = [c EXCEPT !.prev = [row |-> m.row, spot |-> m.spot]]
  BY DEF Shown
<1>. HIDE DEF c
<1>3. SameWindows(c, Shown(g, m))
  BY <1>1, <1>2 DEF SameWindows, DeskOK, DeskShape, DeskFields
<1>. QED
  BY <1>1, <1>3, SameKeeps DEF Keeps

\* Focus follows the mouse,
LEMMA PointerKeeps ==
    ASSUME NEW g, DeskOK(g), NEW m
    PROVE  DeskOK(PointerMoved(g, m))
<1>. DEFINE d == [g EXCEPT !.dirty = TRUE]
            s == HitTest(g, m.row)
            k == [d EXCEPT !.hover = s]
<1>1. Keeps(g, d)
  <2>1. SameWindows(g, d)
    BY DEF SameWindows, DeskOK, DeskShape, DeskFields
  <2>. QED
    BY <2>1, SameKeeps
<1>. HIDE DEF d
<1>2. Keeps(d, k)
  <2>1. SameWindows(d, k)
    BY <1>1 DEF Keeps, SameWindows, DeskOK, DeskShape, DeskFields
  <2>. HIDE DEF k
  <2>. QED
    BY <1>1, <2>1, SameKeeps DEF Keeps
<1>3. s # NoWin => s \in ToSet(g.list)
  BY HitIs
<1>. HIDE DEF s, k
<1>4. DeskOK(HoverFocus(k, s))
  <2>1. ASSUME s # NoWin PROVE DeskOK(SceneDirty(FocusWindow(k, s)))
    <3>1. DeskOK(k) /\ s \in ToSet(k.list)
      BY <1>1, <1>2, <1>3, <2>1 DEF Keeps
    <3>2. DeskOK(FocusWindow(k, s))
      BY <3>1, FocusKeeps
    <3>. QED
      BY <3>2, WakeKeeps DEF Keeps
  <2>. QED
    BY <1>2, <2>1 DEF HoverFocus, Keeps
<1>5. PointerMoved(g, m) \in {g, d, HoverFocus(k, s)}
  BY DEF PointerMoved, Hover, d, k, s
<1>. QED
  BY <1>1, <1>4, <1>5 DEF Keeps

\* the end of the compositor leaves the windows alone,
LEMMA QuitKeeps ==
    ASSUME NEW g, DeskOK(g)
    PROVE  DeskOK(Quit(g))
<1>. DEFINE k == SceneDirty(g)
<1>1. DeskOK(k)
  BY WakeKeeps DEF Keeps
<1>2. Quit(g) = [k EXCEPT !.quit = FALSE, !.dirty = FALSE, !.prev = Nowhere, !.hover = NoWin, !.running = FALSE]
  BY DEF Quit
<1>. HIDE DEF k
<1>3. SameWindows(k, Quit(g))
  BY <1>1, <1>2 DEF SameWindows, DeskOK, DeskShape, DeskFields
<1>. QED
  BY <1>1, <1>3, SameKeeps DEF Keeps

\* and else the compositor draws.
LEMMA PassKeeps ==
    ASSUME NEW g, DeskOK(g), NEW m
    PROVE  DeskOK(CompositorPass(g, m))
<1>1. DeskOK(Quit(g))
  BY QuitKeeps
<1>2. DeskOK(PointerMoved(g, m))
  BY PointerKeeps
<1>3. ASSUME NEW k, DeskOK(k) PROVE DeskOK(CompositePass(k, m))
  <2>. DEFINE d == [k EXCEPT !.dirty = FALSE]
  <2>1. DeskOK(d)
    <3>1. SameWindows(k, d)
      BY <1>3 DEF SameWindows, DeskOK, DeskShape, DeskFields
    <3>. QED
      BY <1>3, <3>1, SameKeeps DEF Keeps
  <2>2. CompositePass(k, m) \in {k, BeginScale(d), Shown(d, m)}
    BY DEF CompositePass
  <2>. HIDE DEF d
  <2>3. DeskOK(BeginScale(d))
    <3>1. SameWindows(d, BeginScale(d))
      BY <2>1 DEF BeginScale, SameWindows, DeskOK, DeskShape, DeskFields
    <3>. QED
      BY <2>1, <3>1, SameKeeps DEF Keeps
  <2>. QED
    BY <1>3, <2>1, <2>2, <2>3, ShownKeeps
<1>. QED
  BY <1>1, <1>2, <1>3 DEF CompositorPass

---------------------------------------------------------------------------

\* What the windows are once the compositor has made a half made change of the list.
Completed(g, f) ==
    CASE f.step = "out" -> In(g, f.win)
      [] f.step = "closing" -> AfterDestroy(g)
      [] OTHER -> g
PassFields == {"step", "win", "why", "row", "spot", "last", "torn"}
KeptBy(g, f) ==
    ~f.torn => /\ DeskShape(g) /\ DeskOK(Completed(g, f))
               /\ f.step = "out" => f.win \in Slot
               /\ f.step = "closing" => (f.last <=> g.list = <<>>)
\* This is so until a call finds the list half changed.
DesktopInv ==
    /\ KeptBy(gui, first) /\ PassFields \subseteq DOMAIN first
    /\ keys \in Seq({"char", "altf4"}) /\ mouse.events \in Seq(BOOLEAN) /\ mouse.spot \in Spot
    /\ {"events", "spot"} \subseteq DOMAIN mouse

\* The steps of the first pass.
LEMMA UpToIs ==
    ASSUME NEW f, NEW step
    PROVE  PassFields \subseteq DOMAIN UpTo(f, step) /\ UpTo(f, step).step = step /\ UpTo(f, step).torn = f.torn
BY DEF UpTo, NoPass, PassFields

LEMMA RaiseIs ==
    ASSUME NEW f, NEW s, NEW why, NEW m
    PROVE  /\ PassFields \subseteq DOMAIN Raise(f, s, why, m)
           /\ Raise(f, s, why, m).step = "hit" /\ Raise(f, s, why, m).torn = f.torn
BY UpToIs DEF Raise, PassFields

LEMMA CloseIs ==
    ASSUME NEW f, NEW list, NEW why
    PROVE  /\ PassFields \subseteq DOMAIN Close(f, list, why)
           /\ Close(f, list, why).step = "closing" /\ Close(f, list, why).torn = f.torn
BY UpToIs DEF Close, PassFields

\* Between these steps nothing is half changed.
LEMMA NotMidway ==
    ASSUME NEW g, NEW f, f.step \notin Midway
    PROVE  KeptBy(g, f) <=> (~f.torn => DeskOK(g))
<1>1. f.step # "out" /\ f.step # "closing" /\ Completed(g, f) = g
  BY DEF Midway, Completed
<1>. QED
  BY <1>1 DEF KeptBy, DeskOK

\* The pass goes on from one of these steps to another.
LEMMA PassOnKeeps ==
    ASSUME NEW g, NEW f, NEW step, step \notin Midway, ~f.torn => DeskOK(g)
    PROVE  KeptBy(g, UpTo(f, step)) /\ PassFields \subseteq DOMAIN UpTo(f, step)
<1>1. /\ PassFields \subseteq DOMAIN UpTo(f, step) /\ UpTo(f, step).step = step
      /\ UpTo(f, step).torn = f.torn
  BY UpToIs
<1>. QED
  BY <1>1, NotMidway

\* What leaves the windows alone does so for what becomes of them.
LEMMA SameCompleted ==
    ASSUME NEW g, NEW f, KeptBy(g, f), NEW h, ~f.torn => SameWindows(g, h)
    PROVE  KeptBy(h, f)
<1>. SUFFICES ASSUME ~f.torn PROVE KeptBy(h, f)
  BY DEF KeptBy
<1>0. /\ DeskShape(g) /\ DeskOK(Completed(g, f)) /\ SameWindows(g, h)
      /\ f.step = "out" => f.win \in Slot
      /\ f.step = "closing" => (f.last <=> g.list = <<>>)
  BY DEF KeptBy
<1>1. DeskShape(h)
  BY <1>0, SameShape
<1>2. SameWindows(Completed(g, f), Completed(h, f))
  <2>1. CASE f.step = "out"
    <3>1. SameWindows(In(g, f.win), In(h, f.win))
      BY <1>0, <1>1, <2>1 DEF In, SameWindows, DeskShape, DeskFields, WinFields
    <3>. QED
      BY <2>1, <3>1 DEF Completed
  <2>2. CASE f.step = "closing"
    <3>1. SameWindows(AfterDestroy(g), AfterDestroy(h))
      <4>1. CASE g.list = <<>>
        <5>1. SameWindows(LastClosed(g), LastClosed(h))
          BY <1>0, <1>1 DEF LastClosed, SameWindows, DeskShape, DeskFields
        <5>. QED
          BY <1>0, <4>1, <5>1 DEF AfterDestroy, SameWindows
      <4>2. CASE g.list # <<>>
        <5>. DEFINE k == [g EXCEPT !.win[Head(g.list)].focused = TRUE]
                    l == [h EXCEPT !.win[Head(g.list)].focused = TRUE]
        <5>0. Head(g.list) \in Slot
          BY <1>0, <4>2 DEF DeskShape
        <5>1. SameWindows(k, l)
          BY <1>0, <1>1, <5>0 DEF SameWindows, DeskShape, DeskFields, WinFields
        <5>2. DeskShape(k)
          BY <1>0, <5>0 DEF DeskShape, DeskFields, WinFields
        <5>3. AfterDestroy(g) = WakeScene(k) /\ AfterDestroy(h) = WakeScene(l)
          BY <1>0, <4>2 DEF AfterDestroy, FocusNext, SameWindows
        <5>. HIDE DEF k, l
        <5>4. DeskShape(l)
          BY <5>1, <5>2, SameShape
        <5>5. SameWindows(k, WakeScene(k)) /\ SameWindows(l, WakeScene(l))
          BY <5>2, <5>4, WakeSame
        <5>. QED
          BY <5>1, <5>3, <5>5 DEF SameWindows
      <4>. QED
        BY <4>1, <4>2
    <3>. QED
      BY <2>2, <3>1 DEF Completed
  <2>3. CASE f.step # "out" /\ f.step # "closing"
    BY <1>0, <2>3 DEF Completed
  <2>. QED
    BY <2>1, <2>2, <2>3
<1>3. DeskOK(Completed(h, f))
  BY <1>0, <1>2, SameKeeps DEF Keeps
<1>. QED
  BY <1>0, <1>1, <1>3 DEF KeptBy, SameWindows

\* A window of the list that is about to be closed.
LEMMA ClosingKeeps ==
    ASSUME NEW g, DeskOK(g), NEW s \in ToSet(g.list), NEW f, NEW why, Closing(g, s, f, why)
    PROVE  KeptBy(gui', first') /\ PassFields \subseteq DOMAIN first' /\ first'.torn = f.torn
<1>1. gui' = Unlisted(g, s) /\ first' = Close(f, Unlisted(g, s).list, why)
  BY DEF Closing
<1>2. /\ PassFields \subseteq DOMAIN first' /\ first'.step = "closing" /\ first'.torn = f.torn
      /\ first'.last = (gui'.list = <<>>)
  <2>1. PICK rest : rest = Unlisted(g, s).list
    OBVIOUS
  <2>2. gui'.list = rest /\ first' = Close(f, rest, why)
    BY <1>1, <2>1
  <2>3. PassFields \subseteq DOMAIN Close(f, rest, why)
    BY CloseIs
  <2>4. Close(f, rest, why).step = "closing" /\ Close(f, rest, why).torn = f.torn
    BY CloseIs
  <2>5. Close(f, rest, why).last = (rest = <<>>)
    BY UpToIs DEF Close, PassFields
  <2>6. first'.last = (rest = <<>>)
    BY <2>2, <2>5, Zenon
  <2>7. first'.last = (gui'.list = <<>>)
    BY <2>2, <2>6, Zenon
  <2>. QED
    BY <2>2, <2>3, <2>4, <2>7, Zenon
<1>3. Completed(gui', first') = DestroyWindow(g, s)
  BY <1>1, <1>2 DEF Completed, DestroyWindow
<1>4. DeskShape(gui') /\ DeskOK(Completed(gui', first'))
  BY <1>1, <1>3, DestroyKeeps
<1>. QED
  BY <1>2, <1>4 DEF KeptBy

\* A window that was raised, and what comes next.
LEMMA ContinueKeeps ==
    ASSUME NEW g, NEW f, ~f.torn => DeskOK(g) /\ f.win \in ToSet(g.list), Continue(g, f)
    PROVE  KeptBy(gui', first') /\ PassFields \subseteq DOMAIN first' /\ first'.torn = f.torn
<1>1. ASSUME NEW step \in {"mouse", "paint"}, first' = UpTo(f, step), ~f.torn => DeskOK(gui')
      PROVE  KeptBy(gui', first') /\ PassFields \subseteq DOMAIN first' /\ first'.torn = f.torn
  <2>1. PassFields \subseteq DOMAIN first' /\ first'.step = step /\ first'.torn = f.torn
    BY <1>1, UpToIs
  <2>2. first'.step \notin Midway
    BY <2>1 DEF Midway
  <2>. QED
    BY <1>1, <2>1, <2>2, NotMidway
<1>2. ASSUME gui' = LetGo(SceneDirty(g)), ~f.torn PROVE DeskOK(gui')
  <2>1. DeskOK(SceneDirty(g))
    BY <1>2, WakeKeeps DEF Keeps
  <2>. QED
    BY <1>2, <2>1, LetGoKeeps DEF Keeps
<1>3. ASSUME gui' = SceneDirty(g), ~f.torn PROVE DeskOK(gui')
  BY <1>3, WakeKeeps DEF Keeps
<1>4. ASSUME gui' = PressIn(g, f.win, f.row, f.spot), ~f.torn PROVE DeskOK(gui')
  BY <1>4, PressInKeeps
<1>5. ASSUME Closing(g, f.win, f, "press")
      PROVE  KeptBy(gui', first') /\ PassFields \subseteq DOMAIN first' /\ first'.torn = f.torn
  <2>1. first'.torn = f.torn /\ PassFields \subseteq DOMAIN first'
    BY <1>5, CloseIs DEF Closing
  <2>2. ~f.torn => KeptBy(gui', first')
    BY <1>5, ClosingKeeps
  <2>. QED
    BY <2>1, <2>2 DEF KeptBy
<1>. QED
  BY <1>1, <1>2, <1>3, <1>4, <1>5 DEF Continue

\* The server starts without windows.
LEMMA DesktopInitInv ==
    ASSUME DesktopAssumption, DesktopInit
    PROVE  DesktopInv
<1>1. DeskOK(NoGui)
  <2>1. ToSet(<<>>) = {}
    BY DEF ToSet
  <2>2. NoGui.list = <<>> /\ <<>> \in Seq(Slot)
    BY DEF NoGui
  <2>3. DeskShape(NoGui)
    <3>1. NoGui.nextId = 1 /\ NoGui.owned = FALSE /\ NoGui.win = [s \in Slot |-> NoWindow] /\ DeskFields \subseteq DOMAIN NoGui
      BY DEF NoGui, DeskFields
    <3>2. NoWindow.focused = FALSE /\ WinFields \subseteq DOMAIN NoWindow
      BY DEF NoWindow, WinFields
    <3>3. DOMAIN NoGui.win = Slot /\ \A s \in Slot : NoGui.win[s] = NoWindow
      BY <3>1
    <3>4. \A s \in Slot : WinFields \subseteq DOMAIN NoGui.win[s] /\ NoGui.win[s].focused \in BOOLEAN
      BY <3>2, <3>3
    <3>. QED
      <4>1. NoGui.nextId \in Nat \ {0} /\ NoGui.owned \in BOOLEAN
        BY DEF NoGui
      <4>2. NoGui.list \in Seq(Slot)
        BY <2>2
      <4>. QED
        BY <3>1, <3>3, <3>4, <4>1, <4>2, Zenon DEF DeskShape
  <2>4. OpenListed(NoGui)
    BY <2>1, <2>2 DEF NoGui, NoWindow, OpenListed, Distinct
  <2>5. TopFocused(NoGui)
    BY <2>1, <2>2 DEF TopFocused
  <2>. QED
    BY <2>2, <2>3, <2>4, <2>5 DEF DeskOK, NoGui
<1>. QED
  <2>1. first = NoPass /\ first.step = "done" /\ PassFields \subseteq DOMAIN first
    BY DEF DesktopInit, NoPass, PassFields
  <2>2. KeptBy(gui, first)
    BY <1>1, <2>1, NotMidway DEF DesktopInit, Midway
  <2>. QED
    BY <2>1, <2>2 DEF DesktopInit, DesktopInv, Spot

\* A call that changes the list is noted when it is half changed.
LEMMA NotedKeeps ==
    ASSUME DesktopInv, first' = Noted(first, gui, gui'), DeskOK(gui) => DeskOK(gui')
    PROVE  KeptBy(gui', first') /\ PassFields \subseteq DOMAIN first'
<1>1. /\ PassFields \subseteq DOMAIN first' /\ first'.step = first.step
      /\ first'.win = first.win /\ first'.last = first.last
      /\ first'.torn = (first.torn \/ (first.step \in Midway /\ gui' # gui))
  BY DEF Noted, DesktopInv, PassFields
<1>2. CASE first.step \notin Midway
  <2>1. ~first'.torn => DeskOK(gui')
    BY <1>1, <1>2, NotMidway DEF DesktopInv
  <2>. QED
    BY <1>1, <1>2, <2>1, NotMidway
<1>3. CASE first.step \in Midway
  <2>1. ~first'.torn => gui' = gui /\ ~first.torn
    BY <1>1, <1>3
  <2>2. Completed(gui, first') = Completed(gui, first)
    BY <1>1 DEF Completed
  <2>. QED
    BY <1>1, <2>1, <2>2 DEF DesktopInv, KeptBy
<1>. QED
  BY <1>2, <1>3

\* The steps of the first pass. An event of the mouse,
LEMMA EventStepKeeps ==
    ASSUME DesktopInv, NextEvent
    PROVE  KeptBy(gui', first') /\ PassFields \subseteq DOMAIN first'
<1>1. PICK g \in {Pulled(gui, Head(mouse.events), mouse.row)} :
            \/ ~(g.held /\ ~gui.held) /\ gui' = Released(g, ~g.held /\ gui.held) /\ UNCHANGED first
            \/ g.held /\ ~gui.held /\ mouse.row = BarRow /\ BarPress(g, first, mouse)
            \/ g.held /\ ~gui.held /\ mouse.row # BarRow /\ WindowPress(g, first, mouse)
  BY DEF NextEvent
<1>2. first.step = "mouse" /\ first.step \notin Midway /\ PassFields \subseteq DOMAIN first
  BY DEF NextEvent, Midway, DesktopInv
<1>3. ~first.torn => DeskOK(g)
  <2>1. ~first.torn => DeskOK(gui)
    BY <1>2, NotMidway DEF DesktopInv
  <2>. QED
    BY <1>1, <2>1, PullKeeps
<1>4. ASSUME first' = first, ~first.torn => DeskOK(gui')
      PROVE  KeptBy(gui', first') /\ PassFields \subseteq DOMAIN first'
  BY <1>2, <1>4, NotMidway
<1>5. ASSUME gui' = Released(g, ~g.held /\ gui.held), UNCHANGED first
      PROVE  KeptBy(gui', first') /\ PassFields \subseteq DOMAIN first'
  <2>1. ~first.torn => DeskOK(gui')
    BY <1>3, <1>5, ReleaseKeeps DEF Keeps
  <2>. QED
    BY <1>4, <1>5, <2>1
<1>6. ASSUME NEW s, NEW why, gui' = g, first' = Raise(first, s, why, mouse)
      PROVE  KeptBy(gui', first') /\ PassFields \subseteq DOMAIN first'
  <2>1. PassFields \subseteq DOMAIN first' /\ first'.step = "hit" /\ first'.torn = first.torn
    BY <1>6, RaiseIs
  <2>2. first'.step \notin Midway
    BY <2>1 DEF Midway
  <2>. QED
    BY <1>3, <1>6, <2>1, <2>2, NotMidway
<1>7. ASSUME BarPress(g, first, mouse)
      PROVE  KeptBy(gui', first') /\ PassFields \subseteq DOMAIN first'
  <2>1. ASSUME g.list # <<>>, Closing(g, Head(g.list), first, "bar")
        PROVE  KeptBy(gui', first') /\ PassFields \subseteq DOMAIN first'
    <3>1. first'.torn = first.torn /\ PassFields \subseteq DOMAIN first'
      BY <2>1, CloseIs DEF Closing
    <3>2. ~first.torn => Head(g.list) \in ToSet(g.list)
      BY <1>3, <2>1, TopListed
    <3>3. ~first.torn => KeptBy(gui', first')
      BY <1>3, <2>1, <3>2, ClosingKeeps
    <3>. QED
      BY <3>1, <3>3 DEF KeptBy
  <2>2. ASSUME gui' = LetGo(g), first' = first
        PROVE  KeptBy(gui', first') /\ PassFields \subseteq DOMAIN first'
    <3>1. ~first.torn => DeskOK(gui')
      BY <1>3, <2>2, LetGoKeeps DEF Keeps
    <3>. QED
      BY <1>4, <2>2, <3>1
  <2>. QED
    BY <1>6, <1>7, <2>1, <2>2 DEF BarPress
<1>8. ASSUME WindowPress(g, first, mouse)
      PROVE  KeptBy(gui', first') /\ PassFields \subseteq DOMAIN first'
  BY <1>3, <1>4, <1>6, <1>8 DEF WindowPress
<1>. QED
  BY <1>1, <1>5, <1>7, <1>8

\* the two halves of focus_window,
LEMMA TakeOutKeeps ==
    ASSUME DesktopInv, TakeOut
    PROVE  KeptBy(gui', first') /\ PassFields \subseteq DOMAIN first'
<1>. DEFINE s == first.win
<1>1. first.step = "hit" /\ first.step \notin Midway /\ PassFields \subseteq DOMAIN first
  BY DEF TakeOut, Midway, DesktopInv
<1>2. ~first.torn => DeskOK(gui)
  BY <1>1, NotMidway DEF DesktopInv
<1>3. ASSUME IsTop(gui, s), Continue([gui EXCEPT !.win[s].focused = TRUE], first)
      PROVE  KeptBy(gui', first') /\ PassFields \subseteq DOMAIN first'
  <2>. DEFINE g == [gui EXCEPT !.win[s].focused = TRUE]
  <2>1. ASSUME ~first.torn PROVE DeskOK(g) /\ s \in ToSet(g.list)
    <3>1. s \in ToSet(gui.list)
      BY <1>2, <1>3, <2>1, TopListed DEF IsTop
    <3>2. g = FocusWindow(gui, s)
      BY <1>3 DEF FocusWindow, IsTop
    <3>. HIDE DEF g
    <3>. QED
      BY <1>2, <2>1, <3>1, <3>2, FocusKeeps
  <2>2. Continue(g, first)
    BY <1>3
  <2>. HIDE DEF g
  <2>. QED
    BY <2>1, <2>2, ContinueKeeps
<1>4. ASSUME ~IsTop(gui, s), gui' = Out(gui, s), first' = [first EXCEPT !.step = "out", !.torn = @ \/ s \notin ToSet(gui.list)]
      PROVE  KeptBy(gui', first') /\ PassFields \subseteq DOMAIN first'
  <2>1. /\ PassFields \subseteq DOMAIN first' /\ first'.step = "out" /\ first'.win = s
        /\ first'.torn = (first.torn \/ s \notin ToSet(gui.list))
    BY <1>1, <1>4 DEF PassFields
  <2>2. ASSUME ~first.torn, s \in ToSet(gui.list)
        PROVE  s \in Slot /\ DeskShape(gui') /\ DeskOK(In(gui', s))
    <3>1. DeskOK(gui) /\ s \in Slot /\ gui.list # <<>> /\ Head(gui.list) # s
      <4>1. DeskOK(gui) /\ gui.list \in Seq(Slot)
        BY <1>2, <2>2 DEF DeskOK, DeskShape
      <4>2. s \in Slot /\ gui.list # <<>>
        BY <2>2, <4>1, InToSet
      <4>. QED
        BY <1>4, <4>1, <4>2 DEF IsTop
    <3>2. DeskOK(FocusWindow(gui, s))
      BY <2>2, <3>1, FocusKeeps
    <3>. DEFINE k == FocusWindow(gui, s)
                off(t) == gui.win[t].focused /\ ~IsTop(gui, t)
                on(t) == IF t = s THEN TRUE ELSE gui.win[t].focused /\ (gui.list = <<>> \/ t # Head(gui.list))
    <3>3. /\ k.list = <<s>> \o WithoutWindow(gui.list, s) /\ k.owned = gui.owned /\ k.nextId = gui.nextId
          /\ k.win = [t \in Slot |-> [gui.win[t] EXCEPT !.focused = on(t)]]
      <4>. DEFINE p == PushFront(gui, s)
      <4>1. /\ p.owned = gui.owned /\ p.nextId = gui.nextId /\ "list" \in DOMAIN p
            /\ p.win = [t \in Slot |-> [gui.win[t] EXCEPT !.focused = on(t)]]
        BY <3>1 DEF PushFront, DeskOK, DeskShape, DeskFields
      <4>2. k = [p EXCEPT !.list = <<s>> \o WithoutWindow(gui.list, s)]
        BY <3>1 DEF FocusWindow
      <4>. HIDE DEF p, k, on
      <4>. QED
        BY <4>1, <4>2
    <3>4. /\ gui'.list = WithoutWindow(gui.list, s) /\ gui'.owned = gui.owned /\ gui'.nextId = gui.nextId
          /\ gui'.win = [t \in Slot |-> [gui.win[t] EXCEPT !.focused = off(t)]]
          /\ DeskFields \subseteq DOMAIN gui'
      BY <1>4, <3>1 DEF Out, DeskOK, DeskShape, DeskFields
    <3>5. \A t \in Slot : off(t) \in BOOLEAN /\ (t # s => on(t) = off(t))
      BY <3>1 DEF IsTop
    <3>6. \A t \in Slot : WinFields \subseteq DOMAIN gui.win[t]
      BY <3>1 DEF DeskOK, DeskShape
    <3>. HIDE DEF k, off, on
    <3>7. /\ DOMAIN gui'.win = Slot
          /\ \A t \in Slot : /\ WinFields \subseteq DOMAIN gui'.win[t]
                             /\ gui'.win[t].focused = off(t) /\ gui'.win[t].id = gui.win[t].id
      BY <3>4, <3>6 DEF WinFields
    <3>8. \A t \in Slot : k.win[t].focused = on(t) /\ k.win[t].id = gui.win[t].id
      BY <3>3, <3>6 DEF WinFields
    <3>9. WithoutWindow(gui.list, s) \in Seq(Slot)
      BY <2>2, <3>1, WithoutIs DEF DeskOK, DeskShape, OpenListed
    <3>10. DeskShape(gui')
      BY <3>1, <3>4, <3>5, <3>7, <3>9 DEF DeskOK, DeskShape
    <3>. DEFINE h == In(gui', s)
    <3>11. /\ DeskFields \subseteq DOMAIN h /\ h.list = <<s>> \o gui'.list /\ h.owned = gui'.owned
           /\ h.nextId = gui'.nextId /\ DOMAIN h.win = Slot
           /\ \A t \in Slot : /\ WinFields \subseteq DOMAIN h.win[t] /\ h.win[t].id = gui'.win[t].id
                              /\ h.win[t].focused = IF t = s THEN TRUE ELSE gui'.win[t].focused
      BY <3>1, <3>4, <3>7 DEF In, DeskFields, WinFields
    <3>. HIDE DEF h
    <3>12. on(s) = TRUE
      BY DEF on
    <3>13. SameWindows(k, h)
      <4>1. h.list = k.list /\ h.owned = k.owned /\ h.nextId = k.nextId
        BY <3>3, <3>4, <3>11
      <4>2. ASSUME NEW t \in Slot PROVE h.win[t].id = k.win[t].id /\ h.win[t].focused = k.win[t].focused
        <5>1. h.win[t].id = gui.win[t].id /\ k.win[t].id = gui.win[t].id /\ k.win[t].focused = on(t)
          BY <3>7, <3>8, <3>11
        <5>2. h.win[t].focused = on(t)
          <6>1. CASE t = s
            BY <3>11, <3>12, <6>1
          <6>2. CASE t # s
            BY <3>5, <3>7, <3>11, <6>2
          <6>. QED
            BY <6>1, <6>2
        <5>. QED
          BY <5>1, <5>2
      <4>. QED
        BY <3>11, <4>1, <4>2 DEF SameWindows
    <3>14. DeskOK(h)
      BY <3>2, <3>13, SameKeeps DEF Keeps, k
    <3>. QED
      BY <3>1, <3>10, <3>14 DEF h
  <2>3. Completed(gui', first') = In(gui', s)
    BY <2>1 DEF Completed
  <2>. QED
    BY <2>1, <2>2, <2>3 DEF KeptBy
<1>. QED
  BY <1>3, <1>4 DEF TakeOut

LEMMA PutInKeeps ==
    ASSUME DesktopInv, PutIn
    PROVE  KeptBy(gui', first') /\ PassFields \subseteq DOMAIN first'
<1>. DEFINE g == In(gui, first.win)
<1>1. first.step = "out" /\ Continue(g, first)
  BY DEF PutIn
<1>2. ASSUME ~first.torn PROVE DeskOK(g) /\ first.win \in ToSet(g.list)
  <2>1. DeskShape(gui) /\ DeskOK(g) /\ first.win \in Slot
    BY <1>1, <1>2 DEF DesktopInv, KeptBy, Completed
  <2>2. g.list = <<first.win>> \o gui.list
    BY <2>1 DEF In, DeskShape, DeskFields
  <2>3. g.list \in Seq(Slot) /\ 1 \in 1..Len(g.list) /\ g.list[1] = first.win
    <3>. HIDE DEF g
    <3>. QED
      BY <2>1, <2>2 DEF DeskShape
  <2>. HIDE DEF g
  <2>. QED
    BY <2>1, <2>3, InToSet
<1>. HIDE DEF g
<1>. QED
  BY <1>1, <1>2, ContinueKeeps

\* the end of gui_window_destroy,
LEMMA FinishKeeps ==
    ASSUME DesktopInv, FinishClose
    PROVE  KeptBy(gui', first') /\ PassFields \subseteq DOMAIN first'
<1>. DEFINE g == Ended(gui, first.last)
<1>1. /\ first.step = "closing"
      /\ \/ gui' = g /\ first' = UpTo(first, "look")
         \/ gui' = LetGo(g) /\ first' = UpTo(first, "mouse")
  BY DEF FinishClose
<1>2. ~first.torn => DeskOK(g)
  <2>1. ~first.torn => DeskOK(AfterDestroy(gui)) /\ (first.last <=> gui.list = <<>>)
    BY <1>1 DEF DesktopInv, KeptBy, Completed
  <2>2. (first.last <=> gui.list = <<>>) => g = AfterDestroy(gui)
    BY DEF Ended, AfterDestroy
  <2>. HIDE DEF g
  <2>. QED
    BY <2>1, <2>2
<1>. HIDE DEF g
<1>3. ~first.torn => DeskOK(gui')
  BY <1>1, <1>2, LetGoKeeps DEF Keeps
<1>4. PassFields \subseteq DOMAIN first' /\ first'.torn = first.torn /\ first'.step \in {"look", "mouse"}
  BY <1>1, UpToIs
<1>5. first'.step \notin Midway
  BY <1>4 DEF Midway
<1>. QED
  BY <1>3, <1>4, <1>5, NotMidway

\* a key, and the look at the pointer.
LEMMA KeyStepKeeps ==
    ASSUME DesktopInv, NextKey
    PROVE  KeptBy(gui', first') /\ PassFields \subseteq DOMAIN first'
<1>1. first.step = "keys" /\ first.step \notin Midway /\ PassFields \subseteq DOMAIN first
  BY DEF NextKey, Midway, DesktopInv
<1>2. ~first.torn => DeskOK(gui)
  BY <1>1, NotMidway DEF DesktopInv
<1>3. ASSUME gui.list # <<>>, Closing(gui, Head(gui.list), first, "key")
      PROVE  KeptBy(gui', first') /\ PassFields \subseteq DOMAIN first'
  <2>1. first'.torn = first.torn /\ PassFields \subseteq DOMAIN first'
    BY <1>3, CloseIs DEF Closing
  <2>2. ~first.torn => Head(gui.list) \in ToSet(gui.list)
    BY <1>2, <1>3, TopListed
  <2>3. ~first.torn => KeptBy(gui', first')
    BY <1>2, <1>3, <2>2, ClosingKeeps
  <2>. QED
    BY <2>1, <2>3 DEF KeptBy
<1>4. ASSUME gui' = PushEvent(gui, Head(gui.list), "key"), first' = first
      PROVE  KeptBy(gui', first') /\ PassFields \subseteq DOMAIN first'
  <2>1. ~first.torn => DeskOK(gui')
    BY <1>2, <1>4, PushKeeps DEF Keeps
  <2>. QED
    BY <1>1, <1>4, <2>1, NotMidway
<1>5. ASSUME gui' = gui, NEW step \in {"look", "keys"}, first' = UpTo(first, step)
      PROVE  KeptBy(gui', first') /\ PassFields \subseteq DOMAIN first'
  <2>1. step \notin Midway
    BY DEF Midway
  <2>2. KeptBy(gui, UpTo(first, step)) /\ PassFields \subseteq DOMAIN UpTo(first, step)
    BY <1>2, <2>1, PassOnKeeps
  <2>. QED
    BY <1>5, <2>2
<1>. QED
  BY <1>3, <1>4, <1>5 DEF NextKey, TopKey

LEMMA LookKeeps ==
    ASSUME DesktopInv, LookAround
    PROVE  KeptBy(gui', first') /\ PassFields \subseteq DOMAIN first'
<1>1. first.step = "look" /\ first.step \notin Midway /\ PassFields \subseteq DOMAIN first
  BY DEF LookAround, Midway, DesktopInv
<1>2. ~first.torn => DeskOK(gui)
  BY <1>1, NotMidway DEF DesktopInv
<1>3. ASSUME gui' = Quit(gui), first' = UpTo(first, "done")
      PROVE  KeptBy(gui', first') /\ PassFields \subseteq DOMAIN first'
  <2>1. ~first.torn => DeskOK(gui')
    BY <1>2, <1>3, QuitKeeps
  <2>2. "done" \notin Midway
    BY DEF Midway
  <2>3. KeptBy(gui', UpTo(first, "done")) /\ PassFields \subseteq DOMAIN UpTo(first, "done")
    BY <2>1, <2>2, PassOnKeeps
  <2>. QED
    BY <1>3, <2>3
<1>4. ASSUME Looked(gui, first, mouse)
      PROVE  KeptBy(gui', first') /\ PassFields \subseteq DOMAIN first'
  <2>. DEFINE s == IF mouse.row = BarRow THEN gui.hover ELSE HitTest(gui, mouse.row)
  <2>1. gui' = [gui EXCEPT !.dirty = TRUE, !.hover = s]
    BY <1>4 DEF Looked
  <2>2. first' = UpTo(first, "paint") \/ first' = Raise(first, s, "hover", mouse)
    BY <1>4 DEF Looked
  <2>. HIDE DEF s
  <2>3. ~first.torn => DeskOK(gui')
    <3>1. ~first.torn => SameWindows(gui, gui')
      BY <1>2, <2>1 DEF SameWindows, DeskOK, DeskShape, DeskFields
    <3>. QED
      BY <1>2, <3>1, SameKeeps DEF Keeps
  <2>4. PassFields \subseteq DOMAIN first' /\ first'.torn = first.torn /\ first'.step \in {"paint", "hit"}
    BY <2>2, UpToIs, RaiseIs
  <2>5. first'.step \notin Midway
    BY <2>4 DEF Midway
  <2>. QED
    BY <2>3, <2>4, <2>5, NotMidway
<1>. QED
  BY <1>3, <1>4 DEF LookAround

\* Each call, interrupt and step of the compositor keeps the invariant, as long as there
\* is a compositor to which a first pass belongs, and it scales no background in it.
PassServed == ~first.torn /\ first.step # "done" => gui.running /\ gui.step = "rest"
LEMMA DesktopStep ==
    ASSUME DesktopAssumption, DesktopInv, PassServed, [DesktopNext]_desktopVars
    PROVE  DesktopInv'
<1>0. /\ WindowMax \in Nat /\ PassFields \subseteq DOMAIN first
      /\ keys \in Seq({"char", "altf4"}) /\ mouse.events \in Seq(BOOLEAN) /\ mouse.spot \in Spot
      /\ {"events", "spot"} \subseteq DOMAIN mouse
  BY DEF DesktopInv, DesktopAssumption
<1>s. ~first.torn => DeskShape(gui)
  BY DEF DesktopInv, KeptBy
<1>a. ASSUME KeptBy(gui', first'), PassFields \subseteq DOMAIN first', UNCHANGED <<mouse, keys>>
      PROVE  DesktopInv'
  BY <1>0, <1>a DEF DesktopInv
<1>b. ASSUME ~first.torn => SameWindows(gui, gui'), UNCHANGED first PROVE KeptBy(gui', first')
  BY <1>b, SameCompleted DEF DesktopInv
<1>c. ASSUME ~first.torn => DeskOK(gui'), UNCHANGED first, first.step \notin Midway PROVE KeptBy(gui', first')
  BY <1>c, NotMidway
<1>d. first.step = "done" /\ ~first.torn => DeskOK(gui)
  <2>1. first.step = "done" => first.step \notin Midway
    BY DEF Midway
  <2>. QED
    BY <2>1, NotMidway DEF DesktopInv
<1>1. ASSUME NEW c, NEW p, WinCreate(c, p) PROVE DesktopInv'
  <2>. DEFINE g == StartCompositor(gui)
              f == Noted(first, gui, gui')
  <2>1. gui' = IF FreeSlots(g) = {} THEN g ELSE Opened(g, Min(FreeSlots(g)), c, p)
    BY <1>1 DEF WinCreate
  <2>2. ASSUME DeskOK(gui) PROVE DeskOK(gui')
    <3>1. SameWindows(gui, g)
      BY <2>2 DEF StartCompositor, SameWindows, DeskOK, DeskShape, DeskFields
    <3>. HIDE DEF g
    <3>2. DeskOK(g)
      BY <2>2, <3>1, SameKeeps DEF Keeps
    <3>3. FreeSlots(g) # {} => Min(FreeSlots(g)) \in FreeSlots(g)
      <4>1. FreeSlots(g) \subseteq Nat
        BY DEF FreeSlots, Slot
      <4>. QED
        BY <4>1, MinOfNats
    <3>. QED
      BY <2>1, <3>2, <3>3, OpenKeeps
  <2>. HIDE DEF g
  <2>3. CASE gui.running
    <3>1. first' = Noted(first, gui, gui')
      BY <1>1, <2>3 DEF WinCreate
    <3>. QED
      BY <1>1, <1>a, <2>2, <3>1, NotedKeeps DEF WinCreate
  <2>4. CASE ~gui.running
    <3>1. first' = UpTo(f, "mouse")
      BY <1>1, <2>4 DEF WinCreate
    <3>2. f.torn = (first.torn \/ (first.step \in Midway /\ gui' # gui))
      BY <1>0 DEF Noted, PassFields
    <3>. HIDE DEF f
    <3>3. ~f.torn => DeskOK(gui')
      BY <1>d, <2>2, <2>4, <3>2 DEF PassServed
    <3>4. "mouse" \notin Midway
      BY DEF Midway
    <3>5. KeptBy(gui', UpTo(f, "mouse")) /\ PassFields \subseteq DOMAIN UpTo(f, "mouse")
      BY <3>3, <3>4, PassOnKeeps
    <3>. QED
      BY <1>1, <1>a, <3>1, <3>5 DEF WinCreate
  <2>. QED
    BY <2>3, <2>4
<1>2. ASSUME NEW s, WinDestroy(s) PROVE DesktopInv'
  <2>1. DeskOK(gui) => DeskOK(gui')
    BY <1>2, DestroyKeeps DEF WinDestroy, OnWindow
  <2>. QED
    BY <1>2, <1>a, <2>1, NotedKeeps DEF WinDestroy, OnWindow
<1>3. ASSUME NEW s, NEW c, WinDraw(s, c) PROVE DesktopInv'
  <2>1. ~first.torn => SameWindows(gui, gui')
    BY <1>s, <1>3 DEF WinDraw, SameWindows, DeskShape, DeskFields, WinFields
  <2>. QED
    BY <1>0, <1>3, <1>a, <1>b, <2>1 DEF WinDraw, OnWindow
<1>4. ASSUME NEW s, WinFlip(s) PROVE DesktopInv'
  <2>. DEFINE g == IF gui.win[s].visible THEN gui ELSE WakeScene(gui)
              k == [g EXCEPT !.win[s].visible = TRUE, !.win[s].dirty = TRUE, !.win[s].fresh = {gui.win[s].content}]
  <2>1. gui' = Wake(k)
    BY <1>4 DEF WinFlip, Flipped
  <2>2. ASSUME ~first.torn PROVE SameWindows(gui, gui')
    <3>1. SameWindows(gui, g) /\ DeskShape(g)
      <4>1. SameWindows(gui, gui)
        BY <1>s, <2>2 DEF SameWindows, DeskShape
      <4>2. SameWindows(gui, g)
        BY <1>s, <2>2, <4>1, WakeSame
      <4>. QED
        BY <1>s, <2>2, <4>2, SameShape
    <3>. HIDE DEF g
    <3>2. SameWindows(g, k)
      BY <3>1 DEF SameWindows, DeskShape, DeskFields, WinFields
    <3>. HIDE DEF k
    <3>3. DeskShape(k)
      BY <3>1, <3>2, SameShape
    <3>4. SameWindows(k, Wake(k))
      BY <3>3, WakeSame
    <3>. QED
      BY <2>1, <3>1, <3>2, <3>4 DEF SameWindows
  <2>. QED
    BY <1>0, <1>4, <1>a, <1>b, <2>2 DEF WinFlip, OnWindow
<1>5. ASSUME NEW s, WinPollEvent(s) PROVE DesktopInv'
  <2>1. ~first.torn => SameWindows(gui, gui')
    BY <1>s, <1>5 DEF WinPollEvent, SameWindows, DeskShape, DeskFields, WinFields
  <2>. QED
    BY <1>0, <1>5, <1>a, <1>b, <2>1 DEF WinPollEvent, OnWindow
<1>6. ASSUME NEW c, OwnerDies(c) PROVE DesktopInv'
  <2>1. DeskOK(gui) => DeskOK(gui')
    BY <1>0, <1>6, DeathKeeps
  <2>. QED
    BY <1>6, <1>a, <2>1, NotedKeeps DEF OwnerDies
<1>7. ASSUME NEW pic, SetBg(pic) PROVE DesktopInv'
  <2>. DEFINE k == [gui EXCEPT !.rawValid = pic # "huge", !.raw = IF pic = "huge" THEN @ ELSE pic,
                               !.scaled = "none",
                               !.wanted = CASE gui.step = "scaling" -> "any"
                                            [] gui.step = "rest" /\ pic = "huge" -> "none"
                                            [] OTHER -> pic]
  <2>1. gui' = WakeScene(k)
    BY <1>7 DEF SetBg
  <2>2. ASSUME ~first.torn PROVE SameWindows(gui, gui')
    <3>1. SameWindows(gui, k)
      BY <1>s, <2>2 DEF SameWindows, DeskShape, DeskFields
    <3>. HIDE DEF k
    <3>2. DeskShape(k)
      BY <1>s, <2>2, <3>1, SameShape
    <3>3. SameWindows(k, WakeScene(k))
      BY <3>2, WakeSame
    <3>. QED
      BY <2>1, <3>1, <3>3 DEF SameWindows
  <2>. QED
    BY <1>0, <1>7, <1>a, <1>b, <2>2 DEF SetBg
<1>8. ASSUME NEW row, NEW spot \in Spot, NEW left \in BOOLEAN, MouseMoves(row, spot, left) PROVE DesktopInv'
  <2>1. KeptBy(gui', first') /\ first' = first
    BY <1>s, <1>b, <1>8, WakeSame DEF MouseMoves
  <2>2. /\ {"events", "spot"} \subseteq DOMAIN mouse' /\ mouse'.spot \in Spot
        /\ mouse'.events = IF Len(mouse.events) < RingSize - 1 THEN Append(mouse.events, left) ELSE mouse.events
    BY <1>8 DEF MouseMoves
  <2>3. mouse'.events \in Seq(BOOLEAN)
    <3>1. Append(mouse.events, left) \in Seq(BOOLEAN)
      BY <1>0, AppendProperties
    <3>. QED
      BY <1>0, <2>2, <3>1
  <2>. QED
    BY <1>0, <1>8, <2>1, <2>2, <2>3 DEF MouseMoves, DesktopInv
<1>9. ASSUME NEW key \in {"char", "altf4"}, KeyPressed(key) PROVE DesktopInv'
  <2>1. ~first.torn => SameWindows(gui, gui')
    <3>1. ~first.torn => SameWindows(gui, gui)
      BY <1>s DEF SameWindows, DeskShape
    <3>. QED
      BY <1>s, <1>9, <3>1, WakeSame DEF KeyPressed
  <2>2. keys' \in Seq({"char", "altf4"})
    BY <1>0, <1>9 DEF KeyPressed
  <2>3. KeptBy(gui', first')
    BY <1>b, <1>9, <2>1 DEF KeyPressed
  <2>. QED
    BY <1>0, <1>9, <2>2, <2>3 DEF KeyPressed, DesktopInv
<1>10. ASSUME StdinRead PROVE DesktopInv'
  BY <1>0, <1>10 DEF StdinRead, DesktopInv
<1>11. ASSUME CompositorTask PROVE DesktopInv'
  <2>. DEFINE g == ProcessMouse(gui, mouse)
              k == ProcessKeyboard(g, keys)
  <2>1. /\ gui' = CompositorPass(k, mouse) /\ keys' = KeysLeft(g, keys) /\ mouse' = [mouse EXCEPT !.events = <<>>]
        /\ first.step = "done" /\ first' = first
    BY <1>11 DEF CompositorTask
  <2>2. ~first.torn => DeskOK(g)
    BY <1>0, <1>d, <2>1, MouseKeeps
  <2>. HIDE DEF g
  <2>3. ~first.torn => DeskOK(k)
    BY <1>0, <2>2, KeysKeep
  <2>. HIDE DEF k
  <2>4. ~first.torn => DeskOK(gui')
    BY <2>1, <2>3, PassKeeps
  <2>5. keys' \in Seq({"char", "altf4"})
    <3>1. KeysTaken(g, keys) \in 0..Len(keys)
      BY <1>0, TakenIs
    <3>2. keys' = SubSeq(keys, KeysTaken(g, keys) + 1, Len(keys))
      BY <2>1 DEF KeysLeft
    <3>. QED
      BY <1>0, <3>1, <3>2
  <2>6. mouse'.events \in Seq(BOOLEAN) /\ mouse'.spot = mouse.spot /\ DOMAIN mouse' = DOMAIN mouse
    BY <1>0, <2>1
  <2>7. first.step \notin Midway
    BY <2>1 DEF Midway
  <2>8. KeptBy(gui', first')
    BY <1>c, <2>1, <2>4, <2>7
  <2>. QED
    BY <1>0, <2>1, <2>5, <2>6, <2>8 DEF DesktopInv
<1>12. ASSUME FinishScaling PROVE DesktopInv'
  <2>. DEFINE k == [gui EXCEPT !.step = "rest", !.rawValid = FALSE, !.source = "none",
                               !.scaled = IF gui.raw = gui.source THEN gui.raw ELSE "mixed"]
  <2>1. gui.step # "rest" /\ first' = first /\ gui' = Shown(SceneDirty(k), mouse)
    BY <1>12 DEF FinishScaling, EndScale
  <2>2. ~first.torn => first.step = "done" /\ DeskOK(gui)
    BY <1>d, <2>1 DEF PassServed
  <2>3. ~first.torn => SameWindows(gui, k)
    BY <2>2 DEF SameWindows, DeskOK, DeskShape, DeskFields
  <2>. HIDE DEF k
  <2>4. ~first.torn => DeskOK(SceneDirty(k))
    BY <2>2, <2>3, SameKeeps, WakeKeeps DEF Keeps
  <2>5. ~first.torn => DeskOK(gui')
    BY <2>1, <2>4, ShownKeeps
  <2>6. KeptBy(gui', first')
    <3>1. CASE first.torn
      BY <2>1, <3>1 DEF KeptBy
    <3>2. CASE ~first.torn
      <4>1. first.step \notin Midway
        BY <2>2, <3>2 DEF Midway
      <4>. QED
        BY <1>c, <2>1, <2>5, <4>1
    <3>. QED
      BY <3>1, <3>2
  <2>. QED
    BY <1>0, <1>12, <1>a, <2>1, <2>6 DEF FinishScaling
<1>13. ASSUME NextEvent PROVE DesktopInv'
  <2>1. KeptBy(gui', first') /\ PassFields \subseteq DOMAIN first'
    BY <1>13, EventStepKeeps
  <2>2. mouse.events # <<>> /\ mouse' = [mouse EXCEPT !.events = Tail(@)] /\ keys' = keys
    BY <1>13 DEF NextEvent
  <2>3. mouse'.events \in Seq(BOOLEAN) /\ mouse'.spot = mouse.spot /\ DOMAIN mouse' = DOMAIN mouse
    <3>1. Tail(mouse.events) \in Seq(BOOLEAN)
      BY <1>0, <2>2
    <3>. QED
      BY <1>0, <2>2, <3>1
  <2>. QED
    BY <1>0, <2>1, <2>2, <2>3 DEF DesktopInv
<1>14. ASSUME NEW step \in {"keys", "look"}, UNCHANGED <<gui, mouse, keys>>, first' = UpTo(first, step),
              first.step \notin Midway
       PROVE  DesktopInv'
  <2>1. ~first.torn => DeskOK(gui)
    BY <1>14, NotMidway DEF DesktopInv
  <2>2. step \notin Midway
    BY DEF Midway
  <2>3. KeptBy(gui, UpTo(first, step)) /\ PassFields \subseteq DOMAIN UpTo(first, step)
    BY <2>1, <2>2, PassOnKeeps
  <2>. QED
    BY <1>14, <1>a, <2>3
<1>15. ASSUME EndMouse \/ EndKeys PROVE DesktopInv'
  <2>1. first.step \notin Midway
    BY <1>15 DEF EndMouse, EndKeys, Midway
  <2>. QED
    BY <1>14, <1>15, <2>1 DEF EndMouse, EndKeys
<1>16. ASSUME TakeOut PROVE DesktopInv'
  BY <1>16, <1>a, TakeOutKeeps DEF TakeOut
<1>17. ASSUME PutIn PROVE DesktopInv'
  BY <1>17, <1>a, PutInKeeps DEF PutIn
<1>18. ASSUME FinishClose PROVE DesktopInv'
  BY <1>18, <1>a, FinishKeeps DEF FinishClose
<1>19. ASSUME NextKey PROVE DesktopInv'
  <2>1. KeptBy(gui', first') /\ PassFields \subseteq DOMAIN first'
    BY <1>19, KeyStepKeeps
  <2>2. keys # <<>> /\ keys' = Tail(keys) /\ mouse' = mouse
    BY <1>19 DEF NextKey
  <2>3. keys' \in Seq({"char", "altf4"})
    BY <1>0, <2>2
  <2>. QED
    BY <1>0, <2>1, <2>2, <2>3 DEF DesktopInv
<1>20. ASSUME LookAround PROVE DesktopInv'
  BY <1>20, <1>a, LookKeeps DEF LookAround
<1>21. ASSUME NEW step \in {"drawn", "done"}, UNCHANGED <<mouse, keys>>, first' = UpTo(first, step),
              ~first.torn => DeskOK(gui')
       PROVE  DesktopInv'
  <2>1. step \notin Midway
    BY DEF Midway
  <2>2. PassFields \subseteq DOMAIN first' /\ first'.step = step /\ first'.torn = first.torn
    BY <1>21, UpToIs
  <2>3. KeptBy(gui', first')
    BY <1>21, <2>1, <2>2, NotMidway
  <2>. QED
    BY <1>21, <1>a, <2>2, <2>3
<1>22. ASSUME FirstComposite PROVE DesktopInv'
  <2>. DEFINE g == [gui EXCEPT !.dirty = FALSE]
  <2>1. /\ first.step = "paint" /\ UNCHANGED <<mouse, keys>>
        /\ \/ gui' = BeginScale(g) /\ first' = UpTo(first, "done")
           \/ gui' = FullComposite(g) /\ first' = UpTo(first, "drawn")
    BY <1>22 DEF FirstComposite
  <2>2. first.step \notin Midway
    BY <2>1 DEF Midway
  <2>3. ASSUME ~first.torn PROVE DeskOK(gui')
    <3>1. DeskOK(gui)
      BY <2>2, <2>3, NotMidway DEF DesktopInv
    <3>2. DeskOK(g)
      <4>1. SameWindows(gui, g)
        BY <3>1 DEF SameWindows, DeskOK, DeskShape, DeskFields
      <4>. QED
        BY <3>1, <4>1, SameKeeps DEF Keeps
    <3>. HIDE DEF g
    <3>3. DeskOK(BeginScale(g))
      <4>1. SameWindows(g, BeginScale(g))
        BY <3>2 DEF BeginScale, SameWindows, DeskOK, DeskShape, DeskFields
      <4>. QED
        BY <3>2, <4>1, SameKeeps DEF Keeps
    <3>4. DeskOK(FullComposite(g))
      BY <3>2, CompositeKeeps DEF Keeps
    <3>. QED
      BY <2>1, <3>3, <3>4
  <2>. HIDE DEF g
  <2>. QED
    BY <1>21, <2>1, <2>3
<1>23. ASSUME EndFirst PROVE DesktopInv'
  <2>1. ASSUME ~first.torn PROVE DeskOK(gui')
    <3>1. DeskOK(gui)
      <4>1. first.step \notin Midway
        BY <1>23 DEF EndFirst, Midway
      <4>. QED
        BY <2>1, <4>1, NotMidway DEF DesktopInv
    <3>2. SameWindows(gui, gui')
      BY <1>23, <3>1 DEF EndFirst, SameWindows, DeskOK, DeskShape, DeskFields
    <3>. QED
      BY <3>1, <3>2, SameKeeps DEF Keeps
  <2>. QED
    BY <1>21, <1>23, <2>1 DEF EndFirst
<1>24. ASSUME UNCHANGED desktopVars PROVE DesktopInv'
  BY <1>24 DEF desktopVars, DesktopInv
<1>. QED
  BY <1>1, <1>2, <1>3, <1>4, <1>5, <1>6, <1>7, <1>8, <1>9, <1>10, <1>11, <1>12, <1>13, <1>15, <1>16, <1>17,
     <1>18, <1>19, <1>20, <1>22, <1>23, <1>24
     DEF DesktopNext, ClientCall, Interrupt, FirstPass

\* Between the halves of a change the window on top has the focus.
LEMMA KeysFollow ==
    ASSUME DesktopInv
    PROVE  KeysReachTop
<1>. SUFFICES ASSUME ~first.torn, first.step \notin Midway
              PROVE  /\ gui.owned <=> gui.list # <<>>
                     /\ \A i \in DOMAIN gui.list : gui.win[gui.list[i]].focused <=> i = 1
  BY DEF KeysReachTop
<1>1. DeskOK(gui) /\ gui.list \in Seq(Slot) /\ Distinct(gui.list)
  BY NotMidway DEF DesktopInv, DeskOK, DeskShape, OpenListed
<1>2. ASSUME NEW i \in DOMAIN gui.list PROVE gui.win[gui.list[i]].focused <=> i = 1
  <2>1. i \in 1..Len(gui.list) /\ 1 \in 1..Len(gui.list)
    BY <1>1
  <2>2. gui.list[i] \in ToSet(gui.list)
    BY <1>1, <2>1, InToSet
  <2>3. gui.list[i] = gui.list[1] <=> i = 1
    BY <1>1, <2>1 DEF Distinct
  <2>. QED
    BY <1>1, <2>2, <2>3 DEF DeskOK, TopFocused
<1>. QED
  BY <1>1, <1>2 DEF DeskOK

---------------------------------------------------------------------------
(* The window server: what is on the screen *)

PaneFields == {"id", "focused", "y", "h", "bb", "content", "fresh", "visible", "dirty", "queue"}
SceneFields == {"win", "list", "nextId", "owned", "running", "quit", "dirty", "scene", "whole", "excused",
                "prev", "held", "drag", "resize", "band", "hover", "back", "hw", "raw", "rawValid",
                "source", "scaled", "wanted", "step"}
PaneShape(w) ==
    /\ PaneFields \subseteq DOMAIN w /\ w.y \in Int /\ w.h \in Int
    /\ w.visible => w.content \in w.fresh
SceneShape(g) ==
    /\ SceneFields \subseteq DOMAIN g /\ DOMAIN g.win = Slot
    /\ \A s \in Slot : PaneShape(g.win[s])
    /\ {"win", "prev"} \subseteq DOMAIN g.drag /\ g.drag.win \in Slot \cup {NoWin} /\ g.drag.prev \in Int
    /\ g.resize.win \in Slot \cup {NoWin}
    /\ g.resize.y \in Int /\ g.resize.h \in Int /\ g.resize.row \in Int
    /\ g.band.top \in Int /\ g.band.bottom \in Int
    /\ DOMAIN g.back = Row /\ DOMAIN g.hw = Row

\* What a window may show in a row of its, and the screen in any row.
Paints(w, cell, r) ==
    /\ r = w.y => cell = Cell("title", w.id, Focus(w))
    /\ r # w.y => \E c \in w.fresh : cell = Cell("client", w.id, IF w.bb = w.h - 1 THEN c ELSE "bare")
Fits(g, cell, r) ==
    /\ r = BarRow => cell = BarCell(g)
    /\ r # BarRow /\ HitTest(g, r) = NoWin => cell.kind = "desk" /\ g.wanted \in {cell.mark, "any"}
    /\ r # BarRow /\ HitTest(g, r) # NoWin => Paints(g.win[HitTest(g, r)], cell, r)
\* Rows that are about to be drawn: with a window, or with the whole scene.
Awaits(g, r) == \E s \in Repaint(g) : r \in RowsOf(g.win[s])
InScene(g, r) == g.scene /\ (g.whole \/ r \in BandRows(g))
BackFits(g) == g.scene \/ \A r \in Row : Fits(g, g.back[r], r) \/ Awaits(g, r)
ScreenFits(g) == \A r \in Row : Fits(g, g.hw[r], r) \/ Awaits(g, r) \/ InScene(g, r)
Looks(g) == ~g.excused /\ ~(g.quit /\ g.dirty) => BackFits(g) /\ ScreenFits(g)

\* A compositor that is at rest has nothing to do, or has not begun.
Resting(g) == g.running /\ g.step = "rest" /\ ~g.dirty /\ ~g.excused
Idle(g) == ~g.scene /\ ~g.rawValid /\ Repaint(g) = {}
Begins(g) == g.scene /\ g.whole /\ g.prev = Nowhere
RestIsDone(g) == Resting(g) => Idle(g) \/ Begins(g)
\* One that is not there will start with the whole screen.
OffIsWhole(g) == ~g.running => g.scene /\ g.whole /\ g.prev = Nowhere /\ g.step = "rest"
\* The picture that is wanted is there, or is about to be scaled.
PictureFollows(g) ==
    /\ g.step \in {"rest", "scaling"}
    /\ g.wanted # "any" =>
          /\ g.step = "scaling" => g.wanted = g.raw /\ g.raw = g.source
          /\ g.step = "rest" /\ g.rawValid => g.wanted = g.raw
          /\ g.step = "rest" /\ ~g.rawValid => g.wanted = g.scaled
SceneOK(g) ==
    /\ SceneShape(g) /\ Looks(g)
    /\ RestIsDone(g) /\ OffIsWhole(g) /\ PictureFollows(g)

\* Window i of the list shows row r, and so does none above it.
Under(g, i, r) == g.win[g.list[i]].visible /\ r \in RowsOf(g.win[g.list[i]])
Topmost(g, i, r) == Under(g, i, r) /\ \A j \in 1..i - 1 : ~Under(g, j, r)

\* The window that a row belongs to.
LEMMA HitTop ==
    ASSUME NEW g, g.list \in Seq(Slot), NEW r
    PROVE  /\ HitTest(g, r) = NoWin => \A i \in 1..Len(g.list) : ~Under(g, i, r)
           /\ HitTest(g, r) # NoWin => \E i \in 1..Len(g.list) : Topmost(g, i, r) /\ HitTest(g, r) = g.list[i]
           /\ \A i \in 1..Len(g.list) : Topmost(g, i, r) => HitTest(g, r) = g.list[i] /\ HitTest(g, r) # NoWin
<1>. DEFINE at == {i \in DOMAIN g.list : g.win[g.list[i]].visible /\ r \in RowsOf(g.win[g.list[i]])}
<1>1. at \subseteq 1..Len(g.list) /\ \A i \in 1..Len(g.list) : i \in at <=> Under(g, i, r)
  BY DEF Under
<1>2. HitTest(g, r) = IF at = {} THEN NoWin ELSE g.list[Min(at)]
  BY DEF HitTest
<1>. HIDE DEF at
<1>3. \A i \in 1..Len(g.list) : g.list[i] # NoWin
  <2>1. \A i \in 1..Len(g.list) : g.list[i] \in Slot
    OBVIOUS
  <2>2. NoWin \notin Slot
    BY DEF NoWin, Slot
  <2>. QED
    BY <2>1, <2>2
<1>4. at # {} => Min(at) \in at /\ \A i \in at : Min(at) <= i
  <2>1. at \subseteq Nat
    BY <1>1
  <2>. QED
    BY <2>1, MinOfNats
<1>5. at # {} => Topmost(g, Min(at), r)
  <2>. SUFFICES ASSUME at # {} PROVE Topmost(g, Min(at), r)
    OBVIOUS
  <2>. DEFINE m == Min(at)
  <2>1. m \in 1..Len(g.list) /\ m \in at /\ \A i \in at : m <= i
    BY <1>1, <1>4
  <2>. HIDE DEF m
  <2>2. ASSUME NEW j \in 1..m - 1 PROVE ~Under(g, j, r)
    <3>1. j \in 1..Len(g.list) /\ ~(m <= j)
      BY <2>1
    <3>. QED
      BY <1>1, <2>1, <3>1
  <2>3. Under(g, m, r)
    BY <1>1, <2>1
  <2>4. Topmost(g, m, r)
    BY <2>2, <2>3 DEF Topmost
  <2>. QED
    BY <2>4 DEF m
<1>6. ASSUME NEW i \in 1..Len(g.list), Topmost(g, i, r) PROVE at # {} /\ i = Min(at)
  <2>1. i \in at
    BY <1>1, <1>6 DEF Topmost
  <2>. DEFINE m == Min(at)
  <2>2. m \in at /\ m \in 1..Len(g.list) /\ m <= i
    BY <1>1, <1>4, <2>1
  <2>. HIDE DEF m
  <2>3. ~(m < i)
    <3>1. m < i => m \in 1..i - 1
      BY <2>2
    <3>. QED
      BY <1>1, <1>6, <2>2, <3>1 DEF Topmost
  <2>4. m = i
    BY <2>2, <2>3
  <2>. QED
    BY <2>1, <2>4 DEF m
<1>. QED
  BY <1>1, <1>2, <1>3, <1>4, <1>5, <1>6

\* Which windows there are, which of them are shown, and which has the focus.
SameFrame(g, h) ==
    /\ h.list = g.list
    /\ \A s \in Slot : /\ h.win[s].visible = g.win[s].visible /\ h.win[s].id = g.win[s].id
                       /\ h.win[s].focused = g.win[s].focused

\* The status bar shows that.
LEMMA SameBar ==
    ASSUME NEW g, NEW h, g.list \in Seq(Slot), SameFrame(g, h)
    PROVE  OnShow(h) = OnShow(g) /\ BarCell(h) = BarCell(g)
<1>1. \A s \in ToSet(g.list) : s \in Slot
  BY InToSet
<1>2. OnShow(h) = OnShow(g)
  BY <1>1 DEF OnShow, SameFrame
<1>3. \A s \in OnShow(g) : s \in Slot
  BY <1>1 DEF OnShow
<1>4. \A s : Above(h, s) = Above(g, s)
  BY DEF Above, SameFrame
<1>5. \A s : ButtonOf(h, s) = ButtonOf(g, s)
  BY <1>2, <1>4 DEF ButtonOf
<1>6. \A s \in OnShow(g) : h.win[s].id = g.win[s].id /\ Focus(h.win[s]) = Focus(g.win[s])
  BY <1>3 DEF SameFrame, Focus
<1>7. {<<ButtonOf(h, s), h.win[s].id, Focus(h.win[s])>> : s \in OnShow(h)}
        = {<<ButtonOf(g, s), g.win[s].id, Focus(g.win[s])>> : s \in OnShow(g)}
  BY <1>2, <1>5, <1>6
<1>. QED
  BY <1>2, <1>7 DEF BarCell

\* A row that shows what it showed, and one that still awaits what it awaited.
RowShows(g, h, r) ==
    \A s \in OnShow(g) :
        /\ r \in RowsOf(h.win[s]) <=> r \in RowsOf(g.win[s])
        /\ r \in RowsOf(g.win[s]) => \A cell : Paints(g.win[s], cell, r) => Paints(h.win[s], cell, r)
RowKept(g, h, r) ==
    /\ RowShows(g, h, r)
    /\ \A s \in OnShow(g) : r \in RowsOf(g.win[s]) /\ g.win[s].dirty => h.win[s].dirty

LEMMA RowFits ==
    ASSUME NEW g, NEW h, g.list \in Seq(Slot), SameFrame(g, h), h.wanted = g.wanted,
           NEW r, RowShows(g, h, r)
    PROVE  /\ RowKept(g, h, r) /\ Awaits(g, r) => Awaits(h, r)
           /\ \A cell : Fits(g, cell, r) => Fits(h, cell, r)
<1>1. OnShow(h) = OnShow(g) /\ BarCell(h) = BarCell(g)
  BY SameBar
<1>2. \A i \in 1..Len(g.list) : g.list[i] \in Slot /\ g.list[i] \in ToSet(g.list)
  BY InToSet
<1>3. RowKept(g, h, r) /\ Awaits(g, r) => Awaits(h, r)
  BY <1>1 DEF Awaits, Repaint, RowKept, RowShows
<1>4. \A i \in 1..Len(g.list) : Under(h, i, r) <=> Under(g, i, r)
  <2>. SUFFICES ASSUME NEW i \in 1..Len(g.list) PROVE Under(h, i, r) <=> Under(g, i, r)
    OBVIOUS
  <2>1. h.list = g.list /\ h.win[g.list[i]].visible = g.win[g.list[i]].visible
    BY <1>2 DEF SameFrame
  <2>2. g.win[g.list[i]].visible => g.list[i] \in OnShow(g)
    BY <1>2 DEF OnShow
  <2>. QED
    BY <2>1, <2>2 DEF Under, RowShows
<1>5. h.list = g.list
  BY DEF SameFrame
<1>6. HitTest(h, r) = HitTest(g, r)
  <2>1. \A i \in 1..Len(g.list) : Topmost(h, i, r) <=> Topmost(g, i, r)
    <3>. SUFFICES ASSUME NEW i \in 1..Len(g.list) PROVE Topmost(h, i, r) <=> Topmost(g, i, r)
      OBVIOUS
    <3>1. \A j \in 1..i - 1 : j \in 1..Len(g.list)
      OBVIOUS
    <3>. QED
      BY <1>4, <3>1 DEF Topmost
  <2>2. CASE HitTest(g, r) # NoWin
    <3>1. PICK i \in 1..Len(g.list) : Topmost(g, i, r) /\ HitTest(g, r) = g.list[i]
      BY <2>2, HitTop
    <3>2. HitTest(h, r) = h.list[i]
      BY <1>5, <2>1, <3>1, HitTop
    <3>. QED
      BY <1>5, <3>1, <3>2
  <2>3. CASE HitTest(g, r) = NoWin
    <3>1. \A i \in 1..Len(g.list) : ~Under(g, i, r)
      BY <2>3, HitTop
    <3>2. HitTest(h, r) # NoWin => \E i \in 1..Len(g.list) : Topmost(h, i, r)
      BY <1>5, HitTop
    <3>. QED
      BY <1>4, <2>3, <3>1, <3>2 DEF Topmost
  <2>. QED
    BY <2>2, <2>3
<1>7. HitTest(g, r) # NoWin => HitTest(g, r) \in OnShow(g) /\ r \in RowsOf(g.win[HitTest(g, r)])
  <2>. SUFFICES ASSUME HitTest(g, r) # NoWin
                PROVE  HitTest(g, r) \in OnShow(g) /\ r \in RowsOf(g.win[HitTest(g, r)])
    OBVIOUS
  <2>1. PICK i \in 1..Len(g.list) : Topmost(g, i, r) /\ HitTest(g, r) = g.list[i]
    BY HitTop
  <2>. QED
    BY <1>2, <2>1 DEF Topmost, Under, OnShow
<1>8. \A cell : Fits(g, cell, r) => Fits(h, cell, r)
  BY <1>1, <1>6, <1>7 DEF Fits, RowShows
<1>. QED
  BY <1>3, <1>8

\* What keeps each row, or has it drawn again.
LEMMA RowByRow ==
    ASSUME NEW g, NEW h, g.list \in Seq(Slot), SameFrame(g, h), h.wanted = g.wanted,
           h.back = g.back, h.hw = g.hw, g.excused => h.excused, g.quit /\ g.dirty => h.quit /\ h.dirty, g.scene => h.scene,
           \A r \in Row : \/ RowKept(g, h, r) /\ (InScene(g, r) => InScene(h, r))
                          \/ Awaits(h, r)
                          \/ InScene(h, r),
           Looks(g)
    PROVE  Looks(h)
<1>. SUFFICES ASSUME ~h.excused, ~(h.quit /\ h.dirty) PROVE BackFits(h) /\ ScreenFits(h)
  BY DEF Looks
<1>1. BackFits(g) /\ ScreenFits(g)
  BY DEF Looks
<1>2. \A r \in Row : RowKept(g, h, r) => /\ Awaits(g, r) => Awaits(h, r)
                                         /\ \A cell : Fits(g, cell, r) => Fits(h, cell, r)
  BY RowFits DEF RowKept
<1>3. BackFits(h)
  <2>. SUFFICES ASSUME ~h.scene, NEW r \in Row PROVE Fits(h, h.back[r], r) \/ Awaits(h, r)
    BY DEF BackFits
  <2>1. ~InScene(h, r)
    BY DEF InScene
  <2>2. Fits(g, g.back[r], r) \/ Awaits(g, r)
    BY <1>1 DEF BackFits
  <2>. QED
    BY <1>2, <2>1, <2>2
<1>4. ScreenFits(h)
  <2>. SUFFICES ASSUME NEW r \in Row PROVE Fits(h, h.hw[r], r) \/ Awaits(h, r) \/ InScene(h, r)
    BY DEF ScreenFits
  <2>1. Fits(g, g.hw[r], r) \/ Awaits(g, r) \/ InScene(g, r)
    BY <1>1 DEF ScreenFits
  <2>. QED
    BY <1>2, <2>1
<1>. QED
  BY <1>3, <1>4

\* A step that leaves it to the compositor what there was to do.
Serves(g, h) ==
    /\ h.running = g.running /\ h.step = g.step /\ h.prev = g.prev
    /\ h.raw = g.raw /\ h.rawValid = g.rawValid /\ h.source = g.source /\ h.scaled = g.scaled
    /\ h.wanted = g.wanted /\ h.back = g.back /\ h.hw = g.hw
    /\ g.scene => h.scene
    /\ g.whole => h.whole
    /\ g.excused => h.excused
    /\ g.quit => h.quit
    /\ g.dirty => h.dirty

LEMMA ServesAgain ==
    ASSUME NEW g, NEW h, NEW k, Serves(g, h), Serves(h, k)
    PROVE  Serves(g, k)
BY DEF Serves

LEMMA ServesOK ==
    ASSUME NEW g, NEW h, SceneOK(g), SceneShape(h), Serves(g, h), Looks(h),
           h.dirty \/ ~h.running \/ Begins(h) \/ ((h.scene => g.scene) /\ Repaint(h) \subseteq Repaint(g))
    PROVE  SceneOK(h)
<1>1. RestIsDone(h)
  BY DEF SceneOK, RestIsDone, Resting, Idle, Begins, Serves
<1>3. OffIsWhole(h)
  BY DEF SceneOK, OffIsWhole, Serves
<1>4. PictureFollows(h)
  BY DEF SceneOK, PictureFollows, Serves
<1>. QED
  BY <1>1, <1>3, <1>4 DEF SceneOK

\* A request to redraw everything makes up for whatever was changed.
LEMMA AskedOK ==
    ASSUME NEW g, NEW h, SceneOK(g), SceneShape(h), Serves(g, h), h.scene, h.whole,
           h.dirty \/ ~h.running \/ h.prev = Nowhere
    PROVE  SceneOK(h)
<1>1. \A r \in Row : InScene(h, r)
  BY DEF InScene
<1>2. Looks(h)
  BY <1>1 DEF Looks, BackFits, ScreenFits
<1>. QED
  BY <1>2, ServesOK DEF Begins

\* Before the first redraw there is nothing else to answer for.
Unserved(g) == SceneOK(g) /\ Begins(g) /\ g.running /\ g.step = "rest"

LEMMA UnservedStays ==
    ASSUME NEW g, NEW h, Unserved(g), SceneShape(h), Serves(g, h)
    PROVE  Unserved(h)
<1>1. Begins(h) /\ h.running /\ h.step = "rest"
  BY DEF Unserved, Begins, Serves
<1>2. SceneOK(h)
  BY <1>1, AskedOK DEF Unserved, Begins
<1>. QED
  BY <1>1, <1>2 DEF Unserved

\* What may differ is what is held, the queues of events, and what clients drew since.
Alike(g, h) ==
    /\ h.list = g.list /\ h.band = g.band /\ h.scene = g.scene /\ h.whole = g.whole
    /\ \A s \in Slot :
          /\ h.win[s].id = g.win[s].id /\ h.win[s].focused = g.win[s].focused
          /\ h.win[s].visible = g.win[s].visible /\ h.win[s].dirty = g.win[s].dirty
          /\ h.win[s].y = g.win[s].y /\ h.win[s].h = g.win[s].h /\ h.win[s].bb = g.win[s].bb
          /\ g.win[s].fresh \subseteq h.win[s].fresh

LEMMA AlikeOK ==
    ASSUME NEW g, NEW h, g.list \in Seq(Slot), SceneOK(g), SceneShape(h), Serves(g, h), Alike(g, h)
    PROVE  SceneOK(h)
<1>1. SameFrame(g, h)
  BY DEF SameFrame, Alike
<1>2. OnShow(h) = OnShow(g) /\ \A s \in OnShow(g) : s \in Slot
  BY <1>1, SameBar, InToSet DEF OnShow
<1>3. Repaint(h) = Repaint(g)
  BY <1>2 DEF Repaint, Alike
<1>4. ASSUME NEW r \in Row PROVE RowKept(g, h, r)
  <2>. SUFFICES ASSUME NEW s \in OnShow(g)
                PROVE  /\ r \in RowsOf(h.win[s]) <=> r \in RowsOf(g.win[s])
                       /\ g.win[s].dirty => h.win[s].dirty
                       /\ \A cell : Paints(g.win[s], cell, r) => Paints(h.win[s], cell, r)
    BY DEF RowKept, RowShows
  <2>1. /\ h.win[s].id = g.win[s].id /\ h.win[s].focused = g.win[s].focused
        /\ h.win[s].dirty = g.win[s].dirty
        /\ h.win[s].y = g.win[s].y /\ h.win[s].h = g.win[s].h /\ h.win[s].bb = g.win[s].bb
        /\ g.win[s].fresh \subseteq h.win[s].fresh
    BY <1>2 DEF Alike
  <2>2. Focus(h.win[s]) = Focus(g.win[s])
    BY <2>1 DEF Focus
  <2>. QED
    BY <2>1, <2>2 DEF RowsOf, Paints
<1>5. \A r \in Row : InScene(g, r) => InScene(h, r)
  BY DEF InScene, BandRows, Alike
<1>6. Looks(h)
  BY <1>1, <1>4, <1>5, RowByRow DEF SceneOK, Serves
<1>7. h.scene = g.scene
  BY DEF Alike
<1>. QED
  BY <1>3, <1>6, <1>7, ServesOK

Windows(g) == g.list \in Seq(Slot) /\ SceneOK(g)

\* An event in the queue of a window.
LEMMA PushScene ==
    ASSUME NEW g, Windows(g), NEW s, NEW ev
    PROVE  SceneOK(PushEvent(g, s, ev)) /\ Serves(g, PushEvent(g, s, ev))
<1>. DEFINE h == PushEvent(g, s, ev)
<1>0. SceneShape(g)
  BY DEF Windows, SceneOK
<1>1. SceneShape(h)
  BY <1>0 DEF SceneShape, PushEvent, SceneFields, PaneShape, PaneFields
<1>2. Serves(g, h)
  BY <1>0 DEF SceneShape, PushEvent, SceneFields, Serves
<1>3. Alike(g, h)
  BY <1>0 DEF SceneShape, PushEvent, SceneFields, PaneShape, PaneFields, Alike
<1>. QED
  BY <1>1, <1>2, <1>3, AlikeOK DEF Windows

\* The mouse lets go of what it held.
LEMMA LetGoScene ==
    ASSUME NEW g, Windows(g)
    PROVE  SceneOK(LetGo(g)) /\ Serves(g, LetGo(g))
<1>. DEFINE h == LetGo(g)
<1>0. SceneShape(g)
  BY DEF Windows, SceneOK
<1>1. SceneShape(h)
  BY <1>0 DEF SceneShape, LetGo, NoDrag, NoResize, SceneFields, PaneShape, PaneFields
<1>2. Serves(g, h)
  BY <1>0 DEF SceneShape, LetGo, SceneFields, Serves
<1>3. Alike(g, h)
  BY <1>0 DEF SceneShape, LetGo, SceneFields, Alike
<1>. QED
  BY <1>1, <1>2, <1>3, AlikeOK DEF Windows

\* It takes hold of an edge,
LEMMA StartResizeScene ==
    ASSUME NEW g, Windows(g), NEW s \in Slot, NEW edge, NEW row \in Int
    PROVE  SceneOK(StartResize(g, s, edge, row)) /\ Serves(g, StartResize(g, s, edge, row))
<1>. DEFINE h == StartResize(g, s, edge, row)
<1>0. SceneShape(g)
  BY DEF Windows, SceneOK
<1>1. SceneShape(h)
  BY <1>0 DEF SceneShape, StartResize, SceneFields, PaneShape, PaneFields
<1>2. Serves(g, h)
  BY <1>0 DEF SceneShape, StartResize, SceneFields, Serves
<1>3. Alike(g, h)
  BY <1>0 DEF SceneShape, StartResize, SceneFields, Alike
<1>. QED
  BY <1>1, <1>2, <1>3, AlikeOK DEF Windows

\* or of a title.
LEMMA StartDragScene ==
    ASSUME NEW g, Windows(g), NEW s \in Slot
    PROVE  LET h == [g EXCEPT !.drag = [win |-> s, prev |-> g.win[s].y]] IN SceneOK(h) /\ Serves(g, h)
<1>. DEFINE h == [g EXCEPT !.drag = [win |-> s, prev |-> g.win[s].y]]
<1>0. SceneShape(g)
  BY DEF Windows, SceneOK
<1>1. SceneShape(h)
  BY <1>0 DEF SceneShape, SceneFields, PaneShape, PaneFields
<1>2. Serves(g, h)
  BY <1>0 DEF SceneShape, SceneFields, Serves
<1>3. Alike(g, h)
  BY <1>0 DEF SceneShape, SceneFields, Alike
<1>. QED
  BY <1>1, <1>2, <1>3, AlikeOK DEF Windows

\* The compositor has something to do.
LEMMA WokenScene ==
    ASSUME NEW g, Windows(g)
    PROVE  SceneOK(Wake(g)) /\ Serves(g, Wake(g)) /\ (Wake(g).dirty \/ ~Wake(g).running)
<1>. DEFINE h == Wake(g)
<1>0. SceneShape(g)
  BY DEF Windows, SceneOK
<1>1. SceneShape(h)
  BY <1>0 DEF SceneShape, Wake, SceneFields
<1>2. Serves(g, h) /\ (h.dirty \/ ~h.running)
  BY <1>0 DEF SceneShape, Wake, SceneFields, Serves
<1>3. Alike(g, h)
  BY <1>0 DEF SceneShape, Wake, SceneFields, Alike
<1>. QED
  BY <1>1, <1>2, <1>3, AlikeOK DEF Windows

\* So has one that is in the middle of its pass.
LEMMA BusyScene ==
    ASSUME NEW g, Windows(g), NEW left, NEW s
    PROVE  LET d == [g EXCEPT !.dirty = TRUE]
               e == [g EXCEPT !.dirty = TRUE, !.held = left]
               k == [g EXCEPT !.hover = s] IN
           /\ SceneOK(d) /\ Serves(g, d) /\ d.dirty /\ d.quit = g.quit
           /\ SceneOK(e) /\ Serves(g, e) /\ e.dirty /\ e.list = g.list
           /\ SceneOK(k) /\ Serves(g, k) /\ k.quit = g.quit
<1>0. SceneShape(g)
  BY DEF Windows, SceneOK
<1>1. ASSUME NEW h \in {[g EXCEPT !.dirty = TRUE], [g EXCEPT !.dirty = TRUE, !.held = left], [g EXCEPT !.hover = s]}
      PROVE  SceneOK(h) /\ Serves(g, h)
  <2>1. SceneShape(h)
    BY <1>0 DEF SceneShape, SceneFields
  <2>2. Serves(g, h)
    BY <1>0 DEF SceneShape, SceneFields, Serves
  <2>3. Alike(g, h)
    BY <1>0 DEF SceneShape, SceneFields, Alike
  <2>. QED
    BY <2>1, <2>2, <2>3, AlikeOK DEF Windows
<1>2. SceneFields \subseteq DOMAIN g
  BY <1>0 DEF SceneShape
<1>. QED
  BY <1>1, <1>2 DEF SceneFields

\* A redraw of everything is asked for.
LEMMA SceneDirtyDoes ==
    ASSUME NEW g, SceneShape(g)
    PROVE  /\ SceneShape(SceneDirty(g)) /\ Serves(g, SceneDirty(g))
           /\ SceneDirty(g).scene /\ SceneDirty(g).whole /\ SceneDirty(g).dirty = g.dirty /\ SceneDirty(g).quit = g.quit
           /\ SceneShape(WakeScene(g)) /\ Serves(g, WakeScene(g))
           /\ WakeScene(g).scene /\ WakeScene(g).whole /\ (WakeScene(g).dirty \/ ~WakeScene(g).running)
<1>1. /\ SceneShape(SceneDirty(g)) /\ Serves(g, SceneDirty(g))
      /\ SceneDirty(g).scene /\ SceneDirty(g).whole /\ SceneDirty(g).dirty = g.dirty /\ SceneDirty(g).quit = g.quit
  BY DEF SceneShape, SceneFields, SceneDirty, Serves
<1>. DEFINE k == SceneDirty(g)
<1>. HIDE DEF k
<1>2. SceneShape(k) /\ Serves(g, k) /\ k.scene /\ k.whole
  BY <1>1 DEF k
<1>3. SceneShape(Wake(k)) /\ Serves(k, Wake(k)) /\ (Wake(k).dirty \/ ~Wake(k).running)
  BY <1>2 DEF SceneShape, SceneFields, Wake, Serves
<1>4. Serves(g, Wake(k))
  BY <1>2, <1>3, ServesAgain
<1>5. Wake(k).scene /\ Wake(k).whole
  BY <1>2, <1>3 DEF Serves
<1>6. WakeScene(g) = Wake(k)
  BY DEF WakeScene, k
<1>. QED
  BY <1>1, <1>3, <1>4, <1>5, <1>6

\* A window that comes to the front changes places in the list and the focus.
LEMMA FocusDoes ==
    ASSUME NEW g, SceneShape(g), NEW s \in Slot
    PROVE  SceneShape(FocusWindow(g, s)) /\ Serves(g, FocusWindow(g, s)) /\ FocusWindow(g, s).quit = g.quit
<1>1. CASE Head(g.list) = s
  BY <1>1 DEF FocusWindow, SceneShape, SceneFields, PaneShape, PaneFields, Serves
<1>2. CASE Head(g.list) # s
  <2>. DEFINE on(t) == IF t = s THEN TRUE ELSE g.win[t].focused /\ (g.list = <<>> \/ t # Head(g.list))
              w == [t \in Slot |-> [g.win[t] EXCEPT !.focused = on(t)]]
              h == FocusWindow(g, s)
              l == <<s>> \o WithoutWindow(g.list, s)
              l1 == <<s>> \o g.list
  <2>1. h = [[g EXCEPT !.list = l1, !.win = w] EXCEPT !.list = l]
    BY <1>2 DEF FocusWindow, PushFront
  <2>2. DOMAIN w = Slot /\ \A t \in Slot : PaneShape(w[t])
    <3>1. \A t \in Slot : PaneShape(g.win[t]) /\ w[t] = [g.win[t] EXCEPT !.focused = on(t)]
      BY DEF SceneShape
    <3>. HIDE DEF on
    <3>2. DOMAIN w = Slot
      OBVIOUS
    <3>. HIDE DEF w
    <3>. QED
      BY <3>1, <3>2 DEF PaneShape, PaneFields
  <2>. HIDE DEF w, l, l1, h
  <2>3. SceneShape(h) /\ Serves(g, h) /\ h.quit = g.quit
    BY <2>1, <2>2 DEF SceneShape, SceneFields, Serves
  <2>. QED
    BY <2>3 DEF h
<1>. QED
  BY <1>1, <1>2

\* It is drawn, when that is asked for.
LEMMA FocusScene ==
    ASSUME NEW g, SceneOK(g), NEW s \in Slot, g.dirty
    PROVE  LET h == SceneDirty(FocusWindow(g, s)) IN SceneOK(h) /\ Serves(g, h) /\ h.quit = g.quit
<1>. DEFINE f == FocusWindow(g, s)
            h == SceneDirty(f)
<1>1. SceneShape(f) /\ Serves(g, f) /\ f.quit = g.quit
  BY FocusDoes DEF SceneOK
<1>. HIDE DEF f
<1>2. SceneShape(h) /\ Serves(f, h) /\ h.scene /\ h.whole /\ h.quit = f.quit
  BY <1>1, SceneDirtyDoes
<1>. HIDE DEF h
<1>3. Serves(g, h)
  BY <1>1, <1>2, ServesAgain
<1>4. h.dirty
  BY <1>3 DEF Serves
<1>. QED
  BY <1>1, <1>2, <1>3, <1>4, AskedOK DEF f, h

\* The end of a window: it leaves the list,
LEMMA UnlistedDoes ==
    ASSUME NEW g, SceneShape(g), NEW s
    PROVE  SceneShape(Unlisted(g, s)) /\ Serves(g, Unlisted(g, s))
BY DEF Unlisted, SceneShape, SceneFields, PaneShape, PaneFields, Serves

\* and the others are drawn again, or there is none.
LEMMA EndDoes ==
    ASSUME NEW g, SceneShape(g)
    PROVE  /\ SceneShape(LastClosed(g)) /\ Serves(g, LastClosed(g)) /\ LastClosed(g).quit /\ LastClosed(g).dirty
           /\ LET h == FocusNext(g) IN
              SceneShape(h) /\ Serves(g, h) /\ h.scene /\ h.whole /\ (h.dirty \/ ~h.running)
<1>1. /\ SceneShape(LastClosed(g)) /\ Serves(g, LastClosed(g)) /\ LastClosed(g).quit /\ LastClosed(g).dirty
  BY DEF LastClosed, SceneShape, SceneFields, Serves
<1>. DEFINE k == [g EXCEPT !.win[Head(g.list)].focused = TRUE]
            h == WakeScene(k)
<1>2. SceneShape(k) /\ Serves(g, k)
  BY DEF SceneShape, SceneFields, PaneShape, PaneFields, Serves
<1>3. FocusNext(g) = h
  BY DEF FocusNext
<1>. HIDE DEF k
<1>4. SceneShape(h) /\ Serves(k, h) /\ h.scene /\ h.whole /\ (h.dirty \/ ~h.running)
  BY <1>2, SceneDirtyDoes
<1>. HIDE DEF h
<1>5. Serves(g, h)
  BY <1>2, <1>4, ServesAgain
<1>. QED
  BY <1>1, <1>3, <1>4, <1>5

LEMMA DestroyScene ==
    ASSUME NEW g, SceneOK(g), NEW s
    PROVE  SceneOK(DestroyWindow(g, s)) /\ Serves(g, DestroyWindow(g, s))
<1>. DEFINE u == Unlisted(g, s)
<1>1. SceneShape(u) /\ Serves(g, u)
  BY UnlistedDoes DEF SceneOK
<1>. HIDE DEF u
<1>2. CASE u.list = <<>>
  <2>. DEFINE h == LastClosed(u)
  <2>1. SceneShape(h) /\ Serves(u, h) /\ h.quit /\ h.dirty
    BY <1>1, EndDoes
  <2>2. DestroyWindow(g, s) = h
    BY <1>2 DEF DestroyWindow, AfterDestroy, u
  <2>. HIDE DEF h
  <2>3. Serves(g, h)
    BY <1>1, <2>1, ServesAgain
  <2>4. Looks(h)
    BY <2>1 DEF Looks
  <2>. QED
    BY <2>1, <2>2, <2>3, <2>4, ServesOK
<1>3. CASE u.list # <<>>
  <2>. DEFINE h == FocusNext(u)
  <2>2. DestroyWindow(g, s) = h
    BY <1>3 DEF DestroyWindow, AfterDestroy, u
  <2>3. SceneShape(h) /\ Serves(u, h) /\ h.scene /\ h.whole /\ (h.dirty \/ ~h.running)
    BY <1>1, EndDoes
  <2>. HIDE DEF h
  <2>4. Serves(g, h)
    BY <1>1, <2>3, ServesAgain
  <2>. QED
    BY <2>2, <2>3, <2>4, AskedOK
<1>. QED
  BY <1>2, <1>3

\* A press raises a window: the one on top stays, and another one is not drawn yet.
LEMMA RaiseScene ==
    ASSUME NEW g, DeskOK(g), SceneOK(g), NEW s \in ToSet(g.list), g.dirty
    PROVE  SceneOK(Raised(g, s)) /\ Serves(g, Raised(g, s))
<1>. DEFINE f == FocusWindow(g, s)
            h == Raised(g, s)
<1>0. g.list \in Seq(Slot) /\ s \in Slot
  BY InToSet DEF DeskOK, DeskShape
<1>1. SceneShape(f) /\ Serves(g, f)
  BY <1>0, FocusDoes DEF SceneOK
<1>2. h = [f EXCEPT !.excused = @ \/ Head(g.list) # s]
  BY DEF Raised
<1>3. CASE Head(g.list) = s
  <2>1. g.win[s].focused = TRUE
    <3>1. g.list # <<>>
      BY <1>0, InToSet
    <3>2. s = g.list[1]
      BY <1>0, <1>3, <3>1
    <3>. QED
      BY <1>0, <3>2 DEF DeskOK, DeskShape, TopFocused
  <2>2. f = [g EXCEPT !.win[s].focused = TRUE]
    BY <1>3 DEF FocusWindow
  <2>3. Alike(g, f)
    <3>1. /\ SceneFields \subseteq DOMAIN g /\ DOMAIN g.win = Slot
          /\ \A t \in Slot : PaneFields \subseteq DOMAIN g.win[t]
      BY DEF SceneOK, SceneShape, PaneShape
    <3>. DEFINE w == [g.win EXCEPT ![s].focused = TRUE]
    <3>2. \A t \in Slot : /\ w[t].id = g.win[t].id /\ w[t].focused = g.win[t].focused
                          /\ w[t].visible = g.win[t].visible /\ w[t].dirty = g.win[t].dirty
                          /\ w[t].y = g.win[t].y /\ w[t].h = g.win[t].h /\ w[t].bb = g.win[t].bb
                          /\ w[t].fresh = g.win[t].fresh
      BY <1>0, <2>1, <3>1 DEF PaneFields
    <3>3. f = [g EXCEPT !.win = w]
      BY <2>2
    <3>. HIDE DEF w, f
    <3>4. /\ f.win = w /\ f.list = g.list /\ f.band = g.band /\ f.scene = g.scene /\ f.whole = g.whole
      BY <3>1, <3>3 DEF SceneFields
    <3>. QED
      BY <3>2, <3>4 DEF Alike
  <2>. HIDE DEF f
  <2>4. SceneShape(h) /\ Serves(f, h) /\ Alike(f, h)
    <3>1. SceneShape(h) /\ Serves(f, h)
      BY <1>1, <1>2 DEF SceneShape, SceneFields, Serves
    <3>2. SceneFields \subseteq DOMAIN f
      BY <1>1 DEF SceneShape
    <3>3. h.win = f.win /\ h.list = f.list /\ h.band = f.band /\ h.scene = f.scene /\ h.whole = f.whole
      BY <1>2, <3>2 DEF SceneFields
    <3>. QED
      BY <3>1, <3>3 DEF Alike
  <2>. HIDE DEF h
  <2>5. Alike(g, h)
    BY <2>3, <2>4 DEF Alike
  <2>6. Serves(g, h)
    BY <1>1, <2>4, ServesAgain
  <2>7. SceneOK(h)
    BY <1>0, <2>4, <2>5, <2>6, AlikeOK
  <2>. QED
    BY <2>6, <2>7 DEF h
<1>4. CASE Head(g.list) # s
  <2>. HIDE DEF f
  <2>1. SceneShape(h) /\ Serves(f, h) /\ h.excused
    BY <1>1, <1>2, <1>4 DEF SceneShape, SceneFields, Serves
  <2>. HIDE DEF h
  <2>2. Serves(g, h)
    BY <1>1, <2>1, ServesAgain
  <2>3. Looks(h) /\ h.dirty
    BY <2>1, <2>2 DEF Looks, Serves
  <2>4. SceneOK(h)
    BY <2>1, <2>2, <2>3, ServesOK
  <2>. QED
    BY <2>2, <2>4 DEF h
<1>. QED
  BY <1>3, <1>4

\* Of one window more than its content may differ: then it is drawn again,
Elsewhere(g, h, s) ==
    /\ h.list = g.list /\ \A t \in Slot : t # s => h.win[t] = g.win[t]
    /\ h.win[s].id = g.win[s].id /\ h.win[s].focused = g.win[s].focused /\ h.win[s].visible = g.win[s].visible

LEMMA ElsewhereFrame ==
    ASSUME NEW g, NEW h, NEW s \in Slot, Elsewhere(g, h, s), g.list \in Seq(Slot)
    PROVE  SameFrame(g, h) /\ OnShow(h) = OnShow(g) /\ \A t \in OnShow(g) : t \in Slot
<1>1. SameFrame(g, h)
  BY DEF SameFrame, Elsewhere
<1>. QED
  BY <1>1, SameBar, InToSet DEF OnShow

LEMMA RepaintOK ==
    ASSUME NEW g, NEW h, NEW s \in Slot, Windows(g), SceneShape(h), Serves(g, h), h.dirty \/ ~h.running,
           Elsewhere(g, h, s), h.win[s].y = g.win[s].y, h.win[s].h = g.win[s].h, h.win[s].dirty,
           h.band = g.band
    PROVE  SceneOK(h)
<1>1. SameFrame(g, h) /\ OnShow(h) = OnShow(g) /\ \A t \in OnShow(g) : t \in Slot
  BY ElsewhereFrame DEF Windows
<1>2. RowsOf(h.win[s]) = RowsOf(g.win[s])
  BY DEF RowsOf
<1>3. ASSUME NEW r \in Row PROVE RowKept(g, h, r) \/ Awaits(h, r)
  <2>1. CASE s \in OnShow(g) /\ r \in RowsOf(g.win[s])
    BY <1>1, <1>2, <2>1 DEF Awaits, Repaint
  <2>2. CASE ~(s \in OnShow(g) /\ r \in RowsOf(g.win[s]))
    BY <1>1, <1>2, <2>2 DEF RowKept, RowShows, Elsewhere
  <2>. QED
    BY <2>1, <2>2
<1>4. \A r \in Row : InScene(g, r) => InScene(h, r)
  BY DEF InScene, BandRows, Serves
<1>5. Looks(h)
  BY <1>1, <1>3, <1>4, RowByRow DEF Windows, SceneOK, Serves
<1>. QED
  BY <1>5, ServesOK DEF Windows

\* or it has another place, and the rows that it left and entered are copied.
LEMMA PlaceOK ==
    ASSUME NEW g, NEW h, NEW s \in Slot, Windows(g), SceneShape(h), Serves(g, h), h.dirty, h.scene,
           Elsewhere(g, h, s),
           \A r \in Row : \/ h.whole
                          \/ r \in BandRows(h)
                          \/ r \notin BandRows(g) /\ r \notin RowsOf(g.win[s]) /\ r \notin RowsOf(h.win[s])
    PROVE  SceneOK(h)
<1>1. SameFrame(g, h) /\ OnShow(h) = OnShow(g) /\ \A t \in OnShow(g) : t \in Slot
  BY ElsewhereFrame DEF Windows
<1>2. ASSUME NEW r \in Row, ~InScene(h, r)
      PROVE  RowKept(g, h, r) /\ (InScene(g, r) => InScene(h, r))
  <2>1. ~h.whole /\ r \notin BandRows(g) /\ r \notin RowsOf(g.win[s]) /\ r \notin RowsOf(h.win[s])
    BY <1>2 DEF InScene
  <2>2. RowKept(g, h, r)
    BY <1>1, <2>1 DEF RowKept, RowShows, Elsewhere
  <2>. QED
    BY <2>1, <2>2 DEF InScene, Serves
<1>3. Looks(h)
  BY <1>1, <1>2, RowByRow DEF Windows, SceneOK, Serves
<1>. QED
  BY <1>3, ServesOK DEF Windows

\* The band of a drag only grows, and takes in what it is asked to.
LEMMA WidenDoes ==
    ASSUME DesktopAssumption, NEW g, SceneShape(g), NEW top \in Int, NEW bottom \in Int
    PROVE  LET k == Widened(g, top, bottom) IN
           /\ SceneShape(k) /\ Serves(g, k)
           /\ k.win = g.win /\ k.list = g.list /\ k.drag = g.drag /\ k.whole = g.whole /\ k.dirty = g.dirty
           /\ \A r \in Row : r \in BandRows(g) \/ r \in top..bottom - 1 => r \in BandRows(k)
<1>. DEFINE a == Max({top, 0})
            b == Min({Max({bottom, 0}), RowMax + 1})
            k == Widened(g, top, bottom)
<1>0. RowMax \in Nat
  BY DEF DesktopAssumption
<1>1. a = IF top >= 0 THEN top ELSE 0
  BY MaxOfTwo
<1>2. b = IF bottom >= RowMax + 1 THEN RowMax + 1 ELSE IF bottom >= 0 THEN bottom ELSE 0
  <2>1. Max({bottom, 0}) = IF bottom >= 0 THEN bottom ELSE 0
    BY MaxOfTwo
  <2>2. Max({bottom, 0}) \in Int /\ RowMax + 1 \in Int
    BY <1>0, <2>1
  <2>3. b = IF Max({bottom, 0}) <= RowMax + 1 THEN Max({bottom, 0}) ELSE RowMax + 1
    BY <2>2, MinOfTwo
  <2>. QED
    BY <1>0, <2>1, <2>3
<1>3. a \in Int /\ b \in Int /\ \A r \in Row : r \in top..bottom - 1 => a <= r /\ r < b
  <2>1. a \in Int /\ b \in Int
    BY <1>0, <1>1, <1>2
  <2>. HIDE DEF a, b
  <2>2. \A r \in Row : r \in Int /\ 0 <= r /\ r <= RowMax
    BY <1>0 DEF Row
  <2>. QED
    BY <1>0, <1>1, <1>2, <2>1, <2>2
<1>. DEFINE A == Min({g.band.top, a})
            B == Max({g.band.bottom, b})
            band == IF g.band = NoBand THEN [top |-> a, bottom |-> b] ELSE [top |-> A, bottom |-> B]
<1>4. k = [g EXCEPT !.band = band]
  BY DEF Widened
<1>5. g.band.top \in Int /\ g.band.bottom \in Int
  BY DEF SceneShape
<1>. HIDE DEF a, b
<1>6. A = (IF g.band.top <= a THEN g.band.top ELSE a) /\ B = (IF g.band.bottom >= b THEN g.band.bottom ELSE b)
  BY <1>3, <1>5, MinOfTwo, MaxOfTwo
<1>7. A \in Int /\ B \in Int /\ A <= a /\ A <= g.band.top /\ b <= B /\ g.band.bottom <= B
  BY <1>3, <1>5, <1>6
<1>. HIDE DEF A, B
<1>8. band.top \in Int /\ band.bottom \in Int
  BY <1>3, <1>7
<1>9. ASSUME NEW r \in Row, r \in BandRows(g) \/ r \in top..bottom - 1
      PROVE  r \in band.top..band.bottom - 1
  <2>0. r \in Int
    BY <1>0 DEF Row
  <2>1. CASE g.band = NoBand
    <3>1. band.top = a /\ band.bottom = b
      BY <2>1
    <3>2. r \notin BandRows(g)
      BY <2>0, <2>1 DEF BandRows, NoBand
    <3>. QED
      BY <1>3, <1>9, <2>0, <3>1, <3>2
  <2>2. CASE g.band # NoBand
    <3>1. band.top = A /\ band.bottom = B
      BY <2>2
    <3>2. r \in BandRows(g) => g.band.top <= r /\ r < g.band.bottom
      BY <1>5, <2>0 DEF BandRows
    <3>3. A <= r /\ r < B
      BY <1>3, <1>5, <1>7, <1>9, <2>0, <3>2
    <3>. QED
      BY <1>7, <2>0, <3>1, <3>3
  <2>. QED
    BY <2>1, <2>2
<1>. HIDE DEF band, k
<1>10. SceneShape(k) /\ Serves(g, k)
  BY <1>4, <1>8 DEF SceneShape, SceneFields, Serves
<1>11. /\ k.win = g.win /\ k.list = g.list /\ k.drag = g.drag /\ k.whole = g.whole /\ k.dirty = g.dirty
       /\ k.band = band
  BY <1>4 DEF SceneShape, SceneFields
<1>12. \A r \in Row : r \in BandRows(g) \/ r \in top..bottom - 1 => r \in BandRows(k)
  BY <1>9, <1>11 DEF BandRows
<1>. QED
  BY <1>10, <1>11, <1>12 DEF k

\* A window follows the mouse: it leaves the rows from where the drag was before, or
\* the whole scene is asked for.
LEMMA MovedScene ==
    ASSUME DesktopAssumption, NEW g, Windows(g), g.dirty, NEW s \in Slot, NEW row \in Int
    PROVE  SceneOK(Moved(g, s, row)) /\ Serves(g, Moved(g, s, row))
<1>. DEFINE p == g.drag.prev
            y == g.win[s].y
            n == g.win[s].h
            top == Min({p, row})
            low == Max({p, row})
            k == Widened(g, top, low + n)
            h == Moved(g, s, row)
<1>0. SceneShape(g) /\ p \in Int /\ y \in Int /\ n \in Int
  BY DEF Windows, SceneOK, SceneShape, PaneShape
<1>1. top = (IF p <= row THEN p ELSE row) /\ low = (IF p >= row THEN p ELSE row)
  BY <1>0, MinOfTwo, MaxOfTwo
<1>2. top \in Int /\ low \in Int /\ low + n \in Int
  BY <1>0, <1>1
<1>3. h = [k EXCEPT !.win[s].y = row, !.drag.prev = row, !.scene = TRUE, !.whole = @ \/ y # p]
  BY DEF Moved
<1>. HIDE DEF top, low, h
<1>4. /\ SceneShape(k) /\ Serves(g, k)
      /\ k.win = g.win /\ k.list = g.list /\ k.drag = g.drag /\ k.whole = g.whole /\ k.dirty = g.dirty
      /\ \A r \in Row : r \in BandRows(g) \/ r \in top..(low + n) - 1 => r \in BandRows(k)
  BY <1>0, <1>2, WidenDoes
<1>. HIDE DEF k
<1>5. SceneShape(h) /\ Serves(k, h)
  BY <1>3, <1>4 DEF SceneShape, SceneFields, PaneShape, PaneFields, Serves
<1>6. /\ h.scene /\ (y # p => h.whole) /\ h.band = k.band /\ h.dirty = k.dirty
      /\ h.list = k.list /\ h.win = [k.win EXCEPT ![s].y = row]
  BY <1>3, <1>4 DEF SceneShape, SceneFields
<1>7. Elsewhere(g, h, s) /\ h.win[s].y = row /\ h.win[s].h = n
  BY <1>0, <1>4, <1>6 DEF Elsewhere, SceneShape, PaneShape, PaneFields
<1>8. Serves(g, h)
  BY <1>4, <1>5, ServesAgain
<1>9. ASSUME NEW r \in Row, ~h.whole, r \notin BandRows(h)
      PROVE  r \notin BandRows(g) /\ r \notin RowsOf(g.win[s]) /\ r \notin RowsOf(h.win[s])
  <2>1. r \notin BandRows(g) /\ r \notin top..(low + n) - 1 /\ y = p
    BY <1>4, <1>6, <1>9 DEF BandRows
  <2>. HIDE DEF y, n, p
  <2>2. \A x \in Int : x \in y..y + n - 1 \/ x \in row..row + n - 1 => x \in top..(low + n) - 1
    BY <1>0, <1>1, <1>2, <2>1
  <2>3. r \in Int
    BY DEF Row, DesktopAssumption
  <2>4. RowsOf(g.win[s]) = y..y + n - 1 /\ RowsOf(h.win[s]) = row..row + n - 1
    BY <1>7 DEF RowsOf, y, n
  <2>. QED
    BY <2>1, <2>2, <2>3, <2>4
<1>10. h.dirty
  BY <1>4, <1>6
<1>11. SceneOK(h)
  BY <1>5, <1>6, <1>7, <1>8, <1>9, <1>10, PlaceOK
<1>. QED
  BY <1>8, <1>11 DEF h

\* A window gets another height: it leaves and enters the rows of both.
LEMMA ResizeScene ==
    ASSUME DesktopAssumption, NEW g, Windows(g), g.dirty, NEW s \in Slot, NEW to, to.y \in Int, to.h \in Int
    PROVE  SceneOK(Resize(g, s, to)) /\ Serves(g, Resize(g, s, to))
<1>. DEFINE y == g.win[s].y
            n == g.win[s].h
            top == Min({y, to.y})
            low == Max({y + n, to.y + to.h})
            k == Widened(g, top, low)
            h == Resize(g, s, to)
<1>0. SceneShape(g) /\ y \in Int /\ n \in Int
  BY DEF Windows, SceneOK, SceneShape, PaneShape
<1>1. top = (IF y <= to.y THEN y ELSE to.y)
  BY <1>0, MinOfTwo
<1>a. low = (IF y + n >= to.y + to.h THEN y + n ELSE to.y + to.h)
  <2>1. y + n \in Int /\ to.y + to.h \in Int
    BY <1>0
  <2>. QED
    BY <2>1, MaxOfTwo
<1>2. top \in Int /\ low \in Int
  BY <1>0, <1>1, <1>a
<1>3. h = [k EXCEPT !.win[s].y = to.y, !.win[s].h = to.h, !.scene = TRUE]
  BY DEF Resize
<1>. HIDE DEF top, low, h
<1>4. /\ SceneShape(k) /\ Serves(g, k)
      /\ k.win = g.win /\ k.list = g.list /\ k.drag = g.drag /\ k.whole = g.whole /\ k.dirty = g.dirty
      /\ \A r \in Row : r \in BandRows(g) \/ r \in top..low - 1 => r \in BandRows(k)
  BY <1>0, <1>2, WidenDoes
<1>. HIDE DEF k
<1>5. SceneShape(h) /\ Serves(k, h)
  BY <1>3, <1>4 DEF SceneShape, SceneFields, PaneShape, PaneFields, Serves
<1>6. /\ h.scene /\ h.band = k.band /\ h.dirty = k.dirty
      /\ h.list = k.list /\ h.win = [k.win EXCEPT ![s] = [[k.win[s] EXCEPT !.y = to.y] EXCEPT !.h = to.h]]
  BY <1>3, <1>4 DEF SceneShape, SceneFields
<1>7. Elsewhere(g, h, s) /\ h.win[s].y = to.y /\ h.win[s].h = to.h
  BY <1>0, <1>4, <1>6 DEF Elsewhere, SceneShape, PaneShape, PaneFields
<1>8. Serves(g, h)
  BY <1>4, <1>5, ServesAgain
<1>9. ASSUME NEW r \in Row, r \notin BandRows(h)
      PROVE  r \notin BandRows(g) /\ r \notin RowsOf(g.win[s]) /\ r \notin RowsOf(h.win[s])
  <2>1. r \notin BandRows(g) /\ r \notin top..low - 1
    BY <1>4, <1>6, <1>9 DEF BandRows
  <2>. HIDE DEF y, n
  <2>2. \A x \in Int : x \in y..y + n - 1 \/ x \in to.y..to.y + to.h - 1 => x \in top..low - 1
    BY <1>0, <1>1, <1>a, <1>2
  <2>3. r \in Int
    BY DEF Row, DesktopAssumption
  <2>4. RowsOf(g.win[s]) = y..y + n - 1 /\ RowsOf(h.win[s]) = to.y..to.y + to.h - 1
    BY <1>7 DEF RowsOf, y, n
  <2>. QED
    BY <2>1, <2>2, <2>3, <2>4
<1>10. h.dirty
  BY <1>4, <1>6
<1>11. SceneOK(h)
  BY <1>5, <1>6, <1>7, <1>8, <1>9, <1>10, PlaceOK
<1>. QED
  BY <1>8, <1>11 DEF h

\* The height that the mouse asks for is a number.
LEMMA StretchedIs ==
    ASSUME DesktopAssumption, NEW z, z.y \in Int, z.h \in Int, z.row \in Int, NEW row \in Int
    PROVE  Stretched(z, row).y \in Int /\ Stretched(z, row).h \in Int
<1>0. MinHeight \in Int
  BY DEF DesktopAssumption
<1>1. ASSUME NEW a \in Int, NEW b \in Int PROVE Max({a, b}) \in Int /\ Min({a, b}) \in Int
  BY MaxOfTwo, MinOfTwo
<1>2. z.h + row \in Int /\ z.row + MinHeight \in Int /\ z.y + row \in Int /\ z.y + z.h \in Int
      /\ (z.y + z.h) - MinHeight + z.row \in Int
  BY <1>0
<1>3. Max({z.h + row, z.row + MinHeight}) \in Int /\ Min({z.y + row, (z.y + z.h) - MinHeight + z.row}) \in Int
  BY <1>1, <1>2
<1>. QED
  BY <1>2, <1>3 DEF Stretched

\* The mouse moves what it holds, and the place of the mouse is a row.
LEMMA DragScene ==
    ASSUME DesktopAssumption, NEW g, Windows(g), g.dirty, NEW left, NEW row \in Int
    PROVE  /\ SceneOK(Dragged(g, left, row)) /\ Serves(g, Dragged(g, left, row))
           /\ SceneOK(Resized(g, left, row)) /\ Serves(g, Resized(g, left, row))
<1>0. SceneOK(g) /\ SceneShape(g) /\ Serves(g, g)
  BY DEF Windows, SceneOK, Serves
<1>1. g.drag.win # NoWin => SceneOK(Moved(g, g.drag.win, row)) /\ Serves(g, Moved(g, g.drag.win, row))
  <2>1. g.drag.win # NoWin => g.drag.win \in Slot
    BY <1>0 DEF SceneShape
  <2>. QED
    BY <2>1, MovedScene
<1>2. g.resize.win # NoWin => LET h == Resize(g, g.resize.win, Stretched(g.resize, row)) IN SceneOK(h) /\ Serves(g, h)
  <2>1. g.resize.win # NoWin => g.resize.win \in Slot
    BY <1>0 DEF SceneShape
  <2>2. Stretched(g.resize, row).y \in Int /\ Stretched(g.resize, row).h \in Int
    BY <1>0, StretchedIs DEF SceneShape
  <2>. QED
    BY <2>1, <2>2, ResizeScene
<1>. QED
  BY <1>0, <1>1, <1>2 DEF Dragged, Resized

\* A window that was resized is drawn again, blank.
LEMMA ReleaseScene ==
    ASSUME NEW g, DeskOK(g), SceneOK(g), g.dirty, NEW release
    PROVE  SceneOK(Released(g, release)) /\ Serves(g, Released(g, release))
<1>0. SceneShape(g) /\ Serves(g, g) /\ g.list \in Seq(Slot)
  BY DEF SceneOK, Serves, DeskOK, DeskShape
<1>1. ASSUME NEW s \in Slot PROVE SceneOK(EndResize(g, s)) /\ Serves(g, EndResize(g, s))
  <2>. DEFINE k == Realloc(g, s)
  <2>1. k = [g EXCEPT !.win[s] = [[g.win[s] EXCEPT !.bb = g.win[s].h - 1, !.content = "blank", !.fresh = {"blank"}]
                                     EXCEPT !.dirty = TRUE]]
    BY <1>0 DEF Realloc, Backbuffer, SceneShape
  <2>. HIDE DEF k
  <2>2. SceneShape(k) /\ Serves(g, k) /\ k.dirty = g.dirty /\ k.band = g.band /\ k.list = g.list
    BY <1>0, <2>1 DEF SceneShape, SceneFields, PaneShape, PaneFields, Serves
  <2>3. Elsewhere(g, k, s) /\ k.win[s].y = g.win[s].y /\ k.win[s].h = g.win[s].h /\ k.win[s].dirty
    BY <1>0, <2>1 DEF Elsewhere, SceneShape, SceneFields, PaneShape, PaneFields
  <2>4. SceneOK(k)
    BY <1>0, <2>2, <2>3, RepaintOK DEF Windows
  <2>5. SceneOK(PushEvent(k, s, "resize")) /\ Serves(k, PushEvent(k, s, "resize"))
    BY <1>0, <2>2, <2>4, PushScene DEF Windows
  <2>6. s # NoWin
    BY DEF Slot, NoWin
  <2>7. EndResize(g, s) = PushEvent(k, s, "resize")
    BY <2>6 DEF EndResize, k
  <2>. QED
    BY <2>2, <2>5, <2>7, ServesAgain
<1>2. SceneOK(EndResize(g, g.resize.win)) /\ Serves(g, EndResize(g, g.resize.win))
  <2>1. CASE g.resize.win = NoWin
    BY <1>0, <2>1 DEF EndResize
  <2>2. CASE g.resize.win # NoWin
    BY <1>0, <1>1, <2>2 DEF SceneShape
  <2>. QED
    BY <2>1, <2>2
<1>. DEFINE e == EndResize(g, g.resize.win)
<1>3. e.list \in Seq(Slot)
  <2>1. e = g \/ e = PushEvent(Realloc(g, g.resize.win), g.resize.win, "resize")
    BY DEF EndResize
  <2>2. Realloc(g, g.resize.win).list = g.list
    BY <1>0 DEF Realloc, SceneShape, SceneFields
  <2>3. PushEvent(Realloc(g, g.resize.win), g.resize.win, "resize").list = Realloc(g, g.resize.win).list
    BY <1>0 DEF PushEvent, Realloc, SceneShape, SceneFields
  <2>. QED
    BY <1>0, <2>1, <2>2, <2>3
<1>. HIDE DEF e
<1>4. SceneOK(LetGo(e)) /\ Serves(e, LetGo(e))
  BY <1>2, <1>3, LetGoScene DEF Windows, e
<1>5. Serves(g, LetGo(e))
  BY <1>2, <1>4, ServesAgain DEF e
<1>. QED
  BY <1>0, <1>4, <1>5 DEF Released, e

DeskDone(g) == DeskOK(g) /\ SceneOK(g)

LEMMA DeskWindows ==
    ASSUME NEW g, DeskDone(g)
    PROVE  Windows(g) /\ Serves(g, g)
BY DEF DeskDone, DeskOK, DeskShape, Windows, SceneOK, Serves

\* A press on the status bar closes the window on top or raises one.
LEMMA PressBarScene ==
    ASSUME NEW g, DeskDone(g), g.dirty, NEW spot \in Spot
    PROVE  SceneOK(PressBar(g, spot)) /\ Serves(g, PressBar(g, spot))
<1>0. Windows(g) /\ Serves(g, g) /\ SceneOK(g) /\ DeskOK(g)
  BY DeskWindows DEF DeskDone
<1>1. ASSUME NEW k, DeskOK(k), SceneOK(k), Serves(g, k)
      PROVE  SceneOK(LetGo(k)) /\ Serves(g, LetGo(k))
  <2>1. Windows(k)
    BY <1>1 DEF DeskOK, DeskShape, Windows
  <2>. QED
    BY <1>1, <2>1, LetGoScene, ServesAgain
<1>2. ASSUME g.list # <<>> PROVE LET k == DestroyWindow(g, Head(g.list)) IN SceneOK(LetGo(k)) /\ Serves(g, LetGo(k))
  <2>1. Head(g.list) \in ToSet(g.list)
    <3>1. g.list \in Seq(Slot)
      BY <1>0 DEF DeskOK, DeskShape
    <3>2. 1 \in 1..Len(g.list) /\ Head(g.list) = g.list[1]
      BY <1>2, <3>1
    <3>. QED
      BY <3>1, <3>2, InToSet
  <2>2. DeskOK(DestroyWindow(g, Head(g.list)))
    BY <1>0, <2>1, DestroyKeeps
  <2>3. SceneOK(DestroyWindow(g, Head(g.list))) /\ Serves(g, DestroyWindow(g, Head(g.list)))
    BY <1>0, DestroyScene
  <2>. QED
    BY <1>1, <2>2, <2>3
<1>3. ASSUME NEW i PROVE SceneOK(LetGo(Taskbar(g, i))) /\ Serves(g, LetGo(Taskbar(g, i)))
  <2>. DEFINE s == CHOOSE s \in WithButton(g, i) : TRUE
  <2>1. ASSUME WithButton(g, i) # {}
        PROVE  LET k == SceneDirty(FocusWindow(g, s)) IN DeskOK(k) /\ SceneOK(k) /\ Serves(g, k)
    <3>1. s \in ToSet(g.list)
      BY <2>1 DEF WithButton, OnShow
    <3>2. s \in Slot
      BY <1>0, <3>1, InToSet DEF DeskOK, DeskShape
    <3>. HIDE DEF s
    <3>3. DeskOK(FocusWindow(g, s))
      BY <1>0, <3>1, FocusKeeps
    <3>4. DeskOK(SceneDirty(FocusWindow(g, s)))
      BY <3>3, WakeKeeps DEF Keeps
    <3>5. SceneOK(SceneDirty(FocusWindow(g, s))) /\ Serves(g, SceneDirty(FocusWindow(g, s)))
      BY <1>0, <3>2, FocusScene
    <3>. QED
      BY <3>4, <3>5
  <2>2. DeskOK(Taskbar(g, i)) /\ SceneOK(Taskbar(g, i)) /\ Serves(g, Taskbar(g, i))
    BY <1>0, <2>1 DEF Taskbar
  <2>. QED
    BY <1>1, <2>2
<1>4. SceneOK(LetGo(g)) /\ Serves(g, LetGo(g))
  BY <1>0, <1>1
<1>5. CASE spot = "close"
  <2>1. PressBar(g, spot) = LetGo(IF g.list = <<>> THEN g ELSE DestroyWindow(g, Head(g.list)))
    BY <1>5 DEF PressBar
  <2>. QED
    BY <1>2, <1>4, <2>1
<1>6. CASE spot = "mid"
  <2>1. PressBar(g, spot) = LetGo(Taskbar(g, 1))
    BY <1>6 DEF PressBar
  <2>. QED
    BY <1>3, <2>1
<1>7. CASE spot = "top"
  <2>1. PressBar(g, spot) = LetGo(Taskbar(g, 2))
    BY <1>7 DEF PressBar
  <2>. QED
    BY <1>3, <2>1
<1>. QED
  BY <1>5, <1>6, <1>7 DEF Spot

\* A press on the window on top closes it or takes hold of it,
LEMMA PressInScene ==
    ASSUME NEW k, DeskDone(k), NEW s \in ToSet(k.list), NEW row \in Int, NEW spot
    PROVE  SceneOK(PressIn(k, s, row, spot)) /\ Serves(k, PressIn(k, s, row, spot))
<1>. DEFINE w == k.win[s]
<1>1. Windows(k) /\ SceneOK(k) /\ DeskOK(k)
  BY DeskWindows DEF DeskDone
<1>2. s \in Slot
  BY <1>1, InToSet DEF Windows
<1>3. ASSUME NEW edge PROVE SceneOK(StartResize(k, s, edge, row)) /\ Serves(k, StartResize(k, s, edge, row))
  BY <1>1, <1>2, StartResizeScene
<1>4. SceneOK(LetGo(DestroyWindow(k, s))) /\ Serves(k, LetGo(DestroyWindow(k, s)))
  <2>1. DeskOK(DestroyWindow(k, s)) /\ SceneOK(DestroyWindow(k, s)) /\ Serves(k, DestroyWindow(k, s))
    BY <1>1, DestroyKeeps, DestroyScene
  <2>2. Windows(DestroyWindow(k, s))
    BY <2>1 DEF Windows, DeskOK, DeskShape
  <2>. QED
    BY <2>1, <2>2, LetGoScene, ServesAgain
<1>5. LET h == [k EXCEPT !.drag = [win |-> s, prev |-> w.y]] IN SceneOK(h) /\ Serves(k, h)
  BY <1>1, <1>2, StartDragScene
<1>6. SceneOK(PushEvent(k, s, "button")) /\ Serves(k, PushEvent(k, s, "button"))
  BY <1>1, PushScene
<1>7. PressIn(k, s, row, spot) \in {StartResize(k, s, EdgeAt(w, row, spot), row), LetGo(DestroyWindow(k, s)),
                                    [k EXCEPT !.drag = [win |-> s, prev |-> w.y]], PushEvent(k, s, "button")}
  BY DEF PressIn
<1>. QED
  BY <1>3, <1>4, <1>5, <1>6, <1>7

\* and a press on another one raises it first.
LEMMA PressScene ==
    ASSUME NEW g, DeskDone(g), g.dirty, NEW press, NEW row \in Int, NEW spot \in Spot
    PROVE  SceneOK(Pressed(g, press, row, spot)) /\ Serves(g, Pressed(g, press, row, spot))
<1>0. SceneOK(g) /\ DeskOK(g) /\ Serves(g, g)
  BY DeskWindows DEF DeskDone
<1>1. ASSUME NEW s \in ToSet(g.list)
      PROVE  LET h == PressIn(Raised(g, s), s, row, spot) IN SceneOK(h) /\ Serves(g, h)
  <2>. DEFINE k == Raised(g, s)
  <2>2. SceneOK(k) /\ Serves(g, k)
    BY <1>0, RaiseScene
  <2>3. DeskOK(k) /\ s \in ToSet(k.list)
    <3>1. DeskOK(FocusWindow(g, s)) /\ ToSet(FocusWindow(g, s).list) = ToSet(g.list)
      BY <1>0, FocusKeeps
    <3>2. SameWindows(FocusWindow(g, s), k)
      BY <3>1 DEF Raised, SameWindows, DeskOK, DeskShape, DeskFields
    <3>3. Keeps(FocusWindow(g, s), k)
      BY <3>1, <3>2, SameKeeps
    <3>. QED
      BY <3>1, <3>3 DEF Keeps
  <2>. HIDE DEF k
  <2>10. SceneOK(PressIn(k, s, row, spot)) /\ Serves(k, PressIn(k, s, row, spot))
    BY <2>2, <2>3, PressInScene DEF DeskDone
  <2>11. Serves(g, PressIn(k, s, row, spot))
    BY <2>2, <2>10, ServesAgain
  <2>. QED
    BY <2>10, <2>11 DEF k
<1>2. LET h == PressAt(g, HitTest(g, row), row, spot) IN SceneOK(h) /\ Serves(g, h)
  BY <1>0, <1>1, HitIs DEF PressAt
<1>3. SceneOK(PressBar(g, spot)) /\ Serves(g, PressBar(g, spot))
  BY PressBarScene
<1>4. Pressed(g, press, row, spot) \in {g, PressBar(g, spot), PressAt(g, HitTest(g, row), row, spot)}
  BY DEF Pressed
<1>. QED
  BY <1>0, <1>2, <1>3, <1>4

\* What is held follows the mouse.
LEMMA PullScene ==
    ASSUME DesktopAssumption, NEW g, DeskDone(g), NEW left, NEW row \in Int
    PROVE  LET d == Pulled(g, left, row) IN DeskDone(d) /\ Serves(g, d) /\ d.dirty
<1>. DEFINE k == [g EXCEPT !.dirty = TRUE, !.held = left]
            a == Dragged(k, left, row)
            d == Resized(a, left, row)
<1>1. DeskDone(k) /\ Serves(g, k) /\ k.dirty
  <2>1. SceneOK(k) /\ Serves(g, k) /\ k.dirty
    BY DeskWindows, BusyScene
  <2>2. SameWindows(g, k)
    BY DEF SameWindows, DeskDone, DeskOK, DeskShape, DeskFields
  <2>3. DeskOK(k)
    <3>. HIDE DEF k
    <3>. QED
      BY <2>2, SameKeeps DEF Keeps, DeskDone
  <2>. QED
    BY <2>1, <2>3 DEF DeskDone
<1>. HIDE DEF k
<1>2. DeskDone(a) /\ Serves(k, a) /\ a.dirty
  <2>1. Windows(k)
    BY <1>1, DeskWindows
  <2>2. SceneOK(a) /\ Serves(k, a)
    BY <1>1, <2>1, DragScene
  <2>3. DeskOK(a)
    BY <1>1, DragKeeps DEF Keeps, DeskDone
  <2>. QED
    BY <1>1, <2>2, <2>3 DEF DeskDone, Serves
<1>. HIDE DEF a
<1>3. DeskDone(d) /\ Serves(a, d) /\ d.dirty
  <2>1. Windows(a)
    BY <1>2, DeskWindows
  <2>2. SceneOK(d) /\ Serves(a, d)
    BY <1>2, <2>1, DragScene
  <2>3. DeskOK(d)
    BY <1>2, DragKeeps DEF Keeps, DeskDone
  <2>. QED
    BY <1>2, <2>2, <2>3 DEF DeskDone, Serves
<1>4. Pulled(g, left, row) = d
  BY DEF Pulled, k, a
<1>. HIDE DEF d
<1>5. Serves(g, d)
  BY <1>1, <1>2, <1>3, ServesAgain
<1>. QED
  BY <1>3, <1>4, <1>5

\* One event of the mouse, and all of them.
LEMMA EventScene ==
    ASSUME DesktopAssumption, NEW g, DeskDone(g), NEW left, NEW row \in Int, NEW spot \in Spot
    PROVE  DeskDone(MouseEvent(g, left, row, spot)) /\ Serves(g, MouseEvent(g, left, row, spot))
<1>. DEFINE d == Pulled(g, left, row)
            p == Pressed(d, left /\ ~g.held, row, spot)
            h == Released(p, ~left /\ g.held)
<1>3. DeskDone(d) /\ Serves(g, d) /\ d.dirty
  BY PullScene
<1>. HIDE DEF d
<1>4. DeskDone(p) /\ Serves(d, p) /\ p.dirty
  <2>1. SceneOK(p) /\ Serves(d, p)
    BY <1>3, PressScene
  <2>2. DeskOK(p)
    BY <1>3, PressKeeps DEF DeskDone
  <2>. QED
    BY <1>3, <2>1, <2>2 DEF DeskDone, Serves
<1>. HIDE DEF p
<1>5. DeskDone(h) /\ Serves(p, h)
  <2>1. SceneOK(h) /\ Serves(p, h)
    BY <1>4, ReleaseScene DEF DeskDone
  <2>2. DeskOK(h)
    BY <1>4, ReleaseKeeps DEF DeskDone, Keeps
  <2>. QED
    BY <2>1, <2>2 DEF DeskDone
<1>6. MouseEvent(g, left, row, spot) = h
  BY DEF MouseEvent, d, p
<1>. HIDE DEF h
<1>7. Serves(g, h)
  BY <1>3, <1>4, <1>5, ServesAgain
<1>. QED
  BY <1>5, <1>6, <1>7

LEMMA MouseScene ==
    ASSUME DesktopAssumption, NEW g, DeskDone(g), NEW m, Len(m.events) \in Nat, m.spot \in Spot, m.row \in Int
    PROVE  DeskDone(ProcessMouse(g, m)) /\ Serves(g, ProcessMouse(g, m))
<1>. DEFINE n == Len(m.events)
<1>1. PICK h : Runs(h, n, g, Loop("mouse", m)) /\ ProcessMouse(g, m) = h[n]
  BY MouseRuns
<1>. HIDE DEF n
<1>n. n \in Nat
  BY DEF n
<1>. DEFINE S == {i \in 0..n : DeskDone(h[i]) /\ Serves(g, h[i])}
<1>2. \A i \in 0..n : h[i] = IF i = 0 THEN g ELSE MouseEvent(h[i - 1], m.events[i], m.row, m.spot)
  BY <1>1 DEF Runs, Turn, Loop
<1>3. 0 \in S
  BY <1>2, <1>n, DeskWindows
<1>4. ASSUME NEW i \in 1..n, i - 1 \in S PROVE i \in S
  <2>1. i \in 0..n /\ i # 0
    OBVIOUS
  <2>2. h[i] = MouseEvent(h[i - 1], m.events[i], m.row, m.spot)
    BY <1>2, <2>1
  <2>3. DeskDone(h[i]) /\ Serves(h[i - 1], h[i])
    BY <1>4, <2>2, EventScene
  <2>4. Serves(g, h[i])
    BY <1>4, <2>3, ServesAgain
  <2>. QED
    BY <2>1, <2>3, <2>4
<1>. HIDE DEF S
<1>5. 0..n \subseteq S
  BY <1>3, <1>4, <1>n, CountingUp
<1>6. n \in S
  BY <1>5, <1>n
<1>. QED
  BY <1>1, <1>6 DEF S

\* The keys: events for the window on top, and its end.
LEMMA KeysScene ==
    ASSUME NEW g, DeskDone(g), NEW T, NEW ks \in Seq(T)
    PROVE  DeskDone(ProcessKeyboard(g, ks)) /\ Serves(g, ProcessKeyboard(g, ks))
<1>. DEFINE n == KeysTaken(g, ks)
<1>0. n \in 0..Len(ks) /\ n \in Nat
  BY TakenIs
<1>1. PICK h : Runs(h, n, g, Loop("keys", ks)) /\ ProcessKeyboard(g, ks) = h[n]
  BY <1>0, KeysRun
<1>a. DeskOK(ProcessKeyboard(g, ks))
  BY KeysKeep DEF DeskDone
<1>. HIDE DEF n
<1>2. \A i \in 0..n : h[i] = IF i = 0 THEN g ELSE KeyEvent(h[i - 1], ks[i])
  BY <1>1 DEF Runs, Turn, Loop
<1>3. CASE n = 0
  BY <1>1, <1>2, <1>3, <1>0, DeskWindows
<1>4. CASE n # 0
  <2>1. \A i \in 1..n - 1 : ks[i] # "altf4"
    BY TakenIs DEF n
  <2>. DEFINE R == {i \in 0..n - 1 : Windows(h[i]) /\ Serves(g, h[i])}
  <2>2. 0 \in R
    BY <1>0, <1>2, <1>4, DeskWindows
  <2>3. ASSUME NEW i \in 1..n - 1, i - 1 \in R PROVE i \in R
    <3>1. i \in 0..n /\ i # 0 /\ i \in 0..n - 1
      BY <1>0
    <3>2. h[i] = PushEvent(h[i - 1], Head(h[i - 1].list), "key")
      BY <1>2, <2>1, <3>1 DEF KeyEvent
    <3>3. Windows(h[i - 1]) /\ Serves(g, h[i - 1])
      BY <2>3
    <3>4. SceneOK(h[i]) /\ Serves(h[i - 1], h[i])
      BY <3>2, <3>3, PushScene
    <3>5. h[i].list = h[i - 1].list
      BY <3>2, <3>3 DEF PushEvent, Windows, SceneOK, SceneShape, SceneFields
    <3>6. Serves(g, h[i])
      BY <3>3, <3>4, ServesAgain
    <3>. QED
      BY <3>1, <3>3, <3>4, <3>5, <3>6 DEF Windows
  <2>. HIDE DEF R
  <2>4. n - 1 \in R
    <3>1. n - 1 \in Nat
      BY <1>0, <1>4
    <3>2. 0..n - 1 \subseteq R
      BY <2>2, <2>3, <3>1, CountingUp
    <3>. QED
      BY <3>1, <3>2
  <2>. DEFINE k == h[n - 1]
  <2>5. Windows(k) /\ Serves(g, k)
    BY <2>4 DEF R
  <2>6. h[n] = KeyEvent(k, ks[n])
    BY <1>0, <1>2, <1>4
  <2>. HIDE DEF k
  <2>7. h[n] \in {DestroyWindow(k, Head(k.list)), PushEvent(k, Head(k.list), "key")}
    BY <2>6 DEF KeyEvent
  <2>8. SceneOK(h[n]) /\ Serves(k, h[n])
    BY <2>5, <2>7, DestroyScene, PushScene DEF Windows
  <2>9. Serves(g, h[n])
    BY <2>5, <2>8, ServesAgain
  <2>. QED
    BY <1>1, <1>a, <2>8, <2>9 DEF DeskDone
<1>. QED
  BY <1>3, <1>4

\* The end of the windows of a program.
LEMMA DeathScene ==
    ASSUME DesktopAssumption, SceneOK(gui), NEW c, OwnerDies(c)
    PROVE  SceneOK(gui') /\ Serves(gui, gui')
<1>0. WindowMax \in Nat
  BY DEF DesktopAssumption
<1>. DEFINE it == CHOOSE h : Runs(h, WindowMax, gui, Loop("death", c))
<1>1. gui' = it[WindowMax]
  BY DEF OwnerDies, Runs, Turn, Loop
<1>2. \E h : Runs(h, WindowMax, gui, Loop("death", c))
  BY <1>0, EventLoopRuns
<1>3. PICK h : Runs(h, WindowMax, gui, Loop("death", c)) /\ gui' = h[WindowMax]
  BY <1>1, <1>2
<1>. DEFINE S == {i \in 0..WindowMax : SceneOK(h[i]) /\ Serves(gui, h[i])}
<1>4. \A i \in 0..WindowMax : h[i] = IF i = 0 THEN gui ELSE DestroyIfOf(h[i - 1], i, c)
  BY <1>3 DEF Runs, Turn, Loop
<1>5. 0 \in S
  <2>1. Serves(gui, gui)
    BY DEF Serves
  <2>. QED
    BY <1>0, <1>4, <2>1
<1>6. ASSUME NEW i \in 1..WindowMax, i - 1 \in S PROVE i \in S
  <2>1. i \in 0..WindowMax /\ i # 0
    BY <1>0
  <2>2. h[i] = DestroyIfOf(h[i - 1], i, c)
    BY <1>4, <2>1
  <2>3. SceneOK(h[i]) /\ Serves(h[i - 1], h[i])
    <3>1. SceneOK(h[i - 1]) /\ Serves(h[i - 1], h[i - 1])
      BY <1>6 DEF Serves
    <3>. QED
      BY <2>2, <3>1, DestroyScene DEF DestroyIfOf
  <2>4. Serves(gui, h[i])
    BY <1>6, <2>3, ServesAgain
  <2>. QED
    BY <2>1, <2>3, <2>4
<1>. HIDE DEF S
<1>7. 0..WindowMax \subseteq S
  BY <1>0, <1>5, <1>6, CountingUp
<1>8. WindowMax \in S
  BY <1>0, <1>7
<1>. QED
  BY <1>3, <1>8 DEF S

\* Drawing some windows from the lowest to the highest.
LEMMA DrawRuns ==
    ASSUME NEW rows, NEW g, NEW slots, Len(g.list) \in Nat
    PROVE  \E h : /\ Runs(h, Len(g.list), rows, Loop("draw", [list |-> g.list, win |-> g.win, slots |-> slots]))
                  /\ DrawWindows(rows, g, slots) = h[Len(g.list)]
<1>. DEFINE n == Len(g.list)
            what == Loop("draw", [list |-> g.list, win |-> g.win, slots |-> slots])
            it == CHOOSE h : Runs(h, n, rows, what)
<1>1. DrawWindows(rows, g, slots) = it[n]
  BY DEF DrawWindows, Runs, Turn, DrawNth, Loop
<1>2. \E h : Runs(h, n, rows, what)
  BY EventLoopRuns
<1>. QED
  BY <1>1, <1>2

\* Window i is one of those that are drawn in row r.
Among(g, slots, i, r) == g.list[i] \in slots /\ r \in RowsOf(g.win[g.list[i]])

\* A row shows the highest of the windows that were drawn in it, or what it showed.
LEMMA Painted ==
    ASSUME NEW g, g.list \in Seq(Slot), NEW slots, NEW rows, DOMAIN rows = Row
    PROVE  /\ DOMAIN DrawWindows(rows, g, slots) = Row
           /\ \A r \in Row :
                 /\ (\A i \in 1..Len(g.list) : ~Among(g, slots, i, r)) => DrawWindows(rows, g, slots)[r] = rows[r]
                 /\ \A i \in 1..Len(g.list) :
                       Among(g, slots, i, r) /\ (\A j \in 1..i - 1 : ~Among(g, slots, j, r))
                          => DrawWindows(rows, g, slots)[r] = WindowCell(g.win[g.list[i]], r)
<1>. DEFINE n == Len(g.list)
<1>n. n \in Nat
  OBVIOUS
<1>1. PICK h : /\ Runs(h, n, rows, Loop("draw", [list |-> g.list, win |-> g.win, slots |-> slots]))
               /\ DrawWindows(rows, g, slots) = h[n]
  BY <1>n, DrawRuns
<1>2. h[0] = rows /\ \A i \in 1..n : h[i] = DrawNth(h[i - 1], [list |-> g.list, win |-> g.win, slots |-> slots], i)
  <2>1. \A i \in 0..n : h[i] = IF i = 0 THEN rows ELSE DrawNth(h[i - 1], [list |-> g.list, win |-> g.win, slots |-> slots], i)
    BY <1>1 DEF Runs, Turn, Loop
  <2>. QED
    BY <1>n, <2>1
<1>. HIDE DEF n
<1>. DEFINE Bare(i, r) == (\A j \in n + 1 - i..n : ~Among(g, slots, j, r)) => h[i][r] = rows[r]
            Top(i, r) == \A j \in n + 1 - i..n :
                            Among(g, slots, j, r) /\ (\A k \in n + 1 - i..j - 1 : ~Among(g, slots, k, r))
                               => h[i][r] = WindowCell(g.win[g.list[j]], r)
            S == {i \in 0..n : DOMAIN h[i] = Row /\ \A r \in Row : Bare(i, r) /\ Top(i, r)}
<1>3. 0 \in S
  <2>1. 0 \in 0..n /\ \A j \in n + 1 - 0..n : FALSE
    BY <1>n
  <2>. QED
    BY <1>2, <2>1
<1>4. ASSUME NEW i \in 1..n, i - 1 \in S PROVE i \in S
  <2>. DEFINE m == n + 1 - i
  <2>1. m \in 1..n /\ n + 1 - (i - 1) = m + 1 /\ i \in 0..n
    BY <1>n
  <2>2. DOMAIN h[i - 1] = Row /\ \A r \in Row : Bare(i - 1, r) /\ Top(i - 1, r)
    BY <1>4
  <2>3. h[i] = IF g.list[m] \in slots THEN DrawWindow(h[i - 1], g.win[g.list[m]]) ELSE h[i - 1]
    BY <1>2 DEF DrawNth, n
  <2>4. DOMAIN h[i] = Row
    BY <2>2, <2>3 DEF DrawWindow
  <2>5. ASSUME NEW r \in Row
        PROVE  h[i][r] = IF Among(g, slots, m, r) THEN WindowCell(g.win[g.list[m]], r) ELSE h[i - 1][r]
    BY <2>3 DEF DrawWindow, Among
  <2>. HIDE DEF m
  <2>6. ASSUME NEW r \in Row PROVE Bare(i, r) /\ Top(i, r)
    <3>. DEFINE A(j) == Among(g, slots, j, r)
                x == h[i][r]
                y == h[i - 1][r]
                cell(j) == WindowCell(g.win[g.list[j]], r)
    <3>1. x = IF A(m) THEN cell(m) ELSE y
      BY <2>5
    <3>2. (\A j \in m + 1..n : ~A(j)) => y = rows[r]
      BY <2>1, <2>2
    <3>3. \A j \in m + 1..n : A(j) /\ (\A k \in m + 1..j - 1 : ~A(k)) => y = cell(j)
      BY <2>1, <2>2
    <3>. HIDE DEF A, x, y, cell
    <3>4. (\A j \in m..n : ~A(j)) => x = rows[r]
      <4>1. \A j \in m + 1..n : j \in m..n
        BY <2>1
      <4>2. m \in m..n
        BY <2>1
      <4>. QED
        BY <3>1, <3>2, <4>1, <4>2
    <3>5. ASSUME NEW j \in m..n, A(j), \A k \in m..j - 1 : ~A(k) PROVE x = cell(j)
      <4>1. CASE j = m
        BY <3>1, <3>5, <4>1
      <4>2. CASE j # m
        <5>1. j \in m + 1..n /\ m \in m..j - 1 /\ \A k \in m + 1..j - 1 : k \in m..j - 1
          BY <2>1, <4>2
        <5>. QED
          BY <3>1, <3>3, <3>5, <5>1
      <4>. QED
        BY <4>1, <4>2
    <3>. QED
      BY <3>4, <3>5 DEF A, x, cell, m
  <2>. QED
    BY <2>1, <2>4, <2>6
<1>. HIDE DEF S
<1>5. 0..n \subseteq S
  BY <1>n, <1>3, <1>4, CountingUp
<1>6. n \in S
  BY <1>n, <1>5
<1>7. DOMAIN h[n] = Row /\ \A r \in Row : Bare(n, r) /\ Top(n, r)
  BY <1>6 DEF S
<1>8. n + 1 - n = 1
  BY <1>n
<1>. QED
  BY <1>1, <1>7, <1>8 DEF n

\* A window that is drawn shows what it should.
LEMMA WindowPaints ==
    ASSUME NEW w, PaneShape(w), w.visible, NEW r
    PROVE  Paints(w, WindowCell(w, r), r)
BY DEF PaneShape, Paints, WindowCell

\* The full picture: each row of it fits.
LEMMA RedrawFits ==
    ASSUME DesktopAssumption, NEW g, g.list \in Seq(Slot), SceneShape(g), PictureFollows(g), g.step = "rest",
           ~g.rawValid, NEW r \in Row
    PROVE  Fits(g, DrawStatusbar(DrawWindows(DrawDesktop(g), g, OnShow(g)), g)[r], r)
<1>. DEFINE d == DrawDesktop(g)
            p == DrawWindows(d, g, OnShow(g))
            b == DrawStatusbar(p, g)
<1>1. DOMAIN d = Row /\ d[r] = DesktopCell(g)
  BY DEF DrawDesktop
<1>. HIDE DEF d
<1>2. /\ DOMAIN p = Row
      /\ (\A i \in 1..Len(g.list) : ~Among(g, OnShow(g), i, r)) => p[r] = d[r]
      /\ \A i \in 1..Len(g.list) :
            Among(g, OnShow(g), i, r) /\ (\A j \in 1..i - 1 : ~Among(g, OnShow(g), j, r))
               => p[r] = WindowCell(g.win[g.list[i]], r)
  BY <1>1, Painted
<1>3. \A i \in 1..Len(g.list) : Among(g, OnShow(g), i, r) <=> Under(g, i, r)
  BY InToSet DEF Among, Under, OnShow
<1>. HIDE DEF p
<1>4. BarRow \in Row
  BY DEF DesktopAssumption, BarRow, Row
<1>5. b[r] = IF r = BarRow THEN BarCell(g) ELSE p[r]
  BY <1>2, <1>4 DEF DrawStatusbar
<1>. HIDE DEF b
<1>6. CASE r = BarRow
  BY <1>5, <1>6 DEF Fits, b, p, d
<1>7. CASE r # BarRow /\ HitTest(g, r) = NoWin
  <2>1. b[r] = DesktopCell(g)
    BY <1>1, <1>2, <1>3, <1>5, <1>7, HitTop
  <2>2. b[r].kind = "desk" /\ b[r].mark = g.scaled
    BY <2>1 DEF DesktopCell, Cell
  <2>3. g.wanted \in {b[r].mark, "any"}
    BY <2>2 DEF PictureFollows
  <2>. QED
    BY <1>7, <2>2, <2>3 DEF Fits, b, p, d
<1>8. CASE r # BarRow /\ HitTest(g, r) # NoWin
  <2>1. PICK i \in 1..Len(g.list) : Topmost(g, i, r) /\ HitTest(g, r) = g.list[i]
    BY <1>8, HitTop
  <2>2. \A j \in 1..i - 1 : j \in 1..Len(g.list)
    OBVIOUS
  <2>3. b[r] = WindowCell(g.win[g.list[i]], r)
    BY <1>2, <1>3, <1>5, <1>8, <2>1, <2>2 DEF Topmost
  <2>4. g.list[i] \in Slot /\ g.win[g.list[i]].visible
    BY <2>1 DEF Topmost, Under
  <2>5. Paints(g.win[g.list[i]], b[r], r)
    BY <2>3, <2>4, WindowPaints DEF SceneShape
  <2>. QED
    BY <1>8, <2>1, <2>5 DEF Fits, b, p, d
<1>. QED
  BY <1>6, <1>7, <1>8

\* What only marks windows as drawn.
Marked(g, h, slots) ==
    /\ h.list = g.list /\ h.wanted = g.wanted /\ DOMAIN h.win = Slot
    /\ \A s \in Slot : /\ h.win[s] = [g.win[s] EXCEPT !.dirty = g.win[s].dirty /\ s \notin slots]
                       /\ PaneFields \subseteq DOMAIN g.win[s]

LEMMA MarkedFits ==
    ASSUME NEW g, NEW h, NEW slots, g.list \in Seq(Slot), Marked(g, h, slots)
    PROVE  /\ OnShow(h) = OnShow(g)
           /\ Repaint(h) = Repaint(g) \ slots
           /\ \A r, cell : Fits(g, cell, r) => Fits(h, cell, r)
<1>1. \A s \in Slot :
         /\ h.win[s].id = g.win[s].id /\ h.win[s].focused = g.win[s].focused
         /\ h.win[s].visible = g.win[s].visible
         /\ h.win[s].y = g.win[s].y /\ h.win[s].h = g.win[s].h /\ h.win[s].bb = g.win[s].bb
         /\ h.win[s].fresh = g.win[s].fresh
         /\ h.win[s].dirty <=> g.win[s].dirty /\ s \notin slots
  BY DEF Marked, PaneFields
<1>2. SameFrame(g, h)
  BY <1>1 DEF SameFrame, Marked
<1>3. OnShow(h) = OnShow(g) /\ \A s \in OnShow(g) : s \in Slot
  BY <1>2, SameBar, InToSet DEF OnShow
<1>4. Repaint(h) = Repaint(g) \ slots
  BY <1>1, <1>3 DEF Repaint
<1>5. ASSUME NEW r PROVE RowShows(g, h, r)
  <2>. SUFFICES ASSUME NEW s \in OnShow(g)
                PROVE  /\ r \in RowsOf(h.win[s]) <=> r \in RowsOf(g.win[s])
                       /\ \A cell : Paints(g.win[s], cell, r) => Paints(h.win[s], cell, r)
    BY DEF RowShows
  <2>1. /\ h.win[s].id = g.win[s].id /\ h.win[s].focused = g.win[s].focused
        /\ h.win[s].y = g.win[s].y /\ h.win[s].h = g.win[s].h /\ h.win[s].bb = g.win[s].bb
        /\ h.win[s].fresh = g.win[s].fresh
    BY <1>1, <1>3
  <2>2. Focus(h.win[s]) = Focus(g.win[s])
    BY <2>1 DEF Focus
  <2>. QED
    BY <2>1, <2>2 DEF RowsOf, Paints
<1>6. \A r, cell : Fits(g, cell, r) => Fits(h, cell, r)
  <2>1. h.wanted = g.wanted
    BY DEF Marked
  <2>. QED
    BY <1>2, <1>5, <2>1, RowFits
<1>. QED
  BY <1>3, <1>4, <1>6

\* A compositor that drew has nothing left to do.
Rests(g, h) ==
    /\ h.running = g.running /\ h.step = g.step /\ h.raw = g.raw /\ h.rawValid = g.rawValid
    /\ h.source = g.source /\ h.scaled = g.scaled /\ h.wanted = g.wanted
    /\ h.quit = g.quit /\ h.dirty = g.dirty /\ ~h.scene

\* All is drawn; of a drag, only the rows of its band reach the screen.
LEMMA FullDraws ==
    ASSUME DesktopAssumption, NEW g, g.list \in Seq(Slot), SceneShape(g), Looks(g), PictureFollows(g),
           g.step = "rest", ~g.rawValid
    PROVE  LET h == FullComposite(g) IN
           SceneShape(h) /\ Rests(g, h) /\ Repaint(h) = {} /\ Looks(h)
<1>. DEFINE b == DrawStatusbar(DrawWindows(DrawDesktop(g), g, OnShow(g)), g)
            rows == IF Banded(g) THEN BandRows(g) ELSE Row
            hw == [r \in Row |-> IF r \in rows THEN b[r] ELSE g.hw[r]]
            exc == Banded(g) /\ (g.excused \/ BandMisses(g))
            win == [s \in Slot |-> [g.win[s] EXCEPT !.dirty = g.win[s].dirty /\ s \notin OnShow(g)]]
            h == FullComposite(g)
<1>0. SceneFields \subseteq DOMAIN g /\ DOMAIN g.win = Slot /\ \A s \in Slot : PaneShape(g.win[s])
  BY DEF SceneShape
<1>1. \A r \in Row : Fits(g, b[r], r)
  BY RedrawFits
<1>2. /\ SceneFields \subseteq DOMAIN h /\ h.win = win /\ h.list = g.list /\ h.back = b /\ h.hw = hw
      /\ h.excused = exc /\ h.scene = FALSE /\ h.whole = FALSE /\ h.band = NoBand
      /\ h.drag = g.drag /\ h.resize = g.resize
      /\ h.running = g.running /\ h.step = g.step /\ h.raw = g.raw /\ h.rawValid = g.rawValid
      /\ h.source = g.source /\ h.scaled = g.scaled /\ h.wanted = g.wanted
      /\ h.quit = g.quit /\ h.dirty = g.dirty
  <2>. DEFINE r1 == Redrawn(g)
              p1 == Presented(r1)
              c1 == Clean(p1, OnShow(g))
  <2>1. r1 = [g EXCEPT !.back = b]
    BY DEF Redrawn
  <2>. HIDE DEF b, r1
  <2>2. /\ r1.list = g.list /\ r1.win = g.win /\ r1.band = g.band /\ r1.whole = g.whole
        /\ r1.hw = g.hw /\ r1.excused = g.excused /\ r1.back = b
    BY <1>0, <2>1 DEF SceneFields
  <2>3. Banded(r1) = Banded(g) /\ BandRows(r1) = BandRows(g) /\ BandMisses(r1) = BandMisses(g)
    BY <2>2 DEF Banded, BandRows, BandMisses, OnShow
  <2>4. p1 = [[r1 EXCEPT !.hw = hw] EXCEPT !.excused = exc]
    <3>1. BlitRows(r1, rows) = [r1 EXCEPT !.hw = hw]
      BY <2>2 DEF BlitRows
    <3>2. p1 = [BlitRows(r1, rows) EXCEPT !.excused = Banded(g) /\ (@ \/ BandMisses(g))]
      BY <2>3 DEF Presented
    <3>. HIDE DEF rows, hw, p1
    <3>3. [r1 EXCEPT !.hw = hw].excused = g.excused
      BY <1>0, <2>1, <2>2 DEF SceneFields
    <3>. QED
      BY <3>1, <3>2, <3>3
  <2>. HIDE DEF rows, hw, exc, p1
  <2>5. c1 = [p1 EXCEPT !.win = win]
    <3>1. p1.win = g.win
      BY <1>0, <2>1, <2>4 DEF SceneFields
    <3>. QED
      BY <3>1 DEF Clean
  <2>. HIDE DEF win, c1
  <2>6. h = [[[c1 EXCEPT !.scene = FALSE] EXCEPT !.whole = FALSE] EXCEPT !.band = NoBand]
    BY DEF FullComposite, c1, p1, r1
  <2>. HIDE DEF h
  <2>. QED
    BY <1>0, <2>1, <2>4, <2>5, <2>6 DEF SceneFields
<1>b. DOMAIN b = Row /\ DOMAIN hw = Row
  BY Painted DEF DrawStatusbar, DrawDesktop
<1>. HIDE DEF h, b
<1>3. \A s \in Slot : PaneShape(h.win[s])
  <2>. SUFFICES ASSUME NEW s \in Slot PROVE PaneShape(h.win[s])
    OBVIOUS
  <2>. DEFINE d == g.win[s].dirty /\ s \notin OnShow(g)
  <2>1. h.win[s] = [g.win[s] EXCEPT !.dirty = d]
    BY <1>2
  <2>. HIDE DEF win, d
  <2>2. PaneShape(g.win[s])
    BY <1>0
  <2>. QED
    BY <2>1, <2>2 DEF PaneShape, PaneFields
<1>4. DOMAIN h.win = Slot
  BY <1>2
<1>5. Marked(g, h, OnShow(g))
  <2>1. \A s \in Slot : PaneFields \subseteq DOMAIN g.win[s]
    BY <1>0 DEF PaneShape
  <2>. QED
    BY <1>2, <2>1 DEF Marked
<1>6. SceneShape(h)
  <2>1. h.band.top \in Int /\ h.band.bottom \in Int
    BY <1>2 DEF NoBand
  <2>. QED
    BY <1>2, <1>3, <1>4, <1>b, <2>1 DEF SceneShape
<1>7. Repaint(h) = {} /\ \A r, cell : Fits(g, cell, r) => Fits(h, cell, r)
  <2>1. Repaint(g) \subseteq OnShow(g)
    BY DEF Repaint
  <2>. QED
    BY <1>5, <2>1, MarkedFits
<1>8. ASSUME ~h.excused, ~(h.quit /\ h.dirty), NEW r \in Row PROVE Fits(g, hw[r], r)
  <2>1. CASE r \in rows
    BY <1>1, <2>1
  <2>2. CASE r \notin rows
    <3>1. Banded(g) /\ r \notin BandRows(g) /\ ~g.excused /\ ~BandMisses(g) /\ ~(g.quit /\ g.dirty)
      BY <1>2, <1>8, <2>2
    <3>2. Fits(g, g.hw[r], r) \/ Awaits(g, r) \/ InScene(g, r)
      BY <3>1 DEF Looks, ScreenFits
    <3>3. ~InScene(g, r)
      BY <3>1 DEF InScene, BandMisses
    <3>4. ~Awaits(g, r)
      BY <3>1 DEF Awaits, Repaint, BandMisses
    <3>. QED
      BY <2>2, <3>2, <3>3, <3>4
  <2>. QED
    BY <2>1, <2>2
<1>9. Looks(h)
  <2>. SUFFICES ASSUME ~h.excused, ~(h.quit /\ h.dirty) PROVE BackFits(h) /\ ScreenFits(h)
    BY DEF Looks
  <2>1. \A r \in Row : Fits(g, hw[r], r)
    BY <1>8
  <2>. HIDE DEF hw
  <2>. QED
    BY <1>1, <1>2, <1>7, <2>1 DEF BackFits, ScreenFits
<1>10. Rests(g, h)
  BY <1>2 DEF Rests
<1>. QED
  BY <1>6, <1>7, <1>9, <1>10 DEF h

\* The rows of a partial redraw take in those of the windows that are drawn.
LEMMA RowsReach ==
    ASSUME DesktopAssumption, NEW S, S \subseteq Row, NEW r \in S
    PROVE  r \in Min(S)..Max(S)
<1>0. RowMax \in Nat /\ S \subseteq 0..RowMax /\ S # {}
  BY DEF DesktopAssumption, Row
<1>1. Min(S) \in S /\ Min(S) <= r
  <2>1. S \subseteq Nat
    BY <1>0
  <2>. QED
    BY <1>0, <2>1, MinOfNats
<1>2. Max(S) \in S /\ r <= Max(S)
  BY <1>0, MaxUpTo
<1>. QED
  BY <1>0, <1>1, <1>2

\* Windows that nothing covers are drawn over what was there.
LEMMA PartialDraws ==
    ASSUME DesktopAssumption, NEW g, g.list \in Seq(Slot), Distinct(g.list), SceneShape(g), Looks(g), ~g.scene,
           NEW row \in Row
    PROVE  LET h == PartialComposite(g, row) IN
           SceneShape(h) /\ Rests(g, h) /\ Repaint(h) = {} /\ Looks(h)
<1>. DEFINE b == DrawWindows(g.back, g, Repaint(g))
            rows == PartialRows(g, row)
            hw == [r \in Row |-> IF r \in rows THEN b[r] ELSE g.hw[r]]
            exc == g.excused \/ \E s \in Repaint(g) : Covered(g, s)
            win == [s \in Slot |-> [g.win[s] EXCEPT !.dirty = g.win[s].dirty /\ s \notin Repaint(g)]]
            h == PartialComposite(g, row)
<1>0. /\ SceneFields \subseteq DOMAIN g /\ DOMAIN g.win = Slot /\ \A s \in Slot : PaneShape(g.win[s])
      /\ DOMAIN g.back = Row /\ DOMAIN hw = Row
  BY DEF SceneShape
<1>1. /\ SceneFields \subseteq DOMAIN h /\ h.win = win /\ h.list = g.list /\ h.back = b /\ h.hw = hw
      /\ h.excused = exc /\ h.scene = g.scene /\ h.whole = g.whole /\ h.band = g.band
      /\ h.drag = g.drag /\ h.resize = g.resize
      /\ h.running = g.running /\ h.step = g.step /\ h.raw = g.raw /\ h.rawValid = g.rawValid
      /\ h.source = g.source /\ h.scaled = g.scaled /\ h.wanted = g.wanted
      /\ h.quit = g.quit /\ h.dirty = g.dirty
  <2>. DEFINE d1 == PartialDrawn(g)
              b1 == BlitRows(d1, rows)
  <2>1. d1 = [[g EXCEPT !.back = b] EXCEPT !.excused = exc]
    <3>1. d1 = [[g EXCEPT !.back = b] EXCEPT !.excused = @ \/ \E s \in Repaint(g) : Covered(g, s)]
      BY DEF PartialDrawn
    <3>2. [g EXCEPT !.back = b].excused = g.excused
      BY <1>0 DEF SceneFields
    <3>. QED
      BY <3>1, <3>2
  <2>. HIDE DEF b, exc, d1, rows
  <2>2. d1.back = b /\ d1.hw = g.hw /\ d1.win = g.win
    BY <1>0, <2>1 DEF SceneFields
  <2>3. b1 = [d1 EXCEPT !.hw = hw]
    BY <2>2 DEF BlitRows
  <2>. HIDE DEF hw, b1
  <2>4. b1.win = g.win
    BY <1>0, <2>1, <2>2, <2>3 DEF SceneFields
  <2>5. h = [b1 EXCEPT !.win = win]
    <3>1. h = Clean(b1, Repaint(g))
      BY DEF PartialComposite, b1, d1, rows
    <3>. QED
      BY <2>4, <3>1 DEF Clean
  <2>. HIDE DEF win, h
  <2>. QED
    BY <1>0, <2>1, <2>3, <2>5 DEF SceneFields
<1>2. /\ DOMAIN b = Row
      /\ \A r \in Row :
            /\ (\A i \in 1..Len(g.list) : ~Among(g, Repaint(g), i, r)) => b[r] = g.back[r]
            /\ \A i \in 1..Len(g.list) :
                  Among(g, Repaint(g), i, r) /\ (\A j \in 1..i - 1 : ~Among(g, Repaint(g), j, r))
                     => b[r] = WindowCell(g.win[g.list[i]], r)
  BY <1>0, Painted
<1>. HIDE DEF h, b
<1>3. \A s \in Slot : PaneShape(h.win[s])
  <2>. SUFFICES ASSUME NEW s \in Slot PROVE PaneShape(h.win[s])
    OBVIOUS
  <2>. DEFINE d == g.win[s].dirty /\ s \notin Repaint(g)
  <2>1. h.win[s] = [g.win[s] EXCEPT !.dirty = d]
    BY <1>1
  <2>. HIDE DEF win, d
  <2>2. PaneShape(g.win[s])
    BY <1>0
  <2>. QED
    BY <2>1, <2>2 DEF PaneShape, PaneFields
<1>4. DOMAIN h.win = Slot
  BY <1>1
<1>5. Marked(g, h, Repaint(g))
  <2>1. \A s \in Slot : PaneFields \subseteq DOMAIN g.win[s]
    BY <1>0 DEF PaneShape
  <2>. QED
    BY <1>1, <2>1 DEF Marked
<1>6. SceneShape(h)
  BY <1>0, <1>1, <1>2, <1>3, <1>4 DEF SceneShape
<1>7. Repaint(h) = {} /\ \A r, cell : Fits(g, cell, r) => Fits(h, cell, r)
  BY <1>5, MarkedFits
<1>8. ASSUME ~h.excused, ~(h.quit /\ h.dirty), NEW r \in Row PROVE Fits(g, b[r], r)
  <2>0. /\ \A s \in Repaint(g) : ~Covered(g, s)
        /\ Fits(g, g.back[r], r) \/ Awaits(g, r)
    BY <1>1, <1>8 DEF Looks, BackFits
  <2>1. CASE \A i \in 1..Len(g.list) : ~Among(g, Repaint(g), i, r)
    <3>1. ~Awaits(g, r)
      <4>. SUFFICES ASSUME NEW s \in Repaint(g), r \in RowsOf(g.win[s]) PROVE FALSE
        BY DEF Awaits
      <4>1. PICK i \in 1..Len(g.list) : g.list[i] = s
        BY InToSet DEF Repaint, OnShow
      <4>. QED
        BY <2>1, <4>1 DEF Among
    <3>. QED
      BY <1>2, <2>0, <2>1, <3>1
  <2>2. CASE \E i \in 1..Len(g.list) : Among(g, Repaint(g), i, r)
    <3>1. PICK i \in 1..Len(g.list) : Among(g, Repaint(g), i, r)
      BY <2>2
    <3>. DEFINE s == g.list[i]
    <3>2. s \in Repaint(g) /\ r \in RowsOf(g.win[s]) /\ s \in Slot /\ g.win[s].visible
      BY <3>1 DEF Among, Repaint, OnShow
    <3>3. ~(BarRow \in RowsOf(g.win[s]))
          /\ \A t \in Above(g, s) : g.win[t].visible => r \notin RowsOf(g.win[t])
      BY <2>0, <3>2 DEF Covered
    <3>4. \A j \in 1..i - 1 : g.list[j] \in Above(g, s)
      <4>. SUFFICES ASSUME NEW j \in 1..i - 1 PROVE g.list[j] \in Above(g, s)
        OBVIOUS
      <4>1. j \in 1..Len(g.list) /\ \A k \in 1..j : k \in 1..Len(g.list) /\ k # i
        OBVIOUS
      <4>2. \A k \in 1..j : g.list[k] # s
        BY <4>1 DEF Distinct
      <4>. QED
        BY <4>1, <4>2 DEF Above
    <3>5. \A j \in 1..i - 1 : ~Under(g, j, r)
      BY <3>3, <3>4 DEF Under
    <3>6. Topmost(g, i, r)
      BY <3>2, <3>5 DEF Topmost, Under
    <3>7. \A j \in 1..i - 1 : ~Among(g, Repaint(g), j, r)
      BY <3>5 DEF Among, Under, Repaint, OnShow
    <3>8. b[r] = WindowCell(g.win[s], r)
      BY <1>2, <3>1, <3>7
    <3>9. HitTest(g, r) = s /\ HitTest(g, r) # NoWin
      BY <3>6, HitTop
    <3>10. r # BarRow
      BY <3>2, <3>3
    <3>11. Paints(g.win[s], b[r], r)
      BY <1>0, <3>2, <3>8, WindowPaints
    <3>. QED
      BY <3>9, <3>10, <3>11 DEF Fits
  <2>. QED
    BY <2>1, <2>2
<1>9. ASSUME ~h.excused, ~(h.quit /\ h.dirty), NEW r \in Row PROVE Fits(g, hw[r], r)
  <2>1. CASE r \in rows
    BY <1>8, <1>9, <2>1
  <2>2. CASE r \notin rows
    <3>1. Fits(g, g.hw[r], r) \/ Awaits(g, r)
      BY <1>1, <1>9 DEF Looks, ScreenFits, InScene
    <3>2. ~Awaits(g, r)
      <4>. SUFFICES ASSUME Awaits(g, r) PROVE r \in rows
        BY <2>2
      <4>. DEFINE S == ({row, g.prev.row} \cup UNION {RowsOf(g.win[s]) : s \in Repaint(g)}) \cap Row
      <4>1. S \subseteq Row /\ r \in S
        BY DEF Awaits
      <4>2. rows = Min(S)..Max(S)
        BY DEF PartialRows
      <4>. HIDE DEF S, rows
      <4>. QED
        BY <4>1, <4>2, RowsReach
    <3>. QED
      BY <2>2, <3>1, <3>2
  <2>. QED
    BY <2>1, <2>2
<1>10. Looks(h)
  <2>. SUFFICES ASSUME ~h.excused, ~(h.quit /\ h.dirty) PROVE BackFits(h) /\ ScreenFits(h)
    BY DEF Looks
  <2>1. \A r \in Row : Fits(g, hw[r], r) /\ Fits(g, b[r], r)
    BY <1>8, <1>9
  <2>. HIDE DEF hw
  <2>. QED
    BY <1>1, <1>7, <2>1 DEF BackFits, ScreenFits
<1>11. Rests(g, h)
  BY <1>1 DEF Rests
<1>. QED
  BY <1>6, <1>7, <1>10, <1>11 DEF h

\* The end of a pass.
LEMMA ShownScene ==
    ASSUME DesktopAssumption, NEW g, DeskOK(g), SceneShape(g), Looks(g), PictureFollows(g),
           g.running, g.step = "rest", ~g.rawValid, NEW m, m.row \in Row
    PROVE  SceneOK(Shown(g, m))
<1>. DEFINE c == Composite(g, m.row)
            p == [row |-> m.row, spot |-> m.spot]
            h == Shown(g, m)
<1>0. g.list \in Seq(Slot) /\ Distinct(g.list)
  BY DEF DeskOK, DeskShape, OpenListed
<1>1. SceneShape(c) /\ Rests(g, c) /\ Repaint(c) = {} /\ Looks(c)
  BY <1>0, FullDraws, PartialDraws DEF Composite
<1>2. c.list = g.list
  BY CompositeKeeps DEF Keeps
<1>3. h = [c EXCEPT !.prev = p]
  BY DEF Shown
<1>. HIDE DEF c, p, h
<1>4. /\ SceneShape(h)
      /\ h.win = c.win /\ h.list = c.list /\ h.wanted = c.wanted /\ h.back = c.back /\ h.hw = c.hw
      /\ h.excused = c.excused /\ h.quit = c.quit /\ h.scene = c.scene /\ h.whole = c.whole /\ h.band = c.band
      /\ h.running = c.running /\ h.step = c.step /\ h.raw = c.raw /\ h.rawValid = c.rawValid
      /\ h.source = c.source /\ h.scaled = c.scaled /\ h.dirty = c.dirty
  BY <1>1, <1>3 DEF SceneShape, SceneFields
<1>5. SameFrame(c, h) /\ \A r : RowKept(c, h, r) /\ (InScene(c, r) => InScene(h, r))
  BY <1>4 DEF SameFrame, RowKept, RowShows, InScene, BandRows
<1>6. Looks(h)
  BY <1>0, <1>1, <1>2, <1>4, <1>5, RowByRow
<1>7. Repaint(h) = {}
  BY <1>1, <1>4 DEF Repaint, OnShow
<1>8. RestIsDone(h)
  BY <1>1, <1>4, <1>7 DEF RestIsDone, Idle, Rests
<1>9. OffIsWhole(h) /\ PictureFollows(h)
  BY <1>1, <1>4 DEF OffIsWhole, PictureFollows, Rests
<1>. QED
  BY <1>4, <1>6, <1>8, <1>9 DEF SceneOK, h

\* What differs in nothing that is shown.
SameScene(g, h) ==
    /\ h.win = g.win /\ h.list = g.list /\ h.wanted = g.wanted /\ h.back = g.back /\ h.hw = g.hw
    /\ h.excused = g.excused /\ h.quit = g.quit /\ h.scene = g.scene /\ h.whole = g.whole /\ h.band = g.band

LEMMA SameLooks ==
    ASSUME NEW g, NEW h, g.list \in Seq(Slot), SameScene(g, h), Looks(g), g.quit /\ g.dirty => h.dirty
    PROVE  Looks(h) /\ Repaint(h) = Repaint(g)
<1>1. SameFrame(g, h) /\ \A r : RowKept(g, h, r) /\ (InScene(g, r) => InScene(h, r))
  BY DEF SameScene, SameFrame, RowKept, RowShows, InScene, BandRows
<1>2. Looks(h)
  BY <1>1, RowByRow DEF SameScene
<1>. QED
  BY <1>2 DEF SameScene, Repaint, OnShow

\* The compositor exits; another one draws everything.
LEMMA QuitScene ==
    ASSUME NEW g, SceneOK(g), g.step = "rest"
    PROVE  SceneOK(Quit(g))
<1>. DEFINE k == SceneDirty(g)
            h == Quit(g)
<1>1. SceneShape(k) /\ Serves(g, k) /\ k.scene /\ k.whole
  BY SceneDirtyDoes DEF SceneOK
<1>2. h = [k EXCEPT !.quit = FALSE, !.dirty = FALSE, !.prev = Nowhere, !.hover = NoWin, !.running = FALSE]
  BY DEF Quit
<1>. HIDE DEF k, h
<1>3. /\ SceneShape(h) /\ h.scene /\ h.whole /\ ~h.quit /\ h.prev = Nowhere /\ ~h.running
      /\ h.step = k.step /\ h.wanted = k.wanted /\ h.raw = k.raw /\ h.rawValid = k.rawValid
      /\ h.source = k.source /\ h.scaled = k.scaled
  BY <1>1, <1>2 DEF SceneShape, SceneFields
<1>4. \A r \in Row : InScene(h, r)
  BY <1>3 DEF InScene
<1>5. Looks(h)
  BY <1>3, <1>4 DEF Looks, BackFits, ScreenFits
<1>6. RestIsDone(h) /\ OffIsWhole(h)
  BY <1>1, <1>3 DEF RestIsDone, Resting, Idle, Begins, OffIsWhole, Serves
<1>7. PictureFollows(h)
  BY <1>1, <1>3 DEF SceneOK, PictureFollows, Serves
<1>. QED
  BY <1>3, <1>5, <1>6, <1>7 DEF SceneOK, h

\* Focus follows the mouse.
LEMMA PointerScene ==
    ASSUME NEW g, DeskDone(g), NEW m
    PROVE  LET h == PointerMoved(g, m) IN DeskDone(h) /\ Serves(g, h) /\ h.quit = g.quit
<1>. DEFINE d == [g EXCEPT !.dirty = TRUE]
            s == HitTest(g, m.row)
            k == [d EXCEPT !.hover = s]
            f == SceneDirty(FocusWindow(k, s))
            h == PointerMoved(g, m)
<1>0. Windows(g) /\ Serves(g, g) /\ SceneOK(g) /\ g.list \in Seq(Slot)
  BY DeskWindows DEF DeskDone, Windows
<1>1. SceneOK(d) /\ Serves(g, d) /\ d.dirty /\ d.quit = g.quit /\ d.list = g.list
  <2>1. SceneOK(d) /\ Serves(g, d) /\ d.dirty /\ d.quit = g.quit
    BY <1>0, BusyScene
  <2>2. d.list = g.list
    BY <1>0 DEF SceneOK, SceneShape, SceneFields
  <2>. QED
    BY <2>1, <2>2
<1>2. s # NoWin => s \in Slot
  BY <1>0, HitIs, InToSet DEF DeskDone
<1>a. h \in {g, d, HoverFocus(k, s)}
  BY DEF PointerMoved, Hover
<1>b. HoverFocus(k, s) = k \/ (s # NoWin /\ HoverFocus(k, s) = f)
  BY DEF HoverFocus
<1>. HIDE DEF d, s
<1>3. Windows(d)
  BY <1>0, <1>1 DEF Windows
<1>4. SceneOK(k) /\ Serves(d, k) /\ k.quit = d.quit
  BY <1>3, BusyScene
<1>. HIDE DEF k, h
<1>5. k.dirty /\ Serves(g, k) /\ k.quit = g.quit
  BY <1>1, <1>4, ServesAgain DEF Serves
<1>6. ASSUME s # NoWin PROVE SceneOK(f) /\ Serves(k, f) /\ f.quit = k.quit
  BY <1>2, <1>4, <1>5, <1>6, FocusScene
<1>. HIDE DEF f
<1>7. s # NoWin => SceneOK(f) /\ Serves(g, f) /\ f.quit = g.quit
  BY <1>5, <1>6, ServesAgain
<1>8. SceneOK(h) /\ Serves(g, h) /\ h.quit = g.quit
  BY <1>0, <1>1, <1>4, <1>5, <1>7, <1>a, <1>b
<1>9. DeskOK(h)
  BY PointerKeeps DEF DeskDone, h
<1>. QED
  BY <1>8, <1>9 DEF DeskDone, h

\* The request for a pass is taken back before it is served, with a background first.
LEMMA TakenScene ==
    ASSUME NEW g, DeskDone(g), g.running, g.step = "rest", ~g.quit \/ Begins(g)
    PROVE  LET d == [g EXCEPT !.dirty = FALSE] IN
           /\ DeskOK(d) /\ SceneShape(d) /\ Looks(d) /\ PictureFollows(d) /\ SameScene(g, d) /\ d.running
           /\ d.step = "rest" /\ d.rawValid = g.rawValid /\ d.prev = g.prev /\ d.list = g.list
           /\ g.rawValid => SceneOK(BeginScale(d))
<1>. DEFINE d == [g EXCEPT !.dirty = FALSE]
            b == BeginScale(d)
<1>0. /\ SceneShape(g) /\ Looks(g) /\ PictureFollows(g) /\ g.list \in Seq(Slot) /\ SceneFields \subseteq DOMAIN g
      /\ DeskOK(g) /\ SceneOK(g)
  BY DEF DeskDone, SceneOK, SceneShape, DeskOK, DeskShape
<1>2. /\ SceneShape(d) /\ SameScene(g, d) /\ d.running = g.running /\ d.step = g.step /\ d.prev = g.prev
      /\ d.raw = g.raw /\ d.rawValid = g.rawValid /\ d.source = g.source /\ d.scaled = g.scaled
      /\ d.nextId = g.nextId /\ d.owned = g.owned /\ d.dirty = FALSE
  BY <1>0 DEF SceneShape, SceneFields, SameScene
<1>3. /\ SceneShape(b) /\ SameScene(d, b) /\ b.running = d.running /\ b.step = "scaling" /\ b.prev = d.prev
      /\ b.raw = d.raw /\ b.rawValid = d.rawValid /\ b.source = d.raw /\ b.scaled = d.scaled
  <2>. HIDE DEF d
  <2>. QED
    BY <1>2 DEF BeginScale, SceneShape, SceneFields, SameScene
<1>. HIDE DEF b, d
<1>4. Looks(d) /\ PictureFollows(d) /\ d.list = g.list
  <2>1. ~g.quit => Looks(d)
    BY <1>0, <1>2, SameLooks
  <2>2. Begins(g) => Looks(d)
    BY <1>2 DEF Begins, SameScene, Looks, BackFits, ScreenFits, InScene
  <2>. QED
    BY <1>0, <1>2, <2>1, <2>2 DEF SameScene, PictureFollows
<1>5. DeskOK(d)
  <2>1. SameWindows(g, d)
    BY <1>0, <1>2 DEF SameWindows, DeskOK, DeskShape, DeskFields, SceneShape, SceneFields, SameScene
  <2>. QED
    BY <1>0, <2>1, SameKeeps DEF Keeps
<1>6. ASSUME g.rawValid PROVE SceneOK(b)
  <2>1. Looks(b)
    BY <1>0, <1>2, <1>3, <1>4, SameLooks
  <2>2. RestIsDone(b) /\ OffIsWhole(b)
    BY <1>2, <1>3 DEF RestIsDone, Resting, OffIsWhole, SameScene
  <2>3. PictureFollows(b)
    BY <1>2, <1>3, <1>4, <1>6 DEF PictureFollows, SameScene
  <2>. QED
    BY <1>3, <2>1, <2>2, <2>3 DEF SceneOK
<1>. QED
  BY <1>2, <1>4, <1>5, <1>6 DEF b, d

\* One pass: to exit, to start with a background, or to draw.
LEMMA CompositeScene ==
    ASSUME DesktopAssumption, NEW g, DeskDone(g), g.running, g.step = "rest", ~g.quit, NEW m, m.row \in Row
    PROVE  SceneOK(CompositePass(g, m))
<1>. DEFINE d == [g EXCEPT !.dirty = FALSE]
<1>1. \/ CompositePass(g, m) = g
      \/ g.rawValid /\ CompositePass(g, m) = BeginScale(d)
      \/ ~g.rawValid /\ CompositePass(g, m) = Shown(d, m)
  BY DEF CompositePass
<1>2. /\ DeskOK(d) /\ SceneShape(d) /\ Looks(d) /\ PictureFollows(d) /\ d.running /\ d.step = "rest"
      /\ d.rawValid = g.rawValid /\ (g.rawValid => SceneOK(BeginScale(d)))
  BY TakenScene
<1>. HIDE DEF d
<1>3. ~g.rawValid => SceneOK(Shown(d, m))
  BY <1>2, ShownScene
<1>. QED
  BY <1>1, <1>2, <1>3 DEF DeskDone

LEMMA PassScene ==
    ASSUME DesktopAssumption, NEW g, DeskDone(g), g.running, g.step = "rest", NEW m, m.row \in Row
    PROVE  SceneOK(CompositorPass(g, m))
<1>1. CASE g.quit
  BY <1>1, QuitScene DEF CompositorPass, DeskDone
<1>2. CASE ~g.quit
  <2>. DEFINE k == PointerMoved(g, m)
  <2>1. DeskDone(k) /\ Serves(g, k) /\ k.quit = g.quit
    BY PointerScene
  <2>2. CompositorPass(g, m) = CompositePass(k, m)
    BY <1>2 DEF CompositorPass
  <2>. HIDE DEF k
  <2>3. k.running /\ k.step = "rest" /\ ~k.quit
    BY <1>2, <2>1 DEF Serves
  <2>. QED
    BY <2>1, <2>2, <2>3, CompositeScene
<1>. QED
  BY <1>1, <1>2

\* The end of the scaling: the picture is shown, unless another one came in meanwhile.
LEMMA ScaledScene ==
    ASSUME DesktopAssumption, NEW g, DeskDone(g), g.step = "scaling", NEW m, m.row \in Row
    PROVE  SceneOK(Shown(EndScale(g), m))
<1>. DEFINE k == [g EXCEPT !.step = "rest", !.rawValid = FALSE, !.source = "none",
                           !.scaled = IF g.raw = g.source THEN g.raw ELSE "mixed"]
            h == SceneDirty(k)
<1>0. /\ SceneShape(g) /\ PictureFollows(g) /\ SceneFields \subseteq DOMAIN g /\ DeskOK(g) /\ g.running
      /\ g.list \in Seq(Slot)
  BY DEF DeskDone, SceneOK, SceneShape, OffIsWhole, DeskOK, DeskShape
<1>1. EndScale(g) = h
  BY DEF EndScale
<1>2. /\ SceneShape(k) /\ SameWindows(g, k) /\ k.running = g.running /\ k.step = "rest" /\ k.wanted = g.wanted
      /\ k.raw = g.raw /\ ~k.rawValid /\ k.scaled = (IF g.raw = g.source THEN g.raw ELSE "mixed")
      /\ k.quit = g.quit /\ k.dirty = g.dirty
  BY <1>0 DEF SceneShape, SceneFields, SameWindows, DeskOK, DeskShape, DeskFields
<1>. HIDE DEF k
<1>3. /\ SceneShape(h) /\ Serves(k, h) /\ h.scene /\ h.whole /\ h.dirty = k.dirty /\ h.quit = k.quit
  BY <1>2, SceneDirtyDoes
<1>4. DeskOK(h)
  BY <1>0, <1>2, SameKeeps, WakeKeeps DEF Keeps
<1>. HIDE DEF h
<1>5. \A r \in Row : InScene(h, r)
  BY <1>3 DEF InScene
<1>6. Looks(h)
  BY <1>3, <1>5 DEF Looks, BackFits, ScreenFits
<1>7. PictureFollows(h)
  BY <1>0, <1>2, <1>3 DEF PictureFollows, Serves
<1>8. h.running /\ h.step = "rest" /\ ~h.rawValid
  BY <1>0, <1>2, <1>3 DEF Serves
<1>. QED
  BY <1>1, <1>3, <1>4, <1>6, <1>7, <1>8, ShownScene

\* Calls of clients. The first window starts a compositor, which takes over the screen,
LEMMA StartScene ==
    ASSUME NEW g, DeskDone(g)
    PROVE  DeskDone(StartCompositor(g)) /\ (~g.running => Unserved(StartCompositor(g)))
<1>. DEFINE h == [g EXCEPT !.running = TRUE, !.back = g.hw]
<1>0. SceneShape(g) /\ DeskOK(g) /\ PictureFollows(g) /\ OffIsWhole(g)
  BY DEF DeskDone, SceneOK
<1>1. CASE g.running
  BY <1>1 DEF StartCompositor
<1>2. CASE ~g.running
  <2>1. StartCompositor(g) = h
    BY <1>2 DEF StartCompositor
  <2>2. /\ SceneShape(h) /\ SameWindows(g, h) /\ h.running /\ h.scene = g.scene /\ h.whole = g.whole
        /\ h.prev = g.prev /\ h.step = g.step /\ h.wanted = g.wanted /\ h.raw = g.raw /\ h.rawValid = g.rawValid
        /\ h.source = g.source /\ h.scaled = g.scaled /\ h.quit = g.quit /\ h.dirty = g.dirty
    BY <1>0 DEF SceneShape, SceneFields, SameWindows, DeskOK, DeskShape, DeskFields
  <2>. HIDE DEF h
  <2>3. h.scene /\ h.whole /\ h.prev = Nowhere
    BY <1>0, <1>2, <2>2 DEF OffIsWhole
  <2>4. Looks(h)
    BY <2>3 DEF Looks, BackFits, ScreenFits, InScene
  <2>5. RestIsDone(h) /\ OffIsWhole(h) /\ PictureFollows(h)
    BY <1>0, <2>2, <2>3 DEF RestIsDone, Resting, Idle, Begins, OffIsWhole, PictureFollows
  <2>6. DeskOK(h)
    BY <1>0, <2>2, SameKeeps DEF Keeps
  <2>. QED
    BY <1>0, <1>2, <2>1, <2>2, <2>3, <2>4, <2>5, <2>6 DEF DeskDone, SceneOK, Unserved, Begins, OffIsWhole
<1>. QED
  BY <1>1, <1>2

\* and a window that is opened is not shown before its first flip.
LEMMA OpenDoes ==
    ASSUME NEW g, DeskDone(g), NEW s \in FreeSlots(g), NEW c, NEW p, p.y \in Int, p.h \in Int
    PROVE  LET h == Opened(g, s, c, p) IN
           /\ SceneShape(h) /\ Serves(g, h) /\ h.list = <<s>> \o g.list
           /\ h.excused = (g.excused \/ g.list # <<>>)
           /\ h.scene = g.scene /\ h.whole = g.whole /\ h.band = g.band /\ h.quit = g.quit
           /\ ~h.win[s].visible
           /\ \A t \in Slot : t # s => h.win[t].visible = g.win[t].visible /\ h.win[t].dirty = g.win[t].dirty
<1>. DEFINE w == Backbuffer([NoWindow EXCEPT !.id = g.nextId, !.owner = c, !.y = p.y, !.h = p.h, !.dirty = TRUE])
            o == [g EXCEPT !.win[s] = w]
            on(t) == IF t = s THEN TRUE ELSE o.win[t].focused /\ (o.list = <<>> \/ t # Head(o.list))
            win == [t \in Slot |-> [o.win[t] EXCEPT !.focused = on(t)]]
            l == <<s>> \o g.list
            exc == g.excused \/ g.list # <<>>
            own == g.owned \/ g.list = <<>>
            h == Opened(g, s, c, p)
<1>0. SceneShape(g) /\ SceneFields \subseteq DOMAIN g /\ DOMAIN g.win = Slot /\ s \in Slot
  BY DEF DeskDone, SceneOK, SceneShape, FreeSlots
<1>1. PaneShape(w) /\ ~w.visible
  BY DEF PaneShape, PaneFields, Backbuffer, NoWindow
<1>. HIDE DEF w
<1>2. /\ SceneFields \subseteq DOMAIN o /\ o.list = g.list /\ o.nextId = g.nextId /\ o.owned = g.owned
      /\ o.excused = g.excused /\ \A t \in Slot : o.win[t] = IF t = s THEN w ELSE g.win[t]
  BY <1>0 DEF SceneFields
<1>3. h = [[o EXCEPT !.list = <<s>> \o @, !.win = win]
             EXCEPT !.nextId = @ + 1, !.owned = @ \/ g.list = <<>>, !.excused = @ \/ g.list # <<>>]
  BY DEF Opened, PushFront, w, o
<1>5. o = [g EXCEPT !.win = o.win]
  BY <1>0
<1>6. \A t \in Slot : /\ PaneShape(win[t])
                      /\ t # s => win[t].visible = g.win[t].visible /\ win[t].dirty = g.win[t].dirty
  <2>. SUFFICES ASSUME NEW t \in Slot
                PROVE  /\ PaneShape(win[t])
                       /\ t # s => win[t].visible = g.win[t].visible /\ win[t].dirty = g.win[t].dirty
    OBVIOUS
  <2>. DEFINE v == o.win[t]
              f == on(t)
  <2>0. win[t] = [v EXCEPT !.focused = f]
    OBVIOUS
  <2>1. PaneShape(v)
    BY <1>0, <1>1, <1>2 DEF SceneShape
  <2>2. t # s => v = g.win[t]
    BY <1>2
  <2>. HIDE DEF on, win, v, f
  <2>. QED
    BY <2>0, <2>1, <2>2 DEF PaneShape, PaneFields
<1>7. ~win[s].visible
  <2>1. win[s] = [w EXCEPT !.focused = on(s)]
    BY <1>0, <1>2
  <2>. HIDE DEF on, win
  <2>. QED
    BY <1>1, <2>1 DEF PaneShape, PaneFields
<1>8. DOMAIN win = Slot
  OBVIOUS
<1>. HIDE DEF win, o, h
<1>9. h = [[o EXCEPT !.list = l, !.win = win] EXCEPT !.nextId = g.nextId + 1, !.owned = own, !.excused = exc]
  BY <1>2, <1>3 DEF SceneFields
<1>. HIDE DEF l, own, exc
<1>10. /\ SceneFields \subseteq DOMAIN h /\ h.list = l /\ h.win = win /\ h.excused = exc
       /\ h.running = g.running /\ h.quit = g.quit /\ h.dirty = g.dirty /\ h.scene = g.scene /\ h.whole = g.whole
       /\ h.prev = g.prev /\ h.drag = g.drag /\ h.resize = g.resize /\ h.band = g.band
       /\ h.back = g.back /\ h.hw = g.hw /\ h.raw = g.raw /\ h.rawValid = g.rawValid /\ h.source = g.source
       /\ h.scaled = g.scaled /\ h.wanted = g.wanted /\ h.step = g.step
  BY <1>0, <1>2, <1>5, <1>9 DEF SceneFields
<1>11. SceneShape(h)
  BY <1>0, <1>6, <1>8, <1>10 DEF SceneShape
<1>12. Serves(g, h)
  BY <1>10 DEF Serves, exc
<1>. QED
  BY <1>6, <1>7, <1>10, <1>11, <1>12 DEF h, l, exc

LEMMA OpenScene ==
    ASSUME NEW g, DeskDone(g), NEW s \in FreeSlots(g), NEW c, NEW p, p.y \in Int, p.h \in Int
    PROVE  SceneOK(Opened(g, s, c, p)) /\ Serves(g, Opened(g, s, c, p))
<1>. DEFINE h == Opened(g, s, c, p)
<1>0. /\ SceneOK(g) /\ Looks(g) /\ g.list \in Seq(Slot) /\ Distinct(g.list) /\ s \in Slot /\ s \notin ToSet(g.list)
  BY DEF DeskDone, SceneOK, DeskOK, DeskShape, OpenListed, FreeSlots
<1>1. /\ SceneShape(h) /\ Serves(g, h) /\ h.list = <<s>> \o g.list
      /\ h.excused = (g.excused \/ g.list # <<>>)
      /\ h.scene = g.scene /\ h.whole = g.whole /\ h.band = g.band /\ h.quit = g.quit
      /\ ~h.win[s].visible
      /\ \A t \in Slot : t # s => h.win[t].visible = g.win[t].visible /\ h.win[t].dirty = g.win[t].dirty
  BY OpenDoes
<1>. HIDE DEF h
<1>2. ToSet(h.list) = ToSet(g.list) \cup {s} /\ h.list \in Seq(Slot)
  BY <1>0, <1>1, InFront
<1>3. \A t \in ToSet(g.list) : t \in Slot /\ t # s
  BY <1>0, InToSet
<1>4. OnShow(h) = OnShow(g) /\ Repaint(h) = Repaint(g)
  BY <1>1, <1>2, <1>3 DEF OnShow, Repaint
<1>5. Looks(h)
  <2>1. CASE g.list # <<>>
    BY <1>1, <2>1 DEF Looks
  <2>2. CASE g.list = <<>>
    <3>. SUFFICES ASSUME ~h.excused, ~(h.quit /\ h.dirty) PROVE BackFits(h) /\ ScreenFits(h)
      BY DEF Looks
    <3>1. BackFits(g) /\ ScreenFits(g)
      BY <1>0, <1>1 DEF Looks, Serves
    <3>2. OnShow(g) = {} /\ OnShow(h) = {}
      <4>1. ToSet(g.list) = {}
        BY <2>2 DEF ToSet
      <4>. QED
        BY <1>4, <4>1 DEF OnShow
    <3>3. BarCell(h) = BarCell(g)
      BY <3>2 DEF BarCell
    <3>4. ASSUME NEW k \in {g, h}, NEW r PROVE HitTest(k, r) = NoWin
      <4>. SUFFICES ASSUME HitTest(k, r) # NoWin PROVE FALSE
        OBVIOUS
      <4>0. k.list \in Seq(Slot) /\ OnShow(k) = {}
        BY <1>0, <1>2, <3>2
      <4>1. PICK i \in 1..Len(k.list) : Topmost(k, i, r)
        BY <4>0, HitTop
      <4>2. k.list[i] \in OnShow(k)
        BY <4>0, <4>1, InToSet DEF Topmost, Under, OnShow
      <4>. QED
        BY <4>0, <4>2
    <3>5. \A r, cell : Fits(g, cell, r) => Fits(h, cell, r)
      BY <1>1, <3>3, <3>4 DEF Fits, Serves
    <3>6. \A r : ~Awaits(g, r) /\ (InScene(g, r) => InScene(h, r))
      BY <1>1, <3>2 DEF Awaits, Repaint, InScene, BandRows
    <3>. QED
      BY <1>1, <3>1, <3>5, <3>6 DEF BackFits, ScreenFits, Serves
  <2>. QED
    BY <2>1, <2>2
<1>. QED
  BY <1>0, <1>1, <1>4, <1>5, ServesOK DEF h

\* A flip draws the window, and at first everything.
LEMMA FlipScene ==
    ASSUME NEW g, Windows(g), NEW s \in Slot
    PROVE  SceneOK(Flipped(g, s)) /\ Serves(g, Flipped(g, s))
<1>. DEFINE k == IF g.win[s].visible THEN g ELSE WakeScene(g)
            content == g.win[s].content
            f == [k EXCEPT !.win[s].visible = TRUE, !.win[s].dirty = TRUE, !.win[s].fresh = {content}]
            h == Wake(f)
<1>0. SceneShape(g) /\ SceneOK(g) /\ Flipped(g, s) = h
  BY DEF Windows, SceneOK, Flipped
<1>1. SceneShape(k) /\ Serves(g, k) /\ k.win = g.win /\ k.list = g.list
  <2>1. CASE g.win[s].visible
    BY <1>0, <2>1 DEF Serves, Windows, SceneOK
  <2>2. CASE ~g.win[s].visible
    <3>1. SceneShape(k) /\ Serves(g, k)
      BY <1>0, <2>2, SceneDirtyDoes
    <3>2. k.win = g.win /\ k.list = g.list
      BY <1>0, <2>2 DEF WakeScene, Wake, SceneDirty, SceneShape, SceneFields
    <3>. QED
      BY <3>1, <3>2
  <2>. QED
    BY <2>1, <2>2
<1>a. g.win[s].visible => k = g
  OBVIOUS
<1>b. ~g.win[s].visible => k.scene /\ k.whole
  BY <1>0, SceneDirtyDoes
<1>. HIDE DEF k
<1>2. /\ SceneFields \subseteq DOMAIN f /\ Serves(k, f) /\ f.list = k.list /\ f.band = k.band /\ DOMAIN f.win = Slot
      /\ f.drag = k.drag /\ f.resize = k.resize
      /\ \A t \in Slot : t # s => f.win[t] = g.win[t]
      /\ f.win[s] = [g.win[s] EXCEPT !.visible = TRUE, !.dirty = TRUE, !.fresh = {content}]
  BY <1>1 DEF SceneShape, SceneFields, PaneShape, PaneFields, Serves
<1>3. PaneShape(g.win[s])
  BY <1>0 DEF SceneShape
<1>4. /\ PaneShape(f.win[s]) /\ f.win[s].id = g.win[s].id /\ f.win[s].focused = g.win[s].focused
      /\ f.win[s].visible /\ f.win[s].dirty /\ f.win[s].y = g.win[s].y /\ f.win[s].h = g.win[s].h
  <2>. HIDE DEF f
  <2>. QED
    BY <1>2, <1>3 DEF PaneShape, PaneFields
<1>. HIDE DEF f
<1>5. SceneShape(f)
  BY <1>0, <1>1, <1>2, <1>4 DEF SceneShape, Serves
<1>6. SceneShape(h) /\ Serves(f, h) /\ h.win = f.win /\ h.list = f.list /\ h.band = f.band /\ (h.dirty \/ ~h.running)
  BY <1>5 DEF SceneShape, SceneFields, Wake, Serves
<1>. HIDE DEF h
<1>7. Serves(g, h)
  BY <1>1, <1>2, <1>6, ServesAgain
<1>8. CASE g.win[s].visible
  <2>1. Elsewhere(g, h, s)
    BY <1>1, <1>2, <1>4, <1>6, <1>8, <1>3 DEF Elsewhere
  <2>. QED
    BY <1>0, <1>2, <1>4, <1>6, <1>7, <1>8, <1>a, <2>1, RepaintOK
<1>9. CASE ~g.win[s].visible
  <2>1. h.scene /\ h.whole
    BY <1>2, <1>6, <1>9, <1>b DEF Serves
  <2>. QED
    BY <1>0, <1>6, <1>7, <2>1, AskedOK
<1>. QED
  BY <1>0, <1>7, <1>8, <1>9

\* What a client draws shows when its window is drawn next.
LEMMA DrawScene ==
    ASSUME NEW g, Windows(g), NEW s \in Slot, NEW c
    PROVE  LET h == [g EXCEPT !.win[s].content = c, !.win[s].fresh = @ \cup {c}] IN SceneOK(h) /\ Serves(g, h)
<1>. DEFINE fresh == g.win[s].fresh \cup {c}
            h == [g EXCEPT !.win[s].content = c, !.win[s].fresh = @ \cup {c}]
<1>0. SceneShape(g) /\ SceneFields \subseteq DOMAIN g /\ DOMAIN g.win = Slot /\ PaneShape(g.win[s])
  BY DEF Windows, SceneOK, SceneShape
<1>1. /\ SceneFields \subseteq DOMAIN h /\ Serves(g, h) /\ h.list = g.list /\ h.band = g.band /\ DOMAIN h.win = Slot
      /\ h.drag = g.drag /\ h.resize = g.resize /\ h.scene = g.scene /\ h.whole = g.whole
      /\ \A t \in Slot : t # s => h.win[t] = g.win[t]
      /\ h.win[s] = [g.win[s] EXCEPT !.content = c, !.fresh = fresh]
  BY <1>0 DEF SceneFields, PaneShape, PaneFields, Serves, Windows, SceneOK
<1>. HIDE DEF h
<1>2. /\ PaneShape(h.win[s]) /\ h.win[s].id = g.win[s].id /\ h.win[s].focused = g.win[s].focused
      /\ h.win[s].visible = g.win[s].visible /\ h.win[s].dirty = g.win[s].dirty /\ h.win[s].bb = g.win[s].bb
      /\ h.win[s].y = g.win[s].y /\ h.win[s].h = g.win[s].h /\ h.win[s].fresh = fresh
  BY <1>0, <1>1 DEF PaneShape, PaneFields
<1>3. SceneShape(h)
  BY <1>0, <1>1, <1>2 DEF SceneShape, Serves
<1>4. Alike(g, h)
  BY <1>1, <1>2 DEF Alike
<1>. QED
  BY <1>1, <1>3, <1>4, AlikeOK DEF Windows, h

\* A client takes an event.
LEMMA PollScene ==
    ASSUME NEW g, Windows(g), NEW s \in Slot
    PROVE  LET h == [g EXCEPT !.win[s].queue = Tail(@)] IN SceneOK(h) /\ Serves(g, h)
<1>. DEFINE h == [g EXCEPT !.win[s].queue = Tail(@)]
<1>0. SceneShape(g)
  BY DEF Windows, SceneOK
<1>1. SceneShape(h)
  BY <1>0 DEF SceneShape, SceneFields, PaneShape, PaneFields
<1>2. Serves(g, h)
  BY <1>0 DEF SceneShape, SceneFields, Serves, Windows, SceneOK
<1>3. Alike(g, h)
  BY <1>0 DEF SceneShape, SceneFields, PaneShape, PaneFields, Alike
<1>. QED
  BY <1>1, <1>2, <1>3, AlikeOK DEF Windows

\* A new background will be scaled, and everything is drawn.
Remains(g, h) ==
    /\ h.running = g.running /\ h.step = g.step /\ h.prev = g.prev
    /\ g.scene => h.scene
    /\ g.whole => h.whole

LEMMA SetBgScene ==
    ASSUME SceneOK(gui), NEW pic, SetBg(pic)
    PROVE  SceneOK(gui') /\ Remains(gui, gui')
<1>. DEFINE valid == pic # "huge"
            raw == IF pic = "huge" THEN gui.raw ELSE pic
            wanted == CASE gui.step = "scaling" -> "any"
                        [] gui.step = "rest" /\ pic = "huge" -> "none"
                        [] OTHER -> pic
            k == [gui EXCEPT !.rawValid = valid, !.raw = raw, !.scaled = "none", !.wanted = wanted]
            h == WakeScene(k)
<1>0. /\ SceneShape(gui) /\ SceneFields \subseteq DOMAIN gui /\ OffIsWhole(gui) /\ PictureFollows(gui)
  BY DEF SceneOK, SceneShape
<1>1. gui' = h
  <2>1. gui' = WakeScene([gui EXCEPT !.rawValid = valid, !.raw = IF pic = "huge" THEN @ ELSE pic,
                                     !.scaled = "none", !.wanted = wanted])
    BY DEF SetBg
  <2>. HIDE DEF wanted, valid
  <2>2. [gui EXCEPT !.rawValid = valid, !.raw = IF pic = "huge" THEN @ ELSE pic, !.scaled = "none", !.wanted = wanted] = k
    BY <1>0 DEF SceneFields
  <2>. QED
    BY <2>1, <2>2
<1>2. \/ gui.step = "scaling" /\ wanted = "any"
      \/ gui.step = "rest" /\ pic = "huge" /\ wanted = "none" /\ valid = FALSE
      \/ gui.step = "rest" /\ pic # "huge" /\ wanted = raw /\ valid = TRUE
  BY <1>0 DEF PictureFollows
<1>. HIDE DEF wanted, raw, valid
<1>3. /\ SceneShape(k) /\ k.running = gui.running /\ k.step = gui.step /\ k.prev = gui.prev /\ k.quit = gui.quit
      /\ k.dirty = gui.dirty /\ k.scene = gui.scene /\ k.whole = gui.whole /\ k.raw = raw /\ k.rawValid = valid /\ k.scaled = "none" /\ k.wanted = wanted
  BY <1>0 DEF SceneShape, SceneFields
<1>. HIDE DEF k
<1>4. /\ SceneShape(h) /\ Serves(k, h) /\ h.scene /\ h.whole /\ (h.dirty \/ ~h.running)
  BY <1>3, SceneDirtyDoes
<1>. HIDE DEF h
<1>6. Looks(h)
  BY <1>4 DEF Looks, BackFits, ScreenFits, InScene
<1>7. RestIsDone(h) /\ OffIsWhole(h)
  BY <1>0, <1>3, <1>4 DEF RestIsDone, Resting, OffIsWhole, Serves
<1>8. PictureFollows(h)
  BY <1>2, <1>3, <1>4 DEF PictureFollows, Serves
<1>9. Remains(gui, h)
  BY <1>3, <1>4 DEF Remains, Serves
<1>. QED
  BY <1>1, <1>4, <1>6, <1>7, <1>8, <1>9 DEF SceneOK

---------------------------------------------------------------------------
(* The first pass, up to the first call that finds the list half changed *)

FirstOK(g, f) ==
    /\ f.step # "done" => g.running /\ g.step = "rest"
    /\ f.step \notin {"done", "drawn"} => Unserved(g)
    /\ f.step \in {"hit", "out"} => f.row \in Int
\* It goes on before anything was drawn.
LEMMA GoesOn ==
    ASSUME NEW g, NEW f, Unserved(g), f.step \in {"hit", "out"} => f.row \in Int
    PROVE  FirstOK(g, f)
BY DEF FirstOK, Unserved

LEMMA UpToGoesOn ==
    ASSUME NEW g, NEW f, NEW step \in {"mouse", "keys", "look", "paint"}, Unserved(g)
    PROVE  FirstOK(g, UpTo(f, step))
<1>1. UpTo(f, step).step = step
  BY UpToIs
<1>2. UpTo(f, step).step \notin {"hit", "out"}
  BY <1>1
<1>. QED
  BY <1>2, GoesOn

LEMMA RaiseGoesOn ==
    ASSUME NEW g, NEW f, NEW s, NEW why, NEW m, m.row \in Int, Unserved(g)
    PROVE  FirstOK(g, Raise(f, s, why, m))
<1>1. Raise(f, s, why, m).row = m.row
  BY UpToIs DEF Raise, PassFields
<1>. QED
  BY <1>1, GoesOn

LEMMA ClosingGoesOn ==
    ASSUME NEW g, NEW s, NEW f, NEW why, Unserved(g), Closing(g, s, f, why)
    PROVE  FirstOK(gui', first')
<1>1. SceneShape(Unlisted(g, s)) /\ Serves(g, Unlisted(g, s))
  BY UnlistedDoes DEF Unserved, SceneOK
<1>2. Unserved(gui')
  BY <1>1, UnservedStays DEF Closing
<1>3. first'.step = "closing"
  BY CloseIs DEF Closing
<1>. QED
  BY <1>2, <1>3, GoesOn

LEMMA EventStepScene ==
    ASSUME DesktopAssumption, DeskDone(gui), Unserved(gui), mouse.row \in Int, NextEvent
    PROVE  FirstOK(gui', first')
<1>1. PICK g \in {Pulled(gui, Head(mouse.events), mouse.row)} :
            \/ ~(g.held /\ ~gui.held) /\ gui' = Released(g, ~g.held /\ gui.held) /\ UNCHANGED first
            \/ g.held /\ ~gui.held /\ mouse.row = BarRow /\ BarPress(g, first, mouse)
            \/ g.held /\ ~gui.held /\ mouse.row # BarRow /\ WindowPress(g, first, mouse)
  BY DEF NextEvent
<1>2. DeskDone(g) /\ Serves(gui, g) /\ g.dirty
  BY <1>1, PullScene
<1>3. Unserved(g)
  BY <1>2, UnservedStays DEF DeskDone, SceneOK
<1>4. first.step = "mouse" /\ first.step \notin {"hit", "out"}
  BY DEF NextEvent
<1>5. ASSUME NEW h, SceneOK(h), Serves(g, h), gui' = h, first' = first PROVE FirstOK(gui', first')
  <2>1. Unserved(h)
    BY <1>3, <1>5, UnservedStays DEF SceneOK
  <2>. QED
    BY <1>4, <1>5, <2>1, GoesOn
<1>6. SceneOK(Released(g, ~g.held /\ gui.held)) /\ Serves(g, Released(g, ~g.held /\ gui.held))
  BY <1>2, ReleaseScene DEF DeskDone
<1>7. SceneOK(LetGo(g)) /\ Serves(g, LetGo(g))
  BY <1>2, DeskWindows, LetGoScene
<1>8. SceneOK(g) /\ Serves(g, g)
  BY <1>2, DeskWindows DEF DeskDone
<1>9. ASSUME NEW s, NEW why, gui' = g, first' = Raise(first, s, why, mouse) PROVE FirstOK(gui', first')
  BY <1>3, <1>9, RaiseGoesOn
<1>10. ASSUME BarPress(g, first, mouse) PROVE FirstOK(gui', first')
  BY <1>3, <1>5, <1>7, <1>9, <1>10, ClosingGoesOn DEF BarPress
<1>11. ASSUME WindowPress(g, first, mouse) PROVE FirstOK(gui', first')
  BY <1>5, <1>8, <1>9, <1>11 DEF WindowPress
<1>. QED
  BY <1>1, <1>5, <1>6, <1>10, <1>11

LEMMA ContinueScene ==
    ASSUME NEW g, NEW f, DeskOK(g), Unserved(g), f.win \in ToSet(g.list), f.row \in Int, Continue(g, f)
    PROVE  FirstOK(gui', first')
<1>1. SceneShape(SceneDirty(g)) /\ Serves(g, SceneDirty(g))
  BY SceneDirtyDoes DEF Unserved, SceneOK
<1>2. Unserved(SceneDirty(g))
  BY <1>1, UnservedStays
<1>3. Unserved(LetGo(SceneDirty(g)))
  <2>1. DeskOK(SceneDirty(g))
    BY WakeKeeps DEF Keeps
  <2>2. Windows(SceneDirty(g))
    BY <1>2, <2>1 DEF Windows, Unserved, DeskOK, DeskShape
  <2>. DEFINE k == SceneDirty(g)
  <2>. HIDE DEF k
  <2>3. SceneOK(LetGo(k)) /\ Serves(k, LetGo(k))
    BY <2>2, LetGoScene DEF k
  <2>4. Unserved(k)
    BY <1>2 DEF k
  <2>5. Unserved(LetGo(k))
    BY <2>3, <2>4, UnservedStays DEF SceneOK
  <2>. QED
    BY <2>5 DEF k
<1>4. Unserved(PressIn(g, f.win, f.row, f.spot))
  <2>1. SceneOK(PressIn(g, f.win, f.row, f.spot)) /\ Serves(g, PressIn(g, f.win, f.row, f.spot))
    BY PressInScene DEF DeskDone, Unserved
  <2>. QED
    BY <2>1, UnservedStays DEF SceneOK
<1>5. ASSUME Closing(g, f.win, f, "press") PROVE FirstOK(gui', first')
  BY <1>5, ClosingGoesOn
<1>. QED
  BY <1>2, <1>3, <1>4, <1>5, UpToGoesOn DEF Continue

\* A window off the list, and on it again.
LEMMA OutDoes ==
    ASSUME NEW g, SceneShape(g), NEW s
    PROVE  SceneShape(Out(g, s)) /\ Serves(g, Out(g, s))
<1>. DEFINE off(t) == g.win[t].focused /\ ~IsTop(g, t)
            w == [t \in Slot |-> [g.win[t] EXCEPT !.focused = off(t)]]
            l == WithoutWindow(g.list, s)
            h == Out(g, s)
<1>1. h = [[g EXCEPT !.win = w] EXCEPT !.list = l]
  <2>1. h = [[g EXCEPT !.win = w] EXCEPT !.list = WithoutWindow(@, s)]
    BY DEF Out
  <2>2. [g EXCEPT !.win = w].list = g.list
    BY DEF SceneShape, SceneFields
  <2>. QED
    BY <2>1, <2>2
<1>2. DOMAIN w = Slot /\ \A t \in Slot : PaneShape(w[t])
  <2>1. \A t \in Slot : PaneShape(g.win[t]) /\ w[t] = [g.win[t] EXCEPT !.focused = off(t)]
    BY DEF SceneShape
  <2>. HIDE DEF off
  <2>2. DOMAIN w = Slot
    OBVIOUS
  <2>. HIDE DEF w
  <2>. QED
    BY <2>1, <2>2 DEF PaneShape, PaneFields
<1>. HIDE DEF w, l, h
<1>3. SceneShape(h) /\ Serves(g, h)
  BY <1>1, <1>2 DEF SceneShape, SceneFields, Serves
<1>. QED
  BY <1>3 DEF h

LEMMA InDoes ==
    ASSUME NEW g, SceneShape(g), NEW s
    PROVE  SceneShape(In(g, s)) /\ Serves(g, In(g, s))
BY DEF In, SceneShape, SceneFields, PaneShape, PaneFields, Serves

LEMMA TakeOutScene ==
    ASSUME DesktopInv, DeskDone(gui), Unserved(gui), first.row \in Int, TakeOut, ~first'.torn
    PROVE  FirstOK(gui', first')
<1>. DEFINE s == first.win
            g == [gui EXCEPT !.win[s].focused = TRUE]
<1>1. CASE IsTop(gui, s) /\ Continue(g, first)
  <2>1. s \in ToSet(gui.list)
    BY <1>1, TopListed DEF IsTop, DeskDone
  <2>2. g = FocusWindow(gui, s)
    BY <1>1 DEF FocusWindow, IsTop
  <2>3. Continue(g, first)
    BY <1>1
  <2>. HIDE DEF g
  <2>4. s \in Slot
    BY <2>1, InToSet DEF DeskDone, DeskOK, DeskShape
  <2>5. DeskOK(g) /\ s \in ToSet(g.list)
    BY <2>1, <2>2, FocusKeeps DEF DeskDone
  <2>6. SceneShape(g) /\ Serves(gui, g)
    BY <2>2, <2>4, FocusDoes DEF DeskDone, SceneOK
  <2>7. Unserved(g)
    BY <2>6, UnservedStays
  <2>. QED
    BY <2>3, <2>5, <2>7, ContinueScene
<1>2. CASE gui' = Out(gui, s) /\ first' = [first EXCEPT !.step = "out", !.torn = @ \/ s \notin ToSet(gui.list)]
  <2>1. Unserved(gui')
    <3>1. SceneShape(Out(gui, s)) /\ Serves(gui, Out(gui, s))
      BY OutDoes DEF DeskDone, SceneOK
    <3>. QED
      BY <1>2, <3>1, UnservedStays
  <2>2. first'.row = first.row
    BY <1>2 DEF DesktopInv, PassFields
  <2>. QED
    BY <2>1, <2>2, GoesOn
<1>. QED
  BY <1>1, <1>2 DEF TakeOut

LEMMA PutInScene ==
    ASSUME DesktopInv, ~first.torn, Unserved(gui), first.row \in Int, PutIn
    PROVE  FirstOK(gui', first')
<1>. DEFINE g == In(gui, first.win)
<1>1. first.step = "out" /\ Continue(g, first)
  BY DEF PutIn
<1>2. DeskShape(gui) /\ DeskOK(g) /\ first.win \in Slot
  BY <1>1 DEF DesktopInv, KeptBy, Completed
<1>3. g.list = <<first.win>> \o gui.list
  BY <1>2 DEF In, DeskShape, DeskFields
<1>4. SceneShape(g) /\ Serves(gui, g)
  BY InDoes DEF Unserved, SceneOK
<1>. HIDE DEF g
<1>5. g.list \in Seq(Slot) /\ 1 \in 1..Len(g.list) /\ g.list[1] = first.win
  BY <1>2, <1>3 DEF DeskShape
<1>6. first.win \in ToSet(g.list)
  BY <1>5, InToSet
<1>7. Unserved(g)
  BY <1>4, UnservedStays
<1>. QED
  BY <1>1, <1>2, <1>6, <1>7, ContinueScene

LEMMA FinishScene ==
    ASSUME DesktopInv, ~first.torn, Unserved(gui), FinishClose
    PROVE  FirstOK(gui', first')
<1>. DEFINE g == Ended(gui, first.last)
<1>1. /\ first.step = "closing"
      /\ \/ gui' = g /\ first' = UpTo(first, "look")
         \/ gui' = LetGo(g) /\ first' = UpTo(first, "mouse")
  BY DEF FinishClose
<1>2. SceneShape(g) /\ Serves(gui, g)
  <2>1. g \in {LastClosed(gui), FocusNext(gui), WakeScene(gui)}
    BY DEF Ended
  <2>2. SceneShape(gui)
    BY DEF Unserved, SceneOK
  <2>. HIDE DEF g
  <2>. QED
    BY <2>1, <2>2, EndDoes, SceneDirtyDoes
<1>3. DeskOK(g)
  <2>1. DeskOK(AfterDestroy(gui)) /\ (first.last <=> gui.list = <<>>)
    BY <1>1 DEF DesktopInv, KeptBy, Completed
  <2>2. g = AfterDestroy(gui)
    BY <2>1 DEF Ended, AfterDestroy
  <2>. HIDE DEF g
  <2>. QED
    BY <2>1, <2>2
<1>. HIDE DEF g
<1>4. Unserved(g)
  BY <1>2, UnservedStays
<1>5. Unserved(LetGo(g))
  <2>1. Windows(g)
    BY <1>3, <1>4 DEF Windows, Unserved, DeskOK, DeskShape
  <2>2. SceneOK(LetGo(g)) /\ Serves(g, LetGo(g))
    BY <2>1, LetGoScene
  <2>. QED
    BY <1>4, <2>2, UnservedStays DEF SceneOK
<1>. QED
  BY <1>1, <1>4, <1>5, UpToGoesOn

LEMMA KeyStepScene ==
    ASSUME DeskDone(gui), Unserved(gui), NextKey
    PROVE  FirstOK(gui', first')
<1>1. ASSUME gui' = PushEvent(gui, Head(gui.list), "key"), first' = first PROVE FirstOK(gui', first')
  <2>1. SceneOK(gui') /\ Serves(gui, gui')
    BY <1>1, DeskWindows, PushScene
  <2>2. Unserved(gui')
    BY <2>1, UnservedStays DEF SceneOK
  <2>3. first'.step \notin {"hit", "out"}
    BY <1>1 DEF NextKey
  <2>. QED
    BY <2>2, <2>3, GoesOn
<1>2. ASSUME Closing(gui, Head(gui.list), first, "key") PROVE FirstOK(gui', first')
  BY <1>2, ClosingGoesOn
<1>3. ASSUME gui' = gui, NEW step \in {"look", "keys"}, first' = UpTo(first, step) PROVE FirstOK(gui', first')
  BY <1>3, UpToGoesOn
<1>. QED
  BY <1>1, <1>2, <1>3 DEF NextKey, TopKey

LEMMA LookScene ==
    ASSUME DeskDone(gui), Unserved(gui), mouse.row \in Int, LookAround
    PROVE  SceneOK(gui') /\ FirstOK(gui', first')
<1>1. CASE gui' = Quit(gui) /\ first' = UpTo(first, "done")
  <2>1. SceneOK(gui')
    BY <1>1, QuitScene DEF DeskDone, Unserved
  <2>2. first'.step = "done"
    BY <1>1, UpToIs
  <2>. QED
    BY <2>1, <2>2 DEF FirstOK
<1>2. CASE Looked(gui, first, mouse)
  <2>. DEFINE s == IF mouse.row = BarRow THEN gui.hover ELSE HitTest(gui, mouse.row)
  <2>1. gui' = [gui EXCEPT !.dirty = TRUE, !.hover = s]
    BY <1>2 DEF Looked
  <2>2. first' = UpTo(first, "paint") \/ first' = Raise(first, s, "hover", mouse)
    BY <1>2 DEF Looked
  <2>. HIDE DEF s
  <2>3. SceneShape(gui') /\ Serves(gui, gui')
    <3>1. SceneShape(gui)
      BY DEF DeskDone, SceneOK
    <3>. QED
      BY <2>1, <3>1 DEF SceneShape, SceneFields, Serves
  <2>4. Unserved(gui')
    BY <2>3, UnservedStays
  <2>5. FirstOK(gui', first')
    BY <2>2, <2>4, UpToGoesOn, RaiseGoesOn
  <2>. QED
    BY <2>4, <2>5 DEF Unserved
<1>. QED
  BY <1>1, <1>2 DEF LookAround

\* Then everything is drawn, or a background is scaled first.
LEMMA FirstCompositeScene ==
    ASSUME DesktopAssumption, DeskDone(gui), Unserved(gui), FirstComposite
    PROVE  SceneOK(gui') /\ FirstOK(gui', first')
<1>. DEFINE d == [gui EXCEPT !.dirty = FALSE]
<1>1. \/ gui.rawValid /\ gui' = BeginScale(d) /\ first' = UpTo(first, "done")
      \/ ~gui.rawValid /\ gui' = FullComposite(d) /\ first' = UpTo(first, "drawn")
  <2>1. d.rawValid = gui.rawValid
    BY DEF DeskDone, SceneOK, SceneShape, SceneFields
  <2>. QED
    BY <2>1 DEF FirstComposite
<1>2. /\ DeskOK(d) /\ SceneShape(d) /\ Looks(d) /\ PictureFollows(d) /\ d.running /\ d.step = "rest"
      /\ d.rawValid = gui.rawValid /\ (gui.rawValid => SceneOK(BeginScale(d)))
  BY TakenScene DEF Unserved
<1>. HIDE DEF d
<1>3. CASE gui.rawValid
  <2>1. SceneOK(gui') /\ first'.step = "done"
    BY <1>1, <1>2, <1>3, UpToIs
  <2>. QED
    BY <2>1 DEF FirstOK
<1>4. CASE ~gui.rawValid
  <2>1. gui' = FullComposite(d) /\ first'.step = "drawn"
    BY <1>1, <1>4, UpToIs
  <2>2. SceneShape(gui') /\ Rests(d, gui') /\ Repaint(gui') = {} /\ Looks(gui')
    BY <1>2, <1>4, <2>1, FullDraws DEF DeskOK, DeskShape
  <2>3. RestIsDone(gui') /\ OffIsWhole(gui') /\ PictureFollows(gui') /\ gui'.running /\ gui'.step = "rest"
    BY <1>2, <1>4, <2>2 DEF RestIsDone, Idle, OffIsWhole, PictureFollows, Rests
  <2>. QED
    BY <2>1, <2>2, <2>3 DEF SceneOK, FirstOK
<1>. QED
  BY <1>3, <1>4

\* What was asked for since then is forgotten, and the screen excused.
LEMMA EndFirstScene ==
    ASSUME SceneOK(gui), gui.list \in Seq(Slot), gui.running, gui.step = "rest", EndFirst
    PROVE  SceneOK(gui') /\ FirstOK(gui', first')
<1>. DEFINE exc == gui.excused \/ gui.scene
            p == [row |-> mouse.row, spot |-> mouse.spot]
            h == [gui EXCEPT !.excused = exc, !.scene = FALSE, !.whole = FALSE, !.prev = p]
<1>0. SceneShape(gui)
  BY DEF SceneOK
<1>1. gui' = h
  <2>1. SceneFields \subseteq DOMAIN gui
    BY <1>0 DEF SceneShape
  <2>. QED
    BY <2>1 DEF EndFirst, SceneFields
<1>. HIDE DEF exc, p
<1>2. /\ SceneShape(h) /\ h.win = gui.win /\ h.list = gui.list /\ h.wanted = gui.wanted /\ h.back = gui.back
      /\ h.hw = gui.hw /\ h.excused = exc /\ h.quit = gui.quit /\ h.dirty = gui.dirty /\ ~h.scene /\ ~h.whole
      /\ h.band = gui.band /\ h.running = gui.running /\ h.step = gui.step /\ h.raw = gui.raw
      /\ h.rawValid = gui.rawValid /\ h.source = gui.source /\ h.scaled = gui.scaled
  BY <1>0 DEF SceneShape, SceneFields
<1>. HIDE DEF h
<1>3. Looks(h)
  <2>1. CASE gui.scene
    BY <1>2, <2>1 DEF Looks, exc
  <2>2. CASE ~gui.scene
    <3>1. SameFrame(gui, h) /\ \A r \in Row : RowKept(gui, h, r) /\ (InScene(gui, r) => InScene(h, r))
      BY <1>2, <2>2 DEF SameFrame, RowKept, RowShows, InScene
    <3>2. gui.excused => h.excused
      BY <1>2 DEF exc
    <3>. QED
      BY <1>2, <2>2, <3>1, <3>2, RowByRow DEF SceneOK
  <2>. QED
    BY <2>1, <2>2
<1>4. Repaint(h) = Repaint(gui)
  BY <1>2 DEF Repaint, OnShow
<1>5. RestIsDone(h)
  BY <1>2, <1>4 DEF SceneOK, RestIsDone, Resting, Idle, Begins, exc
<1>6. OffIsWhole(h) /\ PictureFollows(h)
  BY <1>2 DEF SceneOK, OffIsWhole, PictureFollows
<1>7. first'.step = "done"
  BY UpToIs DEF EndFirst
<1>. QED
  BY <1>1, <1>2, <1>3, <1>5, <1>6, <1>7 DEF SceneOK, FirstOK

---------------------------------------------------------------------------

ScreenInv ==
    /\ DesktopInv
    /\ ~first.torn => SceneOK(gui) /\ FirstOK(gui, first)
    /\ "row" \in DOMAIN mouse /\ mouse.row \in Row

LEMMA ScreenInitInv ==
    ASSUME DesktopAssumption, DesktopInit
    PROVE  ScreenInv
<1>0. RowMax \in Nat /\ RowMax >= 1
  BY DEF DesktopAssumption
<1>1. SceneShape(NoGui)
  <2>1. PaneShape(NoWindow)
    BY DEF PaneShape, PaneFields, NoWindow
  <2>2. /\ SceneFields \subseteq DOMAIN NoGui /\ NoGui.win = [s \in Slot |-> NoWindow] /\ NoGui.drag = NoDrag
        /\ NoGui.resize = NoResize /\ NoGui.band = NoBand /\ NoGui.back = Console /\ NoGui.hw = Console
    BY DEF SceneFields, NoGui
  <2>3. DOMAIN NoGui.win = Slot /\ \A s \in Slot : NoGui.win[s] = NoWindow
    BY <2>2
  <2>. HIDE DEF NoGui
  <2>. QED
    BY <2>1, <2>2, <2>3 DEF SceneShape, NoDrag, NoResize, NoBand, Console
<1>2. /\ NoGui.scene /\ NoGui.whole /\ NoGui.quit = FALSE /\ NoGui.running = FALSE /\ NoGui.prev = Nowhere
      /\ NoGui.step = "rest" /\ NoGui.wanted = "none" /\ NoGui.scaled = "none" /\ NoGui.rawValid = FALSE
  BY DEF NoGui
<1>3. Looks(NoGui)
  BY <1>2 DEF Looks, BackFits, ScreenFits, InScene
<1>4. RestIsDone(NoGui) /\ OffIsWhole(NoGui) /\ PictureFollows(NoGui)
  BY <1>2 DEF RestIsDone, Resting, Idle, Begins, OffIsWhole, PictureFollows
<1>5. SceneOK(gui)
  BY <1>1, <1>3, <1>4 DEF SceneOK, DesktopInit
<1>6. "row" \in DOMAIN mouse /\ mouse.row = 1
  BY DEF DesktopInit
<1>7. first.step = "done"
  BY DEF DesktopInit, NoPass
<1>. QED
  BY <1>0, <1>5, <1>6, <1>7, DesktopInitInv DEF ScreenInv, FirstOK, Row

\* A call leaves the first pass where it is.
LEMMA CallKeepsPass ==
    ASSUME FirstOK(gui, first), SceneOK(gui'), Remains(gui, gui'),
           first'.step = first.step, first'.row = first.row
    PROVE  FirstOK(gui', first')
BY DEF FirstOK, Unserved, Begins, Remains

LEMMA ServesRemains ==
    ASSUME NEW g, NEW h, Serves(g, h)
    PROVE  Remains(g, h)
BY DEF Serves, Remains

\* A window is opened while there is a compositor, or starts one.
LEMMA CreateScene ==
    ASSUME DesktopAssumption, DeskDone(gui), FirstOK(gui, first), PassFields \subseteq DOMAIN first,
           NEW c, NEW p \in Places, WinCreate(c, p)
    PROVE  SceneOK(gui') /\ FirstOK(gui', first')
<1>. DEFINE g == StartCompositor(gui)
<1>1. DeskDone(g) /\ (~gui.running => Unserved(g)) /\ (gui.running => g = gui)
  BY StartScene DEF StartCompositor
<1>2. gui' = IF FreeSlots(g) = {} THEN g ELSE Opened(g, Min(FreeSlots(g)), c, p)
  BY DEF WinCreate
<1>. HIDE DEF g
<1>3. FreeSlots(g) # {} => Min(FreeSlots(g)) \in FreeSlots(g)
  <2>1. FreeSlots(g) \subseteq Nat
    BY DEF FreeSlots, Slot
  <2>. QED
    BY <2>1, MinOfNats
<1>4. p.y \in Int /\ p.h \in Int
  BY DEF DesktopAssumption
<1>5. SceneOK(gui') /\ Serves(g, gui')
  <2>1. SceneOK(g) /\ Serves(g, g)
    BY <1>1, DeskWindows DEF DeskDone
  <2>. QED
    BY <1>1, <1>2, <1>3, <1>4, <2>1, OpenScene
<1>6. CASE gui.running
  <2>1. first' = Noted(first, gui, gui')
    BY <1>6 DEF WinCreate
  <2>2. first'.step = first.step /\ first'.row = first.row
    BY <2>1 DEF Noted, PassFields
  <2>3. Remains(gui, gui')
    BY <1>1, <1>5, <1>6, ServesRemains
  <2>. QED
    BY <1>5, <2>2, <2>3, CallKeepsPass
<1>7. CASE ~gui.running
  <2>. DEFINE f == Noted(first, gui, gui')
  <2>1. first' = UpTo(f, "mouse")
    BY <1>7 DEF WinCreate
  <2>2. Unserved(gui')
    BY <1>1, <1>5, <1>7, UnservedStays DEF SceneOK
  <2>. HIDE DEF f
  <2>3. FirstOK(gui', UpTo(f, "mouse"))
    BY <2>2, UpToGoesOn
  <2>. QED
    BY <1>5, <2>1, <2>3
<1>. QED
  BY <1>6, <1>7

\* A call that is noted, and has made no change in the middle of one.
LEMMA NotTorn ==
    ASSUME PassFields \subseteq DOMAIN first, first' = Noted(first, gui, gui'), ~first'.torn
    PROVE  ~first.torn /\ first'.step = first.step /\ first'.row = first.row /\ (first.step \in Midway => gui' = gui)
BY DEF Noted, PassFields

\* The calls of clients,
LEMMA CallScene ==
    ASSUME DesktopAssumption, ScreenInv, ~first'.torn, ClientCall
    PROVE  SceneOK(gui') /\ FirstOK(gui', first')
<1>0. PassFields \subseteq DOMAIN first
  BY DEF ScreenInv, DesktopInv
<1>a. ASSUME ~first.torn PROVE Windows(gui) /\ SceneOK(gui) /\ FirstOK(gui, first)
  BY <1>a DEF ScreenInv, DesktopInv, KeptBy, DeskShape, Windows
<1>b. ASSUME ~first.torn, SceneOK(gui'), Serves(gui, gui'), first'.step = first.step, first'.row = first.row
      PROVE  SceneOK(gui') /\ FirstOK(gui', first')
  BY <1>a, <1>b, ServesRemains, CallKeepsPass
<1>c. ASSUME NEW s, OnWindow(s), ~first.torn PROVE s \in Slot
  BY <1>a, <1>c, InToSet DEF OnWindow, Windows
<1>1. ASSUME NEW c \in Clients, NEW p \in Places, WinCreate(c, p) PROVE SceneOK(gui') /\ FirstOK(gui', first')
  <2>. DEFINE f == Noted(first, gui, gui')
  <2>1. f.torn = (first.torn \/ (first.step \in Midway /\ gui' # gui)) /\ f.step = first.step /\ f.row = first.row
    BY <1>0 DEF Noted, PassFields
  <2>2. first' = (IF gui.running THEN f ELSE UpTo(f, "mouse"))
    BY <1>1 DEF WinCreate
  <2>. HIDE DEF f
  <2>3. first'.torn = f.torn
    BY <2>2, UpToIs
  <2>4. ~first.torn /\ (first.step \in Midway => gui' = gui)
    BY <2>1, <2>3
  <2>5. CASE first.step \in Midway
    <3>1. gui' = gui /\ Serves(gui, gui') /\ gui.running
      <4>1. first.step # "done"
        BY <2>5 DEF Midway
      <4>. QED
        BY <1>a, <2>4, <2>5, <4>1 DEF FirstOK, Serves
    <3>2. first'.step = first.step /\ first'.row = first.row
      BY <2>1, <2>2, <3>1
    <3>3. SceneOK(gui')
      BY <1>a, <2>4, <3>1
    <3>. QED
      BY <1>b, <2>4, <3>1, <3>2, <3>3
  <2>6. CASE first.step \notin Midway
    <3>1. DeskDone(gui)
      BY <1>a, <2>4, <2>6, NotMidway DEF ScreenInv, DesktopInv, DeskDone
    <3>. QED
      BY <1>0, <1>1, <1>a, <2>4, <3>1, CreateScene
  <2>. QED
    BY <2>5, <2>6
<1>2. ASSUME NEW s, WinDestroy(s) PROVE SceneOK(gui') /\ FirstOK(gui', first')
  <2>1. ~first.torn /\ first'.step = first.step /\ first'.row = first.row
    BY <1>0, <1>2, NotTorn DEF WinDestroy
  <2>2. SceneOK(gui') /\ Serves(gui, gui')
    BY <1>2, <1>a, <2>1, DestroyScene DEF WinDestroy
  <2>. QED
    BY <1>b, <2>1, <2>2
<1>3. ASSUME NEW s, NEW c, WinDraw(s, c) PROVE SceneOK(gui') /\ FirstOK(gui', first')
  <2>1. first' = first /\ ~first.torn /\ s \in Slot
    BY <1>3, <1>c DEF WinDraw
  <2>. DEFINE h == [gui EXCEPT !.win[s].content = c, !.win[s].fresh = @ \cup {c}]
  <2>2. gui' = gui \/ gui' = h
    BY <1>3 DEF WinDraw
  <2>3. SceneOK(h) /\ Serves(gui, h)
    BY <1>a, <2>1, DrawScene
  <2>4. SceneOK(gui) /\ Serves(gui, gui)
    BY <1>a, <2>1 DEF Serves
  <2>. HIDE DEF h
  <2>. QED
    BY <1>b, <2>1, <2>2, <2>3, <2>4
<1>4. ASSUME NEW s, WinFlip(s) PROVE SceneOK(gui') /\ FirstOK(gui', first')
  <2>1. first' = first /\ ~first.torn /\ s \in Slot /\ gui' = Flipped(gui, s)
    BY <1>4, <1>c DEF WinFlip
  <2>2. SceneOK(gui') /\ Serves(gui, gui')
    BY <1>a, <2>1, FlipScene
  <2>. QED
    BY <1>b, <2>1, <2>2
<1>5. ASSUME NEW s, WinPollEvent(s) PROVE SceneOK(gui') /\ FirstOK(gui', first')
  <2>1. first' = first /\ ~first.torn /\ s \in Slot /\ gui' = [gui EXCEPT !.win[s].queue = Tail(@)]
    BY <1>5, <1>c DEF WinPollEvent
  <2>2. SceneOK(gui') /\ Serves(gui, gui')
    BY <1>a, <2>1, PollScene
  <2>. QED
    BY <1>b, <2>1, <2>2
<1>6. ASSUME NEW c, OwnerDies(c) PROVE SceneOK(gui') /\ FirstOK(gui', first')
  <2>1. ~first.torn /\ first'.step = first.step /\ first'.row = first.row
    BY <1>0, <1>6, NotTorn DEF OwnerDies
  <2>2. SceneOK(gui') /\ Serves(gui, gui')
    BY <1>6, <1>a, <2>1, DeathScene
  <2>. QED
    BY <1>b, <2>1, <2>2
<1>7. ASSUME NEW pic, SetBg(pic) PROVE SceneOK(gui') /\ FirstOK(gui', first')
  <2>1. first' = first /\ ~first.torn
    BY <1>7 DEF SetBg
  <2>2. SceneOK(gui') /\ Remains(gui, gui')
    BY <1>7, <1>a, <2>1, SetBgScene
  <2>. QED
    BY <1>a, <2>1, <2>2, CallKeepsPass
<1>. QED
  BY <1>1, <1>2, <1>3, <1>4, <1>5, <1>6, <1>7 DEF ClientCall

\* and the steps of the first pass.
LEMMA FirstPassScene ==
    ASSUME DesktopAssumption, ScreenInv, ~first.torn, ~first'.torn, FirstPass
    PROVE  SceneOK(gui') /\ FirstOK(gui', first')
<1>0. /\ SceneOK(gui) /\ FirstOK(gui, first) /\ DesktopInv /\ mouse.row \in Int /\ gui.list \in Seq(Slot)
  BY DEF ScreenInv, DesktopInv, KeptBy, DeskShape, DesktopAssumption, Row
<1>1. first.step \notin Midway => DeskDone(gui)
  BY <1>0, NotMidway DEF DesktopInv, DeskDone
<1>2. ASSUME FirstOK(gui', first'), first'.step \notin {"done", "drawn"} PROVE SceneOK(gui')
  BY <1>2 DEF FirstOK, Unserved
<1>3. ASSUME NEW step \in {"mouse", "hit", "keys", "look", "paint"}, first.step = step
      PROVE  DeskDone(gui) /\ Unserved(gui)
  <2>1. step \notin Midway /\ step \notin {"done", "drawn"}
    BY DEF Midway
  <2>. QED
    BY <1>0, <1>1, <1>3, <2>1 DEF FirstOK
<1>u. \A f, step : UpTo(f, step).step = step
  BY UpToIs
<1>r. \A f, s, why, m : Raise(f, s, why, m).step = "hit"
  BY RaiseIs
<1>c. ASSUME NEW g, NEW s, NEW f, NEW why, Closing(g, s, f, why) PROVE first'.step = "closing"
  BY <1>c, CloseIs DEF Closing
<1>5. ASSUME NEW g, NEW f, Continue(g, f) PROVE first'.step \notin {"done", "drawn"}
  <2>1. \/ first'.step \in {"mouse", "paint"}
        \/ Closing(g, f.win, f, "press")
    BY <1>5, <1>u DEF Continue
  <2>. QED
    BY <1>c, <2>1
<1>6. ASSUME NextEvent PROVE SceneOK(gui') /\ FirstOK(gui', first')
  <2>1. FirstOK(gui', first')
    BY <1>0, <1>3, <1>6, EventStepScene DEF NextEvent
  <2>2. first'.step \notin {"done", "drawn"}
    <3>1. PICK g : \/ UNCHANGED first
                   \/ BarPress(g, first, mouse)
                   \/ WindowPress(g, first, mouse)
      BY <1>6 DEF NextEvent
    <3>2. first.step = "mouse"
      BY <1>6 DEF NextEvent
    <3>3. BarPress(g, first, mouse) => first'.step \notin {"done", "drawn"}
      BY <1>c, <1>r, <3>2 DEF BarPress
    <3>4. WindowPress(g, first, mouse) => first'.step \notin {"done", "drawn"}
      BY <1>r, <3>2 DEF WindowPress
    <3>. QED
      BY <3>1, <3>2, <3>3, <3>4
  <2>. QED
    BY <1>2, <2>1, <2>2
<1>7. ASSUME EndMouse \/ EndKeys PROVE SceneOK(gui') /\ FirstOK(gui', first')
  <2>1. PICK step \in {"keys", "look"} : gui' = gui /\ first' = UpTo(first, step) /\ first.step \in {"mouse", "keys"}
    BY <1>7 DEF EndMouse, EndKeys
  <2>2. Unserved(gui)
    BY <1>3, <2>1
  <2>3. FirstOK(gui, UpTo(first, step))
    BY <2>2, UpToGoesOn
  <2>. QED
    BY <1>0, <2>1, <2>3
<1>8. ASSUME TakeOut PROVE SceneOK(gui') /\ FirstOK(gui', first')
  <2>1. first.step = "hit" /\ first.row \in Int
    BY <1>0, <1>8 DEF TakeOut, FirstOK
  <2>2. FirstOK(gui', first')
    BY <1>0, <1>3, <1>8, <2>1, TakeOutScene
  <2>3. first'.step \notin {"done", "drawn"}
    <3>1. \/ \E g : Continue(g, first)
          \/ first' = [first EXCEPT !.step = "out", !.torn = @ \/ first.win \notin ToSet(gui.list)]
      BY <1>8 DEF TakeOut
    <3>2. PassFields \subseteq DOMAIN first
      BY <1>0 DEF DesktopInv
    <3>. QED
      BY <1>5, <3>1, <3>2 DEF PassFields
  <2>. QED
    BY <1>2, <2>2, <2>3
<1>9. ASSUME PutIn PROVE SceneOK(gui') /\ FirstOK(gui', first')
  <2>1. first.row \in Int /\ Unserved(gui)
    BY <1>0, <1>9 DEF PutIn, FirstOK
  <2>2. FirstOK(gui', first')
    BY <1>0, <1>9, <2>1, PutInScene
  <2>3. first'.step \notin {"done", "drawn"}
    BY <1>5, <1>9 DEF PutIn
  <2>. QED
    BY <1>2, <2>2, <2>3
<1>10. ASSUME FinishClose PROVE SceneOK(gui') /\ FirstOK(gui', first')
  <2>1. Unserved(gui)
    BY <1>0, <1>10 DEF FinishClose, FirstOK
  <2>2. FirstOK(gui', first')
    BY <1>0, <1>10, <2>1, FinishScene
  <2>3. first'.step \in {"look", "mouse"}
    BY <1>10, <1>u DEF FinishClose
  <2>4. first'.step \notin {"done", "drawn"}
    BY <2>3
  <2>. QED
    BY <1>2, <2>2, <2>4
<1>11. ASSUME NextKey PROVE SceneOK(gui') /\ FirstOK(gui', first')
  <2>1. first.step = "keys"
    BY <1>11 DEF NextKey
  <2>2. FirstOK(gui', first')
    BY <1>3, <1>11, <2>1, KeyStepScene
  <2>3. first'.step \notin {"done", "drawn"}
    BY <1>11, <1>c, <1>u, <2>1 DEF NextKey, TopKey
  <2>. QED
    BY <1>2, <2>2, <2>3
<1>12. ASSUME LookAround PROVE SceneOK(gui') /\ FirstOK(gui', first')
  BY <1>0, <1>3, <1>12, LookScene DEF LookAround
<1>13. ASSUME FirstComposite PROVE SceneOK(gui') /\ FirstOK(gui', first')
  BY <1>3, <1>13, FirstCompositeScene DEF FirstComposite
<1>14. ASSUME EndFirst PROVE SceneOK(gui') /\ FirstOK(gui', first')
  <2>1. gui.running /\ gui.step = "rest"
    BY <1>0, <1>14 DEF EndFirst, FirstOK
  <2>. QED
    BY <1>0, <1>14, <2>1, EndFirstScene
<1>. QED
  BY <1>6, <1>7, <1>8, <1>9, <1>10, <1>11, <1>12, <1>13, <1>14 DEF FirstPass

\* What is torn stays so.
LEMMA PassStaysTorn ==
    ASSUME DesktopInv, FirstPass, first.torn
    PROVE  first'.torn
<1>0. PassFields \subseteq DOMAIN first
  BY DEF DesktopInv
<1>u. \A f, step : UpTo(f, step).torn = f.torn
  BY UpToIs
<1>r. \A f, s, why, m : Raise(f, s, why, m).torn = f.torn
  BY RaiseIs
<1>c. ASSUME NEW g, NEW s, NEW f, NEW why, Closing(g, s, f, why) PROVE first'.torn = f.torn
  BY <1>c, CloseIs DEF Closing
<1>1. ASSUME NEW g, Continue(g, first) PROVE first'.torn
  BY <1>1, <1>c, <1>u DEF Continue
<1>2. ASSUME NextEvent PROVE first'.torn
  <2>1. PICK g : \/ UNCHANGED first
                 \/ BarPress(g, first, mouse)
                 \/ WindowPress(g, first, mouse)
    BY <1>2 DEF NextEvent
  <2>2. BarPress(g, first, mouse) => first'.torn
    BY <1>c, <1>r DEF BarPress
  <2>3. WindowPress(g, first, mouse) => first'.torn
    BY <1>r DEF WindowPress
  <2>. QED
    BY <2>1, <2>2, <2>3
<1>3. ASSUME TakeOut PROVE first'.torn
  <2>1. \/ \E g : Continue(g, first)
        \/ first' = [first EXCEPT !.step = "out", !.torn = @ \/ first.win \notin ToSet(gui.list)]
    BY <1>3 DEF TakeOut
  <2>. QED
    BY <1>0, <1>1, <2>1 DEF PassFields
<1>4. ASSUME PutIn PROVE first'.torn
  BY <1>1, <1>4 DEF PutIn
<1>5. ASSUME EndMouse \/ FinishClose \/ EndKeys \/ FirstComposite \/ EndFirst PROVE first'.torn
  BY <1>5, <1>u DEF EndMouse, FinishClose, EndKeys, FirstComposite, EndFirst
<1>6. ASSUME NextKey PROVE first'.torn
  BY <1>6, <1>c, <1>u DEF NextKey, TopKey
<1>7. ASSUME LookAround PROVE first'.torn
  BY <1>7, <1>u, <1>r DEF LookAround, Looked
<1>. QED
  BY <1>2, <1>3, <1>4, <1>5, <1>6, <1>7 DEF FirstPass

\* A later pass.
LEMMA TaskScene ==
    ASSUME DesktopAssumption, ScreenInv, ~first.torn, CompositorTask
    PROVE  SceneOK(gui')
<1>0. /\ SceneOK(gui) /\ DesktopInv /\ keys \in Seq({"char", "altf4"}) /\ mouse.events \in Seq(BOOLEAN)
      /\ mouse.spot \in Spot /\ mouse.row \in Row /\ mouse.row \in Int
  BY DEF ScreenInv, DesktopInv, DesktopAssumption, Row
<1>1. DeskDone(gui)
  <2>1. first.step \notin Midway
    BY DEF CompositorTask, Midway
  <2>. QED
    BY <1>0, <2>1, NotMidway DEF DesktopInv, DeskDone
<1>. DEFINE g == ProcessMouse(gui, mouse)
            k == ProcessKeyboard(g, keys)
<1>2. gui' = CompositorPass(k, mouse) /\ gui.running /\ gui.step = "rest"
  BY DEF CompositorTask
<1>3. DeskDone(g) /\ Serves(gui, g)
  BY <1>0, <1>1, MouseScene
<1>. HIDE DEF g
<1>4. DeskDone(k) /\ Serves(g, k)
  BY <1>0, <1>3, KeysScene
<1>. HIDE DEF k
<1>5. k.running /\ k.step = "rest"
  BY <1>2, <1>3, <1>4 DEF Serves
<1>. QED
  BY <1>0, <1>2, <1>4, <1>5, PassScene

LEMMA ScreenStep ==
    ASSUME DesktopAssumption, ScreenInv, [DesktopNext]_desktopVars
    PROVE  ScreenInv'
<1>0. /\ "row" \in DOMAIN mouse /\ mouse.row \in Row
      /\ ~first.torn => Windows(gui) /\ SceneOK(gui) /\ FirstOK(gui, first)
  BY DEF ScreenInv, DesktopInv, KeptBy, DeskShape, Windows
<1>a. DesktopInv'
  BY DesktopStep DEF ScreenInv, FirstOK, PassServed
<1>b. ASSUME ~first'.torn => SceneOK(gui') /\ FirstOK(gui', first'),
             "row" \in DOMAIN mouse' /\ mouse'.row \in Row
      PROVE  ScreenInv'
  BY <1>a, <1>b DEF ScreenInv
<1>c. ASSUME ~first.torn => SceneOK(gui') /\ Serves(gui, gui'), first' = first,
             "row" \in DOMAIN mouse' /\ mouse'.row \in Row
      PROVE  ScreenInv'
  BY <1>0, <1>b, <1>c, ServesRemains, CallKeepsPass
<1>1. ASSUME ClientCall PROVE ScreenInv'
  <2>1. mouse' = mouse
    BY <1>1 DEF ClientCall, WinCreate, WinDestroy, WinDraw, WinFlip, WinPollEvent, OwnerDies, SetBg, OnWindow
  <2>. QED
    BY <1>0, <1>1, <1>b, <2>1, CallScene
<1>2. ASSUME NEW row \in Row, NEW spot \in Spot, NEW left \in BOOLEAN, MouseMoves(row, spot, left) PROVE ScreenInv'
  <2>1. ~first.torn => SceneOK(gui') /\ Serves(gui, gui')
    BY <1>0, <1>2, WokenScene DEF MouseMoves
  <2>2. "row" \in DOMAIN mouse' /\ mouse'.row \in Row /\ first' = first
    BY <1>2 DEF MouseMoves
  <2>. QED
    BY <1>c, <2>1, <2>2
<1>3. ASSUME NEW key \in {"char", "altf4"}, KeyPressed(key) PROVE ScreenInv'
  <2>1. ~first.torn => SceneOK(gui') /\ Serves(gui, gui')
    BY <1>0, <1>3, WokenScene DEF KeyPressed, Serves
  <2>. QED
    BY <1>0, <1>3, <1>c, <2>1 DEF KeyPressed
<1>4. ASSUME StdinRead \/ UNCHANGED desktopVars PROVE ScreenInv'
  <2>1. gui' = gui /\ first' = first /\ mouse' = mouse
    BY <1>4 DEF StdinRead, desktopVars
  <2>. QED
    BY <1>0, <1>b, <2>1
<1>5. ASSUME CompositorTask PROVE ScreenInv'
  <2>1. first.step = "done" /\ first' = first /\ mouse' = [mouse EXCEPT !.events = <<>>]
    BY <1>5 DEF CompositorTask
  <2>2. "row" \in DOMAIN mouse' /\ mouse'.row \in Row
    BY <1>0, <2>1
  <2>3. ~first.torn => SceneOK(gui') /\ FirstOK(gui', first')
    <3>1. ~first.torn => SceneOK(gui')
      BY <1>5, TaskScene
    <3>. QED
      BY <2>1, <3>1 DEF FirstOK
  <2>. QED
    BY <1>b, <2>1, <2>2, <2>3
<1>6. ASSUME FinishScaling PROVE ScreenInv'
  <2>1. gui.step = "scaling" /\ gui' = Shown(EndScale(gui), mouse) /\ first' = first /\ mouse' = mouse
    BY <1>6 DEF FinishScaling
  <2>2. ASSUME ~first.torn PROVE SceneOK(gui') /\ FirstOK(gui', first')
    <3>1. first.step = "done"
      BY <1>0, <2>1, <2>2 DEF FirstOK
    <3>2. first.step \notin Midway
      BY <3>1 DEF Midway
    <3>3. DeskDone(gui)
      BY <1>0, <2>2, <3>2, NotMidway DEF ScreenInv, DesktopInv, DeskDone
    <3>4. SceneOK(gui')
      BY <1>0, <2>1, <3>3, ScaledScene
    <3>. QED
      BY <2>1, <3>1, <3>4 DEF FirstOK
  <2>. QED
    BY <1>0, <1>b, <2>1, <2>2
<1>7. ASSUME FirstPass PROVE ScreenInv'
  <2>1. "row" \in DOMAIN mouse' /\ mouse'.row \in Row
    BY <1>0, <1>7 DEF FirstPass, NextEvent, EndMouse, TakeOut, PutIn, FinishClose, NextKey, EndKeys, LookAround,
                      FirstComposite, EndFirst
  <2>2. first.torn => first'.torn
    BY <1>7, PassStaysTorn DEF ScreenInv
  <2>. QED
    BY <1>7, <1>b, <2>1, <2>2, FirstPassScene
<1>. QED
  BY <1>1, <1>2, <1>3, <1>4, <1>5, <1>6, <1>7 DEF DesktopNext, Interrupt

\* Except while the first pass of a compositor moves or closes a window, the window that keys
\* go to is the one on top, which has the focus, and the keyboard is taken from the console
\* exactly as long as there is a window: up to the first call that finds the list half changed.
THEOREM FocusOnTop ==
    ASSUME DesktopAssumption
    PROVE  DesktopSpec => []KeysReachTop
<1>1. ScreenInv => KeysReachTop
  BY KeysFollow DEF ScreenInv
<1>2. DesktopInit => ScreenInv
  BY ScreenInitInv
<1>3. ScreenInv /\ [DesktopNext]_desktopVars => ScreenInv'
  BY ScreenStep
<1>. QED
  BY <1>1, <1>2, <1>3, PTL DEF DesktopSpec

\* When the compositor has nothing left to do, the screen shows the desktop, the windows from
\* top to bottom and the status bar, but for the cases that ScreenCurrent excuses. So it is
\* after any number of compositors, up to the first call that finds the list half changed.
THEOREM ScreenShowsWindows ==
    ASSUME DesktopAssumption
    PROVE  DesktopSpec => []ScreenCurrent
<1>1. ScreenInv => ScreenCurrent
  <2>. SUFFICES ASSUME ScreenInv, Settled, ~gui.excused, ~first.torn, NEW r \in Row PROVE Shows(gui.hw[r], r)
    BY DEF ScreenCurrent
  <2>0. SceneOK(gui) /\ gui.list \in Seq(Slot) /\ RowMax \in Nat /\ mouse.row \in 0..RowMax
    BY DEF ScreenInv, DesktopInv, KeptBy, DeskShape, DesktopAssumption, Row
  <2>1. gui.prev # Nowhere
    <3>1. gui.prev.row = mouse.row /\ Nowhere.row = RowMax + 1
      BY DEF Settled, Nowhere
    <3>. QED
      BY <2>0, <3>1
  <2>2. ~gui.scene /\ Repaint(gui) = {} /\ ~gui.dirty
    BY <2>0, <2>1 DEF SceneOK, RestIsDone, Resting, Idle, Begins, Settled
  <2>3. Fits(gui, gui.hw[r], r)
    BY <2>0, <2>2 DEF SceneOK, Looks, ScreenFits, Awaits, InScene
  <2>. DEFINE cell == gui.hw[r]
              s == HitTest(gui, r)
              w == gui.win[s]
  <2>4. CASE r # BarRow /\ s # NoWin
    <3>1. s \in Slot
      <4>1. PICK i \in 1..Len(gui.list) : s = gui.list[i]
        BY <2>0, <2>4, HitTop
      <4>. QED
        BY <2>0, <4>1
    <3>2. Paints(w, cell, r) /\ PaneFields \subseteq DOMAIN w
      BY <2>0, <2>3, <2>4, <3>1 DEF Fits, SceneOK, SceneShape, PaneShape
    <3>. HIDE DEF w, s, cell
    <3>3. r = w.y => cell = WindowCell(w, r)
      BY <3>2 DEF Paints, WindowCell
    <3>4. r # w.y => \E c \in w.fresh : cell = WindowCell([w EXCEPT !.content = c], r)
      <4>. SUFFICES ASSUME r # w.y PROVE \E c \in w.fresh : cell = WindowCell([w EXCEPT !.content = c], r)
        OBVIOUS
      <4>1. PICK c \in w.fresh : cell = Cell("client", w.id, IF w.bb = w.h - 1 THEN c ELSE "bare")
        BY <3>2 DEF Paints
      <4>2. WindowCell([w EXCEPT !.content = c], r) = Cell("client", w.id, IF w.bb = w.h - 1 THEN c ELSE "bare")
        BY <3>2 DEF WindowCell, PaneFields
      <4>. QED
        BY <4>1, <4>2
    <3>5. cell = WindowCell(w, r) \/ \E c \in w.fresh : cell = WindowCell([w EXCEPT !.content = c], r)
      BY <3>3, <3>4
    <3>. QED
      BY <2>4, <3>5 DEF Shows, w, s, cell
  <2>5. CASE r = BarRow
    BY <2>3, <2>5 DEF Fits, Shows
  <2>6. CASE r # BarRow /\ s = NoWin
    BY <2>3, <2>6 DEF Fits, Shows
  <2>. QED
    BY <2>4, <2>5, <2>6
<1>2. DesktopInit => ScreenInv
  BY ScreenInitInv
<1>3. ScreenInv /\ [DesktopNext]_desktopVars => ScreenInv'
  BY ScreenStep
<1>. QED
  BY <1>1, <1>2, <1>3, PTL DEF DesktopSpec

-----------------------------------------------------------------------------
(* The terminal *)

\* Characters. (The provers do not know that a literal is a string.)
Glyph == STRING \cup {" ", "gui", "nl", "m"}
TextLine == [Col -> Glyph]

\* The emulator: paper has as many lines as the ring is in use, and unless a program has moved
\* the cursor to another row, they are the same lines and the cursor is in the last one.
TermRecords ==
    [sb : [0..(SbLines - 1) -> TextLine], sb_head : 0..(SbLines - 1), sb_count : 1..SbLines,
     cur_col : 0..Cols, cur_row : TermRow, scroll_offset : Nat, dirty : SUBSET TermRow,
     esc : 0..2, csi_param : Nat, paper : Seq(TextLine), moved : BOOLEAN]

LessOf(a, b) == IF a <= b THEN a ELSE b
AtLeast0(a) == IF a >= 0 THEN a ELSE 0
RingHolds(t) ==
    \A i \in 0..(t.sb_count - 1) : t.sb[Wrap(t.sb_head + i, SbLines)] = t.paper[i + 1]
AtBottom(t) ==
    /\ t.cur_row = LessOf(t.sb_count, TermRows) - 1
    /\ t.scroll_offset <= AtLeast0(t.sb_count - TermRows)
TermOK(t) == t \in TermRecords /\ Len(t.paper) = t.sb_count /\ (~t.moved => RingHolds(t) /\ AtBottom(t))

\* A row, read off the paper, and where the cursor may be seen in it.
LineInView(t, r) ==
    IF r >= t.sb_count THEN EmptyLine
    ELSE t.paper[AtLeast0(t.sb_count - TermRows - t.scroll_offset) + r + 1]
Marks(t, r) == IF r = t.cur_row THEN CursorMarks(t) ELSE {}

\* u is drawn as t is in all rows that are not dirty, unless a program moved the cursor.
Covers(t, u) ==
    \A r \in TermRow : r \notin u.dirty =>
        r \notin t.dirty /\ LineInView(u, r) = LineInView(t, r) /\ Marks(t, r) \subseteq Marks(u, r)
Follows(t, u) == TermOK(u) /\ (t.moved => u.moved) /\ (~u.moved => Covers(t, u))

\* The program: what it forgets between two passes, and where dirty rows are about to be drawn.
ConRecords ==
    [program : {"fbcon", "term"},
     pc : {"start", "check", "draw", "poll", "console", "shell", "keys", "yield", "closed"},
     next : {"start", "poll", "console", "keys", "yield", "shell", "closed"},
     child : {"running", "exited"}, console : Seq(Glyph), shell : Seq(Glyph),
     got : BOOLEAN, pressed : Nat, owned : BOOLEAN, prev_gui : BOOLEAN, came : BOOLEAN, missed : BOOLEAN]
ConOK ==
    /\ con \in ConRecords
    /\ con.owned => con.came
    /\ con.program = "term" => ~con.owned /\ ~con.came /\ ~con.missed
    /\ con.got => con.pc \in {"console", "shell"}
DrawsStill ==
    \/ con.pc \in {"check", "draw", "closed"}
    \/ con.got
    \/ con.pc = "keys" /\ con.pressed > 0

\* A clean row is as it should be, on the screen and in the shadow.
RowFresh(s, r) == s.text = LineInView(temu, r) /\ s.marks \subseteq Marks(temu, r)
ShownRow == [text : TextLine, marks : SUBSET Col]
ScreenType == shown \in [screen : [TermRow -> ShownRow], shadow : [TermRow -> ShownRow]]
ScreenFresh ==
    \A r \in TermRow : r \notin temu.dirty =>
        /\ con.program = "fbcon" => RowFresh(shown.shadow[r], r)
        /\ ~con.came /\ ~con.missed => RowFresh(shown.screen[r], r)
DirtyIsDrawn == temu.dirty # {} => con.came \/ con.missed \/ DrawsStill
ConsoleInv ==
    /\ TermOK(temu) /\ ConOK
    /\ ~temu.moved => ScreenType /\ ScreenFresh /\ DirtyIsDrawn

\* The sizes are numbers.
LEMMA Sizes ==
    /\ Cols \in Nat \ {0} /\ TermRows \in Nat \ {0} /\ SbLines \in Nat \ {0} /\ TabStop \in Nat \ {0}
    /\ TermRows <= SbLines
BY ConsoleAssumption

\* A row with a line on it shows a line that is kept, however far back the user has scrolled.
LEMMA RowHasLine ==
    ASSUME NEW n \in Nat, NEW high \in Nat, NEW back \in Nat, NEW r \in 0..(high - 1), r < n
    PROVE  AtLeast0(n - high - back) + r \in 0..(n - 1)
<1>1. CASE n - high - back >= 0
  BY <1>1 DEF AtLeast0
<1>2. CASE ~(n - high - back >= 0)
  BY <1>2 DEF AtLeast0
<1>. QED
  BY <1>1, <1>2

\* The cell of the ring, without a remainder.
LEMMA CellIs ==
    ASSUME NEW h \in 0..(SbLines - 1), NEW i \in 0..SbLines
    PROVE  /\ Wrap(h + i, SbLines) = (IF h + i < SbLines THEN h + i ELSE h + i - SbLines)
           /\ Wrap(h + i, SbLines) \in 0..(SbLines - 1)
<1>1. SbLines \in Nat \ {0}
  BY Sizes
<1>2. PICK x \in 0..(2 * SbLines - 1) : x = h + i
  BY <1>1
<1>. QED
  BY <1>1, <1>2, WrapsOnce

LEMMA RingIndexIs ==
    ASSUME NEW t, NEW i
    PROVE  RingIndex(t, i) = Wrap(t.sb_head + i, SbLines)
BY DEF RingIndex, Wrap

\* Where the last line printed is, in the ring and in the view.
LEMMA LiveLineIs ==
    ASSUME NEW t, t \in TermRecords, AtBottom(t)
    PROVE  LiveLine(t, t.cur_row) = RingIndex(t, t.sb_count - 1)
<1>1. t.sb_count \in 1..SbLines /\ t.cur_row = LessOf(t.sb_count, TermRows) - 1
  BY DEF TermRecords, AtBottom
<1>2. Min({t.sb_count, TermRows}) = LessOf(t.sb_count, TermRows)
  BY <1>1, Sizes, MinOfTwo DEF LessOf
<1>3. LessOf(t.sb_count, TermRows) \in Int
  BY <1>1, Sizes DEF LessOf
<1>4. t.sb_count - LessOf(t.sb_count, TermRows) + (LessOf(t.sb_count, TermRows) - 1) = t.sb_count - 1
  BY <1>1, <1>3
<1>. QED
  BY <1>1, <1>2, <1>4 DEF LiveLine

\* The row in view is the line in view.
LEMMA VisibleRowIs ==
    ASSUME NEW t, TermOK(t), ~t.moved, NEW r \in TermRow
    PROVE  VisibleRow(t, r) = LineInView(t, r) /\ LineInView(t, r) \in TextLine
<1>1. /\ t.sb_count \in 1..SbLines /\ t.scroll_offset \in Nat /\ r \in Nat /\ r < TermRows
      /\ t.paper \in Seq(TextLine) /\ Len(t.paper) = t.sb_count
  BY Sizes DEF TermOK, TermRecords, TermRow
<1>2. VisibleTop(t) = AtLeast0(t.sb_count - TermRows - t.scroll_offset)
  <2>1. t.sb_count - TermRows - t.scroll_offset \in Int
    BY <1>1, Sizes
  <2>. QED
    BY <2>1, MaxOfTwo DEF VisibleTop, AtLeast0
<1>3. CASE r >= t.sb_count
  <2>1. EmptyLine \in TextLine
    BY DEF EmptyLine, Filled, TextLine, Glyph
  <2>. QED
    BY <1>3, <2>1 DEF VisibleRow, LineInView
<1>4. CASE ~(r >= t.sb_count)
  <2>1. PICK i \in 0..(t.sb_count - 1) : i = AtLeast0(t.sb_count - TermRows - t.scroll_offset) + r
    <3>1. t.sb_count \in Nat /\ TermRows \in Nat /\ r \in 0..(TermRows - 1) /\ r < t.sb_count
      BY <1>1, <1>4, Sizes DEF TermRow
    <3>2. AtLeast0(t.sb_count - TermRows - t.scroll_offset) + r \in 0..(t.sb_count - 1)
      BY <1>1, <3>1, RowHasLine
    <3>. QED
      BY <3>2
  <2>2. VisibleRow(t, r) = t.sb[RingIndex(t, i)]
    BY <1>2, <1>4, <2>1 DEF VisibleRow
  <2>3. RingIndex(t, i) = Wrap(t.sb_head + i, SbLines)
    BY RingIndexIs
  <2>4. LineInView(t, r) = t.paper[i + 1]
    BY <1>4, <2>1 DEF LineInView
  <2>. QED
    BY <1>1, <2>1, <2>2, <2>3, <2>4 DEF TermOK, RingHolds
<1>. QED
  BY <1>3, <1>4

\* One step after another.
LEMMA FollowsOn ==
    ASSUME NEW t, NEW u, NEW v, Follows(t, u), Follows(u, v)
    PROVE  Follows(t, v)
<1>1. TermOK(v) /\ (t.moved => v.moved)
  BY DEF Follows
<1>2. ASSUME ~v.moved PROVE Covers(t, v)
  BY <1>2 DEF Follows, Covers
<1>. QED
  BY <1>1, <1>2 DEF Follows

\* Nothing is drawn from these fields.
LEMMA FollowsItself ==
    ASSUME NEW t, TermOK(t)
    PROVE  Follows(t, t)
BY DEF Follows, Covers

LEMMA EscFollows ==
    ASSUME NEW t, TermOK(t), NEW e \in 0..2, NEW p \in Nat
    PROVE  /\ Follows(t, [t EXCEPT !.esc = e, !.csi_param = p])
           /\ Follows(t, [t EXCEPT !.esc = e])
           /\ Follows(t, [t EXCEPT !.csi_param = p])
<1>1. ASSUME NEW u \in {[t EXCEPT !.esc = e, !.csi_param = p], [t EXCEPT !.esc = e], [t EXCEPT !.csi_param = p]}
      PROVE  Follows(t, u)
  <2>1. u \in TermRecords
    BY DEF TermOK, TermRecords
  <2>2. /\ u.sb = t.sb /\ u.sb_head = t.sb_head /\ u.sb_count = t.sb_count /\ u.cur_col = t.cur_col
        /\ u.cur_row = t.cur_row /\ u.scroll_offset = t.scroll_offset /\ u.dirty = t.dirty
        /\ u.paper = t.paper /\ u.moved = t.moved
    BY DEF TermOK, TermRecords
  <2>3. TermOK(u)
    BY <2>1, <2>2 DEF TermOK, RingHolds, AtBottom
  <2>4. \A r \in TermRow : LineInView(u, r) = LineInView(t, r) /\ Marks(u, r) = Marks(t, r)
    BY <2>2 DEF LineInView, Marks, CursorMarks
  <2>. QED
    BY <2>2, <2>3, <2>4 DEF Follows, Covers
<1>. QED
  BY <1>1

\* Rows are marked.
LEMMA MarkFollows ==
    ASSUME NEW t, TermOK(t)
    PROVE  /\ Follows(t, MarkDirty(t)) /\ Follows(t, MarkAllDirty(t))
           /\ MarkDirty(t) = [t EXCEPT !.dirty = t.dirty \cup {t.cur_row}]
           /\ MarkAllDirty(t).dirty = TermRow
<1>1. ASSUME NEW u \in {MarkDirty(t), MarkAllDirty(t)}
      PROVE  Follows(t, u)
  <2>1. u \in TermRecords /\ t.dirty \subseteq u.dirty
    BY DEF TermOK, TermRecords, MarkDirty, MarkAllDirty
  <2>2. /\ u.sb = t.sb /\ u.sb_head = t.sb_head /\ u.sb_count = t.sb_count /\ u.cur_col = t.cur_col
        /\ u.cur_row = t.cur_row /\ u.scroll_offset = t.scroll_offset
        /\ u.paper = t.paper /\ u.moved = t.moved
    BY DEF TermOK, TermRecords, MarkDirty, MarkAllDirty
  <2>3. TermOK(u)
    BY <2>1, <2>2 DEF TermOK, RingHolds, AtBottom
  <2>4. \A r \in TermRow : LineInView(u, r) = LineInView(t, r) /\ Marks(u, r) = Marks(t, r)
    BY <2>2 DEF LineInView, Marks, CursorMarks
  <2>. QED
    BY <2>1, <2>2, <2>3, <2>4 DEF Follows, Covers
<1>. QED
  BY <1>1 DEF MarkDirty, MarkAllDirty, TermOK, TermRecords

\* When all rows are marked it does not matter what else changed.
LEMMA AllMarkedFollows ==
    ASSUME NEW t, NEW u, TermOK(u), t.moved => u.moved
    PROVE  Follows(t, MarkAllDirty(u))
<1>1. Follows(u, MarkAllDirty(u)) /\ MarkAllDirty(u).dirty = TermRow
  BY MarkFollows
<1>2. Covers(t, MarkAllDirty(u))
  BY <1>1 DEF Covers
<1>. QED
  BY <1>1, <1>2 DEF Follows

\* The cursor moves along its row, which is drawn again.
LEMMA ColFollows ==
    ASSUME NEW t, TermOK(t), NEW c \in 0..Cols
    PROVE  /\ Follows(t, MarkDirty([t EXCEPT !.cur_col = c]))
           /\ t.cur_row \in t.dirty => Follows(t, [t EXCEPT !.cur_col = c])
<1>. DEFINE k == [t EXCEPT !.cur_col = c]
<1>1. /\ k \in TermRecords /\ k.sb = t.sb /\ k.sb_head = t.sb_head /\ k.sb_count = t.sb_count
      /\ k.cur_row = t.cur_row /\ k.scroll_offset = t.scroll_offset /\ k.paper = t.paper /\ k.moved = t.moved
      /\ k.dirty = t.dirty
  BY DEF TermOK, TermRecords
<1>. HIDE DEF k
<1>2. TermOK(k)
  BY <1>1 DEF TermOK, RingHolds, AtBottom
<1>3. ASSUME NEW u, Follows(k, u), t.cur_row \in u.dirty PROVE Follows(t, u)
  <2>1. \A r \in TermRow : LineInView(k, r) = LineInView(t, r)
    BY <1>1 DEF LineInView
  <2>2. \A r \in TermRow : r # t.cur_row => Marks(k, r) = Marks(t, r)
    BY <1>1 DEF Marks
  <2>. QED
    BY <1>1, <1>3, <2>1, <2>2 DEF Follows, Covers
<1>4. Follows(k, MarkDirty(k)) /\ t.cur_row \in MarkDirty(k).dirty
  <2>1. Follows(k, MarkDirty(k)) /\ MarkDirty(k) = [k EXCEPT !.dirty = k.dirty \cup {k.cur_row}]
    BY <1>2, MarkFollows
  <2>2. MarkDirty(k).dirty = k.dirty \cup {k.cur_row}
    BY <1>1, <2>1 DEF TermRecords
  <2>. QED
    BY <1>1, <2>1, <2>2
<1>5. Follows(k, k)
  BY <1>2, FollowsItself
<1>. QED
  BY <1>1, <1>3, <1>4, <1>5 DEF k


\* A line of the paper is in one cell of the ring only.
LEMMA CellsDiffer ==
    ASSUME NEW h \in 0..(SbLines - 1), NEW i \in 0..(SbLines - 1), NEW j \in 0..(SbLines - 1),
           Wrap(h + i, SbLines) = Wrap(h + j, SbLines)
    PROVE  i = j
<1>1. SbLines \in Nat /\ i \in 0..SbLines /\ j \in 0..SbLines
  BY Sizes
<1>. QED
  BY <1>1, CellIs

\* Wherever the cursor is, its line is in the ring.
LEMMA LiveLineInRing ==
    ASSUME NEW t, t \in TermRecords
    PROVE  LiveLine(t, t.cur_row) \in 0..(SbLines - 1)
<1>1. /\ t.sb_count \in 1..SbLines /\ t.cur_row \in Int /\ t.sb_head \in Int
      /\ Min({t.sb_count, TermRows}) \in Int
  <2>1. t.sb_count \in Int /\ TermRows \in Int /\ t.cur_row \in Int /\ t.sb_head \in Int
    BY Sizes DEF TermRecords, TermRow
  <2>. QED
    BY <2>1, MinOfTwo DEF TermRecords
<1>2. PICK x \in Int : x = t.sb_head + (t.sb_count - Min({t.sb_count, TermRows}) + t.cur_row)
  BY <1>1
<1>3. LiveLine(t, t.cur_row) = x % SbLines
  BY <1>2 DEF LiveLine, RingIndex
<1>. QED
  BY <1>3, Sizes

\* The line of the cursor is written, and its row is drawn again.
LEMMA SetLineFollows ==
    ASSUME NEW t, TermOK(t), NEW line \in TextLine, NEW u, u = SetLine(t, line)
    PROVE  /\ Follows(t, u) /\ u.dirty = t.dirty \cup {t.cur_row}
           /\ u.cur_col = t.cur_col /\ u.cur_row = t.cur_row /\ u.scroll_offset = t.scroll_offset
           /\ u.sb_count = t.sb_count /\ u.moved = t.moved /\ u.esc = t.esc
<1>. DEFINE c == LiveLine(t, t.cur_row)
            n == Len(t.paper)
            k == [t EXCEPT !.sb[c] = line, !.paper[n] = line]
<1>1. c \in 0..(SbLines - 1) /\ t \in TermRecords /\ n \in 1..SbLines /\ n = t.sb_count
  BY LiveLineInRing DEF TermOK, TermRecords
<1>2. u = MarkDirty(k)
  BY DEF SetLine
<1>3. /\ k.sb = [t.sb EXCEPT ![c] = line] /\ k.paper = [t.paper EXCEPT ![n] = line]
      /\ k.sb_head = t.sb_head /\ k.sb_count = t.sb_count /\ k.cur_col = t.cur_col
      /\ k.cur_row = t.cur_row /\ k.scroll_offset = t.scroll_offset /\ k.dirty = t.dirty /\ k.moved = t.moved
      /\ k.esc = t.esc
  <2>. HIDE DEF c, n
  <2>. QED
    BY <1>1 DEF TermRecords
<1>4. /\ k.sb \in [0..(SbLines - 1) -> TextLine] /\ k.paper \in Seq(TextLine) /\ Len(k.paper) = n
      /\ k.paper[n] = line /\ \A i \in 1..n : i # n => k.paper[i] = t.paper[i]
  <2>1. t.paper \in Seq(TextLine) /\ t.sb \in [0..(SbLines - 1) -> TextLine]
    BY <1>1 DEF TermRecords
  <2>2. DOMAIN t.paper = 1..n
    BY <2>1
  <2>3. k.paper \in [1..n -> TextLine]
    <3>1. t.paper \in [1..n -> TextLine]
      BY <2>1
    <3>. HIDE DEF n, k
    <3>. QED
      BY <1>1, <1>3, <3>1
  <2>4. k.paper \in Seq(TextLine) /\ Len(k.paper) = n
    <3>1. n \in Nat
      BY <1>1
    <3>. HIDE DEF n, k
    <3>. QED
      BY <2>3, <3>1
  <2>5. k.paper[n] = line /\ \A i \in 1..n : i # n => k.paper[i] = t.paper[i]
    <3>. HIDE DEF n, k
    <3>. QED
      BY <1>1, <1>3, <2>2
  <2>6. k.sb \in [0..(SbLines - 1) -> TextLine]
    <3>. HIDE DEF n, k, c
    <3>. QED
      BY <1>1, <1>3, <2>1
  <2>. QED
    BY <2>4, <2>5, <2>6
<1>5. k \in TermRecords
  <2>. HIDE DEF n, c
  <2>. QED
    BY <1>1, <1>3, <1>4 DEF TermRecords
<1>. HIDE DEF k
<1>6. ASSUME ~t.moved
      PROVE  /\ RingHolds(k) /\ AtBottom(k)
             /\ \A r \in TermRow : r # t.cur_row => LineInView(k, r) = LineInView(t, r)
  <2>1. c = Wrap(t.sb_head + (n - 1), SbLines) /\ t.sb_head \in 0..(SbLines - 1)
    BY <1>1, <1>6, LiveLineIs, RingIndexIs DEF TermOK, TermRecords
  <2>2. RingHolds(k)
    <3>. SUFFICES ASSUME NEW i \in 0..(k.sb_count - 1)
                  PROVE  k.sb[Wrap(k.sb_head + i, SbLines)] = k.paper[i + 1]
      BY DEF RingHolds
    <3>1. i \in 0..(SbLines - 1) /\ n - 1 \in 0..(SbLines - 1) /\ i + 1 \in 1..n /\ i \in 0..(t.sb_count - 1) /\ i \in 0..SbLines
      BY <1>1, <1>3, Sizes
    <3>2. Wrap(t.sb_head + i, SbLines) \in 0..(SbLines - 1)
      BY <2>1, <3>1, CellIs
    <3>3. t.sb[Wrap(t.sb_head + i, SbLines)] = t.paper[i + 1]
      BY <1>6, <3>1 DEF TermOK, RingHolds
    <3>4. t.sb \in [0..(SbLines - 1) -> TextLine]
      BY <1>1 DEF TermRecords
    <3>. HIDE DEF n, c
    <3>5. CASE i = n - 1
      <4>1. i + 1 = n
        BY <1>1, <3>5
      <4>. QED
        BY <1>1, <1>3, <1>4, <2>1, <3>4, <3>5, <4>1
    <3>6. CASE i # n - 1
      <4>1. Wrap(t.sb_head + i, SbLines) # c
        BY <2>1, <3>1, <3>6, CellsDiffer
      <4>2. i + 1 # n
        BY <1>1, <3>1, <3>6
      <4>. QED
        BY <1>3, <1>4, <3>1, <3>2, <3>3, <3>4, <4>1, <4>2
    <3>. QED
      BY <3>5, <3>6
  <2>3. AtBottom(k)
    BY <1>3, <1>6 DEF AtBottom, TermOK
  <2>4. ASSUME NEW r \in TermRow, r # t.cur_row PROVE LineInView(k, r) = LineInView(t, r)
    <3>1. r \in 0..(TermRows - 1) /\ t.scroll_offset \in Nat /\ t.cur_row \in TermRow
      BY <1>1 DEF TermRow, TermRecords
    <3>2. /\ t.cur_row = LessOf(t.sb_count, TermRows) - 1
          /\ t.scroll_offset <= AtLeast0(t.sb_count - TermRows)
      BY <1>6 DEF TermOK, AtBottom
    <3>3. CASE ~(r >= t.sb_count)
      <4>1. PICK i \in 0..(n - 1) : i = AtLeast0(t.sb_count - TermRows - t.scroll_offset) + r
        <5>1. t.sb_count \in Nat /\ TermRows \in Nat /\ r < t.sb_count /\ n = t.sb_count
          BY <1>1, <3>1, <3>3, Sizes
        <5>2. AtLeast0(t.sb_count - TermRows - t.scroll_offset) + r \in 0..(t.sb_count - 1)
          BY <3>1, <5>1, RowHasLine
        <5>. QED
          BY <5>1, <5>2
      <4>2. i + 1 # n /\ i + 1 \in 1..n
        <5>. HIDE DEF n
        <5>1. n \in Nat /\ TermRows \in Nat /\ r \in Nat /\ r <= TermRows - 1 /\ r < n /\ i \in Nat
          BY <1>1, <3>1, <3>3, <4>1, Sizes
        <5>2. CASE n <= TermRows
          <6>1. t.cur_row = n - 1 /\ AtLeast0(t.sb_count - TermRows - t.scroll_offset) = 0
            BY <1>1, <3>1, <3>2, <5>1, <5>2 DEF AtLeast0, LessOf
          <6>. QED
            BY <2>4, <4>1, <5>1, <6>1
        <5>3. CASE n > TermRows
          <6>1. t.cur_row = TermRows - 1 /\ t.scroll_offset <= n - TermRows
            BY <1>1, <3>2, <5>1, <5>3 DEF AtLeast0, LessOf
          <6>2. AtLeast0(t.sb_count - TermRows - t.scroll_offset) = n - TermRows - t.scroll_offset
            BY <1>1, <3>1, <5>1, <6>1 DEF AtLeast0
          <6>3. r < TermRows - 1
            BY <2>4, <5>1, <6>1
          <6>. QED
            BY <3>1, <4>1, <5>1, <6>2, <6>3
        <5>. QED
          BY <5>1, <5>2, <5>3
      <4>3. LineInView(k, r) = k.paper[i + 1] /\ LineInView(t, r) = t.paper[i + 1]
        BY <1>3, <3>3, <4>1 DEF LineInView
      <4>. QED
        BY <1>4, <4>2, <4>3
    <3>. QED
      BY <1>3, <3>3 DEF LineInView
  <2>. QED
    BY <2>2, <2>3, <2>4
<1>7. TermOK(k)
  BY <1>1, <1>3, <1>4, <1>5, <1>6 DEF TermOK
<1>8. Follows(k, u) /\ u = [k EXCEPT !.dirty = k.dirty \cup {k.cur_row}]
  BY <1>2, <1>7, MarkFollows
<1>9. /\ u.dirty = t.dirty \cup {t.cur_row}
      /\ u.cur_col = t.cur_col /\ u.cur_row = t.cur_row /\ u.scroll_offset = t.scroll_offset
      /\ u.sb_count = t.sb_count /\ u.moved = t.moved /\ u.esc = t.esc
  BY <1>3, <1>5, <1>8 DEF TermRecords
<1>10. ASSUME ~t.moved PROVE Covers(t, u)
  <2>1. \A r \in TermRow : Marks(k, r) = Marks(t, r)
    BY <1>3 DEF Marks, CursorMarks
  <2>. QED
    BY <1>3, <1>6, <1>8, <1>9, <1>10, <2>1 DEF Follows, Covers
<1>. QED
  BY <1>8, <1>9, <1>10 DEF Follows

\* A new line at the end of the paper is the first free cell of the ring, or that of the
\* oldest line.
LEMMA NewLineIs ==
    ASSUME NEW t, TermOK(t), NEW u, u = NewLine(t)
    PROVE  /\ u \in TermRecords /\ Len(u.paper) = u.sb_count
           /\ u.sb_count = (IF t.sb_count = SbLines THEN SbLines ELSE t.sb_count + 1)
           /\ u.cur_col = t.cur_col /\ u.cur_row = t.cur_row /\ u.scroll_offset = t.scroll_offset
           /\ u.dirty = t.dirty /\ u.moved = t.moved /\ u.esc = t.esc
           /\ t.sb_count # SbLines =>
                 /\ \A i \in 1..t.sb_count : u.paper[i] = t.paper[i]
                 /\ u.paper[t.sb_count + 1] = EmptyLine
           /\ ~t.moved => RingHolds(u)
<1>. DEFINE full == t.sb_count = SbLines
            c == IF full THEN t.sb_head ELSE RingIndex(t, t.sb_count)
            h == IF full THEN (t.sb_head + 1) % SbLines ELSE t.sb_head
            n == t.sb_count
            longer == Append(t.paper, EmptyLine)
            p == LastLines(longer)
<1>1. /\ t \in TermRecords /\ n \in 1..SbLines /\ n = Len(t.paper) /\ t.sb_head \in 0..(SbLines - 1)
      /\ t.paper \in Seq(TextLine) /\ t.sb \in [0..(SbLines - 1) -> TextLine]
      /\ SbLines \in Nat \ {0}
  BY Sizes DEF TermOK, TermRecords
<1>2. 1 \in 0..SbLines /\ n \in 0..SbLines
  BY <1>1
<1>3. c = (IF full THEN t.sb_head ELSE Wrap(t.sb_head + n, SbLines)) /\ c \in 0..(SbLines - 1)
  BY <1>1, <1>2, CellIs, RingIndexIs
<1>4. h = (IF full THEN Wrap(t.sb_head + 1, SbLines) ELSE t.sb_head) /\ h \in 0..(SbLines - 1)
  BY <1>1, <1>2, CellIs DEF Wrap
<1>5. EmptyLine \in TextLine
  BY DEF EmptyLine, Filled, TextLine, Glyph
<1>6. /\ longer \in Seq(TextLine) /\ Len(longer) = n + 1 /\ longer[n + 1] = EmptyLine
      /\ \A i \in 1..n : longer[i] = t.paper[i]
  <2>. HIDE DEF n
  <2>. QED
    BY <1>1, <1>5
<1>7. p = IF full THEN Tail(longer) ELSE longer
  <2>. HIDE DEF longer
  <2>. QED
    BY <1>1, <1>6 DEF LastLines
<1>8. /\ p \in Seq(TextLine) /\ Len(p) = (IF full THEN n ELSE n + 1)
      /\ full => p[n] = EmptyLine /\ \A i \in 1..(n - 1) : p[i] = t.paper[i + 1]
      /\ ~full => p[n + 1] = EmptyLine /\ \A i \in 1..n : p[i] = t.paper[i]
  <2>1. CASE full
    <3>. HIDE DEF p, longer
    <3>1. longer # <<>>
      BY <1>1, <1>6
    <3>2. p = Tail(longer)
      BY <1>7, <2>1
    <3>3. /\ p \in Seq(TextLine) /\ Len(p) = Len(longer) - 1
          /\ \A i \in 1..Len(p) : p[i] = longer[i + 1]
      BY <1>6, <3>1, <3>2, HeadTailProperties
    <3>4. Len(p) = n
      BY <1>1, <1>6, <3>3
    <3>5. p[n] = EmptyLine
      BY <1>1, <1>6, <3>3, <3>4
    <3>6. ASSUME NEW i \in 1..(n - 1) PROVE p[i] = t.paper[i + 1]
      <4>1. i \in 1..n /\ i + 1 \in 1..n
        BY <1>1
      <4>. QED
        BY <1>6, <3>3, <3>4, <4>1
    <3>. QED
      BY <2>1, <3>3, <3>4, <3>5, <3>6
  <2>2. CASE ~full
    <3>. HIDE DEF p, longer
    <3>. QED
      BY <1>6, <1>7, <2>2
  <2>. QED
    BY <2>1, <2>2
<1>. HIDE DEF c, h, p, longer
<1>9. /\ u.sb = [t.sb EXCEPT ![c] = EmptyLine] /\ u.sb_head = h /\ u.sb_count = (IF full THEN n ELSE n + 1)
      /\ u.paper = p /\ u.cur_col = t.cur_col /\ u.cur_row = t.cur_row /\ u.scroll_offset = t.scroll_offset
      /\ u.dirty = t.dirty /\ u.moved = t.moved /\ u.esc = t.esc /\ u.csi_param = t.csi_param
      /\ u = [t EXCEPT !.sb = u.sb, !.sb_head = u.sb_head, !.sb_count = u.sb_count, !.paper = u.paper]
  <2>1. u = [t EXCEPT !.sb[c] = EmptyLine, !.sb_head = h, !.sb_count = IF full THEN n ELSE n + 1, !.paper = p]
    BY DEF NewLine, c, h, p, longer
  <2>. HIDE DEF full, n
  <2>. QED
    BY <1>1, <2>1 DEF TermRecords
<1>10. u.sb \in [0..(SbLines - 1) -> TextLine] /\ u.sb_count \in 1..SbLines
  BY <1>1, <1>3, <1>5, <1>9
<1>11. u \in TermRecords
  <2>. HIDE DEF n, full
  <2>. QED
    BY <1>1, <1>4, <1>8, <1>9, <1>10 DEF TermRecords
<1>12. ASSUME ~t.moved, NEW i \in 0..(u.sb_count - 1)
       PROVE  u.sb[Wrap(u.sb_head + i, SbLines)] = u.paper[i + 1]
  <2>1. i \in 0..(SbLines - 1) /\ i \in 0..SbLines
    BY <1>1, <1>9
  <2>2. Wrap(h + i, SbLines) \in 0..(SbLines - 1)
    BY <1>4, <2>1, CellIs
  <2>3. RingHolds(t)
    BY <1>12 DEF TermOK
  <2>4. CASE full
    <3>0. n = SbLines /\ h = (IF t.sb_head + 1 < SbLines THEN t.sb_head + 1 ELSE t.sb_head + 1 - SbLines)
      BY <1>1, <1>2, <1>4, <2>4, CellIs
    <3>7. Wrap(h + i, SbLines) = (IF h + i < SbLines THEN h + i ELSE h + i - SbLines)
      BY <1>4, <2>1, CellIs
    <3>1. CASE i = n - 1
      <4>1. n - 1 \in 0..SbLines /\ 0 \in 0..SbLines
        BY <1>1
      <4>2. Wrap(h + i, SbLines) = t.sb_head
        BY <1>1, <1>4, <3>0, <3>1, <3>7
      <4>3. i + 1 = n /\ c = t.sb_head
        BY <1>1, <1>3, <2>4, <3>1
      <4>. QED
        BY <1>1, <1>3, <1>8, <1>9, <2>4, <4>2, <4>3
    <3>2. CASE i # n - 1
      <4>1. i + 1 \in 0..(n - 1) /\ i + 1 \in 0..SbLines /\ i + 1 \in 1..(n - 1) /\ i + 1 \in 0..(SbLines - 1) /\ 0 \in 0..(SbLines - 1)
        BY <1>1, <1>9, <2>4, <3>2
      <4>0. PICK j \in 1..(n - 1) : j = i + 1
        BY <4>1
      <4>6. Wrap(t.sb_head + j, SbLines) = (IF t.sb_head + j < SbLines THEN t.sb_head + j ELSE t.sb_head + j - SbLines)
        BY <1>1, <4>0, <4>1, CellIs
      <4>2. Wrap(h + i, SbLines) = Wrap(t.sb_head + (i + 1), SbLines)
        <5>1. (IF h + i < SbLines THEN h + i ELSE h + i - SbLines)
              = (IF t.sb_head + j < SbLines THEN t.sb_head + j ELSE t.sb_head + j - SbLines)
          <6>1. t.sb_head \in Int /\ t.sb_head <= SbLines - 1 /\ SbLines \in Int /\ i \in Int /\ j = i + 1 /\ j >= 1 /\ i >= 0 /\ i <= SbLines - 1
            BY <1>1, <2>1, <4>0
          <6>2. CASE t.sb_head + 1 < SbLines
            BY <3>0, <6>1, <6>2
          <6>3. CASE ~(t.sb_head + 1 < SbLines)
            <7>1. h = 0 /\ t.sb_head = SbLines - 1
              BY <3>0, <6>1, <6>3
            <7>. QED
              BY <6>1, <7>1
          <6>. QED
            BY <6>2, <6>3
        <5>2. Wrap(t.sb_head + j, SbLines) = Wrap(t.sb_head + (i + 1), SbLines)
          BY <4>0
        <5>. QED
          BY <3>7, <4>6, <5>1, <5>2
      <4>3. Wrap(t.sb_head + (i + 1), SbLines) # c
        BY <1>1, <1>3, <2>4, <3>0, <4>0, <4>6
      <4>4. t.sb[Wrap(t.sb_head + (i + 1), SbLines)] = t.paper[i + 1 + 1]
        BY <2>3, <4>1 DEF RingHolds
      <4>5. p[i + 1] = t.paper[i + 1 + 1]
        BY <1>8, <2>4, <4>1
      <4>. QED
        BY <1>1, <1>9, <2>2, <4>2, <4>3, <4>4, <4>5
    <3>. QED
      BY <3>1, <3>2
  <2>5. CASE ~full
    <3>1. n \in 0..(SbLines - 1) /\ c = Wrap(t.sb_head + n, SbLines) /\ h = t.sb_head
      BY <1>1, <1>3, <1>4, <2>5
    <3>2. CASE i = n
      BY <1>1, <1>3, <1>8, <1>9, <2>5, <3>1, <3>2
    <3>3. CASE i # n
      <4>1. i \in 0..(n - 1) /\ i + 1 \in 1..n
        BY <1>1, <1>9, <2>5, <3>3
      <4>2. Wrap(t.sb_head + i, SbLines) # c
        BY <1>1, <2>1, <3>1, <3>3, CellsDiffer
      <4>3. t.sb[Wrap(t.sb_head + i, SbLines)] = t.paper[i + 1]
        BY <2>3, <4>1 DEF RingHolds
      <4>. QED
        BY <1>1, <1>8, <1>9, <2>2, <2>5, <3>1, <4>1, <4>2, <4>3
    <3>. QED
      BY <3>2, <3>3
  <2>. QED
    BY <2>4, <2>5
<1>. QED
  BY <1>1, <1>8, <1>9, <1>11, <1>12 DEF RingHolds

\* The cursor goes to the start of the next line. The row it leaves is drawn again unless
\* it was behind that row's end.
LEMMA WrapLineFollows ==
    ASSUME NEW t, TermOK(t), t.scroll_offset = 0, t.cur_row \in t.dirty \/ t.cur_col >= Cols,
           NEW u, u = WrapLine(t)
    PROVE  Follows(t, u) /\ u.cur_col = 0 /\ u.scroll_offset = 0
<1>. DEFINE k == [t EXCEPT !.cur_col = 0]
            v == NewLine(k)
            w == [v EXCEPT !.cur_row = v.cur_row + 1]
<1>1. /\ k \in TermRecords /\ k.sb = t.sb /\ k.sb_head = t.sb_head /\ k.sb_count = t.sb_count
      /\ k.cur_row = t.cur_row /\ k.scroll_offset = 0 /\ k.paper = t.paper /\ k.moved = t.moved
      /\ k.dirty = t.dirty /\ k.cur_col = 0
  <2>1. 0 \in 0..Cols
    BY Sizes
  <2>. QED
    BY <2>1 DEF TermOK, TermRecords
<1>2. /\ t.sb_count \in 1..SbLines /\ t.cur_row \in 0..(TermRows - 1) /\ t.paper \in Seq(TextLine)
      /\ Len(t.paper) = t.sb_count /\ t.dirty \subseteq TermRow /\ t.moved \in BOOLEAN
      /\ t.cur_col \in 0..Cols /\ t \in TermRecords
  BY DEF TermOK, TermRecords, TermRow
<1>3. TermOK(k)
  <2>. HIDE DEF k
  <2>. QED
    BY <1>1, <1>2 DEF TermOK, RingHolds, AtBottom
<1>4. u = IF t.cur_row < TermRows - 1 THEN MarkDirty(w) ELSE MarkAllDirty(v)
  <2>1. u = AdvanceRow(k)
    BY DEF WrapLine
  <2>2. w = [v EXCEPT !.cur_row = @ + 1]
    OBVIOUS
  <2>. HIDE DEF k, w
  <2>. QED
    BY <1>1, <2>1, <2>2 DEF AdvanceRow, v
<1>. HIDE DEF k
<1>5. /\ v \in TermRecords /\ Len(v.paper) = v.sb_count
      /\ v.sb_count = (IF t.sb_count = SbLines THEN SbLines ELSE t.sb_count + 1)
      /\ v.cur_col = 0 /\ v.cur_row = t.cur_row /\ v.scroll_offset = 0
      /\ v.dirty = t.dirty /\ v.moved = t.moved
      /\ t.sb_count # SbLines =>
            /\ \A i \in 1..t.sb_count : v.paper[i] = t.paper[i]
            /\ v.paper[t.sb_count + 1] = EmptyLine
      /\ ~t.moved => RingHolds(v)
  BY <1>1, <1>3, NewLineIs
<1>. HIDE DEF v
<1>6. ~t.moved => t.cur_row = LessOf(t.sb_count, TermRows) - 1
  BY DEF TermOK, AtBottom
<1>7. CASE t.cur_row < TermRows - 1
  <2>1. /\ w \in TermRecords /\ w.sb = v.sb /\ w.sb_head = v.sb_head /\ w.sb_count = v.sb_count
        /\ w.cur_row = t.cur_row + 1 /\ w.scroll_offset = 0 /\ w.paper = v.paper /\ w.moved = v.moved
        /\ w.dirty = v.dirty /\ w.cur_col = 0
    <3>1. t.cur_row + 1 \in TermRow
      BY <1>2, <1>7, Sizes DEF TermRow
    <3>. QED
      BY <1>5, <3>1 DEF TermRecords
  <2>. HIDE DEF w
  <2>2. ASSUME ~t.moved
        PROVE  /\ t.sb_count < TermRows /\ v.sb_count = t.sb_count + 1 /\ t.cur_row = t.sb_count - 1
               /\ t.sb_count # SbLines
    BY <1>2, <1>5, <1>6, <1>7, <2>2, Sizes DEF LessOf
  <2>3. TermOK(w)
    <3>1. ASSUME ~t.moved PROVE RingHolds(w) /\ AtBottom(w)
      <4>1. RingHolds(w)
        BY <1>5, <2>1, <3>1 DEF RingHolds
      <4>2. w.cur_row = LessOf(w.sb_count, TermRows) - 1
        BY <1>2, <2>1, <2>2, <3>1, Sizes DEF LessOf
      <4>3. 0 <= AtLeast0(w.sb_count - TermRows)
        BY <1>2, <2>1, <2>2, <3>1, Sizes DEF AtLeast0
      <4>. QED
        BY <2>1, <4>1, <4>2, <4>3 DEF AtBottom
    <3>. QED
      BY <1>5, <2>1, <3>1 DEF TermOK
  <2>4. u = MarkDirty(w) /\ Follows(w, u) /\ u = [w EXCEPT !.dirty = w.dirty \cup {w.cur_row}]
    BY <1>4, <1>7, <2>3, MarkFollows
  <2>5. u.dirty = t.dirty \cup {t.cur_row + 1} /\ u.cur_col = 0 /\ u.scroll_offset = 0 /\ u.moved = t.moved
    BY <1>5, <2>1, <2>4 DEF TermRecords
  <2>6. ASSUME ~t.moved, NEW r \in TermRow, r \notin u.dirty
        PROVE  LineInView(w, r) = LineInView(t, r) /\ Marks(t, r) = {}
    <3>1. r \in 0..(TermRows - 1) /\ r # t.sb_count
      BY <1>2, <2>2, <2>5, <2>6 DEF TermRow
    <3>2. AtLeast0(t.sb_count - TermRows - t.scroll_offset) = 0 /\ AtLeast0(w.sb_count - TermRows - w.scroll_offset) = 0
      BY <1>2, <2>1, <2>2, <2>6, Sizes DEF AtLeast0
    <3>3. ASSUME r >= t.sb_count PROVE LineInView(w, r) = LineInView(t, r)
      <4>1. r >= w.sb_count
        BY <1>2, <2>1, <2>2, <2>6, <3>1, <3>3, Sizes
      <4>. QED
        BY <3>3, <4>1 DEF LineInView
    <3>4. ASSUME ~(r >= t.sb_count) PROVE LineInView(w, r) = LineInView(t, r)
      <4>1. ~(r >= w.sb_count) /\ r + 1 \in 1..t.sb_count
        <5>1. t.sb_count \in Nat /\ r \in Nat /\ w.sb_count = t.sb_count + 1
          BY <1>2, <2>1, <2>2, <2>6, <3>1, Sizes
        <5>2. r < t.sb_count
          BY <3>4, <5>1
        <5>. QED
          BY <5>1, <5>2
      <4>2. 0 + r + 1 = r + 1
        BY <3>1
      <4>. QED
        BY <1>5, <2>1, <2>2, <2>6, <3>2, <3>4, <4>1, <4>2 DEF LineInView
    <3>5. Marks(t, r) = {}
      <4>1. r = t.cur_row => t.cur_col >= Cols
        BY <2>5, <2>6
      <4>2. t.cur_col >= Cols => CursorMarks(t) = {}
        BY <1>2, Sizes DEF CursorMarks
      <4>. QED
        BY <4>1, <4>2 DEF Marks
    <3>. QED
      BY <3>3, <3>4, <3>5
  <2>7. ASSUME ~u.moved PROVE Covers(t, u)
    BY <2>4, <2>5, <2>6, <2>7 DEF Follows, Covers
  <2>. QED
    BY <2>4, <2>5, <2>7 DEF Follows
<1>8. CASE ~(t.cur_row < TermRows - 1)
  <2>1. TermOK(v)
    <3>1. ASSUME ~t.moved PROVE AtBottom(v)
      <4>1. v.cur_row = LessOf(v.sb_count, TermRows) - 1
        BY <1>2, <1>5, <1>6, <1>8, <3>1, Sizes DEF LessOf
      <4>2. 0 <= AtLeast0(v.sb_count - TermRows)
        BY <1>2, <1>5, Sizes DEF AtLeast0
      <4>. QED
        BY <1>5, <4>1, <4>2 DEF AtBottom
    <3>. QED
      BY <1>5, <3>1 DEF TermOK
  <2>2. u = MarkAllDirty(v)
    BY <1>4, <1>8
  <2>3. Follows(t, u)
    BY <1>5, <2>1, <2>2, AllMarkedFollows
  <2>4. u.cur_col = 0 /\ u.scroll_offset = 0
    BY <1>5, <2>2 DEF MarkAllDirty, TermRecords
  <2>. QED
    BY <2>3, <2>4
<1>. QED
  BY <1>7, <1>8

\* Output brings the last lines into view.
LEMMA SnappedFollows ==
    ASSUME NEW t, TermOK(t)
    PROVE  Follows(t, Snapped(t)) /\ Snapped(t).scroll_offset = 0 /\ Snapped(t).esc = t.esc
<1>. DEFINE k == [t EXCEPT !.scroll_offset = 0]
<1>1. CASE t.scroll_offset # 0
  <2>1. /\ k \in TermRecords /\ k.sb = t.sb /\ k.sb_head = t.sb_head /\ k.sb_count = t.sb_count
        /\ k.cur_row = t.cur_row /\ k.scroll_offset = 0 /\ k.paper = t.paper /\ k.moved = t.moved
        /\ k.esc = t.esc
    BY DEF TermOK, TermRecords
  <2>. HIDE DEF k
  <2>2. 0 <= AtLeast0(k.sb_count - TermRows)
    BY <2>1, Sizes DEF AtLeast0, TermRecords
  <2>3. TermOK(k)
    BY <2>1, <2>2 DEF TermOK, RingHolds, AtBottom
  <2>4. Snapped(t) = MarkAllDirty(k)
    BY <1>1 DEF Snapped, k
  <2>5. MarkAllDirty(k).scroll_offset = 0 /\ MarkAllDirty(k).esc = t.esc
    BY <2>1 DEF MarkAllDirty, TermRecords
  <2>. QED
    BY <2>1, <2>3, <2>4, <2>5, AllMarkedFollows
<1>2. CASE t.scroll_offset = 0
  BY <1>2, FollowsItself DEF Snapped
<1>. QED
  BY <1>1, <1>2

LEMMA WithinIs ==
    ASSUME NEW n \in Int, NEW last \in Nat
    PROVE  Within(n, last) \in 0..last
<1>1. Min({n, last}) = IF n <= last THEN n ELSE last
  BY MinOfTwo
<1>2. PICK m \in Int : m = Min({n, last}) /\ m <= last
  BY <1>1
<1>3. Max({0, m}) = IF 0 >= m THEN 0 ELSE m
  BY MaxOfTwo
<1>. QED
  BY <1>2, <1>3 DEF Within

\* A program that moves the cursor to another row is on its own.
LEMMA RowFollows ==
    ASSUME NEW t, TermOK(t), NEW n \in Int
    PROVE  Follows(t, ToRow(t, n))
<1>. DEFINE r == Within(n, TermRows - 1)
            k == [t EXCEPT !.cur_row = r, !.moved = TRUE]
<1>1. r \in TermRow
  <2>1. TermRows - 1 \in Nat
    BY Sizes
  <2>. QED
    BY <2>1, WithinIs DEF TermRow
<1>. HIDE DEF r
<1>2. k \in TermRecords /\ k.paper = t.paper /\ k.sb_count = t.sb_count /\ k.moved
  BY <1>1 DEF TermOK, TermRecords
<1>3. ToRow(t, n) = MarkDirty(k)
  BY DEF ToRow, r
<1>. HIDE DEF k
<1>4. TermOK(k)
  BY <1>2 DEF TermOK
<1>. QED
  BY <1>2, <1>3, <1>4, MarkFollows DEF Follows

\* What an escape sequence does.
LEMMA CsiFollows ==
    ASSUME NEW t, TermOK(t), NEW final
    PROVE  Follows(t, CsiDispatch(t, final))
<1>. DEFINE n == Max({1, t.csi_param})
            line == t.sb[LiveLine(t, t.cur_row)]
<1>1. n \in Nat /\ n >= 1 /\ t.cur_col \in 0..Cols /\ t.cur_row \in Int
  <2>1. t.csi_param \in Nat /\ t.cur_row \in TermRow /\ t.cur_col \in 0..Cols
    BY DEF TermOK, TermRecords
  <2>2. n = IF 1 >= t.csi_param THEN 1 ELSE t.csi_param
    BY <2>1, MaxOfTwo
  <2>. HIDE DEF n
  <2>. QED
    BY <2>1, <2>2 DEF TermRow
<1>2. line \in TextLine
  <2>1. t.sb \in [0..(SbLines - 1) -> TextLine] /\ LiveLine(t, t.cur_row) \in 0..(SbLines - 1)
    BY LiveLineInRing DEF TermOK, TermRecords
  <2>. QED
    BY <2>1
<1>. HIDE DEF n, line
<1>3. ASSUME NEW m \in Int PROVE Follows(t, ToCol(t, m))
  <2>1. Cols - 1 \in Nat /\ Cols \in Nat
    BY Sizes
  <2>2. Within(m, Cols - 1) \in 0..Cols
    BY <2>1, WithinIs
  <2>. QED
    BY <2>2, ColFollows DEF ToCol
<1>4. ASSUME NEW m \in TextLine PROVE Follows(t, SetLine(t, m))
  BY <1>4, SetLineFollows
<1>5. [i \in Col |-> IF i <= t.cur_col THEN " " ELSE line[i]] \in TextLine
  BY <1>2 DEF TextLine, Glyph
<1>6. [i \in Col |-> IF i >= t.cur_col THEN " " ELSE line[i]] \in TextLine
  BY <1>2 DEF TextLine, Glyph
<1>7. [i \in Col |-> CASE i >= Cols - n -> " "
                       [] i < Cols - n /\ i >= t.cur_col -> line[i + n]
                       [] OTHER -> line[i]] \in TextLine
  <2>1. ASSUME NEW i \in Col, i < Cols - n PROVE i + n \in Col
    BY <1>1, <2>1, Sizes DEF Col
  <2>2. " " \in Glyph
    BY DEF Glyph
  <2>3. \A i \in Col : line[i] \in Glyph
    BY <1>2 DEF TextLine
  <2>4. ASSUME NEW i \in Col
        PROVE  (CASE i >= Cols - n -> " "
                  [] i < Cols - n /\ i >= t.cur_col -> line[i + n]
                  [] OTHER -> line[i]) \in Glyph
    <3>1. CASE i >= Cols - n
      <4>1. ~(i < Cols - n)
        BY <1>1, <3>1, Sizes DEF Col
      <4>. QED
        BY <2>2, <3>1, <4>1
    <3>2. CASE ~(i >= Cols - n) /\ i < Cols - n /\ i >= t.cur_col
      BY <2>1, <2>3, <3>2
    <3>3. CASE ~(i >= Cols - n) /\ ~(i < Cols - n /\ i >= t.cur_col)
      BY <2>3, <3>3
    <3>. QED
      BY <3>1, <3>2, <3>3
  <2>. QED
    BY <2>4 DEF TextLine
<1>8. EmptyLine \in TextLine
  BY DEF EmptyLine, Filled, TextLine, Glyph
<1>9. t.cur_col - n \in Int /\ t.cur_col + n \in Int /\ n - 1 \in Int /\ t.cur_row - n \in Int /\ t.cur_row + n \in Int
  BY <1>1, Sizes
<1>10. Follows(t, t)
  BY FollowsItself
<1>11. CsiDispatch(t, final) \in
          {ToCol(t, t.cur_col - n), ToCol(t, t.cur_col + n), ToCol(t, n - 1), ToRow(t, t.cur_row - n), ToRow(t, t.cur_row + n),
           SetLine(t, [i \in Col |-> IF i <= t.cur_col THEN " " ELSE line[i]]), SetLine(t, EmptyLine),
           SetLine(t, [i \in Col |-> IF i >= t.cur_col THEN " " ELSE line[i]]),
           SetLine(t, [i \in Col |-> CASE i >= Cols - n -> " "
                                       [] i < Cols - n /\ i >= t.cur_col -> line[i + n]
                                       [] OTHER -> line[i]]), t}
  BY Zenon DEF CsiDispatch, n, line
<1>. QED
  BY <1>3, <1>4, <1>5, <1>6, <1>7, <1>8, <1>9, <1>10, <1>11, RowFollows

\* A tab clears up to the next stop.
LEMMA TabFollows ==
    ASSUME NEW t, TermOK(t), t.scroll_offset = 0
    PROVE  Follows(t, Tabbed(t))
<1>. DEFINE stop == Min({(t.cur_col \div TabStop + 1) * TabStop, Cols})
            line == t.sb[LiveLine(t, t.cur_row)]
            k == SetLine(t, [i \in Col |-> IF i \in t.cur_col .. stop - 1 THEN " " ELSE line[i]])
<1>1. t.cur_col \in 0..Cols
  BY DEF TermOK, TermRecords
<1>2. stop \in 0..Cols
  <2>1. PICK d \in Nat : d = t.cur_col \div TabStop + 1
    BY <1>1, Sizes
  <2>2. d * TabStop \in Nat
    BY <2>1, Sizes
  <2>3. PICK x \in Nat : x = (t.cur_col \div TabStop + 1) * TabStop
    BY <2>1, <2>2
  <2>4. stop = IF x <= Cols THEN x ELSE Cols
    BY <2>3, Sizes, MinOfTwo
  <2>. HIDE DEF stop
  <2>. QED
    BY <2>3, <2>4, Sizes
<1>3. line \in TextLine
  <2>1. t.sb \in [0..(SbLines - 1) -> TextLine] /\ LiveLine(t, t.cur_row) \in 0..(SbLines - 1)
    BY LiveLineInRing DEF TermOK, TermRecords
  <2>. QED
    BY <2>1
<1>. HIDE DEF stop, line
<1>4. CASE t.cur_col >= Cols
  <2>1. Tabbed(t) = WrapLine(t)
    <3>1. ~(t.cur_col < Cols)
      BY <1>1, <1>4, Sizes
    <3>. QED
      BY <1>4, <3>1, Zenon DEF Tabbed
  <2>. QED
    BY <1>4, <2>1, WrapLineFollows
<1>5. CASE ~(t.cur_col >= Cols)
  <2>1. [i \in Col |-> IF i \in t.cur_col .. stop - 1 THEN " " ELSE line[i]] \in TextLine
    BY <1>3 DEF TextLine, Glyph
  <2>2. Follows(t, k) /\ k.dirty = t.dirty \cup {t.cur_row} /\ k.cur_row = t.cur_row /\ k.scroll_offset = 0
    BY <2>1, SetLineFollows
  <2>3. Tabbed(t) = IF stop = Cols THEN WrapLine(k) ELSE [k EXCEPT !.cur_col = stop]
    <3>1. t.cur_col < Cols
      BY <1>1, <1>5, Sizes
    <3>. QED
      BY <1>5, <3>1, Zenon DEF Tabbed, k, stop, line
  <2>. HIDE DEF k
  <2>4. TermOK(k) /\ k.cur_row \in k.dirty
    BY <2>2 DEF Follows
  <2>5. Follows(k, WrapLine(k)) /\ Follows(k, [k EXCEPT !.cur_col = stop])
    BY <1>2, <2>2, <2>4, WrapLineFollows, ColFollows
  <2>. QED
    BY <2>2, <2>3, <2>5, FollowsOn
<1>. QED
  BY <1>4, <1>5

\* A character is put behind the cursor, on the next line when this one is full.
LEMMA PrintFollows ==
    ASSUME NEW t, TermOK(t), t.scroll_offset = 0, NEW ch \in Glyph
    PROVE  Follows(t, Printed(t, ch))
<1>. DEFINE u == IF t.cur_col >= Cols THEN WrapLine(t) ELSE t
            line == u.sb[LiveLine(u, u.cur_row)]
            put == [line EXCEPT ![u.cur_col] = ch]
            v == SetLine(u, put)
<1>1. t.cur_col \in 0..Cols
  BY DEF TermOK, TermRecords
<1>2. Follows(t, u) /\ u.cur_col \in 0..(Cols - 1) /\ TermOK(u)
  <2>1. CASE t.cur_col >= Cols
    <3>1. Follows(t, WrapLine(t)) /\ WrapLine(t).cur_col = 0
      BY <2>1, WrapLineFollows
    <3>2. u = WrapLine(t) /\ 0 \in 0..(Cols - 1)
      BY <2>1, Sizes
    <3>. QED
      BY <3>1, <3>2 DEF Follows
  <2>2. CASE ~(t.cur_col >= Cols)
    <3>1. u = t /\ t.cur_col \in 0..(Cols - 1)
      BY <1>1, <2>2, Sizes
    <3>. QED
      BY <3>1, FollowsItself
  <2>. QED
    BY <2>1, <2>2
<1>. HIDE DEF u
<1>3. line \in TextLine
  <2>1. u.sb \in [0..(SbLines - 1) -> TextLine] /\ LiveLine(u, u.cur_row) \in 0..(SbLines - 1)
    BY <1>2, LiveLineInRing DEF TermOK, TermRecords
  <2>. QED
    BY <2>1
<1>. HIDE DEF line
<1>4. put \in TextLine
  BY <1>3 DEF TextLine
<1>. HIDE DEF put
<1>5. Follows(u, v) /\ v.dirty = u.dirty \cup {u.cur_row} /\ v.cur_row = u.cur_row /\ v.cur_col = u.cur_col
  BY <1>2, <1>4, SetLineFollows
<1>6. Printed(t, ch) = [v EXCEPT !.cur_col = v.cur_col + 1]
  BY DEF Printed, v, put, line, u
<1>. HIDE DEF v
<1>7. v.cur_col + 1 \in 0..Cols /\ TermOK(v) /\ v.cur_row \in v.dirty
  BY <1>2, <1>5, Sizes DEF Follows
<1>8. Follows(v, [v EXCEPT !.cur_col = v.cur_col + 1])
  BY <1>7, ColFollows
<1>. QED
  BY <1>2, <1>5, <1>6, <1>8, FollowsOn

\* A character outside an escape sequence.
LEMMA PlainFollows ==
    ASSUME NEW t, TermOK(t), t.scroll_offset = 0, NEW ch \in Glyph
    PROVE  Follows(t, PlainChar(t, ch))
<1>1. CASE ch = "nl"
  <2>. DEFINE k == MarkDirty(t)
  <2>1. Follows(t, k) /\ k = [t EXCEPT !.dirty = t.dirty \cup {t.cur_row}]
    BY MarkFollows
  <2>2. k.cur_row \in k.dirty /\ k.scroll_offset = 0
    <3>. HIDE DEF k
    <3>. QED
      BY <2>1 DEF TermOK, TermRecords
  <2>. HIDE DEF k
  <2>3. Follows(k, WrapLine(k))
    BY <2>1, <2>2, WrapLineFollows DEF Follows
  <2>4. PlainChar(t, ch) = WrapLine(k)
    BY <1>1 DEF PlainChar, k
  <2>. QED
    BY <2>1, <2>3, <2>4, FollowsOn
<1>2. CASE ch = "cr"
  <2>1. 0 \in 0..Cols
    BY Sizes
  <2>2. PlainChar(t, ch) = MarkDirty([t EXCEPT !.cur_col = 0])
    BY <1>2 DEF PlainChar
  <2>. QED
    BY <2>1, <2>2, ColFollows
<1>3. CASE ch = "bs"
  <2>1. t.cur_col \in 0..Cols
    BY DEF TermOK, TermRecords
  <2>2. PlainChar(t, ch) = IF t.cur_col > 0 THEN MarkDirty([t EXCEPT !.cur_col = t.cur_col - 1]) ELSE t
    BY <1>3 DEF PlainChar
  <2>3. t.cur_col > 0 => t.cur_col - 1 \in 0..Cols
    BY <2>1, Sizes
  <2>. QED
    BY <2>2, <2>3, ColFollows, FollowsItself
<1>4. CASE ch = "tab"
  <2>1. PlainChar(t, ch) = Tabbed(t)
    BY <1>4 DEF PlainChar
  <2>. QED
    BY <2>1, TabFollows
<1>5. CASE ch = "bell"
  <2>1. PlainChar(t, ch) = t
    BY <1>5 DEF PlainChar
  <2>. QED
    BY <2>1, FollowsItself
<1>6. CASE ch \notin {"nl", "cr", "bs", "tab", "bell"}
  <2>1. PlainChar(t, ch) = Printed(t, ch)
    BY <1>6 DEF PlainChar
  <2>. QED
    BY <2>1, PrintFollows
<1>. QED
  BY <1>1, <1>2, <1>3, <1>4, <1>5, <1>6

\* Any character.
LEMMA CharFollows ==
    ASSUME NEW t, TermOK(t), NEW ch \in Glyph
    PROVE  Follows(t, PutChar(t, ch))
<1>1. t.esc \in 0..2 /\ t.csi_param \in Nat
  BY DEF TermOK, TermRecords
<1>5. 0 \in 0..2 /\ 1 \in 0..2 /\ 0 \in Nat
  OBVIOUS
<1>2. CASE t.esc = 1
  <2>1. PutChar(t, ch) = [t EXCEPT !.esc = IF ch = "[" THEN 2 ELSE 0, !.csi_param = IF ch = "[" THEN 0 ELSE t.csi_param]
    BY <1>2 DEF PutChar
  <2>. DEFINE e == IF ch = "[" THEN 2 ELSE 0
              p == IF ch = "[" THEN 0 ELSE t.csi_param
  <2>2. e \in 0..2 /\ p \in Nat
    BY <1>1
  <2>. HIDE DEF e, p
  <2>3. Follows(t, [t EXCEPT !.esc = e, !.csi_param = p])
    BY <2>2, EscFollows
  <2>. QED
    BY <2>1, <2>3 DEF e, p
<1>3. CASE t.esc = 2
  <2>1. CASE ch \in CountDigits
    <3>. DEFINE p == 10 * t.csi_param + (IF ch = "1" THEN 1 ELSE 2)
    <3>1. PutChar(t, ch) = [t EXCEPT !.csi_param = p]
      <4>1. t.esc # 1 /\ t.esc # 0 /\ ch \notin Controls
        BY <1>3, <2>1 DEF CountDigits, Controls
      <4>. QED
        BY <1>3, <2>1, <4>1, Zenon DEF PutChar
    <3>2. p \in Nat
      BY <1>1
    <3>. HIDE DEF p
    <3>. QED
      <4>1. Follows(t, [t EXCEPT !.csi_param = p])
        BY <1>5, <3>2, EscFollows
      <4>. QED
        BY <3>1, <4>1
  <2>2. CASE ch \notin CountDigits /\ ch \in Controls
    <3>1. PutChar(t, ch) = [t EXCEPT !.esc = 0]
      BY <1>3, <2>2 DEF PutChar
    <3>. QED
      BY <1>5, <3>1, EscFollows
  <2>3. CASE ch \notin CountDigits /\ ch \notin Controls
    <3>. DEFINE k == [t EXCEPT !.esc = 0]
    <3>1. PutChar(t, ch) = CsiDispatch(k, ch)
      BY <1>3, <2>3 DEF PutChar
    <3>2. Follows(t, k)
      BY <1>5, EscFollows
    <3>. HIDE DEF k
    <3>3. Follows(k, CsiDispatch(k, ch))
      BY <3>2, CsiFollows DEF Follows
    <3>. QED
      BY <3>1, <3>2, <3>3, FollowsOn
  <2>. QED
    BY <2>1, <2>2, <2>3
<1>4. CASE t.esc = 0
  <2>. DEFINE k == Snapped(t)
  <2>1. Follows(t, k) /\ k.scroll_offset = 0 /\ TermOK(k)
    BY SnappedFollows DEF Follows
  <2>2. CASE ch = "esc"
    <3>1. PutChar(t, ch) = [k EXCEPT !.esc = 1]
      BY <1>4, <2>2 DEF PutChar
    <3>. HIDE DEF k
    <3>2. Follows(k, [k EXCEPT !.esc = 1])
      BY <1>5, <2>1, EscFollows
    <3>. QED
      BY <2>1, <3>1, <3>2, FollowsOn
  <2>3. CASE ch # "esc"
    <3>1. PutChar(t, ch) = PlainChar(k, ch)
      BY <1>4, <2>3 DEF PutChar
    <3>. HIDE DEF k
    <3>2. Follows(k, PlainChar(k, ch))
      BY <2>1, PlainFollows
    <3>. QED
      BY <2>1, <3>1, <3>2, FollowsOn
  <2>. QED
    BY <2>2, <2>3
<1>. QED
  BY <1>1, <1>2, <1>3, <1>4

\* The loop over a text: h[i] is what its first i characters make of t.
Fed(h, n, t, text) == h = [i \in 0..n |-> IF i = 0 THEN t ELSE PutChar(h[i - 1], text[i])]

\* It has a run.
LEMMA FedRuns ==
    ASSUME NEW t, NEW text, NEW n \in Nat
    PROVE  \E h : Fed(h, n, t, text)
<1>. DEFINE S == {k \in Nat : \E h : Fed(h, k, t, text)}
<1>1. 0 \in S
  <2>1. Fed([i \in 0..0 |-> t], 0, t, text)
    BY DEF Fed
  <2>. QED
    BY <2>1
<1>2. ASSUME NEW k \in 1..n, k - 1 \in S PROVE k \in S
  <2>1. PICK h : Fed(h, k - 1, t, text)
    BY <1>2
  <2>. DEFINE at(i) == PutChar(h[i - 1], text[i])
              f == [i \in 0..k |-> IF i = 0 THEN t ELSE at(i)]
  <2>2. \A i \in 0..k - 1 : h[i] = IF i = 0 THEN t ELSE at(i)
    BY <2>1 DEF Fed
  <2>3. \A i \in 1..k : f[i - 1] = h[i - 1]
    <3>. HIDE DEF at
    <3>. SUFFICES ASSUME NEW i \in 1..k PROVE f[i - 1] = h[i - 1]
      OBVIOUS
    <3>1. i - 1 \in 0..k - 1 /\ i - 1 \in 0..k
      OBVIOUS
    <3>. QED
      BY <2>2, <3>1
  <2>4. \A i \in 1..k : at(i) = PutChar(f[i - 1], text[i])
    <3>. HIDE DEF f
    <3>. QED
      BY <2>3
  <2>5. f = [i \in 0..k |-> IF i = 0 THEN t ELSE PutChar(f[i - 1], text[i])]
    <3>1. \A i \in 0..k : i # 0 => i \in 1..k
      OBVIOUS
    <3>2. f = [i \in 0..k |-> IF i = 0 THEN t ELSE at(i)]
      OBVIOUS
    <3>. HIDE DEF f, at
    <3>. QED
      BY <2>4, <3>1, <3>2
  <2>6. Fed(f, k, t, text)
    <3>. HIDE DEF f
    <3>. QED
      BY <2>5 DEF Fed
  <2>. QED
    BY <2>6
<1>. HIDE DEF S
<1>3. 0..n \subseteq S
  BY <1>1, <1>2, CountingUp
<1>. QED
  BY <1>3 DEF S

\* A text.
LEMMA FeedFollows ==
    ASSUME NEW t, TermOK(t), NEW text \in Seq(Glyph)
    PROVE  Follows(t, Feed(t, text)) /\ (text = <<>> => Feed(t, text) = t)
<1>. DEFINE n == Len(text)
            it == CHOOSE h : Fed(h, n, t, text)
<1>0. n \in Nat
  OBVIOUS
<1>1. Feed(t, text) = it[n]
  BY DEF Feed, Fed
<1>2. \E h : Fed(h, n, t, text)
  BY <1>0, FedRuns
<1>3. PICK h : Fed(h, n, t, text) /\ Feed(t, text) = h[n]
  <2>. HIDE DEF it
  <2>1. Fed(it, n, t, text)
    BY <1>2 DEF it
  <2>. QED
    BY <1>1, <2>1
<1>. HIDE DEF it
<1>4. h[0] = t /\ \A i \in 1..n : h[i] = PutChar(h[i - 1], text[i])
  BY <1>0, <1>3 DEF Fed
<1>. DEFINE S == {i \in 0..n : Follows(t, h[i])}
<1>5. 0 \in S
  BY <1>0, <1>4, FollowsItself
<1>6. ASSUME NEW i \in 1..n, i - 1 \in S PROVE i \in S
  <2>1. Follows(t, h[i - 1]) /\ text[i] \in Glyph
    BY <1>6
  <2>2. Follows(h[i - 1], PutChar(h[i - 1], text[i]))
    BY <2>1, CharFollows DEF Follows
  <2>. QED
    BY <1>4, <2>1, <2>2, FollowsOn
<1>. HIDE DEF S
<1>7. n \in S
  <2>1. 0..n \subseteq S
    BY <1>0, <1>5, <1>6, CountingUp
  <2>. QED
    BY <1>0, <2>1
<1>8. text = <<>> => n = 0
  OBVIOUS
<1>. QED
  BY <1>3, <1>4, <1>7, <1>8 DEF S

\* The user scrolls.
LEMMA ScrollFollows ==
    ASSUME NEW t, TermOK(t)
    PROVE  Follows(t, ScrollUp(t)) /\ Follows(t, ScrollDown(t))
<1>1. t.sb_count \in 1..SbLines /\ t.scroll_offset \in Nat /\ TermRows \in Nat \ {0} /\ SbLines \in Nat
  BY Sizes DEF TermOK, TermRecords
<1>2. ASSUME NEW s \in Nat, ~t.moved => s <= AtLeast0(t.sb_count - TermRows)
      PROVE  Follows(t, MarkAllDirty([t EXCEPT !.scroll_offset = s]))
  <2>. DEFINE k == [t EXCEPT !.scroll_offset = s]
  <2>1. /\ k \in TermRecords /\ k.sb = t.sb /\ k.sb_head = t.sb_head /\ k.sb_count = t.sb_count
        /\ k.cur_row = t.cur_row /\ k.scroll_offset = s /\ k.paper = t.paper /\ k.moved = t.moved
    BY DEF TermOK, TermRecords
  <2>. HIDE DEF k
  <2>2. TermOK(k)
    BY <1>2, <2>1 DEF TermOK, RingHolds, AtBottom
  <2>3. Follows(t, MarkAllDirty(k))
    BY <2>1, <2>2, AllMarkedFollows
  <2>. QED
    BY <2>3 DEF k
<1>3. Max({0, t.sb_count - TermRows}) = AtLeast0(t.sb_count - TermRows)
  BY <1>1, MaxOfTwo DEF AtLeast0
<1>4. PICK m \in Nat : m = Max({0, t.sb_count - TermRows}) /\ m = AtLeast0(t.sb_count - TermRows)
  BY <1>1, <1>3 DEF AtLeast0
<1>5. /\ Min({t.scroll_offset + TermRows, m}) \in Nat
      /\ Min({t.scroll_offset + TermRows, m}) <= m
  <2>1. PICK x \in Nat : x = t.scroll_offset + TermRows
    BY <1>1
  <2>. QED
    BY <2>1, MinOfTwo
<1>6. /\ Max({0, t.scroll_offset - TermRows}) \in Nat
      /\ Max({0, t.scroll_offset - TermRows}) <= t.scroll_offset
  BY <1>1, MaxOfTwo
<1>7. ~t.moved => t.scroll_offset <= AtLeast0(t.sb_count - TermRows)
  BY DEF TermOK, AtBottom
<1>8. ~t.moved => Max({0, t.scroll_offset - TermRows}) <= AtLeast0(t.sb_count - TermRows)
  BY <1>1, <1>4, <1>6, <1>7
<1>9. Follows(t, MarkAllDirty([t EXCEPT !.scroll_offset = Min({t.scroll_offset + TermRows, m})]))
  BY <1>2, <1>4, <1>5
<1>10. Follows(t, MarkAllDirty([t EXCEPT !.scroll_offset = Max({0, t.scroll_offset - TermRows})]))
  BY <1>2, <1>6, <1>8
<1>. QED
  BY <1>4, <1>9, <1>10 DEF ScrollUp, ScrollDown

-----------------------------------------------------------------------------
(* The loop, and what is on the screen *)

\* The bounds of a set of rows.
LEMMA SpanIs ==
    ASSUME NEW n \in Nat, NEW S, S \subseteq 0..n, NEW r \in S
    PROVE  r \in Min(S) .. Max(S)
<1>1. Min(S) \in S /\ Min(S) <= r
  <2>1. S \subseteq Nat /\ S # {}
    OBVIOUS
  <2>. QED
    BY <2>1, MinOfNats
<1>2. Max(S) \in S /\ Max(S) >= r
  <2>. DEFINE D == {n - i : i \in S}
  <2>1. D \subseteq Nat /\ D # {}
    <3>1. \A i \in S : n - i \in Nat
      <4>. SUFFICES ASSUME NEW i \in S PROVE n - i \in Nat
        OBVIOUS
      <4>1. i \in 0..n
        OBVIOUS
      <4>. QED
        BY <4>1
    <3>. QED
      BY <3>1
  <2>2. PICK d \in D : \A e \in D : d <= e
    <3>. HIDE DEF D
    <3>. QED
      BY <2>1, MinOfNats
  <2>3. PICK x \in S : d = n - x
    OBVIOUS
  <2>4. \A y \in S : x >= y
    <3>. SUFFICES ASSUME NEW y \in S PROVE x >= y
      OBVIOUS
    <3>1. n - x <= n - y
      BY <2>2, <2>3
    <3>2. x \in 0..n /\ y \in 0..n
      OBVIOUS
    <3>. QED
      BY <3>1, <3>2
  <2>5. PICK m \in S : m = Max(S) /\ \A y \in S : m >= y
    BY <2>4 DEF Max
  <2>. QED
    BY <2>5
<1>3. r \in Int /\ Min(S) \in Int /\ Max(S) \in Int
  <2>1. \A x \in S : x \in 0..n
    OBVIOUS
  <2>2. r \in 0..n /\ Min(S) \in 0..n /\ Max(S) \in 0..n
    BY <1>1, <1>2, <2>1
  <2>. QED
    BY <2>2
<1>. QED
  BY <1>1, <1>2, <1>3

\* A step that does not draw.
LEMMA QuietStep ==
    ASSUME ConsoleInv, ConOK', Follows(temu, temu'), shown' = shown, con'.program = con.program,
           temu'.dirty = TermRow \/ (~con'.came /\ ~con'.missed => ~con.came /\ ~con.missed),
           ~temu.moved => DirtyIsDrawn'
    PROVE  ConsoleInv'
<1>1. TermOK(temu') /\ (temu.moved => temu'.moved)
  BY DEF Follows
<1>2. ASSUME ~temu'.moved PROVE ScreenType' /\ ScreenFresh' /\ DirtyIsDrawn'
  <2>1. ScreenType /\ ScreenFresh /\ ~temu.moved
    BY <1>1, <1>2 DEF ConsoleInv
  <2>2. ScreenType'
    BY <2>1 DEF ScreenType
  <2>3. ASSUME NEW r \in TermRow, r \notin temu'.dirty
        PROVE  /\ con'.program = "fbcon" => RowFresh(shown.shadow[r], r)'
               /\ ~con'.came /\ ~con'.missed => RowFresh(shown.screen[r], r)'
    <3>1. r \notin temu.dirty /\ LineInView(temu', r) = LineInView(temu, r) /\ Marks(temu, r) \subseteq Marks(temu', r)
      BY <1>2, <2>3 DEF Follows, Covers
    <3>2. \A x : RowFresh(x, r) => x.text = LineInView(temu', r) /\ x.marks \subseteq Marks(temu', r)
      BY <3>1 DEF RowFresh
    <3>3. ~con'.came /\ ~con'.missed => ~con.came /\ ~con.missed
      BY <2>3
    <3>. QED
      BY <2>1, <3>1, <3>2, <3>3 DEF RowFresh, ScreenFresh
  <2>. QED
    BY <2>1, <1>2, <2>2, <2>3 DEF ScreenFresh
<1>. QED
  BY <1>1, <1>2 DEF ConsoleInv

\* What the program does next has no part in this.
LEMMA GotoIs ==
    ASSUME con \in ConRecords, NEW p \in {"start", "poll", "console", "keys", "yield", "shell", "closed"}
    PROVE  /\ Goto(p) \in ConRecords /\ Goto(p).pc = p /\ Goto(p).program = con.program
           /\ Goto(p).got = con.got /\ Goto(p).pressed = con.pressed /\ Goto(p).owned = con.owned
           /\ Goto(p).prev_gui = con.prev_gui /\ Goto(p).came = con.came /\ Goto(p).missed = con.missed
           /\ Drawing(p) \in ConRecords /\ Drawing(p).pc \in {"check", "draw"} /\ Drawing(p).program = con.program
           /\ Drawing(p).got = con.got /\ Drawing(p).pressed = con.pressed /\ Drawing(p).owned = con.owned
           /\ Drawing(p).prev_gui = con.prev_gui /\ Drawing(p).came = con.came /\ Drawing(p).missed = con.missed
BY DEF Goto, Drawing, ConRecords

\* The parts of the invariant that a step starts from.
LEMMA Parts ==
    ASSUME ConsoleInv
    PROVE  /\ TermOK(temu) /\ con \in ConRecords /\ con.console \in Seq(Glyph) /\ con.shell \in Seq(Glyph)
           /\ con.owned \in BOOLEAN /\ con.came \in BOOLEAN /\ con.missed \in BOOLEAN /\ con.got \in BOOLEAN
           /\ con.prev_gui \in BOOLEAN /\ con.pressed \in Nat
           /\ con.owned => con.came
           /\ con.program = "term" => ~con.owned /\ ~con.came /\ ~con.missed
           /\ con.got => con.pc \in {"console", "shell"}
           /\ Follows(temu, temu) /\ <<>> \in Seq(Glyph)
BY FollowsItself DEF ConsoleInv, ConOK, ConRecords

LEMMA SessionEndsKeeps ==
    ASSUME ConsoleInv, SessionEnds, con.pc \notin {"console", "shell"}, shown' = shown
    PROVE  ConsoleInv'
<1>1. con' = [Drawing("start") EXCEPT !.shell = <<>>] /\ temu' = Feed(temu, <<"nl", "m", "nl">>)
  BY DEF SessionEnds
<1>2. <<"nl", "m", "nl">> \in Seq(Glyph)
  BY DEF Glyph
<1>3. Follows(temu, temu')
  BY <1>1, <1>2, Parts, FeedFollows
<1>. DEFINE d == Drawing("start")
<1>6. /\ d \in ConRecords /\ d.pc \in {"check", "draw"} /\ d.program = con.program /\ d.got = con.got
      /\ d.owned = con.owned /\ d.came = con.came /\ d.missed = con.missed
  BY Parts, GotoIs
<1>7. con' = [d EXCEPT !.shell = <<>>]
  BY <1>1
<1>. HIDE DEF d
<1>4. /\ con' \in ConRecords /\ con'.pc \in {"check", "draw"} /\ con'.program = con.program /\ con'.got = con.got
      /\ con'.owned = con.owned /\ con'.came = con.came /\ con'.missed = con.missed
  BY <1>6, <1>7, Parts DEF ConRecords
<1>5. ConOK' /\ DirtyIsDrawn'
  BY <1>4, Parts DEF ConOK, DirtyIsDrawn, DrawsStill
<1>. QED
  BY <1>3, <1>4, <1>5, QuietStep

LEMMA SessionStartKeeps ==
    ASSUME ConsoleInv, SessionStart
    PROVE  ConsoleInv'
<1>1. /\ con' = [Drawing("poll") EXCEPT !.console = <<>>, !.prev_gui = FALSE, !.child = "running"]
      /\ temu' = MarkAllDirty(Feed(temu, con.console)) /\ shown' = shown /\ con.pc = "start"
  BY DEF SessionStart
<1>2. Follows(temu, Feed(temu, con.console))
  BY Parts, FeedFollows
<1>3. Follows(temu, temu')
  BY <1>1, <1>2, AllMarkedFollows DEF Follows
<1>. DEFINE d == Drawing("poll")
<1>6. /\ d \in ConRecords /\ d.pc \in {"check", "draw"} /\ d.program = con.program /\ d.got = con.got
      /\ d.owned = con.owned /\ d.came = con.came /\ d.missed = con.missed
  BY Parts, GotoIs
<1>7. con' = [d EXCEPT !.console = <<>>, !.prev_gui = FALSE, !.child = "running"]
  BY <1>1
<1>. HIDE DEF d
<1>4. /\ con' \in ConRecords /\ con'.pc \in {"check", "draw"} /\ con'.program = con.program /\ con'.got = con.got
      /\ con'.owned = con.owned /\ con'.came = con.came /\ con'.missed = con.missed
  BY <1>6, <1>7, Parts DEF ConRecords
<1>5. ConOK' /\ DirtyIsDrawn'
  BY <1>1, <1>4, Parts DEF ConOK, DirtyIsDrawn, DrawsStill
<1>. QED
  BY <1>1, <1>3, <1>4, <1>5, QuietStep

\* A server that left is noticed: all rows are drawn again, or missed remembers it.
LEMMA PollKeeps ==
    ASSUME ConsoleInv, Poll
    PROVE  ConsoleInv'
<1>. DEFINE k == IF Repaints THEN Drawing("console") ELSE Goto("console")
<1>1. /\ con' = [k EXCEPT !.prev_gui = con.owned, !.came = con.owned,
                          !.missed = k.missed \/ (con.came /\ ~con.owned /\ ~con.prev_gui)]
      /\ temu' = (IF Repaints THEN MarkAllDirty(temu) ELSE temu) /\ shown' = shown /\ con.pc = "poll"
  BY DEF Poll
<1>2. /\ k \in ConRecords /\ k.program = con.program /\ k.got = con.got /\ k.owned = con.owned /\ k.missed = con.missed
      /\ Repaints => k.pc \in {"check", "draw"}
      /\ ~Repaints => k.pc = "console"
  BY Parts, GotoIs
<1>. HIDE DEF k
<1>3. /\ con' \in ConRecords /\ con'.pc = k.pc /\ con'.program = con.program /\ con'.got = con.got
      /\ con'.owned = con.owned /\ con'.came = con.owned
      /\ con'.missed = (con.missed \/ (con.came /\ ~con.owned /\ ~con.prev_gui))
  BY <1>1, <1>2, Parts DEF ConRecords
<1>4. con.got = FALSE
  BY <1>1, Parts
<1>5. ConOK'
  BY <1>3, <1>4, Parts DEF ConOK
<1>6. CASE Repaints
  <2>1. temu' = MarkAllDirty(temu) /\ con'.pc \in {"check", "draw"}
    BY <1>1, <1>2, <1>3, <1>6
  <2>2. Follows(temu, temu') /\ temu'.dirty = TermRow
    BY <2>1, Parts, MarkFollows
  <2>3. DirtyIsDrawn'
    BY <2>1 DEF DirtyIsDrawn, DrawsStill
  <2>. QED
    BY <1>1, <1>3, <1>5, <2>2, <2>3, QuietStep
<1>7. CASE ~Repaints
  <2>1. temu' = temu /\ ~(con.prev_gui /\ ~con.owned)
    BY <1>1, <1>7 DEF Repaints
  <2>2. ~con'.came /\ ~con'.missed => ~con.came /\ ~con.missed
    BY <1>3, <2>1, Parts
  <2>3. ASSUME ~temu.moved PROVE DirtyIsDrawn'
    <3>1. DirtyIsDrawn
      BY <2>3 DEF ConsoleInv
    <3>2. ~DrawsStill
      BY <1>1, <1>4 DEF DrawsStill
    <3>. QED
      BY <2>1, <2>2, <3>1, <3>2 DEF DirtyIsDrawn
  <2>4. Follows(temu, temu')
    BY <2>1, Parts
  <2>. QED
    BY <1>1, <1>3, <1>5, <2>2, <2>3, <2>4, QuietStep
<1>. QED
  BY <1>6, <1>7

LEMMA ReadConsoleKeeps ==
    ASSUME ConsoleInv, ReadConsole
    PROVE  ConsoleInv'
<1>1. /\ temu' = Feed(temu, con.console) /\ shown' = shown /\ con.pc = "console"
      /\ con' = IF con.console = <<>> THEN Goto("shell") ELSE [con EXCEPT !.console = <<>>, !.got = TRUE]
  BY DEF ReadConsole
<1>2. Follows(temu, temu') /\ (con.console = <<>> => temu' = temu)
  BY <1>1, Parts, FeedFollows
<1>3. CASE con.console = <<>>
  <2>1. /\ con' \in ConRecords /\ con'.pc = "shell" /\ con'.program = con.program /\ con'.got = con.got
        /\ con'.owned = con.owned /\ con'.came = con.came /\ con'.missed = con.missed
    BY <1>1, <1>3, Parts, GotoIs
  <2>2. ConOK'
    BY <2>1, Parts DEF ConOK
  <2>3. ASSUME ~temu.moved PROVE DirtyIsDrawn'
    <3>1. DirtyIsDrawn
      BY <2>3 DEF ConsoleInv
    <3>. QED
      BY <1>1, <1>2, <1>3, <2>1, <3>1 DEF DirtyIsDrawn, DrawsStill
  <2>. QED
    BY <1>1, <1>2, <2>1, <2>2, <2>3, QuietStep
<1>4. CASE con.console # <<>>
  <2>1. /\ con' \in ConRecords /\ con'.pc = "console" /\ con'.program = con.program /\ con'.got
        /\ con'.owned = con.owned /\ con'.came = con.came /\ con'.missed = con.missed
    BY <1>1, <1>4, Parts DEF ConRecords
  <2>2. ConOK' /\ DirtyIsDrawn'
    BY <2>1, Parts DEF ConOK, DirtyIsDrawn, DrawsStill
  <2>. QED
    BY <1>1, <1>2, <2>1, <2>2, QuietStep
<1>. QED
  BY <1>3, <1>4

LEMMA ReadShellKeeps ==
    ASSUME ConsoleInv, ReadShell
    PROVE  ConsoleInv'
<1>. DEFINE k == IF con.got THEN Drawing("keys") ELSE Goto("keys")
<1>1. /\ temu' = Feed(temu, con.shell) /\ shown' = shown /\ con.pc = "shell"
      /\ con' = IF con.shell # <<>> THEN [con EXCEPT !.shell = <<>>, !.got = TRUE] ELSE [k EXCEPT !.got = FALSE]
  BY DEF ReadShell
<1>2. Follows(temu, temu') /\ (con.shell = <<>> => temu' = temu)
  BY <1>1, Parts, FeedFollows
<1>3. CASE con.shell = <<>>
  <2>1. /\ k \in ConRecords /\ k.program = con.program
        /\ k.owned = con.owned /\ k.came = con.came /\ k.missed = con.missed
        /\ con.got => k.pc \in {"check", "draw"}
    BY Parts, GotoIs
  <2>. HIDE DEF k
  <2>2. /\ con' \in ConRecords /\ con'.pc = k.pc /\ con'.program = con.program /\ con'.got = FALSE
        /\ con'.owned = con.owned /\ con'.came = con.came /\ con'.missed = con.missed
    BY <1>1, <1>3, <2>1 DEF ConRecords
  <2>3. ConOK'
    BY <2>2, Parts DEF ConOK
  <2>4. ASSUME ~temu.moved PROVE DirtyIsDrawn'
    <3>1. DirtyIsDrawn
      BY <2>4 DEF ConsoleInv
    <3>. QED
      BY <1>1, <1>2, <1>3, <2>1, <2>2, <3>1 DEF DirtyIsDrawn, DrawsStill
  <2>. QED
    BY <1>1, <1>2, <2>2, <2>3, <2>4, QuietStep
<1>4. CASE con.shell # <<>>
  <2>1. /\ con' \in ConRecords /\ con'.pc = "shell" /\ con'.program = con.program /\ con'.got
        /\ con'.owned = con.owned /\ con'.came = con.came /\ con'.missed = con.missed
    BY <1>1, <1>4, Parts DEF ConRecords
  <2>2. ConOK' /\ DirtyIsDrawn'
    BY <2>1, Parts DEF ConOK, DirtyIsDrawn, DrawsStill
  <2>. QED
    BY <1>1, <1>2, <2>1, <2>2, QuietStep
<1>. QED
  BY <1>3, <1>4

LEMMA ScrollKeeps ==
    ASSUME ConsoleInv, NEW up, Press(up)
    PROVE  ConsoleInv'
<1>1. /\ temu' = (IF up THEN ScrollUp(temu) ELSE ScrollDown(temu)) /\ shown' = shown /\ con.pc = "keys"
      /\ con' = [con EXCEPT !.pressed = con.pressed + 1]
  BY DEF Press
<1>2. Follows(temu, temu')
  BY <1>1, Parts, ScrollFollows
<1>3. /\ con' \in ConRecords /\ con'.pc = "keys" /\ con'.program = con.program /\ con'.got = con.got
      /\ con'.owned = con.owned /\ con'.came = con.came /\ con'.missed = con.missed /\ con'.pressed > 0
  BY <1>1, Parts DEF ConRecords
<1>4. ConOK' /\ DirtyIsDrawn'
  BY <1>1, <1>3, Parts DEF ConOK, DirtyIsDrawn, DrawsStill
<1>. QED
  BY <1>1, <1>2, <1>3, <1>4, QuietStep

LEMMA KeysReadKeeps ==
    ASSUME ConsoleInv, KeysRead
    PROVE  ConsoleInv'
<1>. DEFINE k == IF con.pressed > 0 THEN Drawing("yield") ELSE Goto("yield")
<1>1. /\ temu' = (IF con.pressed > 0 THEN MarkAllDirty(temu) ELSE temu) /\ shown' = shown /\ con.pc = "keys"
      /\ con' = [k EXCEPT !.pressed = 0]
  BY DEF KeysRead
<1>2. Follows(temu, temu')
  BY <1>1, Parts, MarkFollows
<1>3. /\ k \in ConRecords /\ k.program = con.program /\ k.got = con.got
      /\ k.owned = con.owned /\ k.came = con.came /\ k.missed = con.missed
      /\ con.pressed > 0 => k.pc \in {"check", "draw"}
  BY Parts, GotoIs
<1>. HIDE DEF k
<1>4. /\ con' \in ConRecords /\ con'.pc = k.pc /\ con'.program = con.program /\ con'.got = con.got
      /\ con'.owned = con.owned /\ con'.came = con.came /\ con'.missed = con.missed
  BY <1>1, <1>3 DEF ConRecords
<1>5. ConOK'
  BY <1>1, <1>4, Parts DEF ConOK
<1>6. ASSUME ~temu.moved PROVE DirtyIsDrawn'
  <2>1. DirtyIsDrawn
    BY <1>6 DEF ConsoleInv
  <2>. QED
    BY <1>1, <1>3, <1>4, <2>1, Parts DEF DirtyIsDrawn, DrawsStill
<1>. QED
  BY <1>1, <1>2, <1>4, <1>5, <1>6, QuietStep

LEMMA CloseKeeps ==
    ASSUME ConsoleInv, CloseEvent
    PROVE  ConsoleInv'
<1>1. temu' = temu /\ shown' = shown /\ con.pc = "keys" /\ con' = Goto("closed")
  BY DEF CloseEvent
<1>2. /\ con' \in ConRecords /\ con'.pc = "closed" /\ con'.program = con.program /\ con'.got = con.got
      /\ con'.owned = con.owned /\ con'.came = con.came /\ con'.missed = con.missed
  BY <1>1, Parts, GotoIs
<1>3. ConOK' /\ DirtyIsDrawn' /\ Follows(temu, temu')
  BY <1>1, <1>2, Parts DEF ConOK, DirtyIsDrawn, DrawsStill
<1>. QED
  BY <1>1, <1>2, <1>3, QuietStep

LEMMA YieldKeeps ==
    ASSUME ConsoleInv, Yield
    PROVE  ConsoleInv'
<1>1. shown' = shown /\ con.pc = "yield"
  BY DEF Yield
<1>2. SessionEnds \/ (temu' = temu /\ \E p \in {"poll", "shell", "closed"} : con' = Goto(p))
  <2>1. con.child \in {"running", "exited"} /\ con.program \in {"fbcon", "term"}
    BY Parts DEF ConRecords
  <2>. QED
    BY <2>1 DEF Yield
<1>3. CASE SessionEnds
  BY <1>1, <1>3, SessionEndsKeeps
<1>4. ASSUME temu' = temu, NEW p \in {"poll", "shell", "closed"}, con' = Goto(p) PROVE ConsoleInv'
  <2>1. /\ con' \in ConRecords /\ con'.pc = p /\ con'.program = con.program /\ con'.got = con.got
        /\ con'.owned = con.owned /\ con'.came = con.came /\ con'.missed = con.missed
    BY <1>4, Parts, GotoIs
  <2>2. ConOK' /\ Follows(temu, temu')
    BY <1>1, <1>4, <2>1, Parts DEF ConOK
  <2>3. ASSUME ~temu.moved PROVE DirtyIsDrawn'
    <3>1. DirtyIsDrawn
      BY <2>3 DEF ConsoleInv
    <3>. QED
      BY <1>1, <1>4, <2>1, <3>1, Parts DEF DirtyIsDrawn, DrawsStill
  <2>. QED
    BY <1>1, <2>1, <2>2, <2>3, QuietStep
<1>. QED
  BY <1>2, <1>3, <1>4

LEMMA CheckKeeps ==
    ASSUME ConsoleInv, RenderCheck
    PROVE  ConsoleInv'
<1>1. /\ temu' = temu /\ shown' = shown /\ con.pc = "check"
      /\ con' = IF con.owned THEN Goto(con.next) ELSE [con EXCEPT !.pc = "draw"]
  BY DEF RenderCheck
<1>2. con.next \in {"start", "poll", "console", "keys", "yield", "shell", "closed"} /\ con \in ConRecords
  BY Parts DEF ConRecords
<1>3. /\ con' \in ConRecords /\ con'.program = con.program /\ con'.got = con.got
      /\ con'.owned = con.owned /\ con'.came = con.came /\ con'.missed = con.missed
      /\ con.owned \/ con'.pc = "draw"
  <2>1. CASE con.owned
    <3>1. con' = Goto(con.next)
      BY <1>1, <2>1
    <3>. QED
      BY <1>2, <2>1, <3>1, GotoIs
  <2>2. CASE ~con.owned
    <3>1. con' = [con EXCEPT !.pc = "draw"]
      BY <1>1, <2>2
    <3>. QED
      BY <1>2, <3>1 DEF ConRecords
  <2>. QED
    BY <2>1, <2>2
<1>4. ConOK' /\ DirtyIsDrawn' /\ Follows(temu, temu')
  BY <1>1, <1>3, Parts DEF ConOK, DirtyIsDrawn, DrawsStill
<1>. QED
  BY <1>1, <1>3, <1>4, QuietStep

\* Nobody but the program touches the emulator.
LEMMA PrintsKeep ==
    ASSUME ConsoleInv, (\E text \in Texts : ShellPrints(text) \/ KernelPrints(text)) \/ ShellExits \/ ServerEnds
    PROVE  ConsoleInv'
<1>1. temu' = temu /\ shown' = shown
  BY DEF ShellPrints, KernelPrints, ShellExits, ServerEnds
<1>2. Texts \subseteq Seq(Glyph)
  <2>. SUFFICES ASSUME NEW text \in Texts PROVE text \in Seq(Glyph)
    OBVIOUS
  <2>1. text \in Seq(STRING)
    BY ConsoleAssumption
  <2>2. Len(text) \in Nat /\ text \in [1..Len(text) -> STRING]
    BY <2>1
  <2>3. STRING \subseteq Glyph
    BY DEF Glyph
  <2>4. text \in [1..Len(text) -> Glyph]
    BY <2>2, <2>3
  <2>. QED
    BY <2>2, <2>4
<1>3. /\ con' \in ConRecords /\ con'.pc = con.pc /\ con'.program = con.program /\ con'.got = con.got
      /\ con'.came = con.came /\ con'.missed = con.missed /\ con'.pressed = con.pressed
      /\ con'.owned => con.owned
  <2>1. con \in ConRecords
    BY Parts
  <2>2. ASSUME NEW text \in Texts, ShellPrints(text) \/ KernelPrints(text)
        PROVE  /\ con' \in ConRecords /\ con'.pc = con.pc /\ con'.program = con.program /\ con'.got = con.got
               /\ con'.came = con.came /\ con'.missed = con.missed /\ con'.pressed = con.pressed
               /\ con'.owned => con.owned
    <3>1. text \in Seq(Glyph) /\ con' \in {[con EXCEPT !.shell = text], [con EXCEPT !.console = text]}
      BY <1>2, <2>2 DEF ShellPrints, KernelPrints
    <3>. QED
      BY <2>1, <3>1 DEF ConRecords
  <2>3. ASSUME ShellExits \/ ServerEnds
        PROVE  /\ con' \in ConRecords /\ con'.pc = con.pc /\ con'.program = con.program /\ con'.got = con.got
               /\ con'.came = con.came /\ con'.missed = con.missed /\ con'.pressed = con.pressed
               /\ con'.owned => con.owned
    <3>1. con' \in {[con EXCEPT !.child = "exited"], [con EXCEPT !.owned = FALSE]}
      BY <2>3 DEF ShellExits, ServerEnds
    <3>. QED
      BY <2>1, <3>1 DEF ConRecords
  <2>. QED
    BY <2>2, <2>3
<1>4. ConOK' /\ Follows(temu, temu')
  BY <1>1, <1>3, Parts DEF ConOK
<1>5. ASSUME ~temu.moved PROVE DirtyIsDrawn'
  <2>1. DirtyIsDrawn
    BY <1>5 DEF ConsoleInv
  <2>. QED
    BY <1>1, <1>3, <2>1 DEF DirtyIsDrawn, DrawsStill
<1>. QED
  BY <1>1, <1>3, <1>4, <1>5, QuietStep

\* The server paints over the rows, but not over the shadow.
LEMMA ServerKeeps ==
    ASSUME ConsoleInv, ServerStarts
    PROVE  ConsoleInv'
<1>1. /\ con.program = "fbcon" /\ con' = [con EXCEPT !.owned = TRUE, !.came = TRUE] /\ temu' = temu
      /\ shown' = [shown EXCEPT !.screen = [r \in TermRow |-> OnScreen(Filled("gui"), {})]]
  BY DEF ServerStarts
<1>2. /\ con' \in ConRecords /\ con'.pc = con.pc /\ con'.program = con.program /\ con'.got = con.got /\ con'.came
  BY <1>1, Parts DEF ConRecords
<1>3. ConOK' /\ DirtyIsDrawn' /\ TermOK(temu')
  BY <1>1, <1>2, Parts DEF ConOK, DirtyIsDrawn
<1>4. ASSUME ~temu'.moved PROVE ScreenType' /\ ScreenFresh'
  <2>1. ScreenType /\ ScreenFresh
    BY <1>1, <1>4 DEF ConsoleInv
  <2>2. [r \in TermRow |-> OnScreen(Filled("gui"), {})] \in [TermRow -> ShownRow]
    BY DEF ShownRow, OnScreen, Filled, TextLine, Glyph
  <2>3. ScreenType' /\ shown'.shadow = shown.shadow
    BY <1>1, <2>1, <2>2 DEF ScreenType
  <2>4. ScreenFresh'
    BY <1>1, <1>2, <2>1, <2>3 DEF ScreenFresh, RowFresh
  <2>. QED
    BY <2>3, <2>4
<1>. QED
  BY <1>3, <1>4 DEF ConsoleInv

\* After a drawing each row that was drawn, and with fbcon each row of the shadow, is as
\* it should be.
LEMMA FbconDraws ==
    ASSUME TermOK(temu), ~temu.moved, ScreenType, temu.dirty # {},
           NEW new, new = FbconDrawn,
           \A r \in TermRow : r \notin temu.dirty => RowFresh(shown.shadow[r], r)
    PROVE  /\ new \in [screen : [TermRow -> ShownRow], shadow : [TermRow -> ShownRow]]
           /\ \A r \in TermRow : RowFresh(new.shadow[r], r)
           /\ \A r \in TermRow : r \in temu.dirty => new.screen[r] = new.shadow[r]
           /\ \A r \in TermRow : r \notin temu.dirty => new.screen[r] \in {new.shadow[r], shown.screen[r]}
<1>. DEFINE rows == [r \in TermRow |-> IF r \in temu.dirty THEN OnScreen(VisibleRow(temu, r), {}) ELSE shown.shadow[r]]
            span == temu.dirty \cup (IF temu.scroll_offset = 0 THEN {temu.cur_row} ELSE {})
            shadow == [rows EXCEPT ![temu.cur_row].marks = rows[temu.cur_row].marks \cup CursorMarks(temu)]
            screen == [r \in TermRow |-> IF r \in Min(span) .. Max(span) THEN shadow[r] ELSE shown.screen[r]]
<1>1. temu \in TermRecords /\ temu.cur_row \in TermRow /\ temu.dirty \subseteq TermRow
  BY DEF TermOK, TermRecords
<1>2. new = [shadow |-> shadow, screen |-> screen]
  BY DEF FbconDrawn
<1>3. \A r \in TermRow : VisibleRow(temu, r) = LineInView(temu, r) /\ LineInView(temu, r) \in TextLine
  BY VisibleRowIs
<1>4. shown.screen \in [TermRow -> ShownRow] /\ shown.shadow \in [TermRow -> ShownRow]
  BY DEF ScreenType
<1>5. ASSUME NEW r \in TermRow PROVE rows[r] \in ShownRow /\ RowFresh(rows[r], r)
  <2>1. CASE r \in temu.dirty
    <3>1. rows[r] = OnScreen(LineInView(temu, r), {})
      BY <1>3, <2>1
    <3>. HIDE DEF rows
    <3>. QED
      BY <1>3, <3>1 DEF OnScreen, ShownRow, RowFresh
  <2>2. CASE r \notin temu.dirty
    <3>1. rows[r] = shown.shadow[r]
      BY <2>2
    <3>. HIDE DEF rows
    <3>. QED
      BY <1>4, <2>2, <3>1
  <2>. QED
    BY <2>1, <2>2
<1>6. DOMAIN rows = TermRow
  OBVIOUS
<1>. HIDE DEF rows
<1>7. CursorMarks(temu) \subseteq Col /\ Marks(temu, temu.cur_row) = CursorMarks(temu)
  <2>1. temu.cur_col \in 0..Cols
    BY <1>1 DEF TermRecords
  <2>. QED
    BY <2>1, Sizes DEF CursorMarks, Col, Marks
<1>8. /\ DOMAIN shadow = TermRow
      /\ \A r \in TermRow : shadow[r] \in ShownRow /\ RowFresh(shadow[r], r)
  <2>1. DOMAIN shadow = TermRow
    BY <1>6
  <2>2. ASSUME NEW r \in TermRow PROVE shadow[r] \in ShownRow /\ RowFresh(shadow[r], r)
    <3>1. CASE r = temu.cur_row
      <4>1. shadow[r] = [rows[r] EXCEPT !.marks = rows[r].marks \cup CursorMarks(temu)]
        BY <1>6, <3>1
      <4>2. shadow[r] \in ShownRow /\ shadow[r].text = rows[r].text /\ shadow[r].marks = rows[r].marks \cup CursorMarks(temu)
        <5>1. rows[r] \in ShownRow
          BY <1>5
        <5>. HIDE DEF shadow
        <5>. QED
          BY <1>7, <4>1, <5>1 DEF ShownRow
      <4>. HIDE DEF shadow
      <4>. QED
        BY <1>5, <1>7, <3>1, <4>2 DEF RowFresh
    <3>2. CASE r # temu.cur_row
      <4>1. shadow[r] = rows[r]
        BY <1>6, <3>2
      <4>. HIDE DEF shadow
      <4>. QED
        BY <1>5, <4>1
    <3>. QED
      BY <3>1, <3>2
  <2>. QED
    BY <2>1, <2>2
<1>10. shadow \in [TermRow -> ShownRow]
  <2>1. shadow = [r \in TermRow |-> shadow[r]]
    BY <1>6
  <2>. HIDE DEF shadow
  <2>. QED
    BY <1>8, <2>1
<1>. HIDE DEF shadow
<1>9. ASSUME NEW r \in temu.dirty PROVE r \in Min(span) .. Max(span)
  <2>1. r \in span /\ span \subseteq 0..(TermRows - 1) /\ TermRows - 1 \in Nat
    BY <1>1, Sizes DEF TermRow
  <2>. HIDE DEF span
  <2>. QED
    BY <2>1, SpanIs
<1>. HIDE DEF span
<1>11. screen \in [TermRow -> ShownRow]
  BY <1>4, <1>8
<1>12. /\ \A r \in TermRow : r \in temu.dirty => screen[r] = shadow[r]
       /\ \A r \in TermRow : r \notin temu.dirty => screen[r] \in {shadow[r], shown.screen[r]}
  BY <1>9
<1>. HIDE DEF screen
<1>13. new.shadow = shadow /\ new.screen = screen
  BY <1>2
<1>. QED
  BY <1>2, <1>8, <1>10, <1>11, <1>12, <1>13

LEMMA TermDraws ==
    ASSUME TermOK(temu), ~temu.moved, ScreenType,
           NEW new, new = TermDrawn
    PROVE  /\ new \in [screen : [TermRow -> ShownRow], shadow : [TermRow -> ShownRow]]
           /\ new.shadow = shown.shadow
           /\ \A r \in TermRow : r \in temu.dirty => RowFresh(new.screen[r], r)
           /\ \A r \in TermRow : r \notin temu.dirty => new.screen[r] = shown.screen[r]
<1>. DEFINE row(r) == OnScreen(VisibleRow(temu, r), IF r = temu.cur_row THEN CursorMarks(temu) ELSE {})
            screen == [r \in TermRow |-> IF r \notin temu.dirty THEN shown.screen[r] ELSE row(r)]
<1>1. temu \in TermRecords /\ temu.cur_row \in TermRow /\ temu.dirty \subseteq TermRow
  BY DEF TermOK, TermRecords
<1>2. new = [shown EXCEPT !.screen = screen]
  BY DEF TermDrawn
<1>3. \A r \in TermRow : VisibleRow(temu, r) = LineInView(temu, r) /\ LineInView(temu, r) \in TextLine
  BY VisibleRowIs
<1>4. shown.screen \in [TermRow -> ShownRow]
  BY DEF ScreenType
<1>5. ASSUME NEW r \in TermRow PROVE row(r) \in ShownRow /\ RowFresh(row(r), r)
  <2>1. temu.cur_col \in 0..Cols
    BY <1>1 DEF TermRecords
  <2>2. CursorMarks(temu) \subseteq Col
    BY <2>1, Sizes DEF CursorMarks, Col
  <2>3. row(r).text = LineInView(temu, r) /\ row(r).marks = Marks(temu, r)
    BY <1>3 DEF OnScreen, Marks
  <2>4. row(r) \in ShownRow
    BY <1>3, <2>2 DEF OnScreen, ShownRow
  <2>. QED
    BY <2>3, <2>4 DEF RowFresh
<1>. HIDE DEF row
<1>6. screen \in [TermRow -> ShownRow]
  BY <1>4, <1>5
<1>7. /\ \A r \in TermRow : r \in temu.dirty => RowFresh(screen[r], r)
      /\ \A r \in TermRow : r \notin temu.dirty => screen[r] = shown.screen[r]
  BY <1>5
<1>. HIDE DEF screen
<1>8. new \in [screen : [TermRow -> ShownRow], shadow : [TermRow -> ShownRow]] /\ new.shadow = shown.shadow /\ new.screen = screen
  BY <1>2, <1>6 DEF ScreenType
<1>. QED
  BY <1>7, <1>8

\* A drawing leaves no row dirty, and no row stale.
LEMMA RenderKeeps ==
    ASSUME ConsoleInv, Render
    PROVE  ConsoleInv'
<1>. DEFINE k == Goto(con.next)
<1>1. /\ con.pc = "draw" /\ temu' = [temu EXCEPT !.dirty = {}]
      /\ con' = [k EXCEPT !.missed = k.missed /\ temu.dirty # TermRow]
      /\ shown' = IF temu.dirty = {} THEN shown ELSE IF con.program = "fbcon" THEN FbconDrawn ELSE TermDrawn
  BY DEF Render
<1>2. con.next \in {"start", "poll", "console", "keys", "yield", "shell", "closed"}
  BY Parts DEF ConRecords
<1>3. /\ k \in ConRecords /\ k.program = con.program /\ k.got = con.got
      /\ k.owned = con.owned /\ k.came = con.came /\ k.missed = con.missed
  BY <1>2, Parts, GotoIs
<1>. HIDE DEF k
<1>4. /\ con' \in ConRecords /\ con'.program = con.program /\ con'.got = con.got
      /\ con'.owned = con.owned /\ con'.came = con.came /\ con'.missed = (con.missed /\ temu.dirty # TermRow)
  BY <1>1, <1>3, Parts DEF ConRecords
<1>5. ConOK'
  BY <1>1, <1>4, Parts DEF ConOK
<1>6. /\ temu' \in TermRecords /\ temu'.sb = temu.sb /\ temu'.sb_head = temu.sb_head /\ temu'.sb_count = temu.sb_count
      /\ temu'.cur_row = temu.cur_row /\ temu'.scroll_offset = temu.scroll_offset /\ temu'.paper = temu.paper
      /\ temu'.moved = temu.moved /\ temu'.dirty = {} /\ temu'.cur_col = temu.cur_col
  BY <1>1, Parts DEF TermOK, TermRecords
<1>7. TermOK(temu')
  BY <1>6, Parts DEF TermOK, RingHolds, AtBottom
<1>8. ASSUME NEW r \in TermRow PROVE LineInView(temu', r) = LineInView(temu, r) /\ Marks(temu', r) = Marks(temu, r)
  BY <1>6 DEF LineInView, Marks, CursorMarks
<1>9. \A r \in TermRow : \A x : RowFresh(x, r) => x.text = LineInView(temu', r) /\ x.marks \subseteq Marks(temu', r)
  BY <1>8 DEF RowFresh
<1>10. DirtyIsDrawn'
  BY <1>6 DEF DirtyIsDrawn
<1>11. ASSUME ~temu'.moved
       PROVE  /\ ScreenType'
              /\ \A r \in TermRow :
                    /\ con.program = "fbcon" => RowFresh(shown'.shadow[r], r)
                    /\ ~con'.came /\ ~con'.missed => RowFresh(shown'.screen[r], r)
  <2>1. ~temu.moved /\ ScreenType /\ ScreenFresh /\ TermOK(temu)
    BY <1>6, <1>11, Parts DEF ConsoleInv
  <2>2. CASE temu.dirty = {}
    <3>1. shown' = shown /\ TermRow # {}
      <4>1. 0 \in TermRow
        BY Sizes DEF TermRow
      <4>. QED
        BY <1>1, <2>2, <4>1
    <3>2. con'.missed = con.missed
      BY <1>4, <2>2, <3>1, Parts
    <3>. QED
      BY <1>4, <2>1, <2>2, <3>1, <3>2 DEF ScreenFresh, ScreenType
  <2>3. CASE temu.dirty # {} /\ con.program = "fbcon"
    <3>1. shown' = FbconDrawn
      BY <1>1, <2>3
    <3>2. \A r \in TermRow : r \notin temu.dirty => RowFresh(shown.shadow[r], r)
      BY <2>1, <2>3 DEF ScreenFresh
    <3>3. /\ shown' \in [screen : [TermRow -> ShownRow], shadow : [TermRow -> ShownRow]]
          /\ \A r \in TermRow : RowFresh(shown'.shadow[r], r)
          /\ \A r \in TermRow : r \in temu.dirty => shown'.screen[r] = shown'.shadow[r]
          /\ \A r \in TermRow : r \notin temu.dirty => shown'.screen[r] \in {shown'.shadow[r], shown.screen[r]}
      BY <2>1, <2>3, <3>1, <3>2, FbconDraws
    <3>4. ASSUME NEW r \in TermRow, ~con'.came, ~con'.missed PROVE RowFresh(shown'.screen[r], r)
      <4>1. CASE r \in temu.dirty
        BY <3>3, <4>1
      <4>2. CASE r \notin temu.dirty
        <5>1. ~con.came /\ ~con.missed
          BY <1>4, <3>4, <4>2
        <5>2. RowFresh(shown.screen[r], r)
          BY <2>1, <4>2, <5>1 DEF ScreenFresh
        <5>. QED
          BY <3>3, <4>2, <5>2
      <4>. QED
        BY <4>1, <4>2
    <3>. QED
      BY <3>3, <3>4 DEF ScreenType
  <2>4. CASE temu.dirty # {} /\ con.program # "fbcon"
    <3>1. shown' = TermDrawn
      BY <1>1, <2>4
    <3>2. /\ shown' \in [screen : [TermRow -> ShownRow], shadow : [TermRow -> ShownRow]]
          /\ \A r \in TermRow : r \in temu.dirty => RowFresh(shown'.screen[r], r)
          /\ \A r \in TermRow : r \notin temu.dirty => shown'.screen[r] = shown.screen[r]
      BY <2>1, <3>1, TermDraws
    <3>3. ASSUME NEW r \in TermRow, ~con'.came, ~con'.missed PROVE RowFresh(shown'.screen[r], r)
      <4>1. CASE r \in temu.dirty
        BY <3>2, <4>1
      <4>2. CASE r \notin temu.dirty
        <5>1. ~con.came /\ ~con.missed
          BY <1>4, <3>3, <4>2
        <5>2. RowFresh(shown.screen[r], r)
          BY <2>1, <4>2, <5>1 DEF ScreenFresh
        <5>. QED
          BY <3>2, <4>2, <5>2
      <4>. QED
        BY <4>1, <4>2
    <3>. QED
      BY <2>4, <3>2, <3>3 DEF ScreenType
  <2>. QED
    BY <2>2, <2>3, <2>4
<1>12. ASSUME ~temu'.moved PROVE ScreenFresh'
  BY <1>4, <1>9, <1>11, <1>12 DEF ScreenFresh, RowFresh
<1>. QED
  BY <1>5, <1>7, <1>10, <1>11, <1>12 DEF ConsoleInv

\* At the start.
LEMMA ConsoleStarts ==
    ASSUME ConsoleInit
    PROVE  ConsoleInv
<1>1. /\ temu = TermemuInit /\ con \in {Program("fbcon", "start"), Program("term", "shell")}
      /\ shown = [screen |-> [r \in TermRow |-> OnScreen(EmptyLine, {})], shadow |-> [r \in TermRow |-> OnScreen(EmptyLine, {})]]
  BY DEF ConsoleInit
<1>2. EmptyLine \in TextLine
  BY DEF EmptyLine, Filled, TextLine, Glyph
<1>3. /\ temu.sb = [i \in 0..(SbLines - 1) |-> EmptyLine] /\ temu.sb_head = 0 /\ temu.sb_count = 1 /\ temu.cur_col = 0
      /\ temu.cur_row = 0 /\ temu.scroll_offset = 0 /\ temu.dirty = {} /\ temu.esc = 0 /\ temu.csi_param = 0
      /\ temu.paper = <<EmptyLine>> /\ temu.moved = FALSE
  BY <1>1 DEF TermemuInit
<1>4. 0 \in 0..(SbLines - 1) /\ 1 \in 1..SbLines /\ 0 \in 0..Cols /\ 0 \in TermRow /\ 0 \in 0..SbLines
  BY Sizes DEF TermRow
<1>5. temu \in TermRecords
  <2>1. <<EmptyLine>> \in Seq(TextLine)
    BY <1>2
  <2>2. [i \in 0..(SbLines - 1) |-> EmptyLine] \in [0..(SbLines - 1) -> TextLine]
    BY <1>2
  <2>. HIDE DEF TextLine
  <2>. QED
    BY <1>1, <1>4, <2>1, <2>2 DEF TermemuInit, TermRecords
<1>6. RingHolds(temu)
  <2>. SUFFICES ASSUME NEW i \in 0..(temu.sb_count - 1)
                PROVE  temu.sb[Wrap(temu.sb_head + i, SbLines)] = temu.paper[i + 1]
    BY DEF RingHolds
  <2>1. i = 0
    BY <1>3
  <2>2. Wrap(temu.sb_head + i, SbLines) \in 0..(SbLines - 1)
    BY <1>3, <1>4, <2>1, CellIs
  <2>3. temu.paper[i + 1] = EmptyLine
    BY <1>3, <2>1
  <2>. QED
    BY <1>3, <2>2, <2>3
<1>7. AtBottom(temu)
  BY <1>3, Sizes DEF AtBottom, LessOf, AtLeast0
<1>8. TermOK(temu)
  <2>1. Len(<<EmptyLine>>) = 1
    OBVIOUS
  <2>. QED
    BY <1>3, <1>5, <1>6, <1>7, <2>1 DEF TermOK
<1>9. ConOK
  <2>1. <<>> \in Seq(Glyph)
    OBVIOUS
  <2>2. con \in ConRecords
    <3>1. ASSUME NEW name \in {"fbcon", "term"}, NEW pc \in {"start", "shell"} PROVE Program(name, pc) \in ConRecords
      BY <2>1 DEF Program, ConRecords
    <3>. QED
      BY <1>1, <3>1
  <2>3. con.owned = FALSE /\ con.came = FALSE /\ con.missed = FALSE /\ con.got = FALSE
    BY <1>1 DEF Program
  <2>. QED
    BY <2>2, <2>3 DEF ConOK
<1>10. ScreenType
  BY <1>1, <1>2 DEF ScreenType, ShownRow, OnScreen
<1>11. ScreenFresh
  <2>1. ASSUME NEW r \in TermRow PROVE LineInView(temu, r) = EmptyLine
    <3>1. r \in Nat /\ AtLeast0(temu.sb_count - TermRows - temu.scroll_offset) = 0
      BY <1>3, Sizes DEF TermRow, AtLeast0
    <3>2. CASE r >= temu.sb_count
      BY <3>2 DEF LineInView
    <3>3. CASE ~(r >= temu.sb_count)
      <4>1. r = 0
        BY <1>3, <3>1, <3>3
      <4>. QED
        BY <1>3, <3>1, <3>3, <4>1 DEF LineInView
    <3>. QED
      BY <3>2, <3>3
  <2>. QED
    BY <1>1, <2>1 DEF ScreenFresh, RowFresh, OnScreen
<1>12. DirtyIsDrawn
  BY <1>3 DEF DirtyIsDrawn
<1>. QED
  BY <1>8, <1>9, <1>10, <1>11, <1>12 DEF ConsoleInv

\* The invariant holds all the time.
LEMMA ConsoleInvHolds == ConsoleSpec => []ConsoleInv
<1>1. ConsoleInit => ConsoleInv
  BY ConsoleStarts
<1>2. ASSUME ConsoleInv, ConsoleStep \/ ConsoleEvent PROVE ConsoleInv'
  <2>1. CASE SessionFails
    BY <1>2, <2>1, SessionEndsKeeps DEF SessionFails
  <2>2. CASE SessionStart
    BY <1>2, <2>2, SessionStartKeeps
  <2>3. CASE Poll
    BY <1>2, <2>3, PollKeeps
  <2>4. CASE ReadConsole
    BY <1>2, <2>4, ReadConsoleKeeps
  <2>5. CASE ReadShell
    BY <1>2, <2>5, ReadShellKeeps
  <2>6. CASE \E up \in BOOLEAN : Press(up)
    BY <1>2, <2>6, ScrollKeeps
  <2>7. CASE KeysRead
    BY <1>2, <2>7, KeysReadKeeps
  <2>8. CASE CloseEvent
    BY <1>2, <2>8, CloseKeeps
  <2>9. CASE Yield
    BY <1>2, <2>9, YieldKeeps
  <2>10. CASE RenderCheck
    BY <1>2, <2>10, CheckKeeps
  <2>11. CASE Render
    BY <1>2, <2>11, RenderKeeps
  <2>12. CASE (\E text \in Texts : ShellPrints(text) \/ KernelPrints(text)) \/ ShellExits \/ ServerEnds
    BY <1>2, <2>12, PrintsKeep
  <2>13. CASE ServerStarts
    BY <1>2, <2>13, ServerKeeps
  <2>. QED
    BY <1>2, <2>1, <2>2, <2>3, <2>4, <2>5, <2>6, <2>7, <2>8, <2>9, <2>10, <2>11, <2>12, <2>13 DEF ConsoleStep, ConsoleEvent
<1>3. ASSUME ConsoleInv, UNCHANGED consoleVars PROVE ConsoleInv'
  BY <1>3 DEF consoleVars, ConsoleInv, ConOK, ScreenType, ScreenFresh, RowFresh, DirtyIsDrawn, DrawsStill
<1>. QED
  BY <1>1, <1>2, <1>3, PTL DEF ConsoleSpec

\* For any size of the terminal and of its ring of lines, any texts and any comings and
\* goings of the window server: when a pass of the loop of fbcon or term is over the rows
\* on the screen are the lines printed last, or those the user scrolled to.
THEOREM ScreenShowsPaper == ConsoleSpec => []ConsoleCurrent
<1>1. ASSUME ConsoleInv PROVE ConsoleCurrent
  <2>. SUFFICES ASSUME con.pc \in {"poll", "yield"}, ~con.owned, ~con.came, ~con.missed, ~temu.moved, NEW r \in TermRow
                PROVE  /\ shown.screen[r].text = PaperRow(r)
                       /\ shown.screen[r].marks \subseteq IF r = CursorRow THEN CursorMarks(temu) ELSE {}
    BY DEF ConsoleCurrent
  <2>1. TermOK(temu) /\ ScreenFresh /\ DirtyIsDrawn /\ RingHolds(temu) /\ AtBottom(temu)
    BY <1>1 DEF ConsoleInv, TermOK
  <2>2. temu.dirty = {}
    <3>1. ~con.got
      BY <1>1, Parts
    <3>. QED
      BY <2>1, <3>1 DEF DirtyIsDrawn, DrawsStill
  <2>3. shown.screen[r].text = LineInView(temu, r) /\ shown.screen[r].marks \subseteq Marks(temu, r)
    BY <2>1, <2>2 DEF ScreenFresh, RowFresh
  <2>4. Len(temu.paper) = temu.sb_count /\ temu.sb_count \in 1..SbLines /\ temu.scroll_offset \in Nat
    BY <2>1 DEF TermOK, TermRecords
  <2>5. LineInView(temu, r) = PaperRow(r)
    <3>1. temu.sb_count - TermRows - temu.scroll_offset \in Int
      BY <2>4, Sizes
    <3>2. Max({0, temu.sb_count - TermRows - temu.scroll_offset}) = AtLeast0(temu.sb_count - TermRows - temu.scroll_offset)
      BY <3>1, MaxOfTwo DEF AtLeast0
    <3>. QED
      BY <2>4, <3>2 DEF LineInView, PaperRow
  <2>6. CursorRow = temu.cur_row
    <3>1. Min({temu.sb_count, TermRows}) = LessOf(temu.sb_count, TermRows)
      BY <2>4, Sizes, MinOfTwo DEF LessOf
    <3>. QED
      BY <2>1, <2>4, <3>1 DEF CursorRow, AtBottom
  <2>. QED
    BY <2>3, <2>5, <2>6 DEF Marks
<1>. QED
  BY <1>1, ConsoleInvHolds, PTL

=============================================================================
