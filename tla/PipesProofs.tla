---------------------------- MODULE PipesProofs ----------------------------
(***************************************************************************)
(* Proofs about Pipes, for any number of tasks, descriptors and slots that *)
(* the counts of the code have room for: the reference counts are those of *)
(* the open descriptors, so that no descriptor and no blocked call loses   *)
(* its pipe, and the end of a pipe is reported when it is one.             *)
(***************************************************************************)
EXTENDS Pipes, PipeRing, SeqLemmas, FiniteSetTheorems

\* read_refs and write_refs are of type uint8_t: they must have room for all
\* descriptors, those of a child a fork is counting for, and the kernel's own.
CountsFit ==
    /\ IsFiniteSet(Proc)
    /\ Cardinality(Proc \X Fd) + NFd + 2 <= RefMod

Thing == Node \cup {File, Null}

Count == 0 .. RefMod - 1

Entry == [read_node : Node \cup {Null}, write_node : Node \cup {Null},
          read_refs : Count, write_refs : Count]

Ends(e) == {e.read_node, e.write_node}

Loops == {NoLoop} \cup [op : {"bump", "undo", "close"}, proc : Proc, fd : 0 .. NFd]

\* The references to n that descriptors F and the loop L account for.
OpenIn(F, n) == {x \in Proc \X Fd : F[x[1]][x[2]] = n}

PromisedIn(F, L, n) ==
    IF L.op = "bump" THEN {f \in 0 .. L.fd - 1 : F[L.proc][f] = n}
    ELSE IF L.op = "undo" THEN {f \in L.fd .. NFd - 1 : F[L.proc][f] = n}
    ELSE {}

Refs(F, L, n) == Cardinality(OpenIn(F, n)) + Cardinality(PromisedIn(F, L, n))

\* The counts of a pipe are right, or it is one that sys_pipe could not give
\* descriptors to, which nobody will ever open.
Fits(r, e, k) == e.read_refs = r[e.read_node] + k /\ e.write_refs = r[e.write_node] + k

Orphaned(r, e) == r[e.read_node] = 0 /\ r[e.write_node] = 0

\* r is the number of references there should be to each node.
CountInv(r, T) ==
    /\ r \in [Node -> 0 .. RefMod - 2]
    /\ T \in [Slot -> Entry]
    /\ T[ConsoleSlot].read_node = ConsoleRead /\ T[ConsoleSlot].write_node = ConsoleWrite
    /\ \A s \in Slot : T[s] # NoPipe =>
          T[s].read_node \in Node /\ T[s].write_node \in Node /\ T[s].read_node # T[s].write_node
    /\ \A s, t \in Slot : \A n \in Node : s \in Owners(T, n) /\ t \in Owners(T, n) => s = t
    /\ \A s \in Slot : T[s] # NoPipe =>
          Fits(r, T[s], OfKernel(s)) \/ (s # ConsoleSlot /\ Orphaned(r, T[s]))
    /\ \A n \in Node : r[n] > 0 => Owners(T, n) # {}

-----------------------------------------------------------------------------
(* The table.                                                              *)

LEMMA Constants ==
    /\ ConsoleSlot \in Slot /\ RefMod \in Nat /\ RefMod > 1
    /\ ConsoleRead \in Node /\ ConsoleWrite \in Node /\ ConsoleRead # ConsoleWrite
    /\ File \notin Node /\ Null \notin Node /\ File # Null
    /\ NFd \in Nat /\ NStd \in 0 .. NFd
BY NSlotAssumption, RefModAssumption, NodeAssumption, FdAssumption DEF ConsoleSlot, Slot

LEMMA OwnersAre ==
    ASSUME NEW T, NEW n, NEW s
    PROVE  s \in Owners(T, n) <=> s \in Slot /\ T[s] # NoPipe /\ n \in Ends(T[s])
BY DEF Owners, InUse, Ends

\* What a change of one count leaves of an entry.
LEMMA RecountedIs ==
    ASSUME NEW e \in Entry, NEW n
    PROVE  /\ Recounted(e, n, Lowered) =
                [e EXCEPT !.read_refs = IF n = e.read_node THEN Lowered(e.read_refs) ELSE @,
                          !.write_refs = IF n = e.read_node THEN @ ELSE Lowered(e.write_refs)]
           /\ Recounted(e, n, Raised) =
                [e EXCEPT !.read_refs = IF n = e.read_node THEN Raised(e.read_refs) ELSE @,
                          !.write_refs = IF n = e.read_node THEN @ ELSE Raised(e.write_refs)]
BY DEF Recounted, Lowered, Raised, Entry

LEMMA LoweredSlot ==
    ASSUME NEW T \in [Slot -> Entry], NEW n, NEW s \in Slot
    PROVE  /\ s \notin Owners(T, n) => NotifyClose(T, n)[s] = T[s]
           /\ s \in Owners(T, n) =>
                \E e \in Entry :
                   /\ e.read_node = T[s].read_node /\ e.write_node = T[s].write_node
                   /\ e.read_refs = IF n = T[s].read_node THEN Lowered(T[s].read_refs) ELSE T[s].read_refs
                   /\ e.write_refs = IF n = T[s].read_node THEN T[s].write_refs ELSE Lowered(T[s].write_refs)
                   /\ NotifyClose(T, n)[s] = IF e.read_refs = 0 /\ e.write_refs = 0 THEN NoPipe ELSE e
<1>1. s \notin Owners(T, n) => NotifyClose(T, n)[s] = T[s]
  BY DEF NotifyClose
<1>2. ASSUME s \in Owners(T, n)
      PROVE  \E e \in Entry :
                /\ e.read_node = T[s].read_node /\ e.write_node = T[s].write_node
                /\ e.read_refs = IF n = T[s].read_node THEN Lowered(T[s].read_refs) ELSE T[s].read_refs
                /\ e.write_refs = IF n = T[s].read_node THEN T[s].write_refs ELSE Lowered(T[s].write_refs)
                /\ NotifyClose(T, n)[s] = IF e.read_refs = 0 /\ e.write_refs = 0 THEN NoPipe ELSE e
  <2>. DEFINE e == Recounted(T[s], n, Lowered)
  <2>1. T[s] \in Entry
    OBVIOUS
  <2>2. NotifyClose(T, n)[s] = Kept(e)
    BY <1>2 DEF NotifyClose
  <2>3. e = [T[s] EXCEPT !.read_refs = IF n = T[s].read_node THEN Lowered(T[s].read_refs) ELSE @,
                         !.write_refs = IF n = T[s].read_node THEN @ ELSE Lowered(T[s].write_refs)]
    BY <2>1, RecountedIs
  <2>4. \A c \in Count : Lowered(c) \in Count
    BY Constants DEF Lowered, Count
  <2>. HIDE DEF e
  <2>5. /\ e \in Entry
        /\ e.read_node = T[s].read_node /\ e.write_node = T[s].write_node
        /\ e.read_refs = IF n = T[s].read_node THEN Lowered(T[s].read_refs) ELSE T[s].read_refs
        /\ e.write_refs = IF n = T[s].read_node THEN T[s].write_refs ELSE Lowered(T[s].write_refs)
    BY <2>1, <2>3, <2>4 DEF Entry
  <2>. QED
    BY <2>2, <2>5 DEF Kept
<1>. QED
  BY <1>1, <1>2

LEMMA RaisedSlot ==
    ASSUME NEW T \in [Slot -> Entry], NEW n, NEW s \in Slot
    PROVE  /\ s \notin Owners(T, n) => ForkFd(T, n)[s] = T[s]
           /\ s \in Owners(T, n) =>
                /\ ForkFd(T, n)[s] \in Entry
                /\ ForkFd(T, n)[s].read_node = T[s].read_node
                /\ ForkFd(T, n)[s].write_node = T[s].write_node
                /\ ForkFd(T, n)[s].read_refs =
                      IF n = T[s].read_node THEN Raised(T[s].read_refs) ELSE T[s].read_refs
                /\ ForkFd(T, n)[s].write_refs =
                      IF n = T[s].read_node THEN T[s].write_refs ELSE Raised(T[s].write_refs)
<1>1. s \notin Owners(T, n) => ForkFd(T, n)[s] = T[s]
  BY DEF ForkFd
<1>2. ASSUME s \in Owners(T, n)
      PROVE  /\ ForkFd(T, n)[s] \in Entry
             /\ ForkFd(T, n)[s].read_node = T[s].read_node
             /\ ForkFd(T, n)[s].write_node = T[s].write_node
             /\ ForkFd(T, n)[s].read_refs =
                   IF n = T[s].read_node THEN Raised(T[s].read_refs) ELSE T[s].read_refs
             /\ ForkFd(T, n)[s].write_refs =
                   IF n = T[s].read_node THEN T[s].write_refs ELSE Raised(T[s].write_refs)
  <2>. DEFINE e == Recounted(T[s], n, Raised)
  <2>1. T[s] \in Entry
    OBVIOUS
  <2>2. ForkFd(T, n)[s] = e
    BY <1>2 DEF ForkFd
  <2>3. e = [T[s] EXCEPT !.read_refs = IF n = T[s].read_node THEN Raised(T[s].read_refs) ELSE @,
                         !.write_refs = IF n = T[s].read_node THEN @ ELSE Raised(T[s].write_refs)]
    BY <2>1, RecountedIs
  <2>4. \A c \in Count : Raised(c) \in Count
    BY Constants DEF Raised, Count
  <2>. HIDE DEF e
  <2>5. /\ e \in Entry
        /\ e.read_node = T[s].read_node /\ e.write_node = T[s].write_node
        /\ e.read_refs = IF n = T[s].read_node THEN Raised(T[s].read_refs) ELSE T[s].read_refs
        /\ e.write_refs = IF n = T[s].read_node THEN T[s].write_refs ELSE Raised(T[s].write_refs)
    BY <2>1, <2>3, <2>4 DEF Entry
  <2>. QED
    BY <2>2, <2>5
<1>. QED
  BY <1>1, <1>2

\* A pipe has one node at each end and a node one pipe.
LEMMA EndsUsable ==
    ASSUME NEW r, NEW T, CountInv(r, T), NEW s \in Slot, T[s] # NoPipe
    PROVE  /\ T[s].read_node \in Node /\ T[s].write_node \in Node
           /\ T[s].read_node # T[s].write_node
           /\ s \in Owners(T, T[s].read_node) /\ s \in Owners(T, T[s].write_node)
           /\ T[s].read_refs \in Count /\ T[s].write_refs \in Count
           /\ OfKernel(s) \in {0, 1}
  BY OwnersAre DEF CountInv, Ends, Entry, OfKernel

\* A step that takes one reference to u away, if u is the end of a pipe.
LEMMA LowerKeeps ==
    ASSUME NEW r, NEW T, CountInv(r, T), NEW u, u \in Node => r[u] > 0,
           NEW r1 \in [Node -> 0 .. RefMod - 2],
           \A n \in Node : r1[n] = IF n = u THEN r[n] - 1 ELSE r[n]
    PROVE  /\ CountInv(r1, NotifyClose(T, u))
           /\ \A s \in Slot : NotifyClose(T, u)[s] # NoPipe =>
                 /\ T[s] # NoPipe
                 /\ NotifyClose(T, u)[s].read_node = T[s].read_node
                 /\ NotifyClose(T, u)[s].write_node = T[s].write_node
           /\ \A s \in Slot, n \in Node : s \in Owners(T, n) /\ r1[n] > 0 =>
                 NotifyClose(T, u)[s] # NoPipe
<1>. DEFINE T1 == NotifyClose(T, u)
<1>1. /\ r \in [Node -> 0 .. RefMod - 2] /\ T \in [Slot -> Entry]
      /\ RefMod \in Nat /\ RefMod > 1 /\ Null \notin Node /\ ConsoleSlot \in Slot
  BY Constants DEF CountInv
<1>2. T1 = [s \in Slot |-> T1[s]]
  BY DEF NotifyClose
<1>3. ASSUME NEW s \in Slot, T[s] # NoPipe
      PROVE  /\ T1[s] # NoPipe =>
                   /\ T1[s] \in Entry
                   /\ T1[s].read_node = T[s].read_node /\ T1[s].write_node = T[s].write_node
                   /\ Fits(r1, T1[s], OfKernel(s)) \/ (s # ConsoleSlot /\ Orphaned(r1, T1[s]))
             /\ T1[s] = NoPipe => Orphaned(r1, T[s]) /\ s # ConsoleSlot
  <2>1. /\ T[s].read_node \in Node /\ T[s].write_node \in Node
        /\ T[s].read_node # T[s].write_node
        /\ T[s].read_refs \in Count /\ T[s].write_refs \in Count
        /\ OfKernel(s) \in {0, 1} /\ (s = ConsoleSlot => OfKernel(s) = 1)
    BY <1>3, EndsUsable DEF OfKernel
  <2>2. Fits(r, T[s], OfKernel(s)) \/ (s # ConsoleSlot /\ Orphaned(r, T[s]))
    BY <1>3 DEF CountInv
  <2>3. CASE s \notin Owners(T, u)
    <3>1. T1[s] = T[s] /\ T[s] \in Entry
      BY <1>1, <2>3, LoweredSlot
    <3>2. T[s].read_node # u /\ T[s].write_node # u
      BY <1>3, <2>3, OwnersAre DEF Ends
    <3>3. r1[T[s].read_node] = r[T[s].read_node] /\ r1[T[s].write_node] = r[T[s].write_node]
      BY <2>1, <3>2
    <3>. HIDE DEF T1
    <3>. QED
      BY <1>3, <2>2, <3>1, <3>3 DEF Fits, Orphaned
  <2>4. CASE s \in Owners(T, u)
    <3>1. PICK e \in Entry :
             /\ e.read_node = T[s].read_node /\ e.write_node = T[s].write_node
             /\ e.read_refs = IF u = T[s].read_node THEN Lowered(T[s].read_refs) ELSE T[s].read_refs
             /\ e.write_refs = IF u = T[s].read_node THEN T[s].write_refs ELSE Lowered(T[s].write_refs)
             /\ T1[s] = IF e.read_refs = 0 /\ e.write_refs = 0 THEN NoPipe ELSE e
      BY <1>1, <2>4, LoweredSlot
    <3>2. u \in Node /\ (u = T[s].read_node \/ u = T[s].write_node)
      BY <2>1, <2>4, OwnersAre DEF Ends
    <3>3. r[u] > 0 /\ r1[u] = r[u] - 1
      BY <3>2
    <3>4. Fits(r, T[s], OfKernel(s))
      BY <1>1, <2>1, <2>2, <3>2, <3>3 DEF Orphaned
    <3>5. /\ T[s].read_refs = r[T[s].read_node] + OfKernel(s)
          /\ T[s].write_refs = r[T[s].write_node] + OfKernel(s)
          /\ r[T[s].read_node] \in Nat /\ r[T[s].write_node] \in Nat
          /\ r1[T[s].read_node] = IF T[s].read_node = u THEN r[T[s].read_node] - 1 ELSE r[T[s].read_node]
          /\ r1[T[s].write_node] = IF T[s].write_node = u THEN r[T[s].write_node] - 1 ELSE r[T[s].write_node]
      BY <1>1, <2>1, <3>4 DEF Fits
    <3>6. e.read_refs = r1[e.read_node] + OfKernel(s) /\ e.write_refs = r1[e.write_node] + OfKernel(s)
      <4>1. CASE u = T[s].read_node
        BY <2>1, <3>1, <3>3, <3>5, <4>1 DEF Lowered
      <4>2. CASE u = T[s].write_node /\ u # T[s].read_node
        BY <2>1, <3>1, <3>3, <3>5, <4>2 DEF Lowered
      <4>. QED
        BY <3>2, <4>1, <4>2
    <3>7. r1[e.read_node] \in Nat /\ r1[e.write_node] \in Nat
      BY <1>1, <2>1, <3>1
    <3>. HIDE DEF T1
    <3>8. T1[s] # NoPipe => T1[s] = e
      BY <3>1
    <3>9. T1[s] = NoPipe => e.read_refs = 0 /\ e.write_refs = 0
      <4>1. e # NoPipe
        BY <1>1, <2>1, <3>1 DEF NoPipe
      <4>. QED
        BY <3>1, <4>1
    <3>10. e.read_refs = 0 /\ e.write_refs = 0 => Orphaned(r1, T[s]) /\ s # ConsoleSlot
      BY <2>1, <3>1, <3>6, <3>7 DEF Orphaned
    <3>. QED
      BY <3>1, <3>6, <3>8, <3>9, <3>10 DEF Fits
  <2>. QED
    BY <2>3, <2>4
<1>4. ASSUME NEW s \in Slot, T[s] = NoPipe PROVE T1[s] = NoPipe /\ T1[s] \in Entry
  <2>1. s \notin Owners(T, u)
    BY <1>4, OwnersAre
  <2>. QED
    BY <1>1, <1>4, <2>1, LoweredSlot
<1>. HIDE DEF T1
<1>5. T1 \in [Slot -> Entry]
  <2>1. NoPipe \in Entry
    BY <1>1 DEF NoPipe, Entry, Count
  <2>2. \A s \in Slot : T1[s] \in Entry
    BY <1>3, <1>4, <2>1
  <2>. QED
    BY <1>2, <2>2
<1>6. \A s \in Slot : T1[s] # NoPipe =>
         T[s] # NoPipe /\ T1[s].read_node = T[s].read_node /\ T1[s].write_node = T[s].write_node
  BY <1>3, <1>4
<1>7. ASSUME NEW s, NEW n \in Node, s \in Owners(T1, n) PROVE s \in Owners(T, n)
  BY <1>6, <1>7, OwnersAre DEF Ends
<1>8. ASSUME NEW s \in Slot, NEW n \in Node, s \in Owners(T, n), r1[n] > 0
      PROVE  T1[s] # NoPipe
  <2>1. T[s] # NoPipe /\ n \in Ends(T[s])
    BY <1>8, OwnersAre
  <2>. QED
    BY <1>3, <1>8, <2>1 DEF Ends, Orphaned
<1>9. ASSUME NEW n \in Node, r1[n] > 0 PROVE Owners(T1, n) # {}
  <2>1. r[n] > 0
    BY <1>1, <1>9
  <2>2. PICK s : s \in Owners(T, n)
    BY <2>1 DEF CountInv
  <2>3. s \in Slot /\ T[s] # NoPipe /\ n \in Ends(T[s])
    BY <2>2, OwnersAre
  <2>4. T1[s] # NoPipe
    BY <1>8, <1>9, <2>2, <2>3
  <2>5. n \in Ends(T1[s])
    BY <1>6, <2>3, <2>4 DEF Ends
  <2>. QED
    BY <2>3, <2>4, <2>5, OwnersAre
<1>10. T1[ConsoleSlot].read_node = ConsoleRead /\ T1[ConsoleSlot].write_node = ConsoleWrite
  <2>1. T[ConsoleSlot].read_node = ConsoleRead /\ T[ConsoleSlot].write_node = ConsoleWrite
    BY DEF CountInv
  <2>2. T[ConsoleSlot] # NoPipe
    BY <2>1, Constants DEF NoPipe
  <2>3. T1[ConsoleSlot] # NoPipe
    BY <1>1, <1>3, <2>2
  <2>. QED
    BY <1>1, <1>6, <2>1, <2>3
<1>11. \A s \in Slot : T1[s] # NoPipe =>
          T1[s].read_node \in Node /\ T1[s].write_node \in Node /\ T1[s].read_node # T1[s].write_node
  <2>1. \A s \in Slot : T[s] # NoPipe =>
          T[s].read_node \in Node /\ T[s].write_node \in Node /\ T[s].read_node # T[s].write_node
    BY DEF CountInv
  <2>. QED
    BY <1>6, <2>1
<1>12. \A s, t \in Slot : \A n \in Node : s \in Owners(T1, n) /\ t \in Owners(T1, n) => s = t
  BY <1>7 DEF CountInv
<1>13. \A s \in Slot : T1[s] # NoPipe =>
          Fits(r1, T1[s], OfKernel(s)) \/ (s # ConsoleSlot /\ Orphaned(r1, T1[s]))
  BY <1>3, <1>4
<1>14. CountInv(r1, T1)
  BY <1>5, <1>9, <1>10, <1>11, <1>12, <1>13 DEF CountInv
<1>. QED
  BY <1>6, <1>8, <1>14 DEF T1

\* A step that adds one reference to u, if u is the end of a pipe somebody has open.
LEMMA RaiseKeeps ==
    ASSUME NEW r, NEW T, CountInv(r, T), NEW u, u \in Node => r[u] > 0 \/ u = ConsoleRead,
           NEW r1 \in [Node -> 0 .. RefMod - 2],
           \A n \in Node : r1[n] = IF n = u THEN r[n] + 1 ELSE r[n]
    PROVE  /\ CountInv(r1, ForkFd(T, u))
           /\ \A s \in Slot : ForkFd(T, u)[s].read_node = T[s].read_node
                           /\ ForkFd(T, u)[s].write_node = T[s].write_node
                           /\ (ForkFd(T, u)[s] = NoPipe <=> T[s] = NoPipe)
<1>. DEFINE T1 == ForkFd(T, u)
<1>1. /\ r \in [Node -> 0 .. RefMod - 2] /\ T \in [Slot -> Entry]
      /\ RefMod \in Nat /\ RefMod > 1 /\ Null \notin Node /\ ConsoleSlot \in Slot
  BY Constants DEF CountInv
<1>2. T1 = [s \in Slot |-> T1[s]]
  BY DEF ForkFd
<1>3. ASSUME NEW s \in Slot
      PROVE  /\ T1[s] \in Entry
             /\ T1[s].read_node = T[s].read_node /\ T1[s].write_node = T[s].write_node
  BY <1>1, RaisedSlot
<1>4. ASSUME NEW s \in Slot PROVE T1[s] = NoPipe <=> T[s] = NoPipe
  <2>1. CASE s \notin Owners(T, u)
    BY <1>1, <2>1, RaisedSlot
  <2>2. CASE s \in Owners(T, u)
    <3>1. T[s] # NoPipe
      BY <2>2, OwnersAre
    <3>2. T[s].read_node \in Node
      BY <3>1, EndsUsable
    <3>3. T1[s].read_node \in Node
      BY <1>3, <3>2
    <3>. QED
      BY <1>1, <3>1, <3>3 DEF NoPipe
  <2>. QED
    BY <2>1, <2>2
<1>5. ASSUME NEW s \in Slot, T1[s] # NoPipe
      PROVE  Fits(r1, T1[s], OfKernel(s)) \/ (s # ConsoleSlot /\ Orphaned(r1, T1[s]))
  <2>0. T[s] # NoPipe
    BY <1>4, <1>5
  <2>1. /\ T[s].read_node \in Node /\ T[s].write_node \in Node
        /\ T[s].read_node # T[s].write_node
        /\ T[s].read_refs \in Count /\ T[s].write_refs \in Count
        /\ OfKernel(s) \in {0, 1} /\ (s = ConsoleSlot => OfKernel(s) = 1)
    BY <2>0, EndsUsable DEF OfKernel
  <2>2. Fits(r, T[s], OfKernel(s)) \/ (s # ConsoleSlot /\ Orphaned(r, T[s]))
    BY <2>0 DEF CountInv
  <2>3. CASE s \notin Owners(T, u)
    <3>1. T1[s] = T[s] /\ T[s] \in Entry
      BY <1>1, <2>3, RaisedSlot
    <3>2. T[s].read_node # u /\ T[s].write_node # u
      BY <2>0, <2>3, OwnersAre DEF Ends
    <3>3. r1[T[s].read_node] = r[T[s].read_node] /\ r1[T[s].write_node] = r[T[s].write_node]
      BY <2>1, <3>2
    <3>. HIDE DEF T1
    <3>. QED
      BY <2>2, <3>1, <3>3 DEF Fits, Orphaned
  <2>4. CASE s \in Owners(T, u)
    <3>1. /\ T1[s].read_refs = IF u = T[s].read_node THEN Raised(T[s].read_refs) ELSE T[s].read_refs
          /\ T1[s].write_refs = IF u = T[s].read_node THEN T[s].write_refs ELSE Raised(T[s].write_refs)
      BY <1>1, <2>4, RaisedSlot
    <3>2. u \in Node /\ (u = T[s].read_node \/ u = T[s].write_node)
      BY <2>1, <2>4, OwnersAre DEF Ends
    <3>3. r[u] > 0 \/ s = ConsoleSlot
      <4>1. CASE u = ConsoleRead
        <5>1. T[ConsoleSlot].read_node = ConsoleRead /\ T[ConsoleSlot] # NoPipe
          BY Constants DEF CountInv, NoPipe
        <5>2. ConsoleSlot \in Owners(T, u)
          BY <1>1, <4>1, <5>1, OwnersAre DEF Ends
        <5>. QED
          BY <1>1, <2>4, <3>2, <5>2 DEF CountInv
      <4>. QED
        BY <3>2, <4>1
    <3>4. Fits(r, T[s], OfKernel(s))
      BY <1>1, <2>1, <2>2, <3>2, <3>3 DEF Orphaned
    <3>5. /\ T[s].read_refs = r[T[s].read_node] + OfKernel(s)
          /\ T[s].write_refs = r[T[s].write_node] + OfKernel(s)
          /\ r[T[s].read_node] \in Nat /\ r[T[s].write_node] \in Nat
          /\ r1[T[s].read_node] = IF T[s].read_node = u THEN r[T[s].read_node] + 1 ELSE r[T[s].read_node]
          /\ r1[T[s].write_node] = IF T[s].write_node = u THEN r[T[s].write_node] + 1 ELSE r[T[s].write_node]
      BY <1>1, <2>1, <3>4 DEF Fits
    <3>6. \A c \in Nat : c + 1 < RefMod => Raised(c) = c + 1
      BY <1>1 DEF Raised
    <3>7. r1[T[s].read_node] <= RefMod - 2 /\ r1[T[s].write_node] <= RefMod - 2
      BY <1>1, <2>1
    <3>. HIDE DEF T1
    <3>8. CASE u = T[s].read_node
      <4>1. r[T[s].read_node] + OfKernel(s) \in Nat /\ r[T[s].read_node] + OfKernel(s) + 1 < RefMod
        BY <1>1, <2>1, <3>5, <3>7, <3>8
      <4>2. Raised(T[s].read_refs) = r1[T[s].read_node] + OfKernel(s)
        BY <2>1, <3>5, <3>6, <3>8, <4>1
      <4>. QED
        BY <1>3, <2>1, <3>1, <3>5, <3>8, <4>2 DEF Fits
    <3>9. CASE u = T[s].write_node /\ u # T[s].read_node
      <4>1. r[T[s].write_node] + OfKernel(s) \in Nat /\ r[T[s].write_node] + OfKernel(s) + 1 < RefMod
        BY <1>1, <2>1, <3>5, <3>7, <3>9
      <4>2. Raised(T[s].write_refs) = r1[T[s].write_node] + OfKernel(s)
        BY <2>1, <3>5, <3>6, <3>9, <4>1
      <4>. QED
        BY <1>3, <2>1, <3>1, <3>5, <3>9, <4>2 DEF Fits
    <3>. QED
      BY <3>2, <3>8, <3>9
  <2>. QED
    BY <2>3, <2>4
<1>. HIDE DEF T1
<1>6. T1 \in [Slot -> Entry]
  BY <1>2, <1>3
<1>7. \A s, n : s \in Owners(T1, n) <=> s \in Owners(T, n)
  BY <1>3, <1>4, OwnersAre DEF Ends
<1>8. ASSUME NEW n \in Node, r1[n] > 0 PROVE Owners(T1, n) # {}
  <2>1. Owners(T, n) # {}
    <3>1. CASE r[n] > 0
      BY <3>1 DEF CountInv
    <3>2. CASE n = ConsoleRead
      <4>1. T[ConsoleSlot].read_node = ConsoleRead /\ T[ConsoleSlot] # NoPipe
        BY Constants DEF CountInv, NoPipe
      <4>2. ConsoleSlot \in Owners(T, n)
        BY <1>1, <3>2, <4>1, OwnersAre DEF Ends
      <4>. QED
        BY <4>2
    <3>. QED
      BY <1>8, <3>1, <3>2
  <2>. QED
    BY <1>7, <2>1
<1>9. T1[ConsoleSlot].read_node = ConsoleRead /\ T1[ConsoleSlot].write_node = ConsoleWrite
  BY <1>1, <1>3 DEF CountInv
<1>10. \A s \in Slot : T1[s] # NoPipe =>
          T1[s].read_node \in Node /\ T1[s].write_node \in Node /\ T1[s].read_node # T1[s].write_node
  <2>1. \A s \in Slot : T[s] # NoPipe =>
          T[s].read_node \in Node /\ T[s].write_node \in Node /\ T[s].read_node # T[s].write_node
    BY DEF CountInv
  <2>. QED
    BY <1>3, <1>4, <2>1
<1>11. \A s, t \in Slot : \A n \in Node : s \in Owners(T1, n) /\ t \in Owners(T1, n) => s = t
  BY <1>7 DEF CountInv
<1>12. CountInv(r1, T1)
  BY <1>5, <1>6, <1>8, <1>9, <1>10, <1>11 DEF CountInv
<1>. QED
  BY <1>3, <1>4, <1>12 DEF T1

\* sys_pipe: a pipe in a free slot, from nodes that are no pipe's, with one
\* descriptor at each end or with none.
LEMMA CreateKeeps ==
    ASSUME NEW r, NEW T, CountInv(r, T),
           NEW s0 \in Slot, T[s0] = NoPipe,
           NEW rn \in Node, NEW wn \in Node, rn # wn,
           Owners(T, rn) = {}, Owners(T, wn) = {},
           NEW T1 \in [Slot -> Entry],
           T1[s0].read_node = rn, T1[s0].write_node = wn,
           T1[s0].read_refs = 1, T1[s0].write_refs = 1,
           \A s \in Slot \ {s0} : T1[s] = T[s],
           NEW r1 \in [Node -> 0 .. RefMod - 2],
           \A n \in Node \ {rn, wn} : r1[n] = r[n],
           \/ r1[rn] = 1 /\ r1[wn] = 1
           \/ r1[rn] = 0 /\ r1[wn] = 0
    PROVE  /\ CountInv(r1, T1)
           /\ \A s \in Slot : T[s] # NoPipe => T1[s] = T[s]
<1>1. /\ r \in [Node -> 0 .. RefMod - 2] /\ T \in [Slot -> Entry]
      /\ RefMod \in Nat /\ RefMod > 1 /\ Null \notin Node /\ ConsoleSlot \in Slot
      /\ T[ConsoleSlot].read_node = ConsoleRead /\ T[ConsoleSlot].write_node = ConsoleWrite
      /\ ConsoleRead \in Node
  BY Constants DEF CountInv
<1>2. s0 # ConsoleSlot
  BY <1>1 DEF NoPipe
<1>4. T1[s0] # NoPipe
  BY <1>1 DEF NoPipe
<1>41. T1[s0] # NoPipe /\ Ends(T1[s0]) = {rn, wn} /\ s0 \in Slot
  BY <1>4 DEF Ends
<1>42. \A n : s0 \in Owners(T1, n) <=> n \in {rn, wn}
  BY <1>41, OwnersAre
<1>43. \A n : s0 \notin Owners(T, n)
  BY OwnersAre
<1>5. ASSUME NEW n \in Node, n \notin {rn, wn} PROVE Owners(T1, n) = Owners(T, n)
  <2>1. ASSUME NEW s PROVE s \in Owners(T1, n) <=> s \in Owners(T, n)
    <3>1. s0 \notin Owners(T1, n) /\ s0 \notin Owners(T, n)
      BY <1>5, <1>42, <1>43
    <3>2. CASE s \in Slot \ {s0}
      BY <1>4, <3>2, OwnersAre
    <3>. QED
      BY <3>1, <3>2, OwnersAre
  <2>. QED
    BY <2>1
<1>6. Owners(T1, rn) = {s0} /\ Owners(T1, wn) = {s0}
  <2>1. ASSUME NEW n \in {rn, wn} PROVE Owners(T1, n) = {s0}
    <3>1. s0 \in Owners(T1, n)
      BY <1>42
    <3>2. ASSUME NEW s \in Owners(T1, n), s # s0 PROVE FALSE
      <4>1. s \in Slot \ {s0} /\ T1[s] # NoPipe /\ n \in Ends(T1[s])
        BY <3>2, OwnersAre
      <4>2. T1[s] = T[s]
        BY <1>4, <4>1
      <4>3. s \in Owners(T, n)
        BY <4>1, <4>2, OwnersAre
      <4>. QED
        BY <4>3
    <3>. QED
      BY <3>1, <3>2
  <2>. QED
    BY <2>1
<1>7. ASSUME NEW s \in Slot, T1[s] # NoPipe
      PROVE  /\ T1[s].read_node \in Node /\ T1[s].write_node \in Node
             /\ T1[s].read_node # T1[s].write_node
             /\ Fits(r1, T1[s], OfKernel(s)) \/ (s # ConsoleSlot /\ Orphaned(r1, T1[s]))
  <2>1. CASE s = s0
    <3>1. OfKernel(s) = 0
      BY <1>2, <2>1 DEF OfKernel
    <3>. QED
      BY <1>2, <2>1, <3>1 DEF Fits, Orphaned
  <2>2. CASE s # s0
    <3>1. T1[s] = T[s] /\ T[s] # NoPipe
      BY <1>4, <1>7, <2>2
    <3>2. /\ T[s].read_node \in Node /\ T[s].write_node \in Node
          /\ T[s].read_node # T[s].write_node
          /\ s \in Owners(T, T[s].read_node) /\ s \in Owners(T, T[s].write_node)
      BY <3>1, EndsUsable
    <3>3. r1[T[s].read_node] = r[T[s].read_node] /\ r1[T[s].write_node] = r[T[s].write_node]
      BY <3>2
    <3>4. Fits(r, T[s], OfKernel(s)) \/ (s # ConsoleSlot /\ Orphaned(r, T[s]))
      BY <3>1 DEF CountInv
    <3>. QED
      BY <3>1, <3>2, <3>3, <3>4 DEF Fits, Orphaned
  <2>. QED
    BY <2>1, <2>2
<1>8. ASSUME NEW n \in Node
      PROVE  \A s, t \in Slot : s \in Owners(T1, n) /\ t \in Owners(T1, n) => s = t
  <2>1. CASE n \in {rn, wn}
    <3>1. Owners(T1, n) = {s0}
      BY <1>6, <2>1
    <3>. QED
      BY <3>1
  <2>2. CASE n \notin {rn, wn}
    <3>1. Owners(T1, n) = Owners(T, n)
      BY <1>5, <2>2
    <3>2. \A s, t \in Slot : s \in Owners(T, n) /\ t \in Owners(T, n) => s = t
      BY DEF CountInv
    <3>. QED
      BY <3>1, <3>2
  <2>. QED
    BY <2>1, <2>2
<1>9. ASSUME NEW n \in Node, r1[n] > 0 PROVE Owners(T1, n) # {}
  <2>1. CASE n \in {rn, wn}
    BY <1>6, <2>1
  <2>2. CASE n \notin {rn, wn}
    <3>1. r[n] > 0
      BY <1>9, <2>2
    <3>. QED
      BY <1>5, <2>2, <3>1 DEF CountInv
  <2>. QED
    BY <2>1, <2>2
<1>10. T1[ConsoleSlot].read_node = ConsoleRead /\ T1[ConsoleSlot].write_node = ConsoleWrite
  BY <1>1, <1>2
<1>11. CountInv(r1, T1)
  BY <1>4, <1>7, <1>8, <1>9, <1>10 DEF CountInv
<1>12. \A s \in Slot : T[s] # NoPipe => T1[s] = T[s]
  OBVIOUS
<1>. QED
  BY <1>11, <1>12

-----------------------------------------------------------------------------
(* Counting references.                                                    *)

LEMMA OpenFacts ==
    ASSUME CountsFit, NEW F, NEW n
    PROVE  /\ IsFiniteSet(OpenIn(F, n)) /\ Cardinality(OpenIn(F, n)) \in Nat
           /\ Cardinality(OpenIn(F, n)) + NFd + 2 <= RefMod
           /\ (Cardinality(OpenIn(F, n)) = 0 <=> OpenIn(F, n) = {})
<1>1. IsFiniteSet(Fd) /\ IsFiniteSet(Proc) /\ NFd \in Nat /\ RefMod \in Nat
  BY Constants, FS_Interval DEF Fd, CountsFit
<1>2. IsFiniteSet(Proc \X Fd) /\ Cardinality(Proc \X Fd) \in Nat
  BY <1>1, FS_Product, FS_CardinalityType
<1>3. OpenIn(F, n) \in SUBSET (Proc \X Fd)
  BY DEF OpenIn
<1>4. IsFiniteSet(OpenIn(F, n)) /\ Cardinality(OpenIn(F, n)) <= Cardinality(Proc \X Fd)
  BY <1>2, <1>3, FS_Subset
<1>5. Cardinality(OpenIn(F, n)) \in Nat
  BY <1>4, FS_CardinalityType
<1>. QED
  BY <1>1, <1>2, <1>4, <1>5, FS_EmptySet DEF CountsFit

LEMMA PromisedFacts ==
    ASSUME NEW F, NEW L \in Loops, NEW n
    PROVE  /\ IsFiniteSet(PromisedIn(F, L, n)) /\ Cardinality(PromisedIn(F, L, n)) \in 0 .. NFd
           /\ PromisedIn(F, L, n) \subseteq Fd
           /\ (Cardinality(PromisedIn(F, L, n)) = 0 <=> PromisedIn(F, L, n) = {})
<1>1. IsFiniteSet(Fd) /\ NFd \in Nat /\ Cardinality(Fd) = NFd
  BY Constants, FS_Interval DEF Fd
<1>2. PromisedIn(F, L, n) \in SUBSET Fd
  <2>1. CASE L = NoLoop
    BY <2>1 DEF NoLoop, PromisedIn
  <2>2. CASE L \in [op : {"bump", "undo", "close"}, proc : Proc, fd : 0 .. NFd]
    <3>1. L.fd \in 0 .. NFd
      BY <2>2
    <3>. QED
      BY <1>1, <3>1 DEF PromisedIn, Fd
  <2>. QED
    BY <2>1, <2>2 DEF Loops
<1>3. IsFiniteSet(PromisedIn(F, L, n)) /\ Cardinality(PromisedIn(F, L, n)) <= NFd
  BY <1>1, <1>2, FS_Subset
<1>. QED
  BY <1>1, <1>2, <1>3, FS_CardinalityType, FS_EmptySet

LEMMA RefsFacts ==
    ASSUME CountsFit, NEW F, NEW L \in Loops, NEW n
    PROVE  /\ Refs(F, L, n) \in 0 .. RefMod - 2
           /\ Refs(F, L, n) = 0 <=> OpenIn(F, n) = {} /\ PromisedIn(F, L, n) = {}
           /\ PromisedIn(F, L, n) = {} => Refs(F, L, n) = Cardinality(OpenIn(F, n))
<1>1. /\ Cardinality(OpenIn(F, n)) \in Nat /\ Cardinality(PromisedIn(F, L, n)) \in 0 .. NFd
      /\ Cardinality(OpenIn(F, n)) + NFd + 2 <= RefMod
      /\ NFd \in Nat /\ RefMod \in Nat
      /\ (Cardinality(OpenIn(F, n)) = 0 <=> OpenIn(F, n) = {})
      /\ (Cardinality(PromisedIn(F, L, n)) = 0 <=> PromisedIn(F, L, n) = {})
  BY OpenFacts, PromisedFacts, Constants
<1>. QED
  BY <1>1 DEF Refs

\* G is F but for one descriptor; what that one counts for n.
OnlyAt(F, G, p, f) == \A q \in Proc, g \in Fd : q # p \/ g # f => G[q][g] = F[q][g]

Has(F, p, f, n) == IF F[p][f] = n THEN 1 ELSE 0

\* One descriptor changes while no loop counts.
LEMMA AssignRefs ==
    ASSUME CountsFit, NEW F, NEW G, NEW L, NEW M,
           L.op \notin {"bump", "undo"}, M.op \notin {"bump", "undo"},
           NEW p \in Proc, NEW f \in Fd, OnlyAt(F, G, p, f), NEW n
    PROVE  Refs(G, M, n) = Refs(F, L, n) - Has(F, p, f, n) + Has(G, p, f, n)
<1>. DEFINE A == OpenIn(F, n)
            B == OpenIn(G, n)
            x == <<p, f>>
<1>1. IsFiniteSet(A) /\ Cardinality(A) \in Nat
  BY OpenFacts
<1>2. x \in A <=> F[p][f] = n
  BY DEF OpenIn
<1>3. x \in B <=> G[p][f] = n
  BY DEF OpenIn
<1>4. B \ {x} = A \ {x}
  <2>1. ASSUME NEW y \in Proc \X Fd, y # x PROVE G[y[1]][y[2]] = F[y[1]][y[2]]
    <3>1. y[1] \in Proc /\ y[2] \in Fd /\ (y[1] # p \/ y[2] # f)
      BY <2>1
    <3>. QED
      BY <3>1 DEF OnlyAt
  <2>. QED
    BY <2>1 DEF OpenIn
<1>5. Refs(F, L, n) = Cardinality(A) /\ Refs(G, M, n) = Cardinality(B)
  <2>1. PromisedIn(F, L, n) = {} /\ PromisedIn(G, M, n) = {}
    BY DEF PromisedIn
  <2>2. Cardinality(A) \in Nat /\ Cardinality(B) \in Nat
    BY OpenFacts
  <2>. QED
    BY <2>1, <2>2, FS_EmptySet DEF Refs
<1>. HIDE DEF A, B, x
<1>6. IsFiniteSet(A \ {x}) /\ Cardinality(A \ {x}) = IF x \in A THEN Cardinality(A) - 1 ELSE Cardinality(A)
  BY <1>1, FS_RemoveElement
<1>7. Cardinality(B) = IF x \in B THEN Cardinality(A \ {x}) + 1 ELSE Cardinality(A \ {x})
  <2>1. CASE x \in B
    <3>1. B = (A \ {x}) \cup {x} /\ x \notin A \ {x}
      BY <1>4, <2>1
    <3>. QED
      BY <1>6, <2>1, <3>1, FS_AddElement
  <2>2. CASE x \notin B
    <3>1. B = A \ {x}
      BY <1>4, <2>2
    <3>. QED
      BY <2>2, <3>1
  <2>. QED
    BY <2>1, <2>2
<1>. QED
  BY <1>1, <1>2, <1>3, <1>5, <1>6, <1>7 DEF Has

\* A loop with interrupts disabled counts, or takes back, one descriptor.
LEMMA LoopRefs ==
    ASSUME CountsFit, NEW F, NEW L \in Loops, NEW M \in Loops, L.op \in {"bump", "undo"},
           L.fd < NFd, M.op = L.op, M.proc = L.proc, M.fd = L.fd + 1, NEW n
    PROVE  /\ L.op = "bump" => Refs(F, M, n) = Refs(F, L, n) + Has(F, L.proc, L.fd, n)
           /\ L.op = "undo" => Refs(F, M, n) = Refs(F, L, n) - Has(F, L.proc, L.fd, n)
<1>. DEFINE P == PromisedIn(F, L, n)
            Q == PromisedIn(F, M, n)
<1>1. L.fd \in 0 .. NFd /\ NFd \in Nat
  <2>1. L # NoLoop
    BY DEF NoLoop
  <2>. QED
    BY <2>1, Constants DEF Loops
<1>2. /\ IsFiniteSet(P) /\ Cardinality(P) \in Nat /\ IsFiniteSet(Q) /\ Cardinality(Q) \in Nat
      /\ Cardinality(OpenIn(F, n)) \in Nat
  BY PromisedFacts, OpenFacts, <1>1
<1>3. CASE L.op = "bump"
  <2>1. CASE F[L.proc][L.fd] = n
    <3>1. Q = P \cup {L.fd} /\ L.fd \notin P
      BY <1>1, <1>3, <2>1 DEF PromisedIn
    <3>. HIDE DEF P, Q
    <3>2. Cardinality(Q) = Cardinality(P) + 1
      BY <1>2, <3>1, FS_AddElement
    <3>. QED
      BY <1>2, <1>3, <2>1, <3>2 DEF Refs, P, Q, Has
  <2>2. CASE F[L.proc][L.fd] # n
    <3>1. Q = P
      BY <1>1, <1>3, <2>2 DEF PromisedIn
    <3>. QED
      BY <1>2, <1>3, <2>2, <3>1 DEF Refs, Has
  <2>. QED
    BY <2>1, <2>2
<1>4. CASE L.op = "undo"
  <2>1. CASE F[L.proc][L.fd] = n
    <3>1. P = Q \cup {L.fd} /\ L.fd \notin Q
      BY <1>1, <1>4, <2>1 DEF PromisedIn
    <3>. HIDE DEF P, Q
    <3>2. Cardinality(P) = Cardinality(Q) + 1
      BY <1>2, <3>1, FS_AddElement
    <3>. QED
      BY <1>2, <1>4, <2>1, <3>2 DEF Refs, P, Q, Has
  <2>2. CASE F[L.proc][L.fd] # n
    <3>1. Q = P
      BY <1>1, <1>4, <2>2 DEF PromisedIn
    <3>. QED
      BY <1>2, <1>4, <2>2, <3>1 DEF Refs, Has
  <2>. QED
    BY <2>1, <2>2
<1>. QED
  BY <1>3, <1>4

\* The descriptors counted for a child are those it gets.
LEMMA ChildRefs ==
    ASSUME CountsFit, NEW F, NEW G, NEW p \in Proc, NEW c \in Proc,
           NEW n, \A f \in Fd : F[c][f] # n,
           \A f \in Fd : G[c][f] = F[p][f],
           \A q \in Proc \ {c}, f \in Fd : G[q][f] = F[q][f],
           NEW L, L.op = "bump", L.proc = p, L.fd = NFd
    PROVE  Refs(G, NoLoop, n) = Refs(F, L, n)
<1>. DEFINE A == OpenIn(F, n)
            P == PromisedIn(F, L, n)
            C == {<<c, f>> : f \in P}
<1>1. P \subseteq Fd /\ IsFiniteSet(Fd) /\ NFd \in Nat
  BY Constants, FS_Interval DEF PromisedIn, Fd
<1>2. IsFiniteSet(P)
  BY <1>1, FS_Subset
<1>3. OpenIn(G, n) = A \cup C
  <2>1. ASSUME NEW x \in Proc \X Fd PROVE G[x[1]][x[2]] = n <=> x \in A \cup C
    <3>1. x = <<x[1], x[2]>> /\ x[1] \in Proc /\ x[2] \in Fd
      OBVIOUS
    <3>2. x \in C <=> x[1] = c /\ x[2] \in P
      BY <3>1
    <3>3. x[2] \in P <=> F[p][x[2]] = n
      BY <3>1, <1>1 DEF PromisedIn, Fd
    <3>4. x \in A <=> F[x[1]][x[2]] = n
      BY DEF OpenIn
    <3>5. CASE x[1] = c
      BY <3>1, <3>2, <3>3, <3>4, <3>5
    <3>6. CASE x[1] # c
      BY <3>1, <3>2, <3>3, <3>4, <3>6
    <3>. QED
      BY <3>5, <3>6
  <2>2. A \subseteq Proc \X Fd /\ C \subseteq Proc \X Fd
    BY <1>1 DEF OpenIn
  <2>. HIDE DEF A, C
  <2>. QED
    BY <2>1, <2>2 DEF OpenIn
<1>4. A \cap C = {}
  <2>1. ASSUME NEW f \in P PROVE <<c, f>> \notin A
    BY <1>1, <2>1 DEF OpenIn
  <2>. QED
    BY <2>1
<1>5. IsFiniteSet(C) /\ Cardinality(C) = Cardinality(P)
  <2>. DEFINE b == [f \in P |-> <<c, f>>]
  <2>1. b \in Bijection(P, C)
    BY DEF Bijection, Injection, Surjection, IsInjective
  <2>2. ExistsBijection(P, C)
    BY <2>1 DEF ExistsBijection
  <2>. QED
    BY <1>2, <2>2, FS_Bijection
<1>6. IsFiniteSet(A) /\ Cardinality(A) \in Nat /\ Cardinality(P) \in Nat
  BY <1>2, OpenFacts, FS_CardinalityType
<1>. HIDE DEF A, C, P
<1>7. Cardinality(OpenIn(G, n)) = Cardinality(A) + Cardinality(P)
  <2>1. Cardinality(A \cup C) = Cardinality(A) + Cardinality(C) - Cardinality(A \cap C)
    BY <1>5, <1>6, FS_Union
  <2>2. Cardinality(A \cap C) = 0
    BY <1>4, FS_EmptySet
  <2>. QED
    BY <1>3, <1>5, <1>6, <2>1, <2>2
<1>8. Cardinality(PromisedIn(G, NoLoop, n)) = 0
  <2>1. PromisedIn(G, NoLoop, n) = {}
    BY DEF PromisedIn, NoLoop
  <2>. QED
    BY <2>1, FS_EmptySet
<1>. QED
  BY <1>6, <1>7, <1>8 DEF Refs, A, P

-----------------------------------------------------------------------------
(* Descriptors, table and blocked calls together.                          *)

RefsOf(F, L) == [n \in Node |-> Refs(F, L, n)]

Tables == [Proc -> [Fd -> Thing]]

Counting(L) == L.op \in {"bump", "undo"}

\* A pipe somebody has open under descriptors G keeps its place in the table.
Survives(T, T1, G) ==
    \A s \in Slot, n \in Node, q \in Proc, g \in Fd :
        s \in Owners(T, n) /\ G[q][g] = n =>
            T1[s].read_node = T[s].read_node /\ T1[s].write_node = T[s].write_node

EndOf(c, T) == IF c.op = "read" THEN T[c.slot].read_node ELSE T[c.slot].write_node

\* The call c of task p, if it waits for a pipe, has that pipe.
Served(F, T, c, p) ==
    c.op \in {"read", "write"} => EndOf(c, T) \in Node /\ \E f \in Fd : F[p][f] = EndOf(c, T)

Calls == {InUser} \cup [op : {"read", "write"}, slot : Slot, len : Nat \ {0}]

LEMMA RefsOfFacts ==
    ASSUME CountsFit, NEW F, NEW L \in Loops
    PROVE  /\ RefsOf(F, L) \in [Node -> 0 .. RefMod - 2]
           /\ \A n \in Node : RefsOf(F, L)[n] = Refs(F, L, n)
           /\ \A n \in Node, q \in Proc, g \in Fd : F[q][g] = n => Refs(F, L, n) > 0
<1>1. \A n \in Node : Refs(F, L, n) \in 0 .. RefMod - 2
  BY RefsFacts
<1>2. ASSUME NEW n \in Node, NEW q \in Proc, NEW g \in Fd, F[q][g] = n
      PROVE  Refs(F, L, n) > 0
  <2>1. <<q, g>> \in OpenIn(F, n)
    BY <1>2 DEF OpenIn
  <2>2. Refs(F, L, n) # 0
    BY <2>1, RefsFacts
  <2>. QED
    BY <1>1, <2>2, Constants
<1>. QED
  BY <1>1, <1>2 DEF RefsOf

LEMMA CloseOne ==
    ASSUME CountsFit, NEW F \in Tables, NEW G \in Tables, NEW L \in Loops, NEW M \in Loops,
           ~Counting(L), ~Counting(M), NEW p \in Proc, NEW f \in Fd, G[p][f] = Null,
           OnlyAt(F, G, p, f), NEW T, CountInv(RefsOf(F, L), T)
    PROVE  /\ CountInv(RefsOf(G, M), NotifyClose(T, F[p][f]))
           /\ Survives(T, NotifyClose(T, F[p][f]), G)
<1>0. L.op \notin {"bump", "undo"} /\ M.op \notin {"bump", "undo"}
  BY DEF Counting
<1>9. \A n : Refs(G, M, n) = Refs(F, L, n) - Has(F, p, f, n) + Has(G, p, f, n)
  BY <1>0, AssignRefs
<1>. DEFINE r == RefsOf(F, L)
            r1 == RefsOf(G, M)
            u == F[p][f]
<1>1. r \in [Node -> 0 .. RefMod - 2] /\ r1 \in [Node -> 0 .. RefMod - 2] /\ Null \notin Node
  BY RefsOfFacts, Constants
<1>2. u \in Node => r[u] > 0
  BY RefsOfFacts
<1>3. ASSUME NEW n \in Node PROVE r1[n] = IF n = u THEN r[n] - 1 ELSE r[n]
  <2>1. Refs(G, M, n) = Refs(F, L, n) - (IF F[p][f] = n THEN 1 ELSE 0) + (IF G[p][f] = n THEN 1 ELSE 0)
    BY <1>9 DEF Has
  <2>2. G[p][f] # n
    BY <1>1
  <2>3. r1[n] = Refs(G, M, n) /\ r[n] = Refs(F, L, n) /\ Refs(F, L, n) \in Int
    BY RefsOfFacts, RefsFacts
  <2>. QED
    BY <2>1, <2>2, <2>3
<1>4. \A n \in Node, q \in Proc, g \in Fd : G[q][g] = n => r1[n] > 0
  BY RefsOfFacts
<1>. HIDE DEF r, r1, u
<1>5. /\ CountInv(r1, NotifyClose(T, u))
      /\ \A s \in Slot : NotifyClose(T, u)[s] # NoPipe =>
            /\ T[s] # NoPipe
            /\ NotifyClose(T, u)[s].read_node = T[s].read_node
            /\ NotifyClose(T, u)[s].write_node = T[s].write_node
      /\ \A s \in Slot, n \in Node : s \in Owners(T, n) /\ r1[n] > 0 =>
            NotifyClose(T, u)[s] # NoPipe
  <2>1. CountInv(r, T)
    BY DEF r
  <2>. QED
    BY <1>1, <1>2, <1>3, <2>1, LowerKeeps
<1>6. Survives(T, NotifyClose(T, u), G)
  BY <1>4, <1>5 DEF Survives
<1>. QED
  BY <1>5, <1>6 DEF r1, u

LEMMA OpenOne ==
    ASSUME CountsFit, NEW F \in Tables, NEW G \in Tables, NEW L \in Loops, NEW M \in Loops,
           ~Counting(L), ~Counting(M), NEW p \in Proc, NEW f \in Fd, F[p][f] \notin Node,
           OnlyAt(F, G, p, f), NEW T, CountInv(RefsOf(F, L), T),
           G[p][f] \in Node => Refs(F, L, G[p][f]) > 0 \/ G[p][f] = ConsoleRead
    PROVE  /\ CountInv(RefsOf(G, M), ForkFd(T, G[p][f]))
           /\ Survives(T, ForkFd(T, G[p][f]), G)
<1>0. L.op \notin {"bump", "undo"} /\ M.op \notin {"bump", "undo"}
  BY DEF Counting
<1>9. \A n : Refs(G, M, n) = Refs(F, L, n) - Has(F, p, f, n) + Has(G, p, f, n)
  BY <1>0, AssignRefs
<1>. DEFINE r == RefsOf(F, L)
            r1 == RefsOf(G, M)
            v == G[p][f]
<1>1. r \in [Node -> 0 .. RefMod - 2] /\ r1 \in [Node -> 0 .. RefMod - 2]
  BY RefsOfFacts
<1>2. v \in Node => r[v] > 0 \/ v = ConsoleRead
  BY RefsOfFacts
<1>3. ASSUME NEW n \in Node PROVE r1[n] = IF n = v THEN r[n] + 1 ELSE r[n]
  <2>1. Refs(G, M, n) = Refs(F, L, n) - (IF F[p][f] = n THEN 1 ELSE 0) + (IF G[p][f] = n THEN 1 ELSE 0)
    BY <1>9 DEF Has
  <2>2. F[p][f] # n
    OBVIOUS
  <2>3. r1[n] = Refs(G, M, n) /\ r[n] = Refs(F, L, n) /\ Refs(F, L, n) \in Int
    BY RefsOfFacts, RefsFacts
  <2>. QED
    BY <2>1, <2>2, <2>3
<1>4. CountInv(r, T)
  OBVIOUS
<1>. HIDE DEF r, r1, v
<1>5. /\ CountInv(r1, ForkFd(T, v))
      /\ \A s \in Slot : ForkFd(T, v)[s].read_node = T[s].read_node
                      /\ ForkFd(T, v)[s].write_node = T[s].write_node
                      /\ (ForkFd(T, v)[s] = NoPipe <=> T[s] = NoPipe)
  BY <1>1, <1>2, <1>3, <1>4, RaiseKeeps
<1>6. Survives(T, ForkFd(T, v), G)
  BY <1>5 DEF Survives
<1>. QED
  BY <1>5, <1>6 DEF r1, v

LEMMA StillServed ==
    ASSUME NEW F, NEW G, NEW T, NEW T1, NEW c \in Calls, NEW p \in Proc,
           Served(F, T, c, p), \A f \in Fd : G[p][f] = F[p][f], Survives(T, T1, G)
    PROVE  Served(G, T1, c, p)
<1>. SUFFICES ASSUME c.op \in {"read", "write"}
              PROVE  EndOf(c, T1) \in Node /\ \E f \in Fd : G[p][f] = EndOf(c, T1)
  BY DEF Served
<1>1. EndOf(c, T) \in Node /\ c.slot \in Slot
  BY DEF Served, Calls, InUser
<1>2. PICK f \in Fd : F[p][f] = EndOf(c, T)
  BY DEF Served
<1>3. T[c.slot] # NoPipe
  BY <1>1, Constants DEF EndOf, NoPipe
<1>4. c.slot \in Owners(T, EndOf(c, T))
  BY <1>1, <1>3, OwnersAre DEF EndOf, Ends
<1>5. T1[c.slot].read_node = T[c.slot].read_node /\ T1[c.slot].write_node = T[c.slot].write_node
  BY <1>1, <1>2, <1>4 DEF Survives
<1>. QED
  BY <1>1, <1>2, <1>5 DEF EndOf

\* The counts depend on the descriptors open on pipes only.
LEMMA SameRefs ==
    ASSUME NEW F, NEW G, NEW L, NEW M,
           \A n \in Node, q \in Proc, g \in Fd : F[q][g] = n <=> G[q][g] = n,
           \A n \in Node : PromisedIn(F, L, n) = PromisedIn(G, M, n)
    PROVE  RefsOf(F, L) = RefsOf(G, M)
<1>1. ASSUME NEW n \in Node PROVE OpenIn(F, n) = OpenIn(G, n)
  <2>1. ASSUME NEW x \in Proc \X Fd PROVE F[x[1]][x[2]] = n <=> G[x[1]][x[2]] = n
    <3>1. x[1] \in Proc /\ x[2] \in Fd
      OBVIOUS
    <3>. QED
      BY <3>1
  <2>. QED
    BY <2>1 DEF OpenIn
<1>. QED
  BY <1>1 DEF RefsOf, Refs

-----------------------------------------------------------------------------
(* The invariant.                                                          *)

PipesTypes ==
    /\ alive \in SUBSET Proc
    /\ fds \in Tables
    /\ used \in [Slot -> 0 .. Capacity]
    /\ call \in [Proc -> Calls]
    /\ loop \in Loops

\* A loop is over a live task's descriptors; behind the loop of a kill all are closed.
LoopOK ==
    /\ loop # NoLoop => loop.proc \in alive
    /\ loop.op = "close" => \A f \in Fd : f < loop.fd => fds[loop.proc][f] = Null

DeadHoldNothing == \A p \in Proc \ alive, f \in Fd : fds[p][f] = Null

Closing(p) == loop.op = "close" /\ loop.proc = p

CallsServed == \A p \in Proc : ~Closing(p) => Served(fds, pipe_table, call[p], p)

PipesOK ==
    /\ PipesTypes
    /\ LoopOK
    /\ DeadHoldNothing
    /\ CallsServed
    /\ CountInv(RefsOf(fds, loop), pipe_table)

\* Nothing is said after a fork that failed for want of a stack: what its undo
\* loop stores may be stale.
PipesInv == ~stackless => PipesOK

LEMMA ValuesFacts ==
    /\ NoLoop \in Loops /\ NoLoop.op = "none" /\ InUser \in Calls /\ InUser.op = "user"
    /\ \A c \in Calls : c.op # "undo" /\ (c = InUser <=> c.op \notin {"read", "write"})
    /\ \A c \in Calls : c.op \in {"read", "write"} => c.slot \in Slot /\ c.len \in Nat \ {0}
    /\ \A L \in Loops : L # NoLoop => L.proc \in Proc /\ L.fd \in 0 .. NFd
                                     /\ L.op \in {"bump", "undo", "close"}
  BY DEF NoLoop, Loops, InUser, Calls

LEMMA Starts == CountsFit /\ PipesInit => PipesOK
<1>. SUFFICES ASSUME CountsFit, PipesInit PROVE PipesOK
  OBVIOUS
<1>1. \A p \in Proc, f \in Fd : fds[p][f] \in {File, Null}
  BY DEF PipesInit, StdFds
<1>2. PipesTypes
  <2>1. fds \in Tables
    BY <1>1 DEF PipesInit, StdFds, Tables, Thing
  <2>2. used \in [Slot -> 0 .. Capacity]
    BY CapacityAssumption DEF PipesInit
  <2>. QED
    BY <2>1, <2>2, ValuesFacts, ProcAssumption DEF PipesInit, PipesTypes
<1>3. LoopOK
  BY ValuesFacts DEF PipesInit, LoopOK
<1>4. DeadHoldNothing
  BY DEF PipesInit, DeadHoldNothing
<1>5. CallsServed
  BY ValuesFacts DEF PipesInit, CallsServed, Served
<1>6. CountInv(RefsOf(fds, loop), pipe_table)
  <2>. DEFINE console == [read_node |-> ConsoleRead, write_node |-> ConsoleWrite,
                          read_refs |-> 1, write_refs |-> 1]
  <2>1. loop \in Loops /\ loop = NoLoop
    BY ValuesFacts DEF PipesInit
  <2>2. RefsOf(fds, loop) \in [Node -> 0 .. RefMod - 2]
    BY <2>1, RefsOfFacts
  <2>3. ASSUME NEW n \in Node PROVE RefsOf(fds, loop)[n] = 0
    <3>1. OpenIn(fds, n) = {}
      BY <1>1, Constants DEF OpenIn
    <3>2. PromisedIn(fds, loop, n) = {}
      BY <2>1, ValuesFacts DEF PromisedIn
    <3>. QED
      BY <2>1, <3>1, <3>2, RefsFacts DEF RefsOf
  <2>4. /\ console \in Entry /\ NoPipe \in Entry /\ console # NoPipe
        /\ console.read_node = ConsoleRead /\ console.write_node = ConsoleWrite
        /\ console.read_refs = 1 /\ console.write_refs = 1
    BY Constants DEF Entry, NoPipe, Count
  <2>5. pipe_table = [s \in Slot |-> IF s = ConsoleSlot THEN console ELSE NoPipe]
    BY DEF PipesInit
  <2>. HIDE DEF console
  <2>6. /\ pipe_table \in [Slot -> Entry] /\ pipe_table[ConsoleSlot] = console
        /\ \A s \in Slot : pipe_table[s] # NoPipe => s = ConsoleSlot
    BY <2>4, <2>5, Constants
  <2>7. OfKernel(ConsoleSlot) = 1
    BY DEF OfKernel
  <2>8. \A s, t \in Slot : \A n \in Node : s \in Owners(pipe_table, n) /\ t \in Owners(pipe_table, n) => s = t
    BY <2>6, OwnersAre
  <2>9. Fits(RefsOf(fds, loop), console, 1)
    BY <2>3, <2>4, Constants DEF Fits
  <2>10. /\ pipe_table[ConsoleSlot].read_node = ConsoleRead
         /\ pipe_table[ConsoleSlot].write_node = ConsoleWrite
    BY <2>4, <2>6
  <2>11. \A s \in Slot : pipe_table[s] # NoPipe =>
            Fits(RefsOf(fds, loop), pipe_table[s], OfKernel(s))
    BY <2>6, <2>7, <2>9
  <2>12. \A s \in Slot : pipe_table[s] # NoPipe =>
            /\ pipe_table[s].read_node \in Node /\ pipe_table[s].write_node \in Node
            /\ pipe_table[s].read_node # pipe_table[s].write_node
    BY <2>6, <2>10, Constants
  <2>. QED
    BY <2>2, <2>3, <2>6, <2>8, <2>10, <2>11, <2>12 DEF CountInv
<1>. QED
  BY <1>2, <1>3, <1>4, <1>5, <1>6 DEF PipesOK

-----------------------------------------------------------------------------
(* Steps that leave table and descriptors alone.                           *)

LEMMA QuietStep ==
    ASSUME PipesOK, UNCHANGED <<alive, fds, pipe_table, loop>>,
           used' \in [Slot -> 0 .. Capacity], call' \in [Proc -> Calls],
           \A p \in Proc : call'[p] = call[p] \/ Served(fds, pipe_table, call'[p], p)
    PROVE  PipesOK'
<1>1. PipesTypes'
  BY DEF PipesOK, PipesTypes
<1>2. LoopOK' /\ DeadHoldNothing'
  BY DEF PipesOK, LoopOK, DeadHoldNothing
<1>3. CallsServed'
  BY DEF PipesOK, CallsServed, Closing
<1>4. CountInv(RefsOf(fds, loop), pipe_table)'
  BY DEF PipesOK
<1>. QED
  BY <1>1, <1>2, <1>3, <1>4 DEF PipesOK

\* A call that starts to wait holds the pipe it waits for.
LEMMA FdServes ==
    ASSUME PipesOK, NEW p \in Proc, NEW f \in Fd, NEW s \in InUse(pipe_table),
           NEW c, c.op \in {"read", "write"}, c.slot = s, fds[p][f] = EndOf(c, pipe_table)
    PROVE  Served(fds, pipe_table, c, p)
<1>1. s \in Slot /\ pipe_table[s] # NoPipe
  BY DEF InUse
<1>2. pipe_table[s].read_node \in Node /\ pipe_table[s].write_node \in Node
  BY <1>1, EndsUsable DEF PipesOK
<1>. QED
  BY <1>2 DEF Served, EndOf

LEMMA SleepIs ==
    ASSUME PipesTypes, NEW p \in Proc, NEW op \in {"read", "write"}, NEW s \in Slot,
           NEW len \in Nat \ {0}, Sleep(p, op, s, len)
    PROVE  /\ call' \in [Proc -> Calls] /\ \A q \in Proc \ {p} : call'[q] = call[q]
           /\ call'[p].op = op /\ call'[p].slot = s /\ call'[p].len = len
  BY DEF PipesTypes, Sleep, Calls

LEMMA ReturnIs ==
    ASSUME PipesTypes, NEW p \in Proc, Return(p)
    PROVE  /\ call' \in [Proc -> Calls] /\ \A q \in Proc \ {p} : call'[q] = call[q]
           /\ call'[p] = InUser
           /\ \A T, F : Served(F, T, call'[p], p)
<1>1. call' \in [Proc -> Calls] /\ (\A q \in Proc \ {p} : call'[q] = call[q]) /\ call'[p] = InUser
  BY ValuesFacts DEF PipesTypes, Return
<1>. QED
  BY <1>1, ValuesFacts DEF Served

LEMMA CopyOutIs ==
    ASSUME PipesTypes, NEW s \in Slot, NEW len \in Nat \ {0}, CopyOut(s, len)
    PROVE  used' \in [Slot -> 0 .. Capacity] /\ used' # used
<1>1. used[s] \in 0 .. Capacity /\ used[s] > 0 /\ Capacity \in Nat
  BY CapacityAssumption DEF PipesTypes, CopyOut
<1>2. Min({len, used[s]}) \in {len, used[s]} /\ Min({len, used[s]}) <= used[s]
  <2>1. {len, used[s]} \subseteq Nat /\ {len, used[s]} # {}
    BY <1>1
  <2>. QED
    BY <2>1, MinOfNats
<1>. DEFINE m == Min({len, used[s]})
<1>3. m \in 1 .. used[s]
  BY <1>1, <1>2
<1>4. used' = [used EXCEPT ![s] = used[s] - m]
  BY DEF CopyOut
<1>. HIDE DEF m
<1>. QED
  BY <1>1, <1>3, <1>4 DEF PipesTypes

LEMMA CopyInIs ==
    ASSUME PipesTypes, NEW p \in Proc, NEW s \in Slot, NEW len \in Nat \ {0}, CopyIn(p, s, len)
    PROVE  /\ used' \in [Slot -> 0 .. Capacity]
           /\ Room(s) > 0 => used' # used
           /\ \/ Return(p)
              \/ \E l \in Nat \ {0} : Sleep(p, "write", s, l)
<1>1. used[s] \in 0 .. Capacity /\ Capacity \in Nat /\ Room(s) = Capacity - used[s] /\ Room(s) \in Nat
  BY CapacityAssumption DEF PipesTypes, Room
<1>2. Min({len, Room(s)}) \in {len, Room(s)} /\ Min({len, Room(s)}) <= Room(s) /\ Min({len, Room(s)}) <= len
  <2>1. {len, Room(s)} \subseteq Nat /\ {len, Room(s)} # {}
    BY <1>1
  <2>. QED
    BY <2>1, MinOfNats
<1>. DEFINE n == Min({len, Room(s)})
<1>3. n \in 0 .. Room(s) /\ n <= len /\ (Room(s) > 0 => n > 0)
  BY <1>1, <1>2
<1>4. /\ used' = [used EXCEPT ![s] = used[s] + n]
      /\ IF n = len THEN Return(p) ELSE Sleep(p, "write", s, len - n)
  BY DEF CopyIn
<1>. HIDE DEF n
<1>5. used' \in [Slot -> 0 .. Capacity] /\ (Room(s) > 0 => used' # used)
  BY <1>1, <1>3, <1>4 DEF PipesTypes
<1>6. n # len => len - n \in Nat \ {0}
  BY <1>1, <1>3
<1>. QED
  BY <1>4, <1>5, <1>6

LEMMA ReadStep ==
    ASSUME PipesOK, NEW p \in Proc, NEW f \in Fd, NEW len \in Length, Read(p, f, len)
    PROVE  PipesOK'
<1>1. PipesTypes /\ len \in Nat \ {0}
  BY LengthAssumption DEF PipesOK
<1>2. PICK s \in InUse(pipe_table) :
         /\ fds[p][f] = pipe_table[s].read_node
         /\ \/ CopyOut(s, len) /\ UNCHANGED call
            \/ Sleep(p, "read", s, len) /\ UNCHANGED used
  BY DEF Read
<1>3. s \in Slot
  BY DEF InUse
<1>4. UNCHANGED <<alive, fds, pipe_table, loop>>
  BY DEF Read
<1>5. CASE CopyOut(s, len) /\ UNCHANGED call
  <2>1. used' \in [Slot -> 0 .. Capacity] /\ call' \in [Proc -> Calls]
    BY <1>1, <1>3, <1>5, CopyOutIs DEF PipesTypes
  <2>. QED
    BY <1>4, <1>5, <2>1, QuietStep
<1>6. CASE Sleep(p, "read", s, len) /\ UNCHANGED used
  <2>1. /\ call' \in [Proc -> Calls] /\ \A q \in Proc \ {p} : call'[q] = call[q]
        /\ call'[p].op = "read" /\ call'[p].slot = s
    BY <1>1, <1>3, <1>6, SleepIs
  <2>2. fds[p][f] = EndOf(call'[p], pipe_table)
    BY <1>2, <2>1 DEF EndOf
  <2>3. Served(fds, pipe_table, call'[p], p)
    BY <2>1, <2>2, FdServes
  <2>4. used' \in [Slot -> 0 .. Capacity]
    BY <1>1, <1>6 DEF PipesTypes
  <2>. QED
    BY <1>4, <2>1, <2>3, <2>4, QuietStep
<1>. QED
  BY <1>2, <1>5, <1>6

LEMMA CopyInStep ==
    ASSUME PipesOK, NEW p \in Proc, NEW s \in Slot, NEW len \in Nat \ {0}, CopyIn(p, s, len),
           UNCHANGED <<alive, fds, pipe_table, loop>>,
           pipe_table[s].write_node \in Node, \E f \in Fd : fds[p][f] = pipe_table[s].write_node
    PROVE  PipesOK'
<1>1. PipesTypes
  BY DEF PipesOK
<1>2. used' \in [Slot -> 0 .. Capacity]
  BY <1>1, CopyInIs
<1>3. CASE Return(p)
  <2>1. /\ call' \in [Proc -> Calls] /\ \A q \in Proc \ {p} : call'[q] = call[q]
        /\ Served(fds, pipe_table, call'[p], p)
    BY <1>1, <1>3, ReturnIs
  <2>. QED
    BY <1>2, <2>1, QuietStep
<1>4. CASE \E l \in Nat \ {0} : Sleep(p, "write", s, l)
  <2>1. PICK l \in Nat \ {0} : Sleep(p, "write", s, l)
    BY <1>4
  <2>2. /\ call' \in [Proc -> Calls] /\ \A q \in Proc \ {p} : call'[q] = call[q]
        /\ call'[p].op = "write" /\ call'[p].slot = s
    BY <1>1, <2>1, SleepIs
  <2>3. EndOf(call'[p], pipe_table) = pipe_table[s].write_node
    BY <2>2 DEF EndOf
  <2>4. Served(fds, pipe_table, call'[p], p)
    BY <2>3 DEF Served
  <2>. QED
    BY <1>2, <2>2, <2>4, QuietStep
<1>. QED
  BY <1>1, <1>3, <1>4, CopyInIs

LEMMA WriteStep ==
    ASSUME PipesOK, NEW p \in Proc, NEW f \in Fd, NEW len \in Length, Write(p, f, len)
    PROVE  PipesOK'
<1>1. PICK s \in InUse(pipe_table) : fds[p][f] = pipe_table[s].write_node /\ CopyIn(p, s, len)
  BY DEF Write
<1>2. s \in Slot /\ pipe_table[s] # NoPipe /\ len \in Nat \ {0}
  BY LengthAssumption DEF InUse
<1>3. pipe_table[s].write_node \in Node
  BY <1>2, EndsUsable DEF PipesOK
<1>4. UNCHANGED <<alive, fds, pipe_table, loop>>
  BY DEF Write
<1>. QED
  BY <1>1, <1>2, <1>3, <1>4, CopyInStep

\* A blocked call that goes on is over a pipe its task still has.
LEMMA WaitsServed ==
    ASSUME PipesOK, NEW p \in Proc, NEW op \in {"read", "write"}, Waits(p, op)
    PROVE  /\ call[p].slot \in Slot /\ call[p].len \in Nat \ {0} /\ call[p].op = op
           /\ EndOf(call[p], pipe_table) \in Node
           /\ \E f \in Fd : fds[p][f] = EndOf(call[p], pipe_table)
<1>1. call[p] \in Calls /\ call[p].op = op /\ ~Closing(p)
  BY ValuesFacts DEF Waits, PipesOK, PipesTypes, Closing
<1>2. Served(fds, pipe_table, call[p], p)
  BY <1>1 DEF PipesOK, CallsServed
<1>. QED
  BY <1>1, <1>2, ValuesFacts DEF Served

LEMMA ResumeStep ==
    ASSUME PipesOK, NEW p \in Proc, Resume(p)
    PROVE  PipesOK'
<1>1. PipesTypes
  BY DEF PipesOK
<1>2. CASE ReadSome(p)
  <2>1. /\ Waits(p, "read") /\ CopyOut(call[p].slot, call[p].len) /\ Return(p)
        /\ UNCHANGED <<alive, fds, pipe_table, loop>>
    BY <1>2 DEF ReadSome
  <2>2. call[p].slot \in Slot /\ call[p].len \in Nat \ {0}
    BY <2>1, WaitsServed
  <2>3. used' \in [Slot -> 0 .. Capacity]
    BY <1>1, <2>1, <2>2, CopyOutIs
  <2>4. /\ call' \in [Proc -> Calls] /\ \A q \in Proc \ {p} : call'[q] = call[q]
        /\ Served(fds, pipe_table, call'[p], p)
    BY <1>1, <2>1, ReturnIs
  <2>. QED
    BY <2>1, <2>3, <2>4, QuietStep
<1>3. CASE ReadEof(p) \/ WriteBroken(p)
  <2>1. /\ Return(p) /\ UNCHANGED used
        /\ UNCHANGED <<alive, fds, pipe_table, loop>>
    BY <1>3 DEF ReadEof, WriteBroken
  <2>2. /\ call' \in [Proc -> Calls] /\ \A q \in Proc \ {p} : call'[q] = call[q]
        /\ Served(fds, pipe_table, call'[p], p)
    BY <1>1, <2>1, ReturnIs
  <2>3. used' \in [Slot -> 0 .. Capacity]
    BY <1>1, <2>1 DEF PipesTypes
  <2>. QED
    BY <2>1, <2>2, <2>3, QuietStep
<1>4. CASE WriteMore(p)
  <2>1. /\ Waits(p, "write") /\ CopyIn(p, call[p].slot, call[p].len)
        /\ UNCHANGED <<alive, fds, pipe_table, loop>>
    BY <1>4 DEF WriteMore
  <2>2. /\ call[p].slot \in Slot /\ call[p].len \in Nat \ {0}
        /\ EndOf(call[p], pipe_table) = pipe_table[call[p].slot].write_node
        /\ EndOf(call[p], pipe_table) \in Node
        /\ \E f \in Fd : fds[p][f] = EndOf(call[p], pipe_table)
    BY <2>1, WaitsServed DEF EndOf
  <2>. QED
    BY <2>1, <2>2, CopyInStep
<1>. QED
  BY <1>2, <1>3, <1>4 DEF Resume

LEMMA OtherQuietSteps ==
    ASSUME PipesOK, NEW p \in Proc,
           \/ CreatePipeOneNode(p)
           \/ \E f \in Fd, len \in Length : WriteStdout(p, f, len)
    PROVE  PipesOK'
<1>1. PipesTypes
  BY DEF PipesOK
<1>2. CASE CreatePipeOneNode(p)
  <2>1. /\ UNCHANGED <<used, call>>
        /\ UNCHANGED <<alive, fds, pipe_table, loop>>
    BY <1>2 DEF CreatePipeOneNode
  <2>. QED
    BY <1>1, <2>1, QuietStep DEF PipesTypes
<1>3. CASE \E f \in Fd, len \in Length : WriteStdout(p, f, len)
  <2>1. PICK f \in Fd, len \in Length : WriteStdout(p, f, len)
    BY <1>3
  <2>2. /\ used' = [used EXCEPT ![ConsoleSlot] = Min({Capacity, used[ConsoleSlot] + len})]
        /\ UNCHANGED call
        /\ UNCHANGED <<alive, fds, pipe_table, loop>>
    BY <2>1 DEF WriteStdout
  <2>3. /\ Capacity \in Nat /\ used[ConsoleSlot] + len \in Nat
        /\ used \in [Slot -> 0 .. Capacity]
    BY <1>1, Constants, CapacityAssumption, LengthAssumption DEF PipesTypes
  <2>. DEFINE m == Min({Capacity, used[ConsoleSlot] + len})
  <2>4. m \in 0 .. Capacity
    <3>1. {Capacity, used[ConsoleSlot] + len} \subseteq Nat /\ {Capacity, used[ConsoleSlot] + len} # {}
      BY <2>3
    <3>2. m \in {Capacity, used[ConsoleSlot] + len} /\ m <= Capacity
      BY <3>1, MinOfNats
    <3>. QED
      BY <2>3, <3>2
  <2>. HIDE DEF m
  <2>5. used' \in [Slot -> 0 .. Capacity]
    BY <2>2, <2>3, <2>4 DEF m
  <2>. QED
    BY <1>1, <2>2, <2>5, QuietStep DEF PipesTypes
<1>. QED
  BY <1>2, <1>3

-----------------------------------------------------------------------------
(* System calls on descriptors.                                            *)

\* Descriptors and table change together, outside the loops.
LEMMA DescriptorStep ==
    ASSUME PipesOK, UNCHANGED <<alive, call, loop>>,
           used' \in [Slot -> 0 .. Capacity], loop = NoLoop,
           NEW p \in alive, call[p] = InUser,
           fds' \in Tables, \A q \in Proc \ {p}, g \in Fd : fds'[q][g] = fds[q][g],
           CountInv(RefsOf(fds', NoLoop), pipe_table'),
           Survives(pipe_table, pipe_table', fds')
    PROVE  PipesOK'
<1>1. PipesTypes /\ LoopOK /\ DeadHoldNothing /\ CallsServed /\ NoLoop.op = "none"
  BY ValuesFacts DEF PipesOK
<1>2. PipesTypes' /\ LoopOK' /\ DeadHoldNothing'
  BY <1>1 DEF PipesTypes, LoopOK, DeadHoldNothing
<1>3. ASSUME NEW q \in Proc PROVE Served(fds', pipe_table', call'[q], q)
  <2>1. CASE q = p
    BY <2>1, ValuesFacts DEF Served
  <2>2. CASE q # p
    <3>1. Served(fds, pipe_table, call[q], q) /\ call[q] \in Calls
      BY <1>1 DEF CallsServed, Closing, PipesTypes
    <3>2. \A g \in Fd : fds'[q][g] = fds[q][g]
      BY <2>2
    <3>3. Served(fds', pipe_table', call[q], q)
      BY <3>1, <3>2, StillServed
    <3>. QED
      BY <3>3
  <2>. QED
    BY <2>1, <2>2
<1>4. CallsServed'
  BY <1>3 DEF CallsServed
<1>5. CountInv(RefsOf(fds, loop), pipe_table)'
  OBVIOUS
<1>. QED
  BY <1>2, <1>4, <1>5 DEF PipesOK

LEMMA MayCallFacts ==
    ASSUME PipesOK, NEW p, MayCall(p)
    PROVE  /\ loop = NoLoop /\ ~Counting(loop) /\ p \in alive /\ p \in Proc /\ call[p] = InUser
           /\ loop \in Loops /\ NoLoop \in Loops /\ fds \in Tables
           /\ used \in [Slot -> 0 .. Capacity]
           /\ CountInv(RefsOf(fds, loop), pipe_table)
  BY ValuesFacts DEF PipesOK, PipesTypes, MayCall, Counting

LEMMA CloseStepOK ==
    ASSUME CountsFit, PipesOK, NEW p \in Proc, NEW f \in Fd, Close(p, f)
    PROVE  PipesOK'
<1>1. /\ MayCall(p) /\ fds' = [fds EXCEPT ![p][f] = Null]
      /\ pipe_table' = NotifyClose(pipe_table, fds[p][f])
      /\ UNCHANGED <<alive, call, loop>> /\ UNCHANGED used
  BY DEF Close
<1>2. /\ loop = NoLoop /\ ~Counting(loop) /\ p \in alive /\ call[p] = InUser
      /\ loop \in Loops /\ fds \in Tables /\ used \in [Slot -> 0 .. Capacity]
      /\ CountInv(RefsOf(fds, loop), pipe_table)
  BY <1>1, MayCallFacts
<1>3. /\ fds' \in Tables /\ OnlyAt(fds, fds', p, f) /\ fds'[p][f] = Null
      /\ \A q \in Proc \ {p}, g \in Fd : fds'[q][g] = fds[q][g]
  <2>1. Null \in Thing
    BY DEF Thing
  <2>. QED
    BY <1>1, <1>2, <2>1 DEF Tables, OnlyAt
<1>4. /\ CountInv(RefsOf(fds', loop), NotifyClose(pipe_table, fds[p][f]))
      /\ Survives(pipe_table, NotifyClose(pipe_table, fds[p][f]), fds')
  BY <1>2, <1>3, CloseOne
<1>. QED
  BY <1>1, <1>2, <1>3, <1>4, DescriptorStep

LEMMA FreeFdFacts ==
    ASSUME fds \in Tables, NEW p \in Proc
    PROVE  /\ FreeFds(p) \subseteq Fd /\ IsFiniteSet(FreeFds(p)) /\ Cardinality(FreeFds(p)) \in Nat
           /\ \A S \in SUBSET FreeFds(p) : S # {} =>
                 Min(S) \in S /\ Min(S) \in Fd /\ fds[p][Min(S)] = Null
<1>1. FreeFds(p) \subseteq Fd /\ IsFiniteSet(Fd) /\ Fd \subseteq Nat
  <2>1. IsFiniteSet(Fd) /\ Fd \subseteq Nat
    BY Constants, FS_Interval DEF Fd
  <2>. QED
    BY <2>1 DEF FreeFds
<1>2. IsFiniteSet(FreeFds(p)) /\ Cardinality(FreeFds(p)) \in Nat
  BY <1>1, FS_Subset, FS_CardinalityType
<1>3. ASSUME NEW S \in SUBSET FreeFds(p), S # {}
      PROVE  Min(S) \in S /\ Min(S) \in Fd /\ fds[p][Min(S)] = Null
  <2>1. S \subseteq Nat
    BY <1>1
  <2>2. Min(S) \in S
    BY <1>3, <2>1, MinOfNats
  <2>. QED
    BY <2>2 DEF FreeFds
<1>. QED
  BY <1>1, <1>2, <1>3

LEMMA OpenConsoleStep ==
    ASSUME CountsFit, PipesOK, NEW p \in Proc, OpenConsole(p)
    PROVE  PipesOK'
<1>. DEFINE f == Min(FreeFds(p))
<1>1. /\ MayCall(p) /\ FreeFds(p) # {} /\ fds' = [fds EXCEPT ![p][f] = ConsoleRead]
      /\ pipe_table' = ForkFd(pipe_table, ConsoleRead)
      /\ UNCHANGED <<alive, call, loop>> /\ UNCHANGED used
  BY DEF OpenConsole
<1>2. /\ loop = NoLoop /\ ~Counting(loop) /\ p \in alive /\ call[p] = InUser
      /\ loop \in Loops /\ fds \in Tables /\ used \in [Slot -> 0 .. Capacity]
      /\ CountInv(RefsOf(fds, loop), pipe_table)
  BY <1>1, MayCallFacts
<1>3. f \in Fd /\ fds[p][f] = Null
  BY <1>1, <1>2, FreeFdFacts
<1>. HIDE DEF f
<1>4. /\ fds' \in Tables /\ OnlyAt(fds, fds', p, f) /\ fds'[p][f] = ConsoleRead
      /\ \A q \in Proc \ {p}, g \in Fd : fds'[q][g] = fds[q][g]
  <2>1. ConsoleRead \in Thing
    BY Constants DEF Thing
  <2>. QED
    BY <1>1, <1>2, <1>3, <2>1 DEF Tables, OnlyAt
<1>5. fds[p][f] \notin Node
  BY <1>3, Constants
<1>6. /\ CountInv(RefsOf(fds', loop), ForkFd(pipe_table, fds'[p][f]))
      /\ Survives(pipe_table, ForkFd(pipe_table, fds'[p][f]), fds')
  BY <1>2, <1>3, <1>4, <1>5, OpenOne
<1>. QED
  BY <1>1, <1>2, <1>4, <1>6, DescriptorStep

LEMMA Dup2Step ==
    ASSUME CountsFit, PipesOK, NEW p \in Proc, NEW old \in Fd, NEW new \in Fd, Dup2(p, old, new)
    PROVE  PipesOK'
<1>. DEFINE F == [fds EXCEPT ![p][new] = Null]
            T == NotifyClose(pipe_table, fds[p][new])
            v == fds[p][old]
<1>1. /\ MayCall(p) /\ v # Null /\ old # new /\ fds' = [fds EXCEPT ![p][new] = v]
      /\ pipe_table' = ForkFd(T, v)
      /\ UNCHANGED <<alive, call, loop>> /\ UNCHANGED used
  BY DEF Dup2
<1>2. /\ loop = NoLoop /\ ~Counting(loop) /\ p \in alive /\ call[p] = InUser
      /\ loop \in Loops /\ fds \in Tables /\ used \in [Slot -> 0 .. Capacity]
      /\ CountInv(RefsOf(fds, loop), pipe_table)
  BY <1>1, MayCallFacts
<1>3. /\ F \in Tables /\ OnlyAt(fds, F, p, new) /\ F[p][new] = Null /\ F[p][old] = v
  <2>1. Null \in Thing
    BY DEF Thing
  <2>. QED
    BY <1>1, <1>2, <2>1 DEF Tables, OnlyAt
<1>4. /\ fds' \in Tables /\ OnlyAt(F, fds', p, new) /\ fds'[p][new] = v
      /\ \A q \in Proc \ {p}, g \in Fd : fds'[q][g] = fds[q][g]
  <2>1. v \in Thing
    BY <1>2 DEF Tables
  <2>. HIDE DEF v
  <2>. QED
    BY <1>1, <1>2, <2>1 DEF Tables, OnlyAt
<1>. HIDE DEF F, T
<1>5. CountInv(RefsOf(F, loop), T) /\ Survives(pipe_table, T, F)
  BY <1>2, <1>3, CloseOne DEF T
<1>6. F[p][new] \notin Node
  BY <1>3, Constants
<1>7. v \in Node => Refs(F, loop, v) > 0
  BY <1>2, <1>3, RefsOfFacts
<1>8. CountInv(RefsOf(fds', loop), ForkFd(T, v)) /\ Survives(T, ForkFd(T, v), fds')
  BY <1>2, <1>3, <1>4, <1>5, <1>6, <1>7, OpenOne
<1>9. Survives(pipe_table, pipe_table', fds')
  <2>. SUFFICES ASSUME NEW s \in Slot, NEW n \in Node, NEW q \in Proc, NEW g \in Fd,
                       s \in Owners(pipe_table, n), fds'[q][g] = n
                PROVE  /\ pipe_table'[s].read_node = pipe_table[s].read_node
                       /\ pipe_table'[s].write_node = pipe_table[s].write_node
    BY DEF Survives
  <2>1. \E q1 \in Proc, g1 \in Fd : F[q1][g1] = n
    BY <1>3, <1>4 DEF OnlyAt
  <2>2. T[s].read_node = pipe_table[s].read_node /\ T[s].write_node = pipe_table[s].write_node
    BY <1>5, <2>1 DEF Survives
  <2>3. pipe_table[s].read_node = n \/ pipe_table[s].write_node = n
    BY OwnersAre DEF Ends
  <2>4. s \in Owners(T, n)
    <3>1. T[s] # NoPipe
      BY <2>2, <2>3, Constants DEF NoPipe
    <3>. QED
      BY <2>2, <2>3, <3>1, OwnersAre DEF Ends
  <2>5. /\ ForkFd(T, v)[s].read_node = T[s].read_node
        /\ ForkFd(T, v)[s].write_node = T[s].write_node
    BY <1>8, <2>4 DEF Survives
  <2>. QED
    BY <1>1, <2>2, <2>5
<1>. QED
  BY <1>1, <1>2, <1>4, <1>8, <1>9, DescriptorStep

LEMMA CreatePipeStep ==
    ASSUME CountsFit, PipesOK, NEW p \in Proc, NEW rn \in Node, NEW wn \in Node, CreatePipe(p, rn, wn)
    PROVE  PipesOK'
<1>. DEFINE s0 == Min(Slot \ InUse(pipe_table))
            few == Cardinality(FreeFds(p)) < 2
            rfd == Min(FreeFds(p))
            wfd == Min(FreeFds(p) \ {rfd})
            r == RefsOf(fds, loop)
            r1 == RefsOf(fds', loop)
<1>1. /\ MayCall(p) /\ rn \in FreeNodes /\ wn \in FreeNodes /\ rn # wn
      /\ Slot \ InUse(pipe_table) # {}
      /\ UNCHANGED <<alive, call, loop>>
      /\ pipe_table' = [pipe_table EXCEPT ![s0] = [read_node |-> rn, write_node |-> wn,
                                                   read_refs |-> 1, write_refs |-> 1]]
      /\ used' = [used EXCEPT ![s0] = 0]
      /\ few => UNCHANGED fds
      /\ ~few => fds' = [fds EXCEPT ![p][rfd] = rn, ![p][wfd] = wn]
  BY DEF CreatePipe, InUse
<1>2. /\ loop = NoLoop /\ ~Counting(loop) /\ p \in alive /\ call[p] = InUser
      /\ loop \in Loops /\ fds \in Tables /\ used \in [Slot -> 0 .. Capacity]
      /\ CountInv(r, pipe_table)
  BY <1>1, MayCallFacts
<1>3. s0 \in Slot /\ pipe_table[s0] = NoPipe
  <2>1. Slot \ InUse(pipe_table) \subseteq Nat
    BY NSlotAssumption DEF Slot
  <2>2. s0 \in Slot \ InUse(pipe_table)
    BY <1>1, <2>1, MinOfNats
  <2>. QED
    BY <2>2 DEF InUse
<1>4. ASSUME NEW n \in FreeNodes, n \in Node
      PROVE  Owners(pipe_table, n) = {} /\ Refs(fds, loop, n) = 0
  <2>1. \A s \in Slot : n \notin Ends(pipe_table[s])
    BY DEF FreeNodes, EndsOf, Ends
  <2>2. Owners(pipe_table, n) = {}
    BY <2>1, OwnersAre
  <2>3. ~(r[n] > 0) /\ r[n] \in Nat
    BY <1>2, <1>4, <2>2, Constants DEF CountInv
  <2>4. r[n] = Refs(fds, loop, n)
    BY <1>2, <1>4, RefsOfFacts
  <2>. HIDE DEF r
  <2>5. r[n] = 0
    BY <2>3
  <2>. QED
    BY <2>2, <2>4, <2>5
<1>5. r1 \in [Node -> 0 .. RefMod - 2]
  BY <1>2, RefsOfFacts
<1>6. /\ fds' \in Tables /\ \A q \in Proc \ {p}, g \in Fd : fds'[q][g] = fds[q][g]
      /\ \A n \in Node \ {rn, wn} : r1[n] = r[n]
      /\ \/ r1[rn] = 1 /\ r1[wn] = 1
         \/ r1[rn] = 0 /\ r1[wn] = 0
  <2>1. CASE few
    <3>1. fds' = fds
      BY <1>1, <2>1
    <3>2. r1 = r
      BY <3>1
    <3>3. r[rn] = 0 /\ r[wn] = 0
      BY <1>1, <1>2, <1>4, RefsOfFacts
    <3>. QED
      BY <1>2, <3>1, <3>2, <3>3
  <2>2. CASE ~few
    <3>1. /\ FreeFds(p) # {} /\ FreeFds(p) \ {rfd} # {}
      <4>1. IsFiniteSet(FreeFds(p)) /\ Cardinality(FreeFds(p)) \in Nat /\ Cardinality(FreeFds(p)) >= 2
        BY <1>2, <2>2, FreeFdFacts
      <4>2. Cardinality(FreeFds(p)) # 0
        BY <4>1
      <4>3. /\ IsFiniteSet(FreeFds(p) \ {rfd})
            /\ Cardinality(FreeFds(p) \ {rfd}) =
                  IF rfd \in FreeFds(p) THEN Cardinality(FreeFds(p)) - 1 ELSE Cardinality(FreeFds(p))
        BY <4>1, FS_RemoveElement
      <4>4. Cardinality(FreeFds(p) \ {rfd}) # 0
        BY <4>1, <4>3
      <4>. QED
        BY <4>1, <4>2, <4>3, <4>4, FS_EmptySet
    <3>2. rfd \in Fd /\ wfd \in Fd /\ rfd # wfd /\ fds[p][rfd] = Null /\ fds[p][wfd] = Null
      <4>1. rfd \in FreeFds(p) /\ rfd \in Fd /\ fds[p][rfd] = Null
        BY <1>2, <3>1, FreeFdFacts
      <4>2. wfd \in FreeFds(p) \ {rfd} /\ wfd \in Fd /\ fds[p][wfd] = Null
        BY <1>2, <3>1, FreeFdFacts
      <4>. QED
        BY <4>1, <4>2
    <3>. DEFINE F == [fds EXCEPT ![p][rfd] = rn]
    <3>3. fds' = [fds EXCEPT ![p][rfd] = rn, ![p][wfd] = wn]
      BY <1>1, <2>2
    <3>. HIDE DEF rfd, wfd
    <3>4. F \in Tables /\ OnlyAt(fds, F, p, rfd) /\ F[p][rfd] = rn /\ F[p][wfd] = Null
      BY <1>2, <3>2 DEF Tables, OnlyAt, Thing
    <3>5. fds' \in Tables /\ OnlyAt(F, fds', p, wfd) /\ fds'[p][wfd] = wn
      BY <1>2, <3>2, <3>3 DEF Tables, OnlyAt, Thing
    <3>6. \A q \in Proc \ {p}, g \in Fd : fds'[q][g] = fds[q][g]
      BY <1>2, <3>2, <3>3 DEF Tables
    <3>. HIDE DEF F
    <3>7. ASSUME NEW n \in Node
          PROVE  r1[n] = r[n] + (IF n = rn THEN 1 ELSE 0) + (IF n = wn THEN 1 ELSE 0)
      <4>0. loop.op \notin {"bump", "undo"}
        BY <1>2 DEF Counting
      <4>1. Refs(F, loop, n) = Refs(fds, loop, n) - Has(fds, p, rfd, n) + Has(F, p, rfd, n)
        BY <3>2, <3>4, <4>0, AssignRefs
      <4>2. Refs(fds', loop, n) = Refs(F, loop, n) - Has(F, p, wfd, n) + Has(fds', p, wfd, n)
        BY <3>2, <3>5, <4>0, AssignRefs
      <4>3. Has(fds, p, rfd, n) = 0 /\ Has(F, p, wfd, n) = 0
        BY <3>2, <3>4, Constants DEF Has
      <4>4. Has(F, p, rfd, n) = (IF n = rn THEN 1 ELSE 0) /\ Has(fds', p, wfd, n) = (IF n = wn THEN 1 ELSE 0)
        BY <3>4, <3>5 DEF Has
      <4>5. r1[n] = Refs(fds', loop, n) /\ r[n] = Refs(fds, loop, n)
        BY <1>2, RefsOfFacts
      <4>6. Refs(fds, loop, n) \in 0 .. RefMod - 2 /\ Refs(F, loop, n) \in 0 .. RefMod - 2
        BY <1>2, RefsFacts
      <4>. HIDE DEF r, r1
      <4>. QED
        BY <4>1, <4>2, <4>3, <4>4, <4>5, <4>6
    <3>8. r[rn] = 0 /\ r[wn] = 0
      BY <1>1, <1>2, <1>4, RefsOfFacts
    <3>9. \A n \in Node : r[n] \in Nat
      BY <1>2, Constants DEF CountInv
    <3>. HIDE DEF r, r1
    <3>. QED
      BY <1>1, <3>5, <3>6, <3>7, <3>8, <3>9
  <2>. QED
    BY <2>1, <2>2
<1>8. Owners(pipe_table, rn) = {} /\ Owners(pipe_table, wn) = {}
  BY <1>1, <1>4
<1>. HIDE DEF s0, few, rfd, wfd, r, r1
<1>7. used' \in [Slot -> 0 .. Capacity]
  BY <1>1, <1>2, <1>3, CapacityAssumption
<1>71. /\ pipe_table' \in [Slot -> Entry]
       /\ pipe_table'[s0].read_node = rn /\ pipe_table'[s0].write_node = wn
       /\ pipe_table'[s0].read_refs = 1 /\ pipe_table'[s0].write_refs = 1
       /\ \A s \in Slot \ {s0} : pipe_table'[s] = pipe_table[s]
  <2>. DEFINE new == [read_node |-> rn, write_node |-> wn, read_refs |-> 1, write_refs |-> 1]
  <2>1. /\ new \in Entry
        /\ new.read_node = rn /\ new.write_node = wn /\ new.read_refs = 1 /\ new.write_refs = 1
    BY Constants DEF Entry, Count
  <2>2. pipe_table \in [Slot -> Entry]
    BY <1>2 DEF CountInv
  <2>3. pipe_table' = [pipe_table EXCEPT ![s0] = new]
    BY <1>1
  <2>. HIDE DEF new
  <2>. QED
    BY <1>3, <2>1, <2>2, <2>3
<1>9. /\ CountInv(r1, pipe_table')
      /\ \A s \in Slot : pipe_table[s] # NoPipe => pipe_table'[s] = pipe_table[s]
  <2>1. CountInv(r, pipe_table) /\ s0 \in Slot /\ pipe_table[s0] = NoPipe /\ rn # wn
    BY <1>1, <1>2, <1>3
  <2>2. /\ r1 \in [Node -> 0 .. RefMod - 2]
        /\ \A n \in Node \ {rn, wn} : r1[n] = r[n]
        /\ \/ r1[rn] = 1 /\ r1[wn] = 1
           \/ r1[rn] = 0 /\ r1[wn] = 0
    BY <1>5, <1>6
  <2>. QED
    BY <1>8, <1>71, <2>1, <2>2, CreateKeeps
<1>10. Survives(pipe_table, pipe_table', fds')
  BY <1>9, OwnersAre DEF Survives
<1>. QED
  BY <1>1, <1>2, <1>6, <1>7, <1>9, <1>10, DescriptorStep DEF r1

-----------------------------------------------------------------------------
(* The loops over descriptors.                                             *)

LEMMA LoopChange ==
    ASSUME PipesOK, loop.op # "close", UNCHANGED <<alive, fds, used, call>>,
           loop' \in Loops, loop' # NoLoop => loop'.proc \in alive,
           loop'.op = "close" => loop'.fd = 0,
           CountInv(RefsOf(fds, loop'), pipe_table'),
           Survives(pipe_table, pipe_table', fds)
    PROVE  PipesOK'
<1>1. PipesTypes /\ LoopOK /\ DeadHoldNothing /\ CallsServed
  BY DEF PipesOK
<1>2. PipesTypes' /\ DeadHoldNothing'
  BY <1>1 DEF PipesTypes, DeadHoldNothing
<1>3. LoopOK'
  <2>1. \A f \in Fd : ~(f < 0)
    BY Constants DEF Fd
  <2>. QED
    BY <1>1, <2>1 DEF LoopOK
<1>4. ASSUME NEW q \in Proc PROVE Served(fds', pipe_table', call'[q], q)
  <2>1. Served(fds, pipe_table, call[q], q) /\ call[q] \in Calls
    BY <1>1 DEF CallsServed, Closing, PipesTypes
  <2>2. Served(fds, pipe_table', call[q], q)
    BY <2>1, StillServed
  <2>. QED
    BY <2>2
<1>5. CallsServed'
  BY <1>4 DEF CallsServed
<1>6. CountInv(RefsOf(fds, loop), pipe_table)'
  OBVIOUS
<1>. QED
  BY <1>2, <1>3, <1>5, <1>6 DEF PipesOK

\* The loop moves on, or begins or ends, without a change of the table.
LEMMA LoopOnly ==
    ASSUME PipesOK, loop.op # "close", UNCHANGED <<alive, fds, used, call, pipe_table>>,
           loop' \in Loops, loop' # NoLoop => loop'.proc \in alive,
           loop'.op = "close" => loop'.fd = 0,
           \A n \in Node : PromisedIn(fds, loop, n) = PromisedIn(fds, loop', n)
    PROVE  PipesOK'
<1>1. RefsOf(fds, loop) = RefsOf(fds, loop')
  BY SameRefs
<1>2. CountInv(RefsOf(fds, loop'), pipe_table')
  BY <1>1 DEF PipesOK
<1>3. Survives(pipe_table, pipe_table', fds)
  BY DEF Survives
<1>. QED
  BY <1>2, <1>3, LoopChange

LEMMA LoopOnlySteps ==
    ASSUME PipesOK,
           \/ \E p \in Proc : BeginFork(p) \/ BeginKill(p)
           \/ ForkNoMemory \/ EndUndo
    PROVE  PipesOK'
<1>1. PipesTypes /\ LoopOK /\ NFd \in Nat
  BY Constants DEF PipesOK
<1>2. CASE \E p \in Proc : BeginFork(p) \/ BeginKill(p)
  <2>1. PICK p \in Proc : BeginFork(p) \/ BeginKill(p)
    BY <1>2
  <2>2. /\ loop = NoLoop /\ p \in alive
        /\ UNCHANGED <<alive, fds, used, call, pipe_table>>
        /\ \/ loop' = [op |-> "bump", proc |-> p, fd |-> 0]
           \/ loop' = [op |-> "close", proc |-> p, fd |-> 0]
    BY <2>1 DEF BeginFork, BeginKill, MayCall
  <2>3. loop' \in Loops /\ loop'.proc = p /\ loop'.fd = 0 /\ loop'.op \in {"bump", "close"}
    BY <1>1, <2>2 DEF Loops
  <2>4. \A n \in Node : PromisedIn(fds, loop, n) = {} /\ PromisedIn(fds, loop', n) = {}
    <3>1. 0 .. 0 - 1 = {}
      OBVIOUS
    <3>. QED
      BY <2>2, <2>3, <3>1, ValuesFacts DEF PromisedIn
  <2>. QED
    BY <2>2, <2>3, <2>4, ValuesFacts, LoopOnly
<1>3. CASE ForkNoMemory
  <2>1. /\ loop.op = "bump" /\ loop.fd = NFd
        /\ UNCHANGED <<alive, fds, used, call, pipe_table>>
        /\ loop' = [loop EXCEPT !.op = "undo", !.fd = 0]
    BY <1>3 DEF ForkNoMemory, LoopOver
  <2>2. loop # NoLoop /\ loop \in [op : {"bump", "undo", "close"}, proc : Proc, fd : 0 .. NFd]
    BY <1>1, <2>1, ValuesFacts DEF PipesTypes, Loops
  <2>3. /\ loop' \in Loops /\ loop'.op = "undo" /\ loop'.fd = 0 /\ loop'.proc = loop.proc
        /\ loop.proc \in alive
    <3>1. loop.proc \in alive
      BY <1>1, <2>2 DEF LoopOK
    <3>0. loop' = [op |-> "undo", proc |-> loop.proc, fd |-> 0] /\ loop.proc \in Proc
      BY <2>1, <2>2
    <3>2. /\ loop' \in [op : {"bump", "undo", "close"}, proc : Proc, fd : 0 .. NFd]
          /\ loop'.op = "undo" /\ loop'.fd = 0 /\ loop'.proc = loop.proc
      BY <1>1, <3>0
    <3>. QED
      BY <3>1, <3>2 DEF Loops
  <2>4. \A n \in Node : PromisedIn(fds, loop, n) = PromisedIn(fds, loop', n)
    BY <2>1, <2>3 DEF PromisedIn
  <2>. QED
    BY <2>1, <2>3, <2>4, LoopOnly
<1>4. CASE EndUndo
  <2>1. /\ loop.op = "undo" /\ loop.fd = NFd
        /\ UNCHANGED <<alive, fds, used, call, pipe_table>>
        /\ loop' = NoLoop
    BY <1>4 DEF EndUndo, LoopOver
  <2>2. \A n \in Node : PromisedIn(fds, loop, n) = {} /\ PromisedIn(fds, loop', n) = {}
    <3>1. NFd .. NFd - 1 = {}
      BY <1>1
    <3>. QED
      BY <2>1, <3>1, ValuesFacts DEF PromisedIn
  <2>. QED
    BY <2>1, <2>2, ValuesFacts, LoopOnly
<1>. QED
  BY <1>2, <1>3, <1>4

\* A step of the loop of fork or of its undoing: one descriptor, one count.
LEMMA CountStep ==
    ASSUME CountsFit, PipesOK, BumpStep \/ UndoStep
    PROVE  PipesOK'
<1>. DEFINE u == fds[loop.proc][loop.fd]
            r == RefsOf(fds, loop)
            r1 == RefsOf(fds, loop')
<1>1. /\ PipesTypes /\ LoopOK /\ CountInv(r, pipe_table)
      /\ NFd \in Nat /\ RefMod \in Nat
  BY Constants DEF PipesOK
<1>2. /\ loop.op \in {"bump", "undo"} /\ loop.fd < NFd
      /\ loop' = [loop EXCEPT !.fd = loop.fd + 1]
      /\ UNCHANGED <<alive, fds, used, call>>
      /\ loop.op = "bump" => pipe_table' = ForkFd(pipe_table, u)
      /\ loop.op = "undo" => pipe_table' = NotifyClose(pipe_table, u)
  BY DEF BumpStep, UndoStep, LoopAt, LoopNext, LoopFd
<1>3. /\ loop # NoLoop /\ loop \in [op : {"bump", "undo", "close"}, proc : Proc, fd : 0 .. NFd]
      /\ loop.proc \in alive
  BY <1>1, <1>2, ValuesFacts DEF PipesTypes, Loops, LoopOK
<1>4. /\ loop' \in Loops /\ loop'.op = loop.op /\ loop'.proc = loop.proc /\ loop'.fd = loop.fd + 1
      /\ loop.proc \in Proc /\ loop.fd \in Fd
  BY <1>1, <1>2, <1>3 DEF Loops, Fd
<1>5. r \in [Node -> 0 .. RefMod - 2] /\ r1 \in [Node -> 0 .. RefMod - 2] /\ (u \in Node => r[u] > 0)
  BY <1>1, <1>4, RefsOfFacts DEF PipesTypes
<1>6. ASSUME NEW n \in Node
      PROVE  r1[n] = r[n] + (IF u = n THEN (IF loop.op = "bump" THEN 1 ELSE -1) ELSE 0)
  <2>0. loop \in Loops /\ loop.op \in {"bump", "undo"} /\ loop.fd < NFd
    BY <1>1, <1>2 DEF PipesTypes
  <2>1. /\ loop.op = "bump" => Refs(fds, loop', n) = Refs(fds, loop, n) + Has(fds, loop.proc, loop.fd, n)
        /\ loop.op = "undo" => Refs(fds, loop', n) = Refs(fds, loop, n) - Has(fds, loop.proc, loop.fd, n)
    BY <1>4, <2>0, LoopRefs
  <2>2. r1[n] = Refs(fds, loop', n) /\ r[n] = Refs(fds, loop, n)
    BY <1>1, <1>4, RefsOfFacts DEF PipesTypes
  <2>3. r[n] \in Int /\ loop.op \in {"bump", "undo"}
    BY <1>2, <1>5
  <2>4. Has(fds, loop.proc, loop.fd, n) = IF u = n THEN 1 ELSE 0
    BY DEF Has
  <2>. HIDE DEF r, r1, u
  <2>. QED
    BY <2>1, <2>2, <2>3, <2>4
<1>7. \A n \in Node, q \in Proc, g \in Fd : fds[q][g] = n => r1[n] > 0
  BY <1>4, RefsOfFacts
<1>. HIDE DEF u, r, r1
<1>8. CASE loop.op = "bump"
  <2>1. \A n \in Node : r1[n] = IF n = u THEN r[n] + 1 ELSE r[n]
    BY <1>5, <1>6, <1>8
  <2>2. /\ CountInv(r1, ForkFd(pipe_table, u))
        /\ \A s \in Slot : /\ ForkFd(pipe_table, u)[s].read_node = pipe_table[s].read_node
                         /\ ForkFd(pipe_table, u)[s].write_node = pipe_table[s].write_node
                         /\ (ForkFd(pipe_table, u)[s] = NoPipe <=> pipe_table[s] = NoPipe)
    BY <1>1, <1>5, <2>1, RaiseKeeps
  <2>3. Survives(pipe_table, pipe_table', fds)
    BY <1>2, <1>8, <2>2 DEF Survives
  <2>. QED
    BY <1>2, <1>3, <1>4, <1>8, <2>2, <2>3, LoopChange DEF r1
<1>9. CASE loop.op = "undo"
  <2>1. \A n \in Node : r1[n] = IF n = u THEN r[n] - 1 ELSE r[n]
    BY <1>5, <1>6, <1>9
  <2>2. /\ CountInv(r1, NotifyClose(pipe_table, u))
        /\ \A s \in Slot : NotifyClose(pipe_table, u)[s] # NoPipe =>
              /\ pipe_table[s] # NoPipe
              /\ NotifyClose(pipe_table, u)[s].read_node = pipe_table[s].read_node
              /\ NotifyClose(pipe_table, u)[s].write_node = pipe_table[s].write_node
        /\ \A s \in Slot, n \in Node : s \in Owners(pipe_table, n) /\ r1[n] > 0 =>
              NotifyClose(pipe_table, u)[s] # NoPipe
    BY <1>1, <1>5, <2>1, LowerKeeps
  <2>3. Survives(pipe_table, pipe_table', fds)
    BY <1>2, <1>7, <1>9, <2>2 DEF Survives
  <2>. QED
    BY <1>2, <1>3, <1>4, <1>9, <2>2, <2>3, LoopChange DEF r1
<1>. QED
  BY <1>2, <1>8, <1>9

LEMMA KillLoopStep ==
    ASSUME CountsFit, PipesOK, CloseStep
    PROVE  PipesOK'
<1>. DEFINE p == loop.proc
            f == loop.fd
<1>1. PipesTypes /\ LoopOK /\ DeadHoldNothing /\ CallsServed /\ CountInv(RefsOf(fds, loop), pipe_table)
      /\ NFd \in Nat
  BY Constants DEF PipesOK
<1>2. /\ loop.op = "close" /\ f < NFd /\ loop' = [loop EXCEPT !.fd = f + 1]
      /\ fds' = [fds EXCEPT ![p][f] = Null]
      /\ pipe_table' = NotifyClose(pipe_table, fds[p][f])
      /\ UNCHANGED <<alive, used, call>>
  BY DEF CloseStep, LoopAt, LoopNext, LoopFd
<1>3. /\ loop # NoLoop /\ loop \in [op : {"bump", "undo", "close"}, proc : Proc, fd : 0 .. NFd]
      /\ p \in alive
  BY <1>1, <1>2, ValuesFacts DEF PipesTypes, Loops, LoopOK
<1>4. /\ loop' \in Loops /\ loop'.op = "close" /\ loop'.proc = p /\ loop'.fd = f + 1
      /\ p \in Proc /\ f \in Fd /\ loop' # NoLoop
      /\ ~Counting(loop) /\ ~Counting(loop') /\ loop \in Loops
  BY <1>1, <1>2, <1>3, ValuesFacts DEF Loops, Fd, Counting
<1>. HIDE DEF p, f
<1>5. /\ fds' \in Tables /\ OnlyAt(fds, fds', p, f) /\ fds'[p][f] = Null
      /\ \A q \in Proc \ {p}, g \in Fd : fds'[q][g] = fds[q][g]
      /\ \A g \in Fd \ {f} : fds'[p][g] = fds[p][g]
  <2>1. Null \in Thing /\ fds \in Tables
    BY <1>1 DEF Thing, PipesTypes
  <2>. QED
    BY <1>2, <1>4, <2>1 DEF Tables, OnlyAt
<1>6. /\ CountInv(RefsOf(fds', loop'), NotifyClose(pipe_table, fds[p][f]))
      /\ Survives(pipe_table, NotifyClose(pipe_table, fds[p][f]), fds')
  <2>1. fds \in Tables
    BY <1>1 DEF PipesTypes
  <2>. QED
    BY <1>1, <1>4, <1>5, <2>1, CloseOne
<1>7. PipesTypes'
  BY <1>1, <1>2, <1>4, <1>5 DEF PipesTypes
<1>8. LoopOK'
  <2>1. \A g \in Fd : g < f + 1 => g = f \/ g < f
    BY <1>4, Constants DEF Fd
  <2>2. \A g \in Fd : g < f => fds[p][g] = Null
    BY <1>1, <1>2 DEF LoopOK, p, f
  <2>3. \A g \in Fd : g < f + 1 => fds'[p][g] = Null
    BY <1>5, <2>1, <2>2
  <2>. QED
    BY <1>2, <1>3, <1>4, <2>3 DEF LoopOK
<1>9. DeadHoldNothing'
  BY <1>1, <1>2, <1>3, <1>5 DEF DeadHoldNothing
<1>10. CallsServed'
  <2>. SUFFICES ASSUME NEW q \in Proc, ~Closing(q)' PROVE Served(fds', pipe_table', call[q], q)
    BY <1>2 DEF CallsServed
  <2>1. q # p /\ ~Closing(q)
    BY <1>2, <1>4 DEF Closing, p
  <2>2. Served(fds, pipe_table, call[q], q) /\ call[q] \in Calls
    BY <1>1, <2>1 DEF CallsServed, PipesTypes
  <2>3. \A g \in Fd : fds'[q][g] = fds[q][g]
    BY <1>5, <2>1
  <2>4. Survives(pipe_table, pipe_table', fds')
    BY <1>2, <1>6
  <2>. QED
    BY <2>2, <2>3, <2>4, StillServed
<1>11. CountInv(RefsOf(fds', loop'), pipe_table')
  BY <1>2, <1>6
<1>. QED
  BY <1>7, <1>8, <1>9, <1>10, <1>11 DEF PipesOK

LEMMA EndKillStep ==
    ASSUME CountsFit, PipesOK, EndKill
    PROVE  PipesOK'
<1>. DEFINE p == loop.proc
<1>1. PipesTypes /\ LoopOK /\ DeadHoldNothing /\ CallsServed /\ CountInv(RefsOf(fds, loop), pipe_table)
      /\ NFd \in Nat
  BY Constants DEF PipesOK
<1>2. /\ loop.op = "close" /\ loop.fd = NFd /\ loop' = NoLoop
      /\ IF p = Init THEN fds' = [fds EXCEPT ![Init] = StdFds] /\ UNCHANGED alive
                     ELSE alive' = alive \ {p} /\ UNCHANGED fds
      /\ call' = [call EXCEPT ![p] = InUser]
      /\ UNCHANGED <<pipe_table, used>>
  BY DEF EndKill, LoopOver
<1>3. loop # NoLoop /\ p \in alive /\ p \in Proc
  BY <1>1, <1>2, ValuesFacts DEF PipesTypes, LoopOK
<1>4. \A g \in Fd : fds[p][g] = Null
  <2>1. \A g \in Fd : g < NFd
    BY Constants DEF Fd
  <2>. QED
    BY <1>1, <1>2, <2>1 DEF LoopOK
<1>5. fds \in Tables /\ call \in [Proc -> Calls]
  BY <1>1 DEF PipesTypes
<1>6. StdFds \in [Fd -> {File, Null}]
  BY DEF StdFds
<1>. HIDE DEF p
<1>7. /\ fds' \in Tables
      /\ \A q \in Proc \ {p}, g \in Fd : fds'[q][g] = fds[q][g]
      /\ \A g \in Fd : fds'[p][g] \in {File, Null}
  <2>1. CASE p = Init
    <3>1. fds' = [fds EXCEPT ![p] = StdFds]
      BY <1>2, <2>1
    <3>. QED
      BY <1>3, <1>5, <1>6, <3>1 DEF Tables, Thing
  <2>2. CASE p # Init
    BY <1>2, <1>3, <1>4, <1>5, <2>2
  <2>. QED
    BY <2>1, <2>2
<1>8. /\ call' \in [Proc -> Calls] /\ call'[p] = InUser
      /\ \A q \in Proc \ {p} : call'[q] = call[q]
  BY <1>2, <1>3, <1>5, ValuesFacts
<1>9. RefsOf(fds, loop) = RefsOf(fds', loop')
  <2>1. \A n \in Node, q \in Proc, g \in Fd : fds[q][g] = n <=> fds'[q][g] = n
    BY <1>4, <1>7, Constants
  <2>2. \A n \in Node : PromisedIn(fds, loop, n) = PromisedIn(fds', loop', n)
    BY <1>2, ValuesFacts DEF PromisedIn
  <2>. QED
    BY <2>1, <2>2, SameRefs
<1>10. PipesTypes'
  BY <1>1, <1>2, <1>7, <1>8, ValuesFacts DEF PipesTypes
<1>11. LoopOK'
  BY <1>2, ValuesFacts DEF LoopOK
<1>12. DeadHoldNothing'
  <2>. SUFFICES ASSUME NEW q \in Proc \ alive', NEW g \in Fd PROVE fds'[q][g] = Null
    BY DEF DeadHoldNothing
  <2>1. CASE q = p
    <3>1. p # Init
      BY <1>2, <1>3, <2>1
    <3>. QED
      BY <1>2, <1>4, <2>1, <3>1
  <2>2. CASE q # p
    <3>1. q \notin alive
      BY <1>2, <2>2
    <3>. QED
      BY <1>1, <1>7, <2>2, <3>1 DEF DeadHoldNothing
  <2>. QED
    BY <2>1, <2>2
<1>13. CallsServed'
  <2>. SUFFICES ASSUME NEW q \in Proc PROVE Served(fds', pipe_table', call'[q], q)
    BY DEF CallsServed
  <2>1. CASE q = p
    BY <1>8, <2>1, ValuesFacts DEF Served
  <2>2. CASE q # p
    <3>1. ~Closing(q)
      BY <2>2 DEF Closing, p
    <3>2. Served(fds, pipe_table, call[q], q) /\ call[q] \in Calls
      BY <1>1, <1>5, <3>1 DEF CallsServed
    <3>3. Survives(pipe_table, pipe_table', fds') /\ \A g \in Fd : fds'[q][g] = fds[q][g]
      BY <1>2, <1>7, <2>2 DEF Survives
    <3>4. Served(fds', pipe_table', call[q], q)
      BY <3>2, <3>3, StillServed
    <3>. QED
      BY <1>8, <2>2, <3>4
  <2>. QED
    BY <2>1, <2>2
<1>14. CountInv(RefsOf(fds', loop'), pipe_table')
  BY <1>1, <1>2, <1>9
<1>. QED
  BY <1>10, <1>11, <1>12, <1>13, <1>14 DEF PipesOK

LEMMA ForkChildStep ==
    ASSUME CountsFit, PipesOK, NEW c \in Proc, ForkChild(c)
    PROVE  PipesOK'
<1>. DEFINE p == loop.proc
<1>1. PipesTypes /\ LoopOK /\ DeadHoldNothing /\ CallsServed /\ CountInv(RefsOf(fds, loop), pipe_table)
  BY DEF PipesOK
<1>2. /\ loop.op = "bump" /\ loop.fd = NFd /\ loop' = NoLoop
      /\ c \notin alive /\ alive' = alive \cup {c}
      /\ fds' = [fds EXCEPT ![c] = fds[p]]
      /\ UNCHANGED <<pipe_table, used, call>>
  BY DEF ForkChild, LoopOver
<1>3. loop # NoLoop /\ p \in alive /\ p \in Proc
  BY <1>1, <1>2, ValuesFacts DEF PipesTypes, LoopOK
<1>4. fds \in Tables /\ call \in [Proc -> Calls] /\ \A g \in Fd : fds[c][g] = Null
  BY <1>1, <1>2 DEF PipesTypes, DeadHoldNothing
<1>. HIDE DEF p
<1>5. /\ fds' \in Tables
      /\ \A q \in Proc \ {c}, g \in Fd : fds'[q][g] = fds[q][g]
      /\ \A g \in Fd : fds'[c][g] = fds[p][g]
  BY <1>2, <1>3, <1>4 DEF Tables
<1>6. RefsOf(fds', loop') = RefsOf(fds, loop)
  <2>1. ASSUME NEW n \in Node PROVE Refs(fds', NoLoop, n) = Refs(fds, loop, n)
    <3>1. \A g \in Fd : fds[c][g] # n
      BY <1>4, Constants
    <3>2. loop.op = "bump" /\ loop.proc = p /\ loop.fd = NFd
      BY <1>2 DEF p
    <3>. QED
      BY <1>3, <1>5, <3>1, <3>2, ChildRefs
  <2>. QED
    BY <1>2, <2>1 DEF RefsOf
<1>7. PipesTypes'
  BY <1>1, <1>2, <1>5, ValuesFacts DEF PipesTypes
<1>8. LoopOK' /\ DeadHoldNothing'
  BY <1>1, <1>2, <1>5, ValuesFacts DEF LoopOK, DeadHoldNothing
<1>9. CallsServed'
  <2>. SUFFICES ASSUME NEW q \in Proc PROVE Served(fds', pipe_table', call[q], q)
    BY <1>2 DEF CallsServed
  <2>1. Served(fds, pipe_table, call[q], q) /\ call[q] \in Calls
    BY <1>1, <1>2, <1>4 DEF CallsServed, Closing
  <2>2. CASE q = c
    <3>1. call[q].op \notin {"read", "write"}
      <4>. SUFFICES ASSUME call[q].op \in {"read", "write"} PROVE FALSE
        OBVIOUS
      <4>1. PICK g \in Fd : EndOf(call[q], pipe_table) \in Node /\ fds[q][g] = EndOf(call[q], pipe_table)
        BY <2>1 DEF Served
      <4>. QED
        BY <1>4, <2>2, <4>1, Constants
    <3>. QED
      BY <3>1 DEF Served
  <2>3. CASE q # c
    <3>1. Survives(pipe_table, pipe_table', fds') /\ \A g \in Fd : fds'[q][g] = fds[q][g]
      BY <1>2, <1>5, <2>3 DEF Survives
    <3>. QED
      BY <2>1, <3>1, StillServed
  <2>. QED
    BY <2>2, <2>3
<1>10. CountInv(RefsOf(fds', loop'), pipe_table')
  BY <1>1, <1>2, <1>6
<1>. QED
  BY <1>7, <1>8, <1>9, <1>10 DEF PipesOK

-----------------------------------------------------------------------------
(* The theorems.                                                           *)

LEMMA StacklessStays == PipesNext /\ stackless => stackless'
<1>. SUFFICES ASSUME PipesNext, stackless PROVE stackless'
  OBVIOUS
<1>1. LoopStep => UNCHANGED stackless
  BY DEF LoopStep, CloseStep, EndKill, BumpStep, UndoStep, EndUndo
<1>2. ForkNoMemory \/ (\E c \in Proc : ForkChild(c)) => UNCHANGED stackless
  BY DEF ForkNoMemory, ForkChild
<1>3. ForkNoStack => stackless'
  BY DEF ForkNoStack
<1>4. ASSUME NEW p \in Proc
      PROVE  /\ (\E rn, wn \in Node : CreatePipe(p, rn, wn)) => UNCHANGED stackless
             /\ (\E f \in Fd : Close(p, f)) => UNCHANGED stackless
             /\ (\E old, new \in Fd : Dup2(p, old, new)) => UNCHANGED stackless
             /\ (\E f \in Fd, len \in Length : Read(p, f, len) \/ Write(p, f, len) \/ WriteStdout(p, f, len))
                   => UNCHANGED stackless
             /\ CreatePipeOneNode(p) \/ OpenConsole(p) \/ BeginFork(p) \/ BeginKill(p) => UNCHANGED stackless
             /\ UndoSkip(p) \/ UndoLoad(p) \/ UndoStore(p) => UNCHANGED stackless
             /\ Resume(p) => UNCHANGED stackless
  BY DEF CreatePipe, Close, Dup2, Read, Write, WriteStdout, CreatePipeOneNode, OpenConsole, BeginFork,
         BeginKill, UndoSkip, UndoLoad, UndoStore, Resume, ReadSome, ReadEof, WriteMore, WriteBroken
<1>. QED
  BY <1>1, <1>2, <1>3, <1>4 DEF PipesNext

LEMMA StepKeeps == CountsFit /\ PipesInv /\ [PipesNext]_vars => PipesInv'
<1>. SUFFICES ASSUME CountsFit, PipesInv, [PipesNext]_vars, ~stackless' PROVE PipesOK'
  BY DEF PipesInv
<1>1. CASE UNCHANGED vars
  <2>1. PipesOK /\ UNCHANGED <<alive, fds, pipe_table, loop>> /\ UNCHANGED <<used, call>>
    BY <1>1 DEF PipesInv, vars
  <2>. QED
    BY <2>1, QuietStep DEF PipesOK, PipesTypes
<1>2. CASE PipesNext
  <2>1. PipesOK /\ ~stackless
    BY <1>2, StacklessStays DEF PipesInv
  <2>2. CASE LoopStep
    BY <2>1, <2>2, KillLoopStep, EndKillStep, CountStep, LoopOnlySteps DEF LoopStep
  <2>3. CASE ForkNoMemory
    BY <2>1, <2>3, LoopOnlySteps
  <2>4. CASE ForkNoStack
    BY <2>4 DEF ForkNoStack
  <2>5. CASE \E c \in Proc : ForkChild(c)
    BY <2>1, <2>5, ForkChildStep
  <2>6. ASSUME NEW p \in Proc, \E rn, wn \in Node : CreatePipe(p, rn, wn) PROVE PipesOK'
    BY <2>1, <2>6, CreatePipeStep
  <2>7. ASSUME NEW p \in Proc, CreatePipeOneNode(p) PROVE PipesOK'
    BY <2>1, <2>7, OtherQuietSteps
  <2>8. ASSUME NEW p \in Proc, OpenConsole(p) PROVE PipesOK'
    BY <2>1, <2>8, OpenConsoleStep
  <2>9. ASSUME NEW p \in Proc, NEW f \in Fd, Close(p, f) PROVE PipesOK'
    BY <2>1, <2>9, CloseStepOK
  <2>10. ASSUME NEW p \in Proc, NEW old \in Fd, NEW new \in Fd, Dup2(p, old, new) PROVE PipesOK'
    BY <2>1, <2>10, Dup2Step
  <2>11. ASSUME NEW p \in Proc, BeginFork(p) \/ BeginKill(p) PROVE PipesOK'
    BY <2>1, <2>11, LoopOnlySteps
  <2>12. ASSUME NEW p \in Proc, UndoSkip(p) \/ UndoLoad(p) \/ UndoStore(p) PROVE FALSE
    <3>1. call[p] \in Calls
      BY <2>1 DEF PipesOK, PipesTypes
    <3>. QED
      BY <2>12, <3>1, ValuesFacts DEF UndoSkip, UndoLoad, UndoStore, Undoes
  <2>13. ASSUME NEW p \in Proc, NEW f \in Fd, NEW len \in Length,
                Read(p, f, len) \/ Write(p, f, len) \/ WriteStdout(p, f, len)
         PROVE  PipesOK'
    BY <2>1, <2>13, ReadStep, WriteStep, OtherQuietSteps
  <2>14. ASSUME NEW p \in Proc, Resume(p) PROVE PipesOK'
    BY <2>1, <2>14, ResumeStep
  <2>. QED
    BY <1>2, <2>2, <2>3, <2>4, <2>5, <2>6, <2>7, <2>8, <2>9, <2>10, <2>11, <2>12, <2>13, <2>14 DEF PipesNext
<1>. QED
  BY <1>1, <1>2

\* The counts, the slots and the blocked calls support each other: as long as
\* uint8_t has room for the descriptors, the invariant holds.
THEOREM PipesInvariant == ASSUME CountsFit PROVE PipesSpec => []PipesInv
<1>1. PipesInit => PipesInv
  BY Starts DEF PipesInv
<1>2. PipesInv /\ [PipesNext]_vars => PipesInv'
  BY StepKeeps
<1>. QED
  BY <1>1, <1>2, PTL DEF PipesSpec

\* A pipe with an open end is no orphan.
LEMMA OpenPipeFits ==
    ASSUME CountsFit, PipesOK, NEW s \in InUse(pipe_table),
           s = ConsoleSlot \/ \E n \in EndsOf(s) : Open(n) # {}
    PROVE  /\ pipe_table[s].read_refs = Refs(fds, loop, pipe_table[s].read_node) + OfKernel(s)
           /\ pipe_table[s].write_refs = Refs(fds, loop, pipe_table[s].write_node) + OfKernel(s)
           /\ pipe_table[s].read_node \in Node /\ pipe_table[s].write_node \in Node
<1>1. s \in Slot /\ pipe_table[s] # NoPipe
  BY DEF InUse
<1>2. CountInv(RefsOf(fds, loop), pipe_table) /\ loop \in Loops
  BY DEF PipesOK, PipesTypes
<1>3. pipe_table[s].read_node \in Node /\ pipe_table[s].write_node \in Node
  BY <1>1, <1>2, EndsUsable
<1>4. \A n \in Node : RefsOf(fds, loop)[n] = Refs(fds, loop, n) /\ (Refs(fds, loop, n) = 0 => Open(n) = {})
  BY <1>2, RefsOfFacts, RefsFacts DEF Open, OpenIn
<1>5. ~(s # ConsoleSlot /\ Orphaned(RefsOf(fds, loop), pipe_table[s]))
  BY <1>3, <1>4 DEF Orphaned, EndsOf
<1>6. Fits(RefsOf(fds, loop), pipe_table[s], OfKernel(s))
  BY <1>1, <1>2, <1>5 DEF CountInv
<1>. QED
  BY <1>3, <1>4, <1>6 DEF Fits

\* pipe.h:16-17: each count is the number of descriptors open on its end,
\* whatever pipe, open, dup2, fork, its failures, close and kill have done.
THEOREM CountsMatchDescriptors == ASSUME CountsFit PROVE PipesSpec => []RefsMatchFds
<1>1. PipesInv => RefsMatchFds
  <2>. SUFFICES ASSUME PipesOK, NEW s \in InUse(pipe_table),
                       s = ConsoleSlot \/ \E n \in EndsOf(s) : Open(n) # {}
                PROVE  CountsMatch(s)
    BY DEF PipesInv, RefsMatchFds
  <2>1. loop \in Loops
    BY DEF PipesOK, PipesTypes
  <2>2. ASSUME NEW n PROVE Counted(s, n) = Refs(fds, loop, n) + OfKernel(s)
    <3>1. Open(n) = OpenIn(fds, n) /\ Promised(n) = PromisedIn(fds, loop, n)
      BY DEF Open, OpenIn, Promised, PromisedIn
    <3>2. Cardinality(OpenIn(fds, n)) \in Nat /\ Cardinality(PromisedIn(fds, loop, n)) \in Nat /\ OfKernel(s) \in Nat
      BY <2>1, OpenFacts, PromisedFacts, Constants DEF OfKernel
    <3>. QED
      BY <3>1, <3>2 DEF Counted, Refs
  <2>. QED
    BY <2>2, OpenPipeFits DEF CountsMatch
<1>. QED
  BY <1>1, PipesInvariant, PTL

\* pipe.c:149-175: the node behind a descriptor is not back in the pool.
THEOREM DescriptorsResolve == ASSUME CountsFit PROVE PipesSpec => []FdsResolve
<1>1. PipesInv => FdsResolve
  <2>. SUFFICES ASSUME PipesOK, NEW p \in Proc, NEW f \in Fd, fds[p][f] \in Node
                PROVE  Owners(pipe_table, fds[p][f]) # {}
    BY DEF PipesInv, FdsResolve
  <2>1. CountInv(RefsOf(fds, loop), pipe_table) /\ loop \in Loops
    BY DEF PipesOK, PipesTypes
  <2>2. RefsOf(fds, loop)[fds[p][f]] > 0
    BY <2>1, RefsOfFacts
  <2>. QED
    BY <2>1, <2>2 DEF CountInv
<1>. QED
  BY <1>1, PipesInvariant, PTL

\* pipe.c:62, 85: the struct a blocked call has a pointer to stays its pipe.
THEOREM BlockedCallsKeepPipes == ASSUME CountsFit PROVE PipesSpec => []BlockedCallKeepsPipe
<1>1. PipesInv => BlockedCallKeepsPipe
  <2>. SUFFICES ASSUME PipesOK, NEW p \in Proc, call[p].op \in {"read", "write"},
                       ~(loop.op = "close" /\ loop.proc = p)
                PROVE  /\ EndOf(call[p], pipe_table) # Null
                       /\ \E f \in Fd : fds[p][f] = EndOf(call[p], pipe_table)
    BY DEF PipesInv, BlockedCallKeepsPipe, EndOf
  <2>1. Served(fds, pipe_table, call[p], p)
    BY DEF PipesOK, CallsServed, Closing
  <2>. QED
    BY <2>1, Constants DEF Served
<1>. QED
  BY <1>1, PipesInvariant, PTL

\* A call that waits is over an open pipe, whose counts are right.
LEMMA WaitFits ==
    ASSUME CountsFit, PipesOK, NEW p \in Proc, NEW op \in {"read", "write"}, Waits(p, op)
    PROVE  LET s == call[p].slot
           IN  /\ s \in Slot
               /\ pipe_table[s].read_refs = 0 => Open(pipe_table[s].read_node) = {}
               /\ pipe_table[s].write_refs = 0 => Open(pipe_table[s].write_node) = {}
<1>. DEFINE s == call[p].slot
<1>1. /\ s \in Slot /\ EndOf(call[p], pipe_table) \in Node /\ call[p].op = op
      /\ \E f \in Fd : fds[p][f] = EndOf(call[p], pipe_table)
  BY WaitsServed
<1>2. loop \in Loops
  BY DEF PipesOK, PipesTypes
<1>3. pipe_table[s] # NoPipe
  BY <1>1, Constants DEF EndOf, NoPipe
<1>4. s \in InUse(pipe_table) /\ EndOf(call[p], pipe_table) \in EndsOf(s)
  BY <1>1, <1>3 DEF InUse, EndsOf, EndOf
<1>5. Open(EndOf(call[p], pipe_table)) # {}
  <2>1. PICK f \in Fd : fds[p][f] = EndOf(call[p], pipe_table)
    BY <1>1
  <2>2. <<p, f>> \in Open(EndOf(call[p], pipe_table))
    BY <2>1 DEF Open
  <2>. QED
    BY <2>2
<1>6. /\ pipe_table[s].read_refs = Refs(fds, loop, pipe_table[s].read_node) + OfKernel(s)
      /\ pipe_table[s].write_refs = Refs(fds, loop, pipe_table[s].write_node) + OfKernel(s)
  BY <1>4, <1>5, OpenPipeFits
<1>7. ASSUME NEW n
      PROVE  Refs(fds, loop, n) \in Nat /\ (Refs(fds, loop, n) = 0 => Open(n) = {})
  <2>1. /\ Refs(fds, loop, n) \in 0 .. RefMod - 2
        /\ Refs(fds, loop, n) = 0 => OpenIn(fds, n) = {}
    BY <1>2, RefsFacts
  <2>. QED
    BY <2>1, Constants DEF Open, OpenIn
<1>8. OfKernel(s) \in Nat
  BY DEF OfKernel
<1>9. /\ pipe_table[s].read_refs = 0 => Refs(fds, loop, pipe_table[s].read_node) = 0
      /\ pipe_table[s].write_refs = 0 => Refs(fds, loop, pipe_table[s].write_node) = 0
  BY <1>6, <1>7, <1>8
<1>. QED
  BY <1>1, <1>7, <1>9

\* A step that makes a blocked call return with nothing moved is ReadEof or
\* WriteBroken: the loops either move bytes or kill their caller.
LEMMA ReturnsBy ==
    ASSUME PipesOK, PipesNext, NEW p \in Proc, loop = NoLoop,
           call[p].op \in {"read", "write"}, call'[p] = InUser, used' = used
    PROVE  ReadEof(p) \/ WriteBroken(p)
<1>1. call \in [Proc -> Calls] /\ PipesTypes
  BY DEF PipesOK, PipesTypes
<1>2. call[p] # InUser /\ call'[p] # call[p]
  BY ValuesFacts
<1>3. ~LoopStep /\ ~ForkNoMemory /\ ~ForkNoStack /\ ~(\E c \in Proc : ForkChild(c))
  BY ValuesFacts DEF LoopStep, CloseStep, EndKill, BumpStep, UndoStep, EndUndo, ForkNoMemory,
                     ForkNoStack, ForkChild, LoopAt, LoopOver
<1>4. ASSUME NEW q \in Proc
      PROVE  /\ ~(\E rn, wn \in Node : CreatePipe(q, rn, wn))
             /\ ~(\E f \in Fd : Close(q, f))
             /\ ~(\E old, new \in Fd : Dup2(q, old, new))
             /\ ~CreatePipeOneNode(q) /\ ~OpenConsole(q) /\ ~BeginFork(q) /\ ~BeginKill(q)
             /\ ~(\E f \in Fd, len \in Length : WriteStdout(q, f, len))
  BY <1>2 DEF CreatePipe, Close, Dup2, CreatePipeOneNode, OpenConsole, BeginFork, BeginKill, WriteStdout
<1>5. ASSUME NEW q \in Proc PROVE ~(UndoSkip(q) \/ UndoLoad(q) \/ UndoStore(q))
  <2>1. call[q] \in Calls
    BY <1>1
  <2>. QED
    BY <2>1, ValuesFacts DEF UndoSkip, UndoLoad, UndoStore, Undoes
<1>6. ASSUME NEW q \in Proc, NEW f \in Fd, NEW len \in Length, Read(q, f, len) \/ Write(q, f, len)
      PROVE  FALSE
  <2>1. q # p /\ len \in Nat \ {0}
    BY <1>2, <1>6, LengthAssumption DEF Read, Write, MayCall
  <2>2. CASE Read(q, f, len)
    <3>1. UNCHANGED call \/ \E s \in InUse(pipe_table) : Sleep(q, "read", s, len)
      BY <2>2 DEF Read
    <3>2. call'[p] = call[p]
      BY <1>1, <2>1, <3>1 DEF Sleep
    <3>. QED
      BY <1>2, <3>2
  <2>3. CASE Write(q, f, len)
    <3>1. PICK s \in InUse(pipe_table) : CopyIn(q, s, len)
      BY <2>3 DEF Write
    <3>2. s \in Slot
      BY DEF InUse
    <3>3. Return(q) \/ \E l \in Nat \ {0} : Sleep(q, "write", s, l)
      BY <1>1, <2>1, <3>1, <3>2, CopyInIs
    <3>4. call'[p] = call[p]
      BY <1>1, <2>1, <3>3 DEF Sleep, Return
    <3>. QED
      BY <1>2, <3>4
  <2>. QED
    BY <1>6, <2>2, <2>3
<1>7. ASSUME NEW q \in Proc, Resume(q) PROVE ReadEof(p) \/ WriteBroken(p)
  <2>1. CASE ReadSome(q)
    <3>1. Waits(q, "read") /\ CopyOut(call[q].slot, call[q].len)
      BY <2>1 DEF ReadSome
    <3>2. call[q].slot \in Slot /\ call[q].len \in Nat \ {0}
      BY <3>1, WaitsServed
    <3>. QED
      BY <1>1, <3>1, <3>2, CopyOutIs
  <2>2. CASE WriteMore(q)
    <3>1. Waits(q, "write") /\ CopyIn(q, call[q].slot, call[q].len) /\ Room(call[q].slot) > 0
      BY <2>2 DEF WriteMore
    <3>2. call[q].slot \in Slot /\ call[q].len \in Nat \ {0}
      BY <3>1, WaitsServed
    <3>. QED
      BY <1>1, <3>1, <3>2, CopyInIs
  <2>3. CASE ReadEof(q) \/ WriteBroken(q)
    <3>1. Return(q)
      BY <2>3 DEF ReadEof, WriteBroken
    <3>2. q = p
      BY <1>1, <1>2, <3>1 DEF Return
    <3>. QED
      BY <2>3, <3>2
  <2>. QED
    BY <1>7, <2>1, <2>2, <2>3 DEF Resume
<1>. QED
  BY <1>3, <1>4, <1>5, <1>6, <1>7 DEF PipesNext

\* pipe.c:6-8: the end of the file is reported when the pipe is drained and
\* nobody can write to it.
THEOREM EofIsTrue == ASSUME CountsFit PROVE PipesSpec => EofMeansNoWriter
<1>. DEFINE Told(p) ==
              LET s == call[p].slot
              IN  /\ ~stackless /\ call[p].op = "read"
                  /\ call'[p] = InUser /\ p \in alive' /\ used' = used /\ loop = NoLoop
                  => used[s] = 0 /\ Open(pipe_table[s].write_node) = {}
<1>1. PipesInv /\ [PipesNext]_vars => [\A p \in Proc : Told(p)]_vars
  <2>. SUFFICES ASSUME PipesInv, PipesNext, NEW p \in Proc, ~stackless, call[p].op = "read",
                       call'[p] = InUser, used' = used, loop = NoLoop
                PROVE  used[call[p].slot] = 0 /\ Open(pipe_table[call[p].slot].write_node) = {}
    OBVIOUS
  <2>1. PipesOK
    BY DEF PipesInv
  <2>2. ReadEof(p)
    <3>1. ReadEof(p) \/ WriteBroken(p)
      BY <2>1, ReturnsBy
    <3>. QED
      BY <3>1 DEF WriteBroken, Waits
  <2>3. Waits(p, "read") /\ used[call[p].slot] = 0 /\ pipe_table[call[p].slot].write_refs = 0
    BY <2>2 DEF ReadEof, Writers
  <2>. QED
    BY <2>1, <2>3, WaitFits
<1>. QED
  BY <1>1, PipesInvariant, PTL DEF PipesSpec, EofMeansNoWriter

\* pipe.c:9-10: a broken pipe is reported when nobody can read from it.
THEOREM BrokenIsTrue == ASSUME CountsFit PROVE PipesSpec => BrokenMeansNoReader
<1>. DEFINE Told(p) ==
              LET s == call[p].slot
              IN  /\ ~stackless /\ call[p].op = "write"
                  /\ call'[p] = InUser /\ p \in alive' /\ used' = used /\ loop = NoLoop
                  => Open(pipe_table[s].read_node) = {}
<1>1. PipesInv /\ [PipesNext]_vars => [\A p \in Proc : Told(p)]_vars
  <2>. SUFFICES ASSUME PipesInv, PipesNext, NEW p \in Proc, ~stackless, call[p].op = "write",
                       call'[p] = InUser, used' = used, loop = NoLoop
                PROVE  Open(pipe_table[call[p].slot].read_node) = {}
    OBVIOUS
  <2>1. PipesOK
    BY DEF PipesInv
  <2>2. WriteBroken(p)
    <3>1. ReadEof(p) \/ WriteBroken(p)
      BY <2>1, ReturnsBy
    <3>. QED
      BY <3>1 DEF ReadEof, Waits
  <2>3. Waits(p, "write") /\ pipe_table[call[p].slot].read_refs = 0
    BY <2>2 DEF WriteBroken, Readers
  <2>. QED
    BY <2>1, <2>3, WaitFits
<1>. QED
  BY <1>1, PipesInvariant, PTL DEF PipesSpec, BrokenMeansNoReader

-----------------------------------------------------------------------------
(* The ring buffer of a pipe is a queue, for any size of the buffer and    *)
(* any range of the counters that is a multiple of it.                     *)

\* Remainders are reasoned about by what they differ in: a multiple.
Rem(x, n) == x % n
Multiples(n) == {q * n : q \in Int}

LEMMA Distributes ==
    ASSUME NEW p \in Int, NEW q \in Int, NEW n \in Int
    PROVE  (q + p) * n = q * n + p * n /\ (q - p) * n = q * n - p * n
<1>1. (q + p) * n = q * n + p * n
  OBVIOUS
<1>2. (q - p) * n = q * n - p * n
  OBVIOUS
<1>. QED
  BY <1>1, <1>2

LEMMA MultiplesClosed ==
    ASSUME NEW n \in Nat \ {0}
    PROVE  /\ 0 \in Multiples(n)
           /\ \A c \in Multiples(n) : c \in Int /\ -c \in Multiples(n)
           /\ \A c, d \in Multiples(n) : c + d \in Multiples(n) /\ c - d \in Multiples(n)
<1>1. 0 \in Multiples(n)
  <2>1. 0 * n = 0
    OBVIOUS
  <2>. QED
    BY <2>1 DEF Multiples
<1>2. ASSUME NEW c \in Multiples(n) PROVE c \in Int /\ -c \in Multiples(n)
  <2>1. PICK q \in Int : c = q * n
    BY DEF Multiples
  <2>2. (-q) * n = -c /\ -q \in Int /\ c \in Int
    BY <2>1
  <2>. QED
    BY <2>2 DEF Multiples
<1>3. ASSUME NEW c \in Multiples(n), NEW d \in Multiples(n)
      PROVE  c + d \in Multiples(n) /\ c - d \in Multiples(n)
  <2>1. PICK q \in Int : c = q * n
    BY DEF Multiples
  <2>2. PICK p \in Int : d = p * n
    BY DEF Multiples
  <2>3. (q + p) * n = q * n + p * n /\ (q - p) * n = q * n - p * n
    BY Distributes
  <2>4. q + p \in Int /\ q - p \in Int
    OBVIOUS
  <2>5. (q + p) * n \in Multiples(n) /\ (q - p) * n \in Multiples(n)
    BY <2>4 DEF Multiples
  <2>. QED
    BY <2>1, <2>2, <2>3, <2>5
<1>. QED
  BY <1>1, <1>2, <1>3

LEMMA SmallMultiple ==
    ASSUME NEW n \in Nat \ {0}, NEW c \in Multiples(n), c < n, -n < c
    PROVE  c = 0
<1>1. PICK q \in Int : c = q * n
  BY DEF Multiples
<1>2. CASE q >= 1
  <2>1. q * n >= n
    BY <1>2
  <2>. QED
    BY <1>1, <2>1
<1>3. CASE q <= -1
  <2>1. q * n <= -n
    BY <1>3
  <2>. QED
    BY <1>1, <2>1
<1>4. CASE q = 0
  BY <1>1, <1>4
<1>. QED
  BY <1>2, <1>3, <1>4

\* The remainder, and the only one.
LEMMA RemIs ==
    ASSUME NEW n \in Nat \ {0}, NEW x \in Int
    PROVE  Rem(x, n) \in 0 .. n - 1 /\ x - Rem(x, n) \in Multiples(n)
<1>. DEFINE d == x \div n
            m == x % n
<1>1. d \in Int /\ m \in 0 .. n - 1 /\ x = n * d + m
  OBVIOUS
<1>2. m = Rem(x, n)
  BY DEF Rem
<1>. HIDE DEF d, m
<1>3. x - m = d * n
  BY <1>1
<1>. QED
  BY <1>1, <1>2, <1>3 DEF Multiples

LEMMA RemUnique ==
    ASSUME NEW n \in Nat \ {0}, NEW x \in Int, NEW r \in 0 .. n - 1, x - r \in Multiples(n)
    PROVE  Rem(x, n) = r
<1>1. Rem(x, n) \in 0 .. n - 1 /\ x - Rem(x, n) \in Multiples(n)
  BY RemIs
<1>2. PICK s \in 0 .. n - 1 : s = Rem(x, n)
  BY <1>1
<1>3. (x - s) - (x - r) \in Multiples(n)
  BY <1>1, <1>2, MultiplesClosed
<1>4. (x - s) - (x - r) = r - s /\ r - s < n /\ -n < r - s
  OBVIOUS
<1>5. r - s = 0
  BY <1>3, <1>4, SmallMultiple
<1>. QED
  BY <1>2, <1>5

\* Equal remainders, from a difference that is a multiple and back.
LEMMA RemEqual ==
    ASSUME NEW n \in Nat \ {0}, NEW x \in Int, NEW y \in Int
    PROVE  Rem(x, n) = Rem(y, n) <=> x - y \in Multiples(n)
<1>1. PICK r \in 0 .. n - 1 : r = Rem(x, n) /\ x - r \in Multiples(n)
  BY RemIs
<1>2. PICK s \in 0 .. n - 1 : s = Rem(y, n) /\ y - s \in Multiples(n)
  BY RemIs
<1>3. ASSUME r = s PROVE x - y \in Multiples(n)
  <2>1. (x - r) - (y - s) = x - y
    BY <1>3
  <2>2. (x - r) - (y - s) \in Multiples(n)
    BY <1>1, <1>2, MultiplesClosed
  <2>. QED
    BY <2>1, <2>2
<1>4. ASSUME x - y \in Multiples(n) PROVE r = s
  <2>1. (x - y) + (y - s) = x - s
    OBVIOUS
  <2>2. (x - y) + (y - s) \in Multiples(n)
    BY <1>2, <1>4, MultiplesClosed
  <2>. QED
    BY <1>1, <2>1, <2>2, RemUnique
<1>. QED
  BY <1>1, <1>2, <1>3, <1>4

\* The counters wrap at a multiple of the size of the buffer.
LEMMA WrapKeepsCell == Multiples(IndexMod) \subseteq Multiples(BufSize)
<1>1. PICK k \in 1 .. IndexMod : IndexMod = k * BufSize
  BY IndexModAssumption
<1>2. ASSUME NEW q \in Int PROVE q * IndexMod \in Multiples(BufSize)
  <2>1. k \in Int /\ BufSize \in Int
    BY BufSizeAssumption, IndexModAssumption
  <2>2. q * (k * BufSize) = (q * k) * BufSize /\ q * k \in Int
    BY <2>1
  <2>. QED
    BY <1>1, <2>2 DEF Multiples
<1>. QED
  BY <1>2 DEF Multiples
-----------------------------------------------------------------------------
(* The ring.                                                               *)

\* head is as far from tail as there are bytes between them.
RingInv ==
    /\ buf \in [0 .. BufSize - 1 -> Byte]
    /\ head \in 0 .. IndexMod - 1
    /\ tail \in 0 .. IndexMod - 1
    /\ read_byte \in Byte
    /\ tail + Used - head \in Multiples(IndexMod)

\* What the definitions say in terms of remainders.
LEMMA RingFacts ==
    ASSUME head \in 0 .. IndexMod - 1, tail \in 0 .. IndexMod - 1
    PROVE  /\ BufSize \in Nat \ {0} /\ IndexMod \in Nat \ {0}
           /\ head \in Int /\ tail \in Int
           /\ Used \in 0 .. BufSize - 1 /\ (head - tail) - Used \in Multiples(BufSize)
<1>1. BufSize \in Nat \ {0} /\ IndexMod \in Nat \ {0} /\ head \in Int /\ tail \in Int
  BY BufSizeAssumption, IndexModAssumption
<1>2. Used = Rem(head - tail, BufSize)
  BY DEF Used, Rem
<1>3. head - tail \in Int
  BY <1>1
<1>. QED
  BY <1>1, <1>2, <1>3, RemIs

\* A counter after an increment.
LEMMA IncrementedIs ==
    ASSUME NEW x \in 0 .. IndexMod - 1
    PROVE  /\ Incremented(x) \in 0 .. IndexMod - 1
           /\ x + 1 - Incremented(x) \in Multiples(IndexMod)
<1>1. IndexMod \in Nat \ {0} /\ x + 1 \in Int
  BY IndexModAssumption
<1>2. Incremented(x) = Rem(x + 1, IndexMod)
  BY DEF Incremented, Rem
<1>3. Rem(x + 1, IndexMod) \in 0 .. IndexMod - 1 /\ x + 1 - Rem(x + 1, IndexMod) \in Multiples(IndexMod)
  <2>. DEFINE y == x + 1
  <2>1. y \in Int
    BY <1>1
  <2>. HIDE DEF y
  <2>2. Rem(y, IndexMod) \in 0 .. IndexMod - 1 /\ y - Rem(y, IndexMod) \in Multiples(IndexMod)
    BY <1>1, <2>1, RemIs
  <2>. QED
    BY <2>2 DEF y
<1>. QED
  BY <1>2, <1>3

LEMMA RingStart == RingInit => RingInv
<1>. SUFFICES ASSUME RingInit PROVE RingInv
  OBVIOUS
<1>1. head = tail /\ tail \in 0 .. IndexMod - 1 /\ head \in 0 .. IndexMod - 1
  BY DEF RingInit
<1>2. BufSize \in Nat \ {0} /\ IndexMod \in Nat \ {0} /\ tail \in Int
  BY <1>1, RingFacts
<1>3. Used = 0
  <2>1. (head - tail) - 0 = 0 /\ head - tail \in Int /\ 0 \in 0 .. BufSize - 1
    BY <1>1, <1>2
  <2>2. Rem(head - tail, BufSize) = 0
    BY <1>2, <2>1, MultiplesClosed, RemUnique
  <2>. QED
    BY <2>2 DEF Used, Rem
<1>4. tail + Used - head = 0
  BY <1>1, <1>2, <1>3
<1>5. tail + Used - head \in Multiples(IndexMod)
  BY <1>2, <1>4, MultiplesClosed
<1>. QED
  BY <1>1, <1>5 DEF RingInit, RingInv

\* A byte more: it goes behind the others, which stay.
LEMMA RingWriteStep ==
    ASSUME RingInv, NEW b \in Byte, WriteByte(b)
    PROVE  /\ RingInv'
           /\ Used' = Used + 1 /\ Used < BufSize - 1
           /\ tail' = tail /\ read_byte' = read_byte
           /\ \A i \in 1 .. Used : buf'[Masked(tail + i - 1)] = buf[Masked(tail + i - 1)]
           /\ buf'[Masked(tail + Used)] = b
<1>1. /\ head \in 0 .. IndexMod - 1 /\ tail \in 0 .. IndexMod - 1
      /\ tail' = tail /\ read_byte' = read_byte
      /\ head' = Incremented(head) /\ buf' = [buf EXCEPT ![Masked(head)] = b]
      /\ tail + Used - head \in Multiples(IndexMod) /\ Free > 0
  BY DEF RingInv, WriteByte
<1>2. /\ BufSize \in Nat \ {0} /\ IndexMod \in Nat \ {0}
      /\ head \in Int /\ tail \in Int
      /\ Used \in 0 .. BufSize - 1 /\ (head - tail) - Used \in Multiples(BufSize)
  BY <1>1, RingFacts
<1>3. Used < BufSize - 1
  BY <1>1, <1>2 DEF Free
<1>4. head' \in 0 .. IndexMod - 1 /\ head' \in Int /\ head + 1 - head' \in Multiples(IndexMod)
  BY <1>1, <1>2, IncrementedIs
<1>5. Used' = Used + 1
  <2>1. ((head - tail) - Used) - (head + 1 - head') \in Multiples(BufSize)
    BY <1>2, <1>4, WrapKeepsCell, MultiplesClosed
  <2>2. ((head - tail) - Used) - (head + 1 - head') = (head' - tail) - (Used + 1)
    BY <1>2, <1>4
  <2>3. Used + 1 \in 0 .. BufSize - 1 /\ head' - tail \in Int
    BY <1>2, <1>3, <1>4
  <2>4. Rem(head' - tail, BufSize) = Used + 1
    BY <1>2, <2>1, <2>2, <2>3, RemUnique
  <2>. QED
    BY <1>1, <2>4 DEF Used, Rem
<1>6. tail + (Used + 1) - head' \in Multiples(IndexMod)
  <2>1. (tail + Used - head) + (head + 1 - head') \in Multiples(IndexMod)
    BY <1>1, <1>2, <1>4, MultiplesClosed
  <2>2. (tail + Used - head) + (head + 1 - head') = tail + (Used + 1) - head'
    BY <1>2, <1>4
  <2>. QED
    BY <2>1, <2>2
<1>7. Masked(head) = Masked(tail + Used) /\ Masked(head) \in 0 .. BufSize - 1
  <2>1. Rem(tail + Used, BufSize) = Rem(head, BufSize)
    BY <1>1, <1>2, WrapKeepsCell, RemEqual
  <2>2. Rem(head, BufSize) \in 0 .. BufSize - 1
    BY <1>2, RemIs
  <2>. QED
    BY <2>1, <2>2 DEF Masked, Rem
<1>8. buf'[Masked(tail + Used)] = b
  BY <1>1, <1>7 DEF RingInv
<1>9. ASSUME NEW i \in 1 .. Used PROVE buf'[Masked(tail + i - 1)] = buf[Masked(tail + i - 1)]
  <2>1. tail + i - 1 \in Int /\ tail + Used \in Int
    BY <1>2
  <2>2. Rem(tail + i - 1, BufSize) # Rem(tail + Used, BufSize)
    <3>. SUFFICES ASSUME Rem(tail + i - 1, BufSize) = Rem(tail + Used, BufSize) PROVE FALSE
      OBVIOUS
    <3>1. (tail + i - 1) - (tail + Used) \in Multiples(BufSize)
      BY <1>2, <2>1, RemEqual
    <3>2. (tail + i - 1) - (tail + Used) = i - 1 - Used
      BY <1>2
    <3>3. i - 1 - Used < BufSize /\ -BufSize < i - 1 - Used /\ i - 1 - Used # 0
      BY <1>2, <1>3
    <3>. QED
      BY <1>2, <3>1, <3>2, <3>3, SmallMultiple
  <2>3. Rem(tail + i - 1, BufSize) \in 0 .. BufSize - 1
    BY <1>2, <2>1, RemIs
  <2>4. Masked(tail + i - 1) # Masked(head) /\ Masked(tail + i - 1) \in 0 .. BufSize - 1
    BY <1>7, <2>2, <2>3 DEF Masked, Rem
  <2>. QED
    BY <1>1, <2>4 DEF RingInv
<1>10. RingInv'
  <2>1. buf' \in [0 .. BufSize - 1 -> Byte]
    BY <1>1 DEF RingInv
  <2>2. tail' + Used' - head' \in Multiples(IndexMod)
    BY <1>1, <1>5, <1>6
  <2>. QED
    BY <1>1, <1>4, <2>1, <2>2 DEF RingInv
<1>. QED
  BY <1>1, <1>3, <1>5, <1>8, <1>9, <1>10

\* A byte less: the oldest, and the others are found where they were.
LEMMA RingReadStep ==
    ASSUME RingInv, ReadByte
    PROVE  /\ RingInv'
           /\ Used > 0 /\ Used' = Used - 1
           /\ read_byte' = buf[Masked(tail)] /\ buf' = buf
           /\ \A i \in Int : Masked(tail' + i - 1) = Masked(tail + i)
<1>1. /\ head \in 0 .. IndexMod - 1 /\ tail \in 0 .. IndexMod - 1
      /\ head' = head /\ buf' = buf /\ read_byte' = buf[Masked(tail)] /\ Used > 0
      /\ tail' = Incremented(tail)
      /\ tail + Used - head \in Multiples(IndexMod)
  BY DEF RingInv, ReadByte
<1>2. /\ BufSize \in Nat \ {0} /\ IndexMod \in Nat \ {0}
      /\ head \in Int /\ tail \in Int
      /\ Used \in 0 .. BufSize - 1 /\ (head - tail) - Used \in Multiples(BufSize)
  BY <1>1, RingFacts
<1>3. tail' \in 0 .. IndexMod - 1 /\ tail' \in Int /\ tail + 1 - tail' \in Multiples(IndexMod)
  BY <1>1, <1>2, IncrementedIs
<1>4. Used' = Used - 1
  <2>1. ((head - tail) - Used) + (tail + 1 - tail') \in Multiples(BufSize)
    BY <1>2, <1>3, WrapKeepsCell, MultiplesClosed
  <2>2. ((head - tail) - Used) + (tail + 1 - tail') = (head - tail') - (Used - 1)
    BY <1>2, <1>3
  <2>3. Used - 1 \in 0 .. BufSize - 1 /\ head - tail' \in Int
    BY <1>1, <1>2, <1>3
  <2>4. Rem(head - tail', BufSize) = Used - 1
    BY <1>2, <2>1, <2>2, <2>3, RemUnique
  <2>. QED
    BY <1>1, <2>4 DEF Used, Rem
<1>5. tail' + (Used - 1) - head \in Multiples(IndexMod)
  <2>1. (tail + Used - head) - (tail + 1 - tail') \in Multiples(IndexMod)
    BY <1>1, <1>2, <1>3, MultiplesClosed
  <2>2. (tail + Used - head) - (tail + 1 - tail') = tail' + (Used - 1) - head
    BY <1>2, <1>3
  <2>. QED
    BY <2>1, <2>2
<1>6. ASSUME NEW i \in Int PROVE Masked(tail' + i - 1) = Masked(tail + i)
  <2>1. (tail + i) - (tail' + i - 1) = tail + 1 - tail' /\ tail + i \in Int /\ tail' + i - 1 \in Int
    BY <1>2, <1>3
  <2>2. (tail + i) - (tail' + i - 1) \in Multiples(BufSize)
    BY <1>3, <2>1, WrapKeepsCell
  <2>3. Rem(tail + i, BufSize) = Rem(tail' + i - 1, BufSize)
    BY <1>2, <2>1, <2>2, RemEqual
  <2>. QED
    BY <2>3 DEF Masked, Rem
<1>7. RingInv'
  <2>1. Rem(tail, BufSize) \in 0 .. BufSize - 1
    BY <1>2, RemIs
  <2>2. read_byte' \in Byte
    BY <1>1, <2>1 DEF RingInv, Masked, Rem
  <2>3. tail' + Used' - head' \in Multiples(IndexMod)
    BY <1>1, <1>4, <1>5
  <2>. QED
    BY <1>1, <1>3, <2>2, <2>3 DEF RingInv
<1>. QED
  BY <1>1, <1>4, <1>6, <1>7

LEMMA RingInvariant == RingSpec => []RingInv
<1>1. RingInv /\ [RingNext]_ringVars => RingInv'
  <2>1. RingInv /\ RingNext => RingInv'
    BY RingWriteStep, RingReadStep DEF RingNext
  <2>2. RingInv /\ UNCHANGED ringVars => RingInv'
    BY DEF RingInv, ringVars, Used
  <2>. QED
    BY <2>1, <2>2
<1>. QED
  BY <1>1, RingStart, PTL DEF RingSpec

-----------------------------------------------------------------------------
(* The queue.                                                              *)

LEMMA WindowIs ==
    ASSUME NEW cells \in [0 .. BufSize - 1 -> Byte], NEW start \in Int, NEW count \in Nat
    PROVE  [i \in 1 .. count |-> cells[Masked(start + i - 1)]] \in Seq(Byte)
<1>1. ASSUME NEW i \in 1 .. count PROVE cells[Masked(start + i - 1)] \in Byte
  <2>1. start + i - 1 \in Int /\ BufSize \in Nat \ {0}
    BY BufSizeAssumption
  <2>2. Rem(start + i - 1, BufSize) \in 0 .. BufSize - 1
    BY <2>1, RemIs
  <2>. QED
    BY <2>2 DEF Masked, Rem
<1>. QED
  BY <1>1

LEMMA ContentsIs ==
    RingInv => /\ Contents \in Seq(Byte) /\ Len(Contents) = Used /\ Used \in Nat
               /\ \A i \in 1 .. Used : Contents[i] = buf[Masked(tail + i - 1)]
<1>. SUFFICES ASSUME RingInv
              PROVE  /\ Contents \in Seq(Byte) /\ Len(Contents) = Used /\ Used \in Nat
                     /\ \A i \in 1 .. Used : Contents[i] = buf[Masked(tail + i - 1)]
  OBVIOUS
<1>1. tail \in Int /\ Used \in Nat /\ buf \in [0 .. BufSize - 1 -> Byte]
  BY RingFacts DEF RingInv
<1>2. Contents = [i \in 1 .. Used |-> buf[Masked(tail + i - 1)]]
  BY DEF Contents
<1>3. Contents \in Seq(Byte)
  BY <1>1, <1>2, WindowIs
<1>. QED
  BY <1>1, <1>2, <1>3

LEMMA ContentsIsNext ==
    ASSUME RingInv', Used' \in Nat
    PROVE  /\ Contents' \in Seq(Byte) /\ Len(Contents') = Used'
           /\ \A i \in 1 .. Used' : Contents'[i] = buf'[Masked(tail' + i - 1)]
<1>1. tail' \in Int /\ buf' \in [0 .. BufSize - 1 -> Byte]
  BY IndexModAssumption DEF RingInv
<1>2. Contents' = [i \in 1 .. Used' |-> buf'[Masked(tail' + i - 1)]]
  BY DEF Contents
<1>3. Contents' \in Seq(Byte)
  BY <1>1, <1>2, WindowIs
<1>. QED
  BY <1>1, <1>2, <1>3

LEMMA WriteAppends ==
    ASSUME RingInv, NEW b \in Byte, WriteByte(b)
    PROVE  /\ Len(Contents) < BufSize - 1
           /\ Contents' = Append(Contents, b)
           /\ read_byte' = read_byte
<1>1. /\ RingInv' /\ Used' = Used + 1 /\ Used < BufSize - 1
      /\ tail' = tail /\ read_byte' = read_byte
      /\ \A i \in 1 .. Used : buf'[Masked(tail + i - 1)] = buf[Masked(tail + i - 1)]
      /\ buf'[Masked(tail + Used)] = b
  BY RingWriteStep
<1>2. /\ Contents \in Seq(Byte) /\ Len(Contents) = Used /\ Used \in Nat
      /\ \A i \in 1 .. Used : Contents[i] = buf[Masked(tail + i - 1)]
  BY ContentsIs
<1>3. /\ Contents' \in Seq(Byte) /\ Len(Contents') = Used'
      /\ \A i \in 1 .. Used' : Contents'[i] = buf'[Masked(tail' + i - 1)]
  BY <1>1, <1>2, ContentsIsNext
<1>4. /\ Append(Contents, b) \in Seq(Byte) /\ Len(Append(Contents, b)) = Used + 1
      /\ \A i \in 1 .. Used : Append(Contents, b)[i] = Contents[i]
      /\ Append(Contents, b)[Used + 1] = b
  BY <1>2, AppendProperties
<1>5. ASSUME NEW i \in 1 .. Used + 1 PROVE Contents'[i] = Append(Contents, b)[i]
  <2>1. Contents'[i] = buf'[Masked(tail + i - 1)]
    BY <1>1, <1>3
  <2>2. CASE i = Used + 1
    <3>1. tail + i - 1 = tail + Used
      BY <1>1, <1>2, <2>2, RingFacts DEF RingInv
    <3>. QED
      BY <1>1, <1>4, <2>1, <2>2, <3>1
  <2>3. CASE i # Used + 1
    <3>1. i \in 1 .. Used
      BY <1>2, <2>3
    <3>. QED
      BY <1>1, <1>2, <1>4, <2>1, <3>1
  <2>. QED
    BY <2>2, <2>3
<1>. HIDE DEF Contents
<1>6. Contents' = Append(Contents, b)
  BY <1>1, <1>3, <1>4, <1>5, SeqEqual
<1>. QED
  BY <1>1, <1>2, <1>6

LEMMA ReadTakesHead ==
    ASSUME RingInv, ReadByte
    PROVE  /\ Contents # <<>>
           /\ read_byte' = Head(Contents)
           /\ Contents' = Tail(Contents)
<1>1. /\ RingInv' /\ Used > 0 /\ Used' = Used - 1
      /\ read_byte' = buf[Masked(tail)] /\ buf' = buf
      /\ \A i \in Int : Masked(tail' + i - 1) = Masked(tail + i)
  BY RingReadStep
<1>2. /\ Contents \in Seq(Byte) /\ Len(Contents) = Used /\ Used \in Nat
      /\ \A i \in 1 .. Used : Contents[i] = buf[Masked(tail + i - 1)]
  BY ContentsIs
<1>3. /\ Contents' \in Seq(Byte) /\ Len(Contents') = Used'
      /\ \A i \in 1 .. Used' : Contents'[i] = buf'[Masked(tail' + i - 1)]
  BY <1>1, <1>2, ContentsIsNext
<1>4. Contents # <<>>
  BY <1>1, <1>2
<1>5. /\ Tail(Contents) \in Seq(Byte) /\ Len(Tail(Contents)) = Used - 1
      /\ \A i \in 1 .. Used - 1 : Tail(Contents)[i] = Contents[i + 1]
  BY <1>2, <1>4, HeadTailProperties
<1>6. read_byte' = Head(Contents)
  <2>1. tail + 1 - 1 = tail
    BY RingFacts DEF RingInv
  <2>2. Head(Contents) = Contents[1]
    BY <1>2, <1>4
  <2>3. 1 \in 1 .. Used
    BY <1>1, <1>2
  <2>. QED
    BY <1>1, <1>2, <2>1, <2>2, <2>3
<1>7. ASSUME NEW i \in 1 .. Used - 1 PROVE Contents'[i] = Tail(Contents)[i]
  <2>0. i \in Int /\ i \in 1 .. Used'
    BY <1>1, <1>2
  <2>1. Contents'[i] = buf[Masked(tail + i)]
    BY <1>1, <1>3, <2>0
  <2>2. i + 1 \in 1 .. Used /\ tail + (i + 1) - 1 = tail + i
    BY <1>2, RingFacts DEF RingInv
  <2>3. Contents[i + 1] = buf[Masked(tail + i)]
    BY <1>2, <2>2
  <2>. QED
    BY <1>5, <2>1, <2>3
<1>8. Contents' = Tail(Contents)
  BY <1>1, <1>3, <1>5, <1>7, SeqEqual
<1>. QED
  BY <1>4, <1>6, <1>8

\* pipe.c:1-14: what is read from a pipe is what was written to it, in order and once,
\* and a full buffer is never taken for an empty one, wherever head and tail wrap.
THEOREM RingIsQueue == RingSpec => ImplementsFifo
<1>1. RingInit => Fifo!FifoInit
  <2>. SUFFICES ASSUME RingInit PROVE Fifo!FifoInit
    OBVIOUS
  <2>1. RingInv /\ head = tail
    BY RingStart DEF RingInit
  <2>2. Contents \in Seq(Byte) /\ Len(Contents) = Used
    BY <2>1, ContentsIs
  <2>3. Used = 0
    <3>1. head - tail - 0 = 0 /\ head - tail \in Int /\ BufSize \in Nat \ {0} /\ 0 \in 0 .. BufSize - 1
      BY <2>1, RingFacts DEF RingInv
    <3>2. Rem(head - tail, BufSize) = 0
      BY <3>1, MultiplesClosed, RemUnique
    <3>. QED
      BY <3>2 DEF Used, Rem
  <2>4. Contents = <<>>
    BY <2>2, <2>3
  <2>. QED
    BY <2>1, <2>4 DEF Fifo!FifoInit, RingInv
<1>2. RingInv /\ [RingNext]_ringVars => [Fifo!FifoNext]_<<Contents, read_byte>>
  <2>1. ASSUME RingInv, NEW b \in Byte, WriteByte(b) PROVE Fifo!FifoNext
    <3>1. Fifo!PutByte(b)
      BY <2>1, WriteAppends DEF Fifo!PutByte
    <3>. QED
      BY <3>1 DEF Fifo!FifoNext
  <2>2. ASSUME RingInv, ReadByte PROVE Fifo!FifoNext
    <3>1. Fifo!TakeByte
      BY <2>2, ReadTakesHead DEF Fifo!TakeByte
    <3>. QED
      BY <3>1 DEF Fifo!FifoNext
  <2>3. UNCHANGED ringVars => UNCHANGED <<Contents, read_byte>>
    BY DEF ringVars, Contents, Used
  <2>. QED
    BY <2>1, <2>2, <2>3 DEF RingNext
<1>. QED
  BY <1>1, <1>2, RingInvariant, PTL DEF RingSpec, ImplementsFifo, Fifo!FifoSpec, Fifo!fifoVars
=============================================================================
