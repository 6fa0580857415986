---------------------------- MODULE PrivateMemory ----------------------------
(***************************************************************************)
(* What an address space promises: each task has pages of its own, and no  *)
(* other task's writes show in them. A fork copies them all. The page a     *)
(* heap ends in may be replaced when the heap grows; every other page keeps *)
(* what was written there.                                                  *)
(***************************************************************************)
EXTENDS Naturals

CONSTANTS Task, Page, Image, Heap, Value, Absent

VARIABLE store      \* store[t][p]: what t reads at p, or Absent

MemInit == store = [t \in Task |-> [p \in Page |-> Absent]]

\* A new program: what its pages hold is given by the image.
MemLoad(t, contents) ==
    store' = [store EXCEPT ![t] = [p \in Page |-> IF p \in Image THEN contents[p] ELSE Absent]]

\* A page more, or the last of the heap anew; of any content.
MemGrow(t, p, v) ==
    /\ p \in Heap
    /\ \A q \in Heap : q > p => store[t][q] = Absent
    /\ store' = [store EXCEPT ![t][p] = v]

MemFork(t, c) == store' = [store EXCEPT ![c] = store[t]]

MemWrite(t, p, v) ==
    /\ store[t][p] # Absent
    /\ store' = [store EXCEPT ![t][p] = v]

MemFree(t) == store' = [store EXCEPT ![t] = [p \in Page |-> Absent]]

MemNext ==
    \E t \in Task :
        \/ \E contents \in [Image -> Value] : MemLoad(t, contents)
        \/ \E p \in Page, v \in Value : MemGrow(t, p, v) \/ MemWrite(t, p, v)
        \/ \E c \in Task : MemFork(t, c)
        \/ MemFree(t)

MemSpec == MemInit /\ [][MemNext]_store
=============================================================================
