---------------------------- MODULE AddressSpace ----------------------------
(***************************************************************************)
(* The user half of the page directories: loading a program, fork with     *)
(* copy-on-write, the fault that ends it, brk, and destruction, with the   *)
(* reference counts of the frames. What a task reads is PrivateMemory.     *)
(*                                                                         *)
(* A frame of a table or of a directory comes from another zone and is     *)
(* left out, as is the order in which free frames are found. Translations  *)
(* the processor holds are left out too: the page a brk replaces is new to *)
(* the task at once, in the code when the entry is next loaded.            *)
(***************************************************************************)
EXTENDS Naturals, FiniteSets

CONSTANTS Task, Page, Value, UserFrame, Unmapped,
          Image,          \* pages an ELF image and its stack take
          TextPages,      \* those its program headers do not make writable
          HeapPages,      \* how many pages behind its image a break may reach
          RefMax,         \* 0xFFFF, where a count saturates
          LeakMax,        \* bound: how often one frame may be overwritten by brk
          WriteProtect    \* whether ring 0 obeys read-only entries (CR0.WP)

Heap == 0..HeapPages - 1

\* The heap ends below the stack.
ASSUME AddressAssumption ==
    /\ IsFiniteSet(Task)
    /\ HeapPages \in Nat /\ Heap \subseteq Page \ Image
    /\ RefMax \in Nat /\ LeakMax \in Nat /\ Cardinality(Task) + LeakMax < RefMax
    /\ Unmapped \notin UserFrame \union Value
    /\ TextPages \subseteq Image /\ Image \subseteq Page
    /\ WriteProtect \in BOOLEAN

VARIABLES pte,        \* pte[t][p]: the frame of a present entry, or Unmapped
          perm,       \* perm[t][p]: "ro", "rw", "cow" (PTE_WRITE, PTE_COW)
          brk,        \* brk[t]: the page of the break, and whether it is inside
                      \* that page rather than at its start
          refcounts, bitmap,      \* bitmap: the set of frames not free
          contents,   \* what each frame holds
          leaked      \* history: entries of a frame overwritten while present

spaceVars == <<pte, perm, brk, refcounts, bitmap, contents, leaked>>

NoPages == [p \in Page |-> Unmapped]
Mapped(t) == {p \in Page : pte[t][p] # Unmapped}
FramesOf(t) == {pte[t][p] : p \in Mapped(t)}
FreeFrames == UserFrame \ bitmap
Breaks == [page : 0..HeapPages, inside : BOOLEAN]
ImageEnd == [page |-> 0, inside |-> FALSE]

SpaceInit ==
    /\ pte = [t \in Task |-> NoPages]
    /\ perm = [t \in Task |-> [p \in Page |-> "ro"]]
    /\ brk = [t \in Task |-> ImageEnd]
    /\ refcounts = [f \in UserFrame |-> 0]
    /\ leaked = [f \in UserFrame |-> 0]
    /\ bitmap = {}
    /\ contents \in [UserFrame -> Value]

RefIncOfWritable(t, f) ==         \* mutant: pages shared read-only are not counted
    IF \E p \in Mapped(t) : pte[t][p] = f /\ perm[t][p] # "ro" /\ refcounts[f] < RefMax
    THEN refcounts[f] + 1 ELSE refcounts[f]

\* The count of f when t's frames are counted once more (pmm_refcount_inc) or once
\* less (pmm_refcount_dec).
RefInc(t, f) == IF f \in FramesOf(t) /\ refcounts[f] < RefMax
                THEN refcounts[f] + 1 ELSE refcounts[f]
RefDec(t, f) == IF f \in FramesOf(t) /\ refcounts[f] > 0
                THEN refcounts[f] - 1 ELSE refcounts[f]

\* The loop of vmm_destroy_page_dir over the frames of t: a count that reaches
\* zero frees its frame.
Released(t) == [f \in UserFrame |-> RefDec(t, f)]
Freed(t) == {f \in FramesOf(t) : Released(t)[f] = 0}

\* elf_load: a fresh frame for each page of the image, cleared or copied from the
\* file. The new directory is filled before the old one is destroyed.
Load(t, g, data) ==
    /\ g \in [Image -> FreeFrames] /\ \A p, q \in Image : g[p] = g[q] => p = q
    /\ LET new == {g[p] : p \in Image} IN
       /\ pte' = [pte EXCEPT ![t] = [p \in Page |-> IF p \in Image THEN g[p] ELSE Unmapped]]
       /\ perm' = [perm EXCEPT ![t] = [p \in Page |-> IF p \in Image \ TextPages
                                                      THEN "rw" ELSE "ro"]]
       /\ brk' = [brk EXCEPT ![t] = ImageEnd]
       /\ refcounts' = [f \in UserFrame |-> IF f \in new THEN 1 ELSE Released(t)[f]]
       /\ bitmap' = (bitmap \ Freed(t)) \union new
       /\ contents' = [f \in UserFrame |-> IF f \in new
                            THEN data[CHOOSE p \in Image : g[p] = f] ELSE contents[f]]
       /\ UNCHANGED leaked

\* create_elf_task: a task that has no pages yet. task_exec: a task that has.
Create(t, g, data) == Mapped(t) = {} /\ Load(t, g, data)
Exec(t, g, data) == Mapped(t) # {} /\ Load(t, g, data)

\* The breaks one turn of the loop of SYS_BRK leads to: at most a page further.
Further(b) ==
    {c \in Breaks : \/ c.page = b.page /\ c.inside
                    \/ c.page = b.page + 1 /\ (c.inside => b.inside)}

\* One turn. It maps the page of the break as it was, mapped or not: the entry of a
\* page the break is inside of is overwritten, and its frame keeps its count
\* (syscall.c:866, vmm.c:67). The new frame is not cleared. A break that grows by
\* several pages is several turns.
Brk(t, c, f) ==
    LET p == brk[t].page IN
    /\ Mapped(t) # {} /\ p \in Heap /\ c \in Further(brk[t]) /\ f \in FreeFrames
    /\ pte' = [pte EXCEPT ![t][p] = f]
    /\ perm' = [perm EXCEPT ![t][p] = "rw"]
    /\ brk' = [brk EXCEPT ![t] = c]
    /\ refcounts' = [refcounts EXCEPT ![f] = 1]
    /\ bitmap' = bitmap \union {f}
    /\ IF p \in Mapped(t)
       THEN /\ leaked[pte[t][p]] < LeakMax
            /\ leaked' = [leaked EXCEPT ![pte[t][p]] = @ + 1]
       ELSE UNCHANGED leaked
    /\ UNCHANGED contents

CloneChildOnly(t, c) ==         \* mutant: the parent's entries stay writable
    /\ Mapped(t) # {} /\ Mapped(c) = {}
    /\ perm' = [perm EXCEPT ![c] = [p \in Page |-> IF perm[t][p] = "rw" THEN "cow"
                                                    ELSE perm[t][p]]]
    /\ pte' = [pte EXCEPT ![c] = pte[t]]
    /\ brk' = [brk EXCEPT ![c] = brk[t]]
    /\ refcounts' = [f \in UserFrame |-> RefInc(t, f)]
    /\ UNCHANGED <<bitmap, contents, leaked>>

\* fork, with vmm_clone_page_dir: writable pages become copy-on-write on both sides.
Clone(t, c) ==
    /\ Mapped(t) # {} /\ Mapped(c) = {}
    /\ LET shared == [p \in Page |-> IF p \in Mapped(t) /\ perm[t][p] = "rw"
                                     THEN "cow" ELSE perm[t][p]]
       IN  perm' = [perm EXCEPT ![t] = shared, ![c] = shared]
    /\ pte' = [pte EXCEPT ![c] = pte[t]]
    /\ brk' = [brk EXCEPT ![c] = brk[t]]
    /\ refcounts' = [f \in UserFrame |-> RefInc(t, f)]
    /\ UNCHANGED <<bitmap, contents, leaked>>

\* vmm_cow_fault, of the only owner and of one of several.
CowFaultAlone(t, p) ==
    /\ p \in Mapped(t) /\ perm[t][p] = "cow"
    /\ refcounts[pte[t][p]] = 1
    /\ perm' = [perm EXCEPT ![t][p] = "rw"]
    /\ UNCHANGED <<pte, brk, refcounts, bitmap, contents, leaked>>

CowFaultKeepsCount(t, p, f) ==     \* mutant: the old frame is not given up
    /\ p \in Mapped(t) /\ perm[t][p] = "cow" /\ f \in FreeFrames
    /\ refcounts[pte[t][p]] # 1
    /\ refcounts' = [refcounts EXCEPT ![f] = 1]
    /\ contents' = [contents EXCEPT ![f] = contents[pte[t][p]]]
    /\ pte' = [pte EXCEPT ![t][p] = f]
    /\ perm' = [perm EXCEPT ![t][p] = "rw"]
    /\ bitmap' = bitmap \union {f}
    /\ UNCHANGED <<brk, leaked>>

CowFaultShared(t, p, f) ==
    /\ p \in Mapped(t) /\ perm[t][p] = "cow" /\ f \in FreeFrames
    /\ LET old == pte[t][p] IN
       /\ refcounts[old] # 1
       /\ refcounts' = [refcounts EXCEPT ![old] = IF @ > 0 THEN @ - 1 ELSE @, ![f] = 1]
       /\ contents' = [contents EXCEPT ![f] = contents[old]]
    /\ pte' = [pte EXCEPT ![t][p] = f]
    /\ perm' = [perm EXCEPT ![t][p] = "rw"]
    /\ bitmap' = bitmap \union {f}
    /\ UNCHANGED <<brk, leaked>>

\* A store of the program itself, at once or after the fault.
UserWrite(t, p, v) ==
    /\ p \in Mapped(t) /\ perm[t][p] = "rw"
    /\ contents' = [contents EXCEPT ![pte[t][p]] = v]
    /\ UNCHANGED <<pte, perm, brk, refcounts, bitmap, leaked>>

\* A store of the kernel into a buffer of the task that called it (sys_read and
\* others). No fault is taken in ring 0 unless CR0.WP is set.
KernelWrite(t, p, v) ==
    /\ p \in Mapped(t)
    /\ WriteProtect => perm[t][p] = "rw"
    /\ contents' = [contents EXCEPT ![pte[t][p]] = v]
    /\ UNCHANGED <<pte, perm, brk, refcounts, bitmap, leaked>>

\* task_kill, of any task and at any moment.
Destroy(t) ==
    /\ Mapped(t) # {}
    /\ pte' = [pte EXCEPT ![t] = NoPages]
    /\ perm' = [perm EXCEPT ![t] = [p \in Page |-> "ro"]]
    /\ refcounts' = Released(t)
    /\ bitmap' = bitmap \ Freed(t)
    /\ UNCHANGED <<brk, contents, leaked>>

SpaceNext ==
    \E t \in Task :
        \/ \E g \in [Image -> FreeFrames], data \in [Image -> Value] :
            Create(t, g, data) \/ Exec(t, g, data)
        \/ \E c \in Task : Clone(t, c)
        \/ Destroy(t)
        \/ \E c \in Breaks, f \in FreeFrames : Brk(t, c, f)
        \/ \E p \in Page :
            \/ CowFaultAlone(t, p)
            \/ \E f \in FreeFrames : CowFaultShared(t, p, f)
            \/ \E v \in Value : UserWrite(t, p, v) \/ KernelWrite(t, p, v)

SpaceSpec == SpaceInit /\ [][SpaceNext]_spaceVars

-----------------------------------------------------------------------------
Entries == {"ro", "rw", "cow"}

SpaceTypeOK ==
    /\ pte \in [Task -> [Page -> UserFrame \union {Unmapped}]]
    /\ perm \in [Task -> [Page -> Entries]]
    /\ brk \in [Task -> Breaks]
    /\ refcounts \in [UserFrame -> 0..RefMax]
    /\ leaked \in [UserFrame -> 0..LeakMax]
    /\ bitmap \subseteq UserFrame
    /\ contents \in [UserFrame -> Value]

Sharers(f) == {t \in Task : f \in FramesOf(t)}

\* After any forks, faults, execs and kills the count of a frame is the number of
\* tasks that map it, each at the same page, and of the entries a brk from inside a
\* page overwrote: those lose a frame, nothing else does, and nothing mapped is free
\* (pmm.c:41-45).
CountsMatchSharers ==
    /\ \A f \in UserFrame : refcounts[f] = Cardinality(Sharers(f)) + leaked[f]
    /\ bitmap = {f \in UserFrame : refcounts[f] # 0}
    /\ \A t, u \in Task : \A p \in Mapped(t), q \in Mapped(u) : pte[t][p] = pte[u][q] => p = q

\* A page that can be written without a fault is in one address space only
\* (vmm.h:41-43).
WritableUnshared ==
    \A t, u \in Task : \A p \in Mapped(t) :
        perm[t][p] = "rw" /\ t # u => pte[t][p] \notin FramesOf(u)

Memory == INSTANCE PrivateMemory WITH
    Absent <- Unmapped,
    store <- [t \in Task |-> [p \in Page |-> IF pte[t][p] = Unmapped
                                             THEN Unmapped ELSE contents[pte[t][p]]]]

\* Each task reads what it wrote, whoever it shares frames with, but for the page a
\* brk begins in: the address spaces implement private memory (vmm.c:323-464,
\* elf.c:82-158, syscall.c:866).
ImplementsPrivateMemory == Memory!MemSpec
=============================================================================
