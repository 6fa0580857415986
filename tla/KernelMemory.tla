---------------------------- MODULE KernelMemory ----------------------------
(***************************************************************************)
(* The memory the kernel takes for itself: ranges of kernel virtual pages  *)
(* (vmm_alloc_pages, vmm_free_pages), the slab heap and the blocks of more *)
(* than a page above them (kmalloc, kfree), the kernel stacks with their   *)
(* guard page, and the translations the processor keeps of all these.      *)
(* A virtual page is a number, KVIRT_BASE is 1; a frame is a number.       *)
(***************************************************************************)
EXTENDS Naturals, Sequences, FiniteSets, FiniteSetsExt

CONSTANTS VirtMax,     \* bound: pages of kernel virtual space
          FrameMax,    \* bound: frames
          FreeMax,     \* KVIRT_FL_MAX
          Classes, SlotsOf,        \* size classes, slots in a page of each
          SlabMax,     \* MAX_SLABS_PER_CLASS
          OverflowMax, \* MAX_OVERFLOW
          CacheMax,    \* LARGE_CACHE_MAX
          LargeSizes,  \* sizes in pages of blocks that are no slots
          StackPages,  \* TASK_STACK_SIZE in pages
          Dirs, KernelDir          \* page directories; the static one

ASSUME KernelMemoryAssumption ==
    /\ {VirtMax, FrameMax} \subseteq Nat
    /\ {FreeMax, SlabMax, OverflowMax, CacheMax, StackPages} \subseteq Nat \ {0}
    /\ LargeSizes \subseteq Nat \ {0, 1}
    /\ SlotsOf \in [Classes -> Nat \ {0}]
    /\ KernelDir \in Dirs

VARIABLES kvirt_next, kvirt_free, lost,   \* lost: ranges the full list drops
          page_table, frames, tlb, cr3,
          classes, overflow_table, large_cache, stacks

ranges == <<kvirt_next, kvirt_free, lost, page_table, frames>>
heap == <<classes, overflow_table, large_cache>>
kernelVars == <<ranges, tlb, cr3, heap, stacks>>

Virt == 1..VirtMax
Frame == 1..FrameMax
NoFrame == 0
Pages(r) == r.base..(r.base + r.npages - 1)
PagesOf(rs) == UNION {Pages(r) : r \in rs}
Span(b, n) == [base |-> b, npages |-> n]

KernelInit ==
    /\ kvirt_next = 1 /\ kvirt_free = {} /\ lost = {}
    /\ page_table = [v \in Virt |-> NoFrame]
    /\ frames = {}
    /\ tlb = [v \in Virt |-> NoFrame]
    /\ cr3 = KernelDir
    /\ classes = [c \in Classes |-> <<>>]
    /\ overflow_table = {} /\ large_cache = <<>>
    /\ stacks = {}

\* What is left of a range when n pages are taken from its front.
TrimmedBase(r, n) == Span(r.base + n, r.npages)      \* mutant: keeps the length

Trimmed(r, n) == Span(r.base + n, r.npages - n)

\* Entries that fit n pages best; the code takes the first of them in a list
\* whose order is left out here.
BestFit(n) ==
    LET fits == {r \in kvirt_free : r.npages >= n}
    IN  {r \in fits : \A s \in fits : r.npages <= s.npages}

\* The frames that n calls of pmm_alloc_frame find; which they are does not matter.
Found(n) == CHOOSE f \in Injection(0..(n - 1), Frame \ frames) : TRUE

MapFramesAll(b, n, guard) ==        \* mutant: the guard page stays mapped
    /\ Cardinality(Frame \ frames) >= n
    /\ page_table' = [v \in Virt |-> IF v \in Pages(Span(b, n)) THEN Found(n)[v - b]
                                                                ELSE page_table[v]]
    /\ frames' = frames \union {Found(n)[i] : i \in 0..(n - 1)}

\* Frames for n pages at b; the pages in guard are unmapped again.
MapFrames(b, n, guard) ==
    /\ Cardinality(Frame \ frames) >= n
    /\ page_table' = [v \in Virt |-> IF v \in Pages(Span(b, n)) \ guard
                                     THEN Found(n)[v - b] ELSE page_table[v]]
    /\ frames' = frames \union {Found(n)[i] : i \in 0..(n - 1)}

\* vmm_alloc_pages(n) returns b. It panics when there are no frames.
AllocPages(n, b, guard) ==
    /\ \/ \E r \in BestFit(n) :
            /\ b = r.base
            /\ kvirt_free' = (kvirt_free \ {r}) \union
                  (IF r.npages = n THEN {} ELSE {Trimmed(r, n)})
            /\ kvirt_next' = Max({kvirt_next, r.base + r.npages})
       \/ /\ BestFit(n) = {}
          /\ b = kvirt_next
          /\ kvirt_next + n <= VirtMax + 1
          /\ kvirt_next' = kvirt_next + n
          /\ UNCHANGED kvirt_free
    /\ MapFrames(b, n, guard)
    /\ UNCHANGED lost

Before(r) == {e \in kvirt_free : e.base + e.npages = r.base}
After(r) == {e \in kvirt_free : r.base + r.npages = e.base}

\* A range with the entries it touches. The code repeats the search after every
\* merge; entries never touch each other (PagesInOnePlace), so it ends here.
Coalesced(r) ==
    LET touching == {r} \union Before(r) \union After(r)
        b == Min({e.base : e \in touching})
    IN  Span(b, Max({e.base + e.npages : e \in touching}) - b)

\* vmm_free_pages: unmap, coalesce, insert. An entry of the TLB is dropped only if
\* the static directory is the one that is loaded.
Flushed(t, ps) == [v \in Virt |-> IF v \in ps /\ cr3 = KernelDir THEN NoFrame ELSE t[v]]

FreePages(r, t) ==
    LET c == Coalesced(r)
        rest == kvirt_free \ (Before(r) \union After(r))
    IN  /\ frames' = frames \ {page_table[v] : v \in Pages(r)}
        /\ page_table' = [v \in Virt |-> IF v \in Pages(r) THEN NoFrame ELSE page_table[v]]
        /\ tlb' = Flushed(t, Pages(r))
        /\ \/ /\ Cardinality(rest) < FreeMax
              /\ kvirt_free' = rest \union {c}
              /\ UNCHANGED lost
           \/ /\ Cardinality(rest) >= FreeMax
              /\ kvirt_free' = rest
              /\ lost' = lost \union {c}
        /\ UNCHANGED kvirt_next

\* The processor reads or writes page v: the walk is cached.
Touched(t, v, table) == [t EXCEPT ![v] = IF @ = NoFrame THEN table[v] ELSE @]

-----------------------------------------------------------------------------
(* Slabs: a page of a class is [base, used], used the set of its slots taken. *)

HasRoom(c, i) == classes[c][i].used # 1..SlotsOf[c]

TakeSlot(c, i) ==
    LET p == classes[c][i]
        slot == Min(1..SlotsOf[c] \ p.used)
    IN  [classes EXCEPT ![c][i].used = p.used \union {slot}]

\* kmalloc of a slot of an existing page: the first page with room.
KmallocSlot(c) ==
    /\ \E i \in DOMAIN classes[c] :
        /\ HasRoom(c, i) /\ \A j \in 1..(i - 1) : ~HasRoom(c, j)
        /\ classes' = TakeSlot(c, i)
    /\ UNCHANGED <<ranges, tlb, cr3, overflow_table, large_cache, stacks>>

\* slab_grow, which clears the page, and the first slot of the new page.
KmallocGrow(c) ==
    /\ \A i \in DOMAIN classes[c] : ~HasRoom(c, i)
    /\ Len(classes[c]) < SlabMax
    /\ \E b \in Virt :
        /\ AllocPages(1, b, {})
        /\ tlb' = Touched(tlb, b, page_table')
        /\ classes' = [classes EXCEPT ![c] = Append(@, [base |-> b, used |-> {1}])]
    /\ UNCHANGED <<cr3, overflow_table, large_cache, stacks>>

KfreeSlot(c, i, slot) ==
    /\ slot \in classes[c][i].used
    /\ classes' = [classes EXCEPT ![c][i].used = @ \ {slot}]
    /\ UNCHANGED <<ranges, tlb, cr3, overflow_table, large_cache, stacks>>

Cached(n) == {i \in DOMAIN large_cache : large_cache[i].npages = n}

\* large_cache[i] = large_cache[--large_cache_count]
SwapRemove(q, i) == SubSeq([q EXCEPT ![i] = q[Len(q)]], 1, Len(q) - 1)

\* kmalloc of more than a page: from the cache, else new pages.
KmallocLarge(n) ==
    /\ Cardinality(overflow_table) < OverflowMax
    /\ \/ /\ Cached(n) # {}
          /\ LET i == Min(Cached(n))
             IN  /\ overflow_table' = overflow_table \union {large_cache[i]}
                 /\ large_cache' = SwapRemove(large_cache, i)
          /\ UNCHANGED ranges
       \/ /\ Cached(n) = {}
          /\ \E b \in Virt : /\ AllocPages(n, b, {})
                             /\ overflow_table' = overflow_table \union {Span(b, n)}
          /\ UNCHANGED large_cache
    /\ UNCHANGED <<tlb, cr3, classes, stacks>>

\* kfree of one of them: into the cache; a full cache frees its entry 0.
KfreeLarge(r) ==
    /\ r \in overflow_table
    /\ overflow_table' = overflow_table \ {r}
    /\ \/ /\ Len(large_cache) < CacheMax
          /\ large_cache' = Append(large_cache, r)
          /\ UNCHANGED <<ranges, tlb>>
       \/ /\ Len(large_cache) = CacheMax
          /\ FreePages(large_cache[1], tlb)
          /\ large_cache' = [large_cache EXCEPT ![1] = large_cache[CacheMax],
                                                ![CacheMax] = r]
    /\ UNCHANGED <<cr3, classes, stacks>>

-----------------------------------------------------------------------------
(* Kernel stacks: StackPages above a guard page. *)

StackRange(s) == Span(s - 1, StackPages + 1)

\* kstack_alloc takes a frame for the guard page too, unmaps the page and keeps the
\* frame; the canary is written through whatever the processor has cached.
KstackAlloc ==
    /\ \E b \in Virt :
        /\ AllocPages(StackPages + 1, b, {b})
        /\ stacks' = stacks \union {b + 1}
        /\ tlb' = Touched(Flushed(tlb, {b}), b + 1, page_table')
    /\ UNCHANGED <<cr3, heap>>

\* kstack_free looks at the canary first.
KstackFree(s) ==
    /\ s \in stacks
    /\ stacks' = stacks \ {s}
    /\ FreePages(StackRange(s), Touched(tlb, s, page_table))
    /\ UNCHANGED <<cr3, heap>>

-----------------------------------------------------------------------------
\* A switch of tasks loads cr3, which empties the TLB.
SwitchPageDir(d) ==
    /\ cr3' = d
    /\ tlb' = [v \in Virt |-> NoFrame]
    /\ UNCHANGED <<ranges, heap, stacks>>

SlabPages == UNION {{classes[c][i].base : i \in DOMAIN classes[c]} : c \in Classes}

InUse == PagesOf(overflow_table) \union PagesOf({StackRange(s) : s \in stacks})
            \union SlabPages

\* The owner of a block reads or writes it.
Access(v) ==
    /\ v \in InUse /\ page_table[v] # NoFrame /\ tlb[v] = NoFrame
    /\ tlb' = Touched(tlb, v, page_table)
    /\ UNCHANGED <<ranges, cr3, heap, stacks>>

KernelNext ==
    \/ \E c \in Classes : \/ KmallocSlot(c) \/ KmallocGrow(c)
                          \/ \E i \in DOMAIN classes[c] : \E slot \in 1..SlotsOf[c] :
                                KfreeSlot(c, i, slot)
    \/ \E n \in LargeSizes : KmallocLarge(n)
    \/ \E r \in overflow_table : KfreeLarge(r)
    \/ KstackAlloc
    \/ \E s \in stacks : KstackFree(s)
    \/ \E d \in Dirs : SwitchPageDir(d)
    \/ \E v \in Virt : Access(v)

KernelSpec == KernelInit /\ [][KernelNext]_kernelVars

-----------------------------------------------------------------------------
CacheRanges == {large_cache[i] : i \in DOMAIN large_cache}

\* The parts into which the kernel's virtual space is divided.
Parts == <<PagesOf(kvirt_free), PagesOf(lost), PagesOf(CacheRanges), PagesOf(overflow_table),
           SlabPages, PagesOf({StackRange(s) : s \in stacks})>>

\* Whatever the order of allocations, frees, evictions and merges, each page below
\* kvirt_next is in one place: free, lost to the full list, cached, or part of one
\* block or stack (vmm.c:145-239, heap.c:134-263). No two free ranges touch, which
\* is what lets one pass of merging do and keeps the list short (vmm.c:202-227).
PagesInOnePlace ==
    /\ \A i, j \in DOMAIN Parts : i # j => Parts[i] \cap Parts[j] = {}
    /\ UNION {Parts[i] : i \in DOMAIN Parts} = 1..(kvirt_next - 1)
    /\ \A r, s \in kvirt_free \union lost \union CacheRanges \union overflow_table
            \union {StackRange(s) : s \in stacks} :
            r # s => Pages(r) \cap Pages(s) = {}
    /\ \A r, s \in kvirt_free : r.base + r.npages # s.base

\* Two pages in use never share a frame, and a page has a frame exactly when it is
\* in use or cached and is no guard page (vmm.c:182-200, task.c:80-108).
FramesPrivate ==
    /\ \A v, w \in Virt : v # w /\ page_table[v] # NoFrame => page_table[v] # page_table[w]
    /\ {v \in Virt : page_table[v] # NoFrame} =
            (InUse \union PagesOf(CacheRanges)) \ {s - 1 : s \in stacks}
    /\ {page_table[v] : v \in Virt} \ {NoFrame} \subseteq frames

\* The processor reaches the pages in use through the frames they have now: a write
\* through a pointer lands on the page it points to (task.c:686-692).
TranslationsCurrent ==
    \A v \in InUse : tlb[v] \in {NoFrame, page_table[v]}
=============================================================================
