--------------------------- MODULE MemoryProofs ---------------------------
(***************************************************************************)
(* Proofs about the memory of the kernel and of its tasks.                 *)
(* KernelMemory, for every value of its constants: each page of the kernel *)
(* is in one place, and pages in use have frames of their own. The ranges, *)
(* wherever they are kept, are seen as one set of blocks with a tag each;  *)
(* what the functions of vmm.c, heap.c and task.c do to them is to replace a*)
(* few blocks by others that cover the same pages.                         *)
(* AddressSpace, for any number of tasks, pages and frames: the counts of the*)
(* frames are right, a page that can be written is in one address space    *)
(* only, and hence, as long as the kernel obeys the entries too, address   *)
(* spaces are private memories.                                            *)
(***************************************************************************)
EXTENDS KernelMemory, AddressSpace, SeqLemmas, FiniteSetTheorems

Tag == {"free", "lost", "cache", "over", "slab", "stack"}
Extent == [base : Nat \ {0}, npages : Nat \ {0}]
SlabPage == [base : Nat \ {0}, used : SUBSET Nat]
BlockSet == [tag : Tag, base : Nat \ {0}, npages : Nat \ {0}]

Block(tag, r) == [tag |-> tag, base |-> r.base, npages |-> r.npages]
Tagged(tag, rs) == {Block(tag, r) : r \in rs}

Apart(B) == \A x, y \in B : x # y => Pages(x) \cap Pages(y) = {}

\* Blocks that share no page and cover the pages below n.
Tiles(B, n) ==
    /\ B \subseteq BlockSet
    /\ Apart(B)
    /\ PagesOf(B) = 1 .. (n - 1)

FreeBlocks == Tagged("free", kvirt_free)
StackRanges == {StackRange(s) : s \in stacks}
SlabRanges == {Span(b, 1) : b \in SlabPages}
Held ==
    Tagged("cache", CacheRanges) \cup Tagged("over", overflow_table)
        \cup Tagged("slab", SlabRanges) \cup Tagged("stack", StackRanges)
Blocks == FreeBlocks \cup Tagged("lost", lost) \cup Held

\* No free range ends where another begins.
FarApart(rs) == \A r, s \in rs : r.base + r.npages # s.base

KernelTypes ==
    /\ kvirt_next \in 1 .. (VirtMax + 1)
    /\ kvirt_free \subseteq Extent /\ lost \subseteq Extent /\ overflow_table \subseteq Extent
    /\ large_cache \in Seq(Extent)
    /\ stacks \subseteq Nat \ {0, 1}
    /\ classes \in [Classes -> Seq(SlabPage)]
    /\ \A c \in Classes : \A i \in DOMAIN classes[c] : classes[c][i].used \subseteq 1 .. SlotsOf[c]
    /\ page_table \in [Virt -> Frame \cup {NoFrame}]
    /\ frames \subseteq Frame

\* The cache holds no block twice.
CacheDistinct ==
    \A i, j \in DOMAIN large_cache : large_cache[i] = large_cache[j] => i = j

\* The invariant on frames: mapped pages have different ones.
Guards == {s - 1 : s \in stacks}
FramesOK(table, used, mapped) ==
    /\ \A v, w \in Virt : v # w /\ table[v] # NoFrame => table[v] # table[w]
    /\ {v \in Virt : table[v] # NoFrame} = mapped
    /\ \A v \in Virt : table[v] # NoFrame => table[v] \in used

KernelInv ==
    /\ KernelTypes
    /\ Tiles(Blocks, kvirt_next)
    /\ FarApart(kvirt_free)
    /\ CacheDistinct
    /\ FramesOK(page_table, frames, PagesOf(Held) \ Guards)

-----------------------------------------------------------------------------
(* Blocks.                                                                 *)

LEMMA PagesFacts ==
    /\ \A r : Pages(r) = r.base .. (r.base + r.npages - 1)
    /\ \A rs : \A v : v \in PagesOf(rs) <=> \E r \in rs : v \in Pages(r)
  BY DEF Pages, PagesOf

LEMMA ExtentFacts ==
    ASSUME NEW r, r \in Extent \/ r \in BlockSet
    PROVE  /\ r.base \in Nat \ {0} /\ r.npages \in Nat \ {0}
           /\ Pages(r) # {} /\ r.base \in Pages(r) /\ r.base + r.npages - 1 \in Pages(r)
           /\ \A v : v \in Pages(r) <=> v \in Nat /\ r.base <= v /\ v < r.base + r.npages
<1>1. r.base \in Nat \ {0} /\ r.npages \in Nat \ {0}
  BY DEF Extent, BlockSet
<1>. QED
  BY <1>1 DEF Pages

LEMMA BlockFacts ==
    ASSUME NEW tag \in Tag, NEW r \in Extent
    PROVE  /\ Block(tag, r) \in BlockSet /\ Block(tag, r).tag = tag
           /\ Block(tag, r).base = r.base /\ Block(tag, r).npages = r.npages
           /\ Pages(Block(tag, r)) = Pages(r)
  BY DEF Block, BlockSet, Extent, Pages

\* Blocks with different tags, or of different ranges, are different.
LEMMA BlocksDiffer ==
    ASSUME NEW tag, NEW tag2, NEW r \in Extent, NEW s \in Extent
    PROVE  Block(tag, r) = Block(tag2, s) <=> tag = tag2 /\ r = s
<1>1. r = [base |-> r.base, npages |-> r.npages] /\ s = [base |-> s.base, npages |-> s.npages]
  BY DEF Extent
<1>2. Block(tag, r) = Block(tag2, s) => tag = tag2 /\ r.base = s.base /\ r.npages = s.npages
  BY DEF Block
<1>. QED
  BY <1>1, <1>2

LEMMA TaggedFacts ==
    ASSUME NEW tag \in Tag, NEW rs, rs \subseteq Extent
    PROVE  /\ Tagged(tag, rs) \subseteq BlockSet
           /\ \A x \in Tagged(tag, rs) : x.tag = tag
           /\ \A r \in Extent : Block(tag, r) \in Tagged(tag, rs) <=> r \in rs
           /\ PagesOf(Tagged(tag, rs)) = PagesOf(rs)
<1>1. \A r \in rs : Block(tag, r) \in BlockSet /\ Block(tag, r).tag = tag
                    /\ Pages(Block(tag, r)) = Pages(r)
  BY BlockFacts
<1>2. \A r \in Extent : Block(tag, r) \in Tagged(tag, rs) <=> r \in rs
  BY BlocksDiffer DEF Tagged
<1>3. PagesOf(Tagged(tag, rs)) = PagesOf(rs)
  BY <1>1 DEF Tagged, PagesOf
<1>. QED
  BY <1>1, <1>2, <1>3 DEF Tagged

\* The one step of all proofs below: some blocks give way to blocks over the same
\* pages, or over these and those between n and m.
LEMMA Replace ==
    ASSUME NEW n \in Nat \ {0}, NEW m \in Nat \ {0}, n <= m,
           NEW B, Tiles(B, n), NEW out, out \subseteq B,
           NEW in, in \subseteq BlockSet, Apart(in),
           PagesOf(in) = PagesOf(out) \cup n .. (m - 1)
    PROVE  Tiles((B \ out) \cup in, m)
<1>. DEFINE rest == B \ out
<1>1. \A x \in B : \A v \in Pages(x) : v \in 1 .. (n - 1)
  BY PagesFacts DEF Tiles
<1>2. ASSUME NEW x \in rest, NEW y \in in PROVE Pages(x) \cap Pages(y) = {}
  <2>1. \A z \in out : z \in B /\ z # x
    BY <1>2
  <2>2. \A v \in Pages(x) : v \notin PagesOf(out)
    BY <2>1, <1>2, PagesFacts DEF Tiles, Apart
  <2>3. \A v \in Pages(x) : v \notin n .. (m - 1)
    BY <1>1, <1>2
  <2>4. \A v \in Pages(y) : v \in PagesOf(in)
    BY <1>2, PagesFacts
  <2>. QED
    BY <2>2, <2>3, <2>4
<1>3. Apart(rest \cup in)
  BY <1>2 DEF Apart, Tiles
<1>4. PagesOf(rest \cup in) = PagesOf(rest) \cup PagesOf(in)
  BY DEF PagesOf
<1>5. PagesOf(rest) \cup PagesOf(out) = 1 .. (n - 1)
  BY DEF PagesOf, Tiles
<1>6. PagesOf(rest \cup in) = 1 .. (n - 1) \cup n .. (m - 1)
  BY <1>4, <1>5
<1>7. 1 .. (n - 1) \cup n .. (m - 1) = 1 .. (m - 1)
  OBVIOUS
<1>. QED
  BY <1>3, <1>6, <1>7 DEF Tiles, Apart

\* The pages of what stays are not those of what goes.
LEMMA GoneApart ==
    ASSUME NEW B, Apart(B), NEW A, A \subseteq B, NEW out, out \subseteq B
    PROVE  PagesOf(A \ out) = PagesOf(A) \ PagesOf(out)
<1>1. ASSUME NEW x \in A \ out, NEW v \in Pages(x) PROVE v \notin PagesOf(out)
  BY <1>1, PagesFacts DEF Apart
<1>. QED
  BY <1>1, PagesFacts

LEMMA TaggedUnion ==
    ASSUME NEW tag, NEW rs, NEW es
    PROVE  Tagged(tag, rs \cup es) = Tagged(tag, rs) \cup Tagged(tag, es)
  BY DEF Tagged

LEMMA TaggedMinus ==
    ASSUME NEW tag, NEW rs, rs \subseteq Extent, NEW es, es \subseteq Extent
    PROVE  Tagged(tag, rs \ es) = Tagged(tag, rs) \ Tagged(tag, es)
<1>1. \A r \in rs, e \in es : Block(tag, r) = Block(tag, e) <=> r = e
  BY BlocksDiffer
<1>. QED
  BY <1>1 DEF Tagged

LEMMA MinIs ==
    ASSUME NEW S, S \subseteq Int, NEW m \in S, \A x \in S : m <= x
    PROVE  Min(S) = m
<1>1. /\ m \in S /\ \A y \in S : m =< y
  OBVIOUS
<1>2. Min(S) \in S /\ \A y \in S : Min(S) =< y
  BY <1>1 DEF Min
<1>3. ASSUME NEW k \in S, \A y \in S : k =< y PROVE k = m
  BY <1>1, <1>3
<1>. QED
  BY <1>2, <1>3

LEMMA MaxIs ==
    ASSUME NEW S, S \subseteq Int, NEW m \in S, \A x \in S : m >= x
    PROVE  Max(S) = m
<1>1. /\ m \in S /\ \A y \in S : m >= y
  OBVIOUS
<1>2. Max(S) \in S /\ \A y \in S : Max(S) >= y
  BY <1>1 DEF Max
<1>3. ASSUME NEW k \in S, \A y \in S : k >= y PROVE k = m
  BY <1>1, <1>3
<1>. QED
  BY <1>2, <1>3

\* What a range touches on either side is one entry at most.
LEMMA CoalescedIs ==
    ASSUME kvirt_free \subseteq Extent, Apart(kvirt_free), NEW r \in Extent
    PROVE  \E lo, hi \in Nat \ {0} :
              /\ Coalesced(r) = Span(lo, hi - lo) /\ lo <= r.base /\ r.base + r.npages <= hi
              /\ \/ Before(r) = {} /\ lo = r.base
                 \/ \E e \in kvirt_free : Before(r) = {e} /\ lo = e.base
              /\ \/ After(r) = {} /\ hi = r.base + r.npages
                 \/ \E e \in kvirt_free : After(r) = {e} /\ hi = e.base + e.npages
<1>. DEFINE touching == {r} \cup Before(r) \cup After(r)
<1>1. touching \subseteq Extent
  BY DEF Before, After
<1>2. \A e \in Extent : e.base \in Nat \ {0} /\ e.npages \in Nat \ {0}
  BY ExtentFacts
<1>3. ASSUME NEW e \in Before(r), NEW f \in Before(r) PROVE e = f
  <2>1. e \in kvirt_free /\ f \in kvirt_free
        /\ e.base + e.npages = r.base /\ f.base + f.npages = r.base
    BY <1>3 DEF Before
  <2>2. r.base - 1 \in Pages(e) /\ r.base - 1 \in Pages(f)
    BY <2>1, <1>2 DEF Pages
  <2>. QED
    BY <2>1, <2>2 DEF Apart
<1>4. ASSUME NEW e \in After(r), NEW f \in After(r) PROVE e = f
  <2>1. e \in kvirt_free /\ f \in kvirt_free
        /\ r.base + r.npages = e.base /\ r.base + r.npages = f.base
    BY <1>4 DEF After
  <2>2. e.base \in Pages(e) /\ f.base \in Pages(f)
    BY <2>1, ExtentFacts
  <2>. QED
    BY <2>1, <2>2 DEF Apart
<1>5. PICK lo \in Nat \ {0} :
         /\ lo <= r.base
         /\ \/ Before(r) = {} /\ lo = r.base
            \/ \E e \in kvirt_free : Before(r) = {e} /\ lo = e.base
  <2>1. CASE Before(r) = {}
    BY <2>1, <1>2
  <2>2. CASE Before(r) # {}
    <3>1. PICK e : e \in Before(r)
      BY <2>2
    <3>2. Before(r) = {e} /\ e \in kvirt_free /\ e.base + e.npages = r.base
      BY <3>1, <1>3 DEF Before
    <3>. QED
      BY <3>2, <1>2
  <2>. QED
    BY <2>1, <2>2
<1>6. PICK hi \in Nat \ {0} :
         /\ r.base + r.npages <= hi
         /\ \/ After(r) = {} /\ hi = r.base + r.npages
            \/ \E e \in kvirt_free : After(r) = {e} /\ hi = e.base + e.npages
  <2>1. CASE After(r) = {}
    BY <2>1, <1>2
  <2>2. CASE After(r) # {}
    <3>1. PICK e : e \in After(r)
      BY <2>2
    <3>2. After(r) = {e} /\ e \in kvirt_free /\ r.base + r.npages = e.base
      BY <3>1, <1>4 DEF After
    <3>. QED
      BY <3>2, <1>2
  <2>. QED
    BY <2>1, <2>2
<1>7. \A e \in Before(r) : e.base + e.npages = r.base
  BY DEF Before
<1>8. \A e \in After(r) : r.base + r.npages = e.base
  BY DEF After
<1>9. Min({e.base : e \in touching}) = lo
  <2>1. lo \in {e.base : e \in touching}
    BY <1>5
  <2>2. \A e \in touching : lo <= e.base
    BY <1>1, <1>2, <1>5, <1>7, <1>8
  <2>3. {e.base : e \in touching} \subseteq Int
    BY <1>1, <1>2
  <2>. QED
    BY <2>1, <2>2, <2>3, MinIs
<1>10. Max({e.base + e.npages : e \in touching}) = hi
  <2>1. hi \in {e.base + e.npages : e \in touching}
    BY <1>6
  <2>2. \A e \in touching : hi >= e.base + e.npages
    BY <1>1, <1>2, <1>6, <1>7, <1>8
  <2>3. {e.base + e.npages : e \in touching} \subseteq Int
    BY <1>1, <1>2
  <2>. QED
    BY <2>1, <2>2, <2>3, MaxIs
<1>11. Coalesced(r) = Span(lo, hi - lo)
  BY <1>9, <1>10 DEF Coalesced
<1>. QED
  BY <1>5, <1>6, <1>11

-----------------------------------------------------------------------------
(* Taking and giving back pages.                                           *)

HeldTag == {"cache", "over", "slab", "stack"}

LEMMA HeldFacts ==
    ASSUME KernelTypes
    PROVE  /\ CacheRanges \subseteq Extent /\ SlabRanges \subseteq Extent
           /\ StackRanges \subseteq Extent
           /\ Held \subseteq BlockSet /\ \A x \in Held : x.tag \in HeldTag
           /\ FreeBlocks \subseteq BlockSet /\ \A x \in FreeBlocks : x.tag = "free"
           /\ Tagged("lost", lost) \subseteq BlockSet
           /\ \A x \in Tagged("lost", lost) : x.tag = "lost"
<1>1. CacheRanges \subseteq Extent
  BY DEF KernelTypes, CacheRanges
<1>2. SlabRanges \subseteq Extent
  <2>1. SlabPages \subseteq Nat \ {0}
    <3>1. ASSUME NEW c \in Classes, NEW i \in DOMAIN classes[c]
          PROVE  classes[c][i].base \in Nat \ {0}
      <4>1. classes[c] \in Seq(SlabPage)
        BY DEF KernelTypes
      <4>2. classes[c][i] \in SlabPage
        BY <4>1, <3>1
      <4>. QED
        BY <4>2 DEF SlabPage
    <3>. QED
      BY <3>1 DEF SlabPages
  <2>. QED
    BY <2>1 DEF SlabRanges, Span, Extent
<1>3. StackRanges \subseteq Extent
  <2>1. \A s \in stacks : s - 1 \in Nat \ {0} /\ StackPages + 1 \in Nat \ {0}
    BY KernelMemoryAssumption DEF KernelTypes
  <2>. QED
    <3>1. ASSUME NEW s \in stacks PROVE StackRange(s) \in Extent
      BY <2>1 DEF StackRange, Span, Extent
    <3>. QED
      BY <3>1 DEF StackRanges
<1>4. /\ Tagged("cache", CacheRanges) \subseteq BlockSet
      /\ \A x \in Tagged("cache", CacheRanges) : x.tag = "cache"
  BY <1>1, TaggedFacts DEF Tag
<1>5. /\ Tagged("over", overflow_table) \subseteq BlockSet
      /\ \A x \in Tagged("over", overflow_table) : x.tag = "over"
  BY TaggedFacts DEF Tag, KernelTypes
<1>6. /\ Tagged("slab", SlabRanges) \subseteq BlockSet
      /\ \A x \in Tagged("slab", SlabRanges) : x.tag = "slab"
  BY <1>2, TaggedFacts DEF Tag
<1>7. /\ Tagged("stack", StackRanges) \subseteq BlockSet
      /\ \A x \in Tagged("stack", StackRanges) : x.tag = "stack"
  BY <1>3, TaggedFacts DEF Tag
<1>8. Held \subseteq BlockSet /\ \A x \in Held : x.tag \in HeldTag
  BY <1>4, <1>5, <1>6, <1>7 DEF Held, HeldTag
<1>9. /\ FreeBlocks \subseteq BlockSet /\ \A x \in FreeBlocks : x.tag = "free"
      /\ Tagged("lost", lost) \subseteq BlockSet
      /\ \A x \in Tagged("lost", lost) : x.tag = "lost"
  BY TaggedFacts DEF Tag, KernelTypes, FreeBlocks
<1>. QED
  BY <1>1, <1>2, <1>3, <1>8, <1>9

\* Free ranges share no page.
LEMMA FreeApart ==
    ASSUME KernelInv
    PROVE  Apart(kvirt_free)
<1>1. ASSUME NEW r \in kvirt_free, NEW s \in kvirt_free, r # s
      PROVE  Pages(r) \cap Pages(s) = {}
  <2>1. r \in Extent /\ s \in Extent
    BY <1>1 DEF KernelInv, KernelTypes
  <2>2. Block("free", r) \in Blocks /\ Block("free", s) \in Blocks
    BY <1>1 DEF Blocks, FreeBlocks, Tagged
  <2>3. Block("free", r) # Block("free", s)
    BY <2>1, <1>1, BlocksDiffer
  <2>4. Pages(Block("free", r)) \cap Pages(Block("free", s)) = {}
    BY <2>2, <2>3 DEF KernelInv, Tiles, Apart
  <2>. QED
    BY <2>1, <2>4, BlockFacts DEF Tag
<1>. QED
  BY <1>1 DEF Apart

\* What vmm_alloc_pages does to the division of the pages: a block of n is new.
LEMMA AllocTiles ==
    ASSUME KernelInv, NEW n \in Nat \ {0}, NEW b \in Virt, NEW guard, AllocPages(n, b, guard),
           NEW tag \in HeldTag
    PROVE  /\ Tiles(FreeBlocks' \cup Tagged("lost", lost) \cup (Held \cup {Block(tag, Span(b, n))}),
                    kvirt_next')
           /\ kvirt_free' \subseteq Extent /\ FarApart(kvirt_free')
           /\ kvirt_next' \in 1 .. (VirtMax + 1) /\ lost' = lost
           /\ Span(b, n) \in Extent
           /\ Pages(Span(b, n)) \subseteq Virt
           /\ Pages(Span(b, n)) \cap PagesOf(Held) = {}
<1>. DEFINE new == Block(tag, Span(b, n))
<1>0. tag \in Tag /\ tag # "free" /\ tag # "lost" /\ lost' = lost
  BY DEF HeldTag, Tag, AllocPages
<1>1. Span(b, n) \in Extent /\ Span(b, n).base = b /\ Span(b, n).npages = n
  BY DEF Span, Extent, Virt
<1>2. new \in BlockSet /\ Pages(new) = Pages(Span(b, n)) /\ new.tag = tag
  BY <1>0, <1>1, BlockFacts
<1>3. Pages(new) = b .. (b + n - 1)
  BY <1>1, <1>2 DEF Pages
<1>4. /\ kvirt_next \in Nat \ {0} /\ kvirt_next <= VirtMax + 1 /\ VirtMax \in Nat
      /\ kvirt_free \subseteq Extent /\ KernelTypes
  BY KernelMemoryAssumption DEF KernelInv, KernelTypes
<1>5. Tiles(Blocks, kvirt_next)
  BY DEF KernelInv
<1>6. CASE BestFit(n) = {}
  <2>1. /\ b = kvirt_next /\ kvirt_next + n <= VirtMax + 1 /\ kvirt_next' = kvirt_next + n
        /\ kvirt_free' = kvirt_free
    BY <1>6 DEF AllocPages
  <2>2. PagesOf({new}) = PagesOf({}) \cup kvirt_next .. (kvirt_next' - 1)
    BY <2>1, <1>3, <1>4, PagesFacts
  <2>3. Tiles((Blocks \ {}) \cup {new}, kvirt_next')
    <3>1. Apart({new})
      BY DEF Apart
    <3>2. kvirt_next' \in Nat \ {0} /\ kvirt_next <= kvirt_next'
      BY <2>1, <1>4
    <3>. QED
      BY <1>2, <1>4, <1>5, <2>2, <3>1, <3>2, Replace
  <2>4. (Blocks \ {}) \cup {new} = FreeBlocks' \cup Tagged("lost", lost) \cup (Held \cup {new})
    BY <2>1 DEF Blocks, FreeBlocks
  <2>5. Pages(new) \subseteq Virt
    BY <2>1, <1>3, <1>4 DEF Virt
  <2>6. Pages(new) \cap PagesOf(Held) = {}
    <3>1. PagesOf(Held) \subseteq 1 .. (kvirt_next - 1)
      BY <1>5, PagesFacts DEF Tiles, Blocks
    <3>. QED
      BY <3>1, <2>1, <1>3, <1>4
  <2>. QED
    BY <1>0, <1>1, <1>2, <1>4, <2>1, <2>3, <2>4, <2>5, <2>6 DEF KernelInv
<1>7. CASE BestFit(n) # {}
  <2>1. PICK r \in BestFit(n) :
           /\ b = r.base
           /\ kvirt_free' = (kvirt_free \ {r}) \cup (IF r.npages = n THEN {} ELSE {Trimmed(r, n)})
           /\ kvirt_next' = Max({kvirt_next, r.base + r.npages})
    BY <1>7 DEF AllocPages
  <2>2. r \in kvirt_free /\ r \in Extent /\ r.npages >= n
    BY <1>4 DEF BestFit
  <2>3. r.base \in Nat \ {0} /\ r.npages \in Nat \ {0}
    BY <2>2, ExtentFacts
  <2>. DEFINE old == Block("free", r)
              more == IF r.npages = n THEN {} ELSE {Trimmed(r, n)}
              in == {new} \cup Tagged("free", more)
  <2>4. old \in Blocks /\ Pages(old) = Pages(r) /\ old.tag = "free" /\ old \in BlockSet
    BY <2>2, BlockFacts DEF Blocks, FreeBlocks, Tagged, Tag
  <2>5. Pages(r) = r.base .. (r.base + r.npages - 1)
    BY DEF Pages
  <2>6. Pages(r) \subseteq 1 .. (kvirt_next - 1)
    BY <2>4, <1>5, PagesFacts DEF Tiles
  <2>7. r.base + r.npages <= kvirt_next
    <3>1. r.base + r.npages - 1 \in Pages(r)
      BY <2>2, ExtentFacts
    <3>2. r.base + r.npages - 1 <= kvirt_next - 1
      BY <3>1, <2>6
    <3>. QED
      BY <3>2, <2>3, <1>4
  <2>8. kvirt_next' = kvirt_next
    <3>1. {kvirt_next, r.base + r.npages} \subseteq Int
      BY <2>3, <1>4
    <3>2. \A x \in {kvirt_next, r.base + r.npages} : kvirt_next >= x
      BY <2>3, <2>7, <1>4
    <3>3. Max({kvirt_next, r.base + r.npages}) = kvirt_next
      BY <3>1, <3>2, MaxIs
    <3>. QED
      BY <2>1, <3>3
  <2>9. more \subseteq Extent
    BY <2>2, <2>3 DEF Trimmed, Span, Extent
  <2>10. \A m \in more : m.base = b + n /\ m.npages = r.npages - n
                         /\ Pages(m) = (b + n) .. (r.base + r.npages - 1)
    BY <2>1, <2>3 DEF Trimmed, Span, Pages
  <2>11. /\ \A x \in Tagged("free", more) : Pages(x) = (b + n) .. (r.base + r.npages - 1)
         /\ \A x, y \in Tagged("free", more) : x = y
    <3>1. \A m \in more : Pages(Block("free", m)) = Pages(m)
      BY <2>9, BlockFacts DEF Tag
    <3>2. \A x, y \in more : x = y
      OBVIOUS
    <3>. HIDE DEF more
    <3>. QED
      BY <3>1, <3>2, <2>10 DEF Tagged
  <2>12. in \subseteq BlockSet
    BY <1>2, <2>9, TaggedFacts DEF Tag
  <2>13. Apart(in)
    <3>1. b .. (b + n - 1) \cap (b + n) .. (r.base + r.npages - 1) = {}
      BY <2>1, <2>3
    <3>. QED
      BY <1>3, <2>11, <3>1 DEF Apart
  <2>14. PagesOf(in) = PagesOf({old}) \cup kvirt_next .. (kvirt_next - 1)
    <3>1. PagesOf({old}) = r.base .. (r.base + r.npages - 1)
      <4>. HIDE DEF old
      <4>. QED
        BY <2>4, <2>5 DEF PagesOf
    <3>2. kvirt_next .. (kvirt_next - 1) = {}
      BY <1>4
    <3>3. PagesOf(in) = Pages(new) \cup PagesOf(more)
      <4>1. PagesOf(Tagged("free", more)) = PagesOf(more)
        <5>. HIDE DEF more
        <5>. QED
          BY <2>9, TaggedFacts DEF Tag
      <4>2. PagesOf(in) = Pages(new) \cup PagesOf(Tagged("free", more))
        BY DEF PagesOf
      <4>. QED
        BY <4>1, <4>2
    <3>4. CASE r.npages = n
      <4>1. PagesOf(more) = {}
        BY <3>4, PagesFacts
      <4>. QED
        BY <3>1, <3>2, <3>3, <3>4, <4>1, <1>3, <2>1
    <3>5. CASE r.npages # n
      <4>1. PagesOf(more) = (b + n) .. (r.base + r.npages - 1)
        BY <3>5, <2>10, PagesFacts
      <4>2. b .. (b + n - 1) \cup (b + n) .. (r.base + r.npages - 1)
               = r.base .. (r.base + r.npages - 1)
        BY <2>1, <2>2, <2>3
      <4>. QED
        BY <3>1, <3>2, <3>3, <4>1, <4>2, <1>3
    <3>. QED
      BY <3>4, <3>5
  <2>15. Tiles((Blocks \ {old}) \cup in, kvirt_next)
    <3>1. {old} \subseteq Blocks /\ kvirt_next <= kvirt_next
      BY <2>4, <1>4
    <3>. HIDE DEF old, in
    <3>. QED
      BY <3>1, <1>4, <1>5, <2>12, <2>13, <2>14, Replace
  <2>16. (Blocks \ {old}) \cup in = FreeBlocks' \cup Tagged("lost", lost) \cup (Held \cup {new})
    <3>1. FreeBlocks' = (FreeBlocks \ {old}) \cup Tagged("free", more)
      <4>1. Tagged("free", kvirt_free \ {r}) = FreeBlocks \ {old}
        <5>1. {r} \subseteq Extent /\ Tagged("free", {r}) = {old}
          BY <2>2 DEF Tagged
        <5>2. Tagged("free", kvirt_free \ {r}) = Tagged("free", kvirt_free) \ Tagged("free", {r})
          BY <1>4, <5>1, TaggedMinus
        <5>. QED
          BY <5>1, <5>2 DEF FreeBlocks
      <4>2. Tagged("free", (kvirt_free \ {r}) \cup more)
               = Tagged("free", kvirt_free \ {r}) \cup Tagged("free", more)
        <5>. HIDE DEF more
        <5>. QED
          BY TaggedUnion
      <4>3. FreeBlocks' = Tagged("free", (kvirt_free \ {r}) \cup more)
        BY <2>1 DEF FreeBlocks
      <4>. QED
        BY <4>1, <4>2, <4>3
    <3>2. old \notin Held /\ old \notin Tagged("lost", lost)
      BY <1>4, <2>4, HeldFacts DEF HeldTag
    <3>. QED
      BY <3>1, <3>2 DEF Blocks
  <2>17. FarApart(kvirt_free')
    <3>1. ASSUME NEW e \in kvirt_free \ {r}, NEW m \in more PROVE e.base + e.npages # m.base
      <4>1. e.base \in Nat \ {0} /\ e.npages \in Nat \ {0} /\ m.base = r.base + n /\ e \in Extent
        BY <3>1, <1>4, <2>10, <2>1, ExtentFacts
      <4>2. SUFFICES ASSUME e.base + e.npages = r.base + n PROVE FALSE
        BY <4>1
      <4>3. r.base + n - 1 \in Pages(e)
        BY <4>1, <4>2, <2>3 DEF Pages
      <4>4. r.base + n - 1 \in Pages(r)
        BY <2>2, <2>3, <2>5
      <4>. QED
        BY <4>3, <4>4, <3>1, <2>2, FreeApart DEF Apart
    <3>2. ASSUME NEW e \in kvirt_free \ {r}, NEW m \in more PROVE m.base + m.npages # e.base
      <4>1. m.base + m.npages = r.base + r.npages
        BY <3>2, <2>10, <2>1, <2>3
      <4>. QED
        BY <4>1, <2>2, <3>2 DEF KernelInv, FarApart
    <3>3. ASSUME NEW m \in more, NEW l \in more PROVE m.base + m.npages # l.base
      BY <3>3, <2>1, <2>2, <2>3, <2>10
    <3>4. FarApart(kvirt_free \ {r})
      BY DEF KernelInv, FarApart
    <3>5. kvirt_free' = (kvirt_free \ {r}) \cup more
      BY <2>1
    <3>. HIDE DEF more
    <3>. QED
      BY <3>1, <3>2, <3>3, <3>4, <3>5 DEF FarApart
  <2>18. Pages(new) \subseteq Virt
    BY <1>3, <2>1, <2>2, <2>3, <2>7, <1>4 DEF Virt
  <2>19. Pages(new) \cap PagesOf(Held) = {}
    <3>1. \A x \in Held : x \in Blocks /\ x # old
      BY <1>4, <2>4, HeldFacts DEF Blocks, HeldTag
    <3>2. \A x \in Held : Pages(x) \cap Pages(r) = {}
      BY <3>1, <2>4, <1>5 DEF Tiles, Apart
    <3>3. Pages(new) \subseteq Pages(r)
      BY <1>3, <2>1, <2>2, <2>3, <2>5
    <3>. QED
      BY <3>2, <3>3, PagesFacts
  <2>20. kvirt_free' \subseteq Extent
    BY <2>1, <2>9, <1>4
  <2>. QED
    BY <1>0, <1>1, <1>2, <1>4, <2>8, <2>15, <2>16, <2>17, <2>18, <2>19, <2>20
       DEF KernelInv, KernelTypes
<1>. QED
  BY <1>6, <1>7

\* What vmm_free_pages does to it: the block is free, or lost if the list is full.
LEMMA FreeTiles ==
    ASSUME KernelInv, NEW tag \in HeldTag, NEW r \in Extent, Block(tag, r) \in Held,
           NEW t, FreePages(r, t)
    PROVE  /\ Tiles(FreeBlocks' \cup Tagged("lost", lost') \cup (Held \ {Block(tag, r)}), kvirt_next)
           /\ kvirt_free' \subseteq Extent /\ lost' \subseteq Extent /\ FarApart(kvirt_free')
           /\ kvirt_next' = kvirt_next
<1>. DEFINE old == Block(tag, r)
            touched == Before(r) \cup After(r)
            out == {old} \cup Tagged("free", touched)
            c == Coalesced(r)
<1>1. /\ kvirt_next \in Nat \ {0} /\ kvirt_free \subseteq Extent /\ lost \subseteq Extent
      /\ KernelTypes /\ Tiles(Blocks, kvirt_next) /\ FarApart(kvirt_free)
      /\ kvirt_next' = kvirt_next
  BY DEF KernelInv, KernelTypes, FreePages
<1>2. /\ old.tag = tag /\ Pages(old) = Pages(r) /\ tag # "free" /\ tag # "lost"
      /\ old \in Blocks /\ tag \in Tag
  BY BlockFacts DEF HeldTag, Tag, Blocks
<1>3. touched \subseteq kvirt_free /\ touched \subseteq Extent
  BY <1>1 DEF Before, After
<1>4. PICK lo \in Nat \ {0}, hi \in Nat \ {0} :
         /\ c = Span(lo, hi - lo) /\ lo <= r.base /\ r.base + r.npages <= hi
         /\ \/ Before(r) = {} /\ lo = r.base
            \/ \E e \in kvirt_free : Before(r) = {e} /\ lo = e.base
         /\ \/ After(r) = {} /\ hi = r.base + r.npages
            \/ \E e \in kvirt_free : After(r) = {e} /\ hi = e.base + e.npages
  BY <1>1, FreeApart, CoalescedIs
<1>5. r.base \in Nat \ {0} /\ r.npages \in Nat \ {0}
      /\ \A e \in kvirt_free : e.base \in Nat \ {0} /\ e.npages \in Nat \ {0}
  BY <1>1, ExtentFacts
<1>6. /\ \A e \in Before(r) : e.base + e.npages = r.base
      /\ \A e \in After(r) : r.base + r.npages = e.base
  BY DEF Before, After
<1>7. c \in Extent /\ c.base = lo /\ c.base + c.npages = hi /\ Pages(c) = lo .. (hi - 1)
  BY <1>4, <1>5 DEF Span, Extent, Pages
<1>8. Pages(c) = Pages(r) \cup PagesOf(touched)
  <2>1. Pages(r) = r.base .. (r.base + r.npages - 1)
    BY DEF Pages
  <2>2. PagesOf(Before(r)) = lo .. (r.base - 1)
    <3>1. CASE Before(r) = {} /\ lo = r.base
      BY <3>1, <1>5 DEF PagesOf
    <3>2. ASSUME NEW e \in kvirt_free, Before(r) = {e}, lo = e.base
          PROVE  PagesOf(Before(r)) = lo .. (r.base - 1)
      <4>1. PagesOf({e}) = Pages(e)
        BY DEF PagesOf
      <4>. QED
        BY <4>1, <3>2, <1>5, <1>6 DEF Pages
    <3>. QED
      BY <3>1, <3>2, <1>4
  <2>3. PagesOf(After(r)) = (r.base + r.npages) .. (hi - 1)
    <3>1. CASE After(r) = {} /\ hi = r.base + r.npages
      BY <3>1, <1>5 DEF PagesOf
    <3>2. ASSUME NEW e \in kvirt_free, After(r) = {e}, hi = e.base + e.npages
          PROVE  PagesOf(After(r)) = (r.base + r.npages) .. (hi - 1)
      <4>1. PagesOf({e}) = Pages(e)
        BY DEF PagesOf
      <4>. QED
        BY <4>1, <3>2, <1>5, <1>6 DEF Pages
    <3>. QED
      BY <3>1, <3>2, <1>4
  <2>4. PagesOf(touched) = PagesOf(Before(r)) \cup PagesOf(After(r))
    BY DEF PagesOf
  <2>5. lo .. (hi - 1) = r.base .. (r.base + r.npages - 1)
            \cup (lo .. (r.base - 1) \cup (r.base + r.npages) .. (hi - 1))
    BY <1>4, <1>5
  <2>. HIDE DEF c, touched
  <2>. QED
    BY <2>1, <2>2, <2>3, <2>4, <2>5, <1>7
<1>9. out \subseteq Blocks
  BY <1>2, <1>3 DEF Blocks, FreeBlocks, Tagged
<1>10. PagesOf(out) = Pages(c)
  <2>1. PagesOf(Tagged("free", touched)) = PagesOf(touched)
    <3>. HIDE DEF touched
    <3>. QED
      BY <1>3, TaggedFacts DEF Tag
  <2>2. PagesOf(out) = Pages(old) \cup PagesOf(Tagged("free", touched))
    BY DEF PagesOf
  <2>. QED
    BY <2>1, <2>2, <1>2, <1>8
<1>11. ASSUME NEW any \in {"free", "lost"}
       PROVE  Tiles((Blocks \ out) \cup {Block(any, c)}, kvirt_next)
  <2>1. Block(any, c) \in BlockSet /\ Pages(Block(any, c)) = Pages(c)
    BY <1>7, BlockFacts DEF Tag
  <2>2. PagesOf({Block(any, c)}) = PagesOf(out) \cup kvirt_next .. (kvirt_next - 1)
    <3>1. PagesOf({Block(any, c)}) = Pages(c)
      BY <2>1 DEF PagesOf
    <3>2. kvirt_next .. (kvirt_next - 1) = {}
      BY <1>1
    <3>. QED
      BY <3>1, <3>2, <1>10
  <2>3. Apart({Block(any, c)})
    BY DEF Apart
  <2>4. kvirt_next <= kvirt_next /\ {Block(any, c)} \subseteq BlockSet
    BY <1>1, <2>1
  <2>. HIDE DEF out, c
  <2>. QED
    BY <1>1, <1>9, <2>2, <2>3, <2>4, Replace
<1>12. Blocks \ out = Tagged("free", kvirt_free \ touched) \cup Tagged("lost", lost) \cup (Held \ {old})
  <2>1. Tagged("free", kvirt_free \ touched) = FreeBlocks \ Tagged("free", touched)
    <3>1. touched \subseteq Extent /\ kvirt_free \subseteq Extent
      BY <1>1, <1>3
    <3>. HIDE DEF touched
    <3>2. Tagged("free", kvirt_free \ touched) = Tagged("free", kvirt_free) \ Tagged("free", touched)
      BY <3>1, TaggedMinus
    <3>. QED
      BY <3>2 DEF FreeBlocks
  <2>2. /\ \A x \in Held : x.tag \in HeldTag
        /\ \A x \in FreeBlocks : x.tag = "free"
        /\ \A x \in Tagged("lost", lost) : x.tag = "lost"
    BY <1>1, HeldFacts
  <2>3. Tagged("free", touched) \subseteq FreeBlocks
    BY <1>3 DEF FreeBlocks, Tagged
  <2>4. /\ \A x \in Held : x \notin Tagged("free", touched)
        /\ \A x \in Tagged("lost", lost) : x \notin out
        /\ old \notin FreeBlocks
    <3>. HIDE DEF old
    <3>. QED
      BY <2>2, <2>3, <1>2 DEF HeldTag
  <2>. HIDE DEF old, touched
  <2>. QED
    BY <2>1, <2>4 DEF Blocks
<1>13. FarApart((kvirt_free \ touched) \cup {c})
  <2>1. ASSUME NEW e \in kvirt_free \ touched PROVE e.base + e.npages # c.base
    <3>1. CASE Before(r) = {} /\ lo = r.base
      BY <3>1, <2>1, <1>7 DEF Before
    <3>2. ASSUME NEW f \in kvirt_free, Before(r) = {f}, lo = f.base
          PROVE  e.base + e.npages # c.base
      BY <3>2, <2>1, <1>1, <1>7 DEF FarApart
    <3>. QED
      BY <3>1, <3>2, <1>4
  <2>2. ASSUME NEW e \in kvirt_free \ touched PROVE c.base + c.npages # e.base
    <3>1. CASE After(r) = {} /\ hi = r.base + r.npages
      BY <3>1, <2>2, <1>7 DEF After
    <3>2. ASSUME NEW f \in kvirt_free, After(r) = {f}, hi = f.base + f.npages
          PROVE  c.base + c.npages # e.base
      BY <3>2, <2>2, <1>1, <1>7 DEF FarApart
    <3>. QED
      BY <3>1, <3>2, <1>4
  <2>3. c.base + c.npages # c.base
    BY <1>7, ExtentFacts
  <2>. HIDE DEF c, touched
  <2>. QED
    BY <2>1, <2>2, <2>3, <1>1 DEF FarApart
<1>14. FarApart(kvirt_free \ touched)
  BY <1>13 DEF FarApart
<1>15. CASE /\ kvirt_free' = (kvirt_free \ touched) \cup {c}
            /\ lost' = lost
  <2>1. FreeBlocks' = Tagged("free", kvirt_free \ touched) \cup {Block("free", c)}
    BY <1>15 DEF FreeBlocks, Tagged
  <2>2. Tiles((Blocks \ out) \cup {Block("free", c)}, kvirt_next)
    BY <1>11
  <2>3. kvirt_free' \subseteq Extent
    BY <1>15, <1>1, <1>7
  <2>4. (Blocks \ out) \cup {Block("free", c)} = FreeBlocks' \cup Tagged("lost", lost') \cup (Held \ {old})
    BY <2>1, <1>12, <1>15
  <2>. QED
    BY <2>2, <2>3, <2>4, <1>1, <1>13, <1>15
<1>16. CASE /\ kvirt_free' = kvirt_free \ touched
            /\ lost' = lost \cup {c}
  <2>1. Tagged("lost", lost') = Tagged("lost", lost) \cup {Block("lost", c)}
    BY <1>16 DEF Tagged
  <2>2. Tiles((Blocks \ out) \cup {Block("lost", c)}, kvirt_next)
    BY <1>11
  <2>3. kvirt_free' \subseteq Extent /\ lost' \subseteq Extent
    BY <1>16, <1>1, <1>7
  <2>4. FreeBlocks' = Tagged("free", kvirt_free \ touched)
    BY <1>16 DEF FreeBlocks
  <2>5. (Blocks \ out) \cup {Block("lost", c)} = FreeBlocks' \cup Tagged("lost", lost') \cup (Held \ {old})
    BY <2>1, <2>4, <1>12
  <2>. QED
    BY <2>2, <2>3, <2>5, <1>1, <1>14, <1>16
<1>. QED
  BY <1>15, <1>16 DEF FreePages

-----------------------------------------------------------------------------
(* Frames.                                                                 *)

\* While there are frames enough, pmm_alloc_frame finds different ones.
LEMMA FoundIs ==
    ASSUME NEW n \in Nat, Cardinality(Frame \ frames) >= n
    PROVE  /\ Found(n) \in [0 .. (n - 1) -> Frame \ frames]
           /\ \A i, j \in 0 .. (n - 1) : Found(n)[i] = Found(n)[j] => i = j
<1>. DEFINE S == Frame \ frames
            k == Cardinality(S)
<1>1. IsFiniteSet(S)
  <2>1. IsFiniteSet(Frame)
    BY KernelMemoryAssumption, FS_Interval DEF Frame
  <2>. QED
    BY <2>1, FS_Subset
<1>2. k \in Nat /\ ExistsBijection(1 .. k, S)
  BY <1>1, FS_CardinalityType
<1>3. PICK f : f \in Bijection(1 .. k, S)
  BY <1>2 DEF ExistsBijection
<1>4. f \in [1 .. k -> S] /\ \A i, j \in 1 .. k : f[i] = f[j] => i = j
  <2>. HIDE DEF S, k
  <2>. QED
    BY <1>3 DEF Bijection, Injection, IsInjective
<1>5. [i \in 0 .. (n - 1) |-> f[i + 1]] \in Injection(0 .. (n - 1), S)
  <2>1. \A i \in 0 .. (n - 1) : i + 1 \in 1 .. k
    BY <1>2
  <2>. HIDE DEF S, k
  <2>. QED
    BY <1>4, <2>1 DEF Injection, IsInjective
<1>6. Found(n) \in Injection(0 .. (n - 1), S)
  BY <1>5 DEF Found
<1>. HIDE DEF S
<1>7. Found(n) \in [0 .. (n - 1) -> S] /\ \A i, j \in 0 .. (n - 1) : Found(n)[i] = Found(n)[j] => i = j
  <2>. DEFINE g == Found(n)
  <2>1. g \in Injection(0 .. (n - 1), S)
    BY <1>6
  <2>. HIDE DEF g
  <2>2. g \in [0 .. (n - 1) -> S] /\ \A i, j \in 0 .. (n - 1) : g[i] = g[j] => i = j
    BY <2>1 DEF Injection, IsInjective
  <2>. QED
    BY <2>2 DEF g
<1>. QED
  BY <1>7 DEF S

\* New pages get frames nobody has.
LEMMA MapKeeps ==
    ASSUME KernelTypes, NEW n \in Nat \ {0}, NEW b \in Virt, NEW guard, MapFrames(b, n, guard),
           NEW mapped, FramesOK(page_table, frames, mapped),
           Pages(Span(b, n)) \subseteq Virt, Pages(Span(b, n)) \cap mapped = {}
    PROVE  /\ FramesOK(page_table', frames', mapped \cup (Pages(Span(b, n)) \ guard))
           /\ page_table' \in [Virt -> Frame \cup {NoFrame}] /\ frames' \subseteq Frame
<1>. DEFINE new == Pages(Span(b, n)) \ guard
            g == Found(n)
<1>1. /\ g \in [0 .. (n - 1) -> Frame \ frames]
      /\ \A i, j \in 0 .. (n - 1) : g[i] = g[j] => i = j
  BY FoundIs DEF MapFrames
<1>2. /\ page_table' = [v \in Virt |-> IF v \in new THEN g[v - b] ELSE page_table[v]]
      /\ frames' = frames \cup {g[i] : i \in 0 .. (n - 1)}
  BY DEF MapFrames
<1>3. \A v \in new : v \in Virt /\ v \notin mapped /\ v - b \in 0 .. (n - 1)
  BY DEF Pages, Span, Virt
<1>4. b \in Nat /\ \A v \in Virt : v \in Nat
  BY DEF Virt
<1>. HIDE DEF g, new
<1>5. \A v \in new : page_table'[v] = g[v - b] /\ page_table'[v] \in Frame \ frames
  BY <1>1, <1>2, <1>3
<1>6. \A v \in Virt \ new : page_table'[v] = page_table[v]
  BY <1>2
<1>7. NoFrame \notin Frame
  BY DEF NoFrame, Frame
<1>8. ASSUME NEW v \in Virt, NEW w \in Virt, v # w, page_table'[v] # NoFrame
      PROVE  page_table'[v] # page_table'[w]
  <2>1. CASE v \in new /\ w \in new
    <3>1. v - b # w - b
      BY <1>4, <1>8
    <3>. QED
      BY <2>1, <3>1, <1>1, <1>3, <1>5
  <2>2. CASE v \in new /\ w \notin new
    BY <2>2, <1>5, <1>6, <1>7 DEF FramesOK
  <2>3. CASE v \notin new /\ w \in new
    BY <2>3, <1>5, <1>6, <1>8 DEF FramesOK
  <2>4. CASE v \notin new /\ w \notin new
    BY <2>4, <1>6, <1>8 DEF FramesOK
  <2>. QED
    BY <2>1, <2>2, <2>3, <2>4
<1>9. {v \in Virt : page_table'[v] # NoFrame} = mapped \cup new
  <2>1. \A v \in Virt \ new : page_table'[v] # NoFrame <=> v \in mapped
    BY <1>6 DEF FramesOK
  <2>2. \A v \in new : page_table'[v] # NoFrame /\ v \in Virt
    BY <1>3, <1>5, <1>7
  <2>3. mapped \subseteq Virt
    BY DEF FramesOK
  <2>. QED
    BY <2>1, <2>2, <2>3
<1>10. \A v \in Virt : page_table'[v] # NoFrame => page_table'[v] \in frames'
  <2>1. \A v \in new : page_table'[v] \in frames'
    BY <1>2, <1>3, <1>5
  <2>2. \A v \in Virt \ new : page_table'[v] # NoFrame => page_table'[v] \in frames'
    BY <1>2, <1>6 DEF FramesOK
  <2>. QED
    BY <2>1, <2>2
<1>11. page_table' \in [Virt -> Frame \cup {NoFrame}] /\ frames' \subseteq Frame
  <2>1. \A v \in Virt : page_table[v] \in Frame \cup {NoFrame}
    BY DEF KernelTypes
  <2>2. \A i \in 0 .. (n - 1) : g[i] \in Frame
    BY <1>1
  <2>. QED
    BY <1>2, <1>3, <2>1, <2>2 DEF KernelTypes
<1>12. FramesOK(page_table', frames', mapped \cup new)
  BY <1>8, <1>9, <1>10 DEF FramesOK
<1>. QED
  BY <1>11, <1>12 DEF new

\* Pages given back lose theirs.
LEMMA UnmapKeeps ==
    ASSUME KernelTypes, NEW r, NEW t, FreePages(r, t),
           Pages(r) \subseteq Virt, NEW mapped, FramesOK(page_table, frames, mapped)
    PROVE  /\ FramesOK(page_table', frames', mapped \ Pages(r))
           /\ page_table' \in [Virt -> Frame \cup {NoFrame}] /\ frames' \subseteq Frame
<1>1. /\ frames' = frames \ {page_table[v] : v \in Pages(r)}
      /\ page_table' = [v \in Virt |-> IF v \in Pages(r) THEN NoFrame ELSE page_table[v]]
  BY DEF FreePages
<1>2. \A v \in Virt : page_table'[v] = IF v \in Pages(r) THEN NoFrame ELSE page_table[v]
  BY <1>1
<1>3. \A v \in Virt : page_table[v] \in Frame \cup {NoFrame}
  BY DEF KernelTypes
<1>4. page_table' \in [Virt -> Frame \cup {NoFrame}] /\ frames' \subseteq Frame
  BY <1>1, <1>3 DEF KernelTypes
<1>5. {v \in Virt : page_table'[v] # NoFrame} = mapped \ Pages(r)
  BY <1>2 DEF FramesOK
<1>6. \A v, w \in Virt : v # w /\ page_table'[v] # NoFrame => page_table'[v] # page_table'[w]
  BY <1>2 DEF FramesOK
<1>7. ASSUME NEW v \in Virt, page_table'[v] # NoFrame PROVE page_table'[v] \in frames'
  <2>1. page_table'[v] = page_table[v] /\ v \notin Pages(r) /\ page_table[v] \in frames
    BY <1>2, <1>7 DEF FramesOK
  <2>2. ASSUME NEW w \in Pages(r) PROVE page_table[w] # page_table[v]
    BY <2>1, <2>2, <1>7 DEF FramesOK
  <2>. QED
    BY <2>1, <2>2, <1>1
<1>. QED
  BY <1>4, <1>5, <1>6, <1>7 DEF FramesOK

-----------------------------------------------------------------------------
(* Steps.                                                                  *)

SlabTypes ==
    /\ classes \in [Classes -> Seq(SlabPage)]
    /\ \A c \in Classes : \A i \in DOMAIN classes[c] : classes[c][i].used \subseteq 1 .. SlotsOf[c]

HeapTypes ==
    /\ overflow_table \subseteq Extent
    /\ large_cache \in Seq(Extent)
    /\ stacks \subseteq Nat \ {0, 1}
    /\ SlabTypes

\* A block with another tag, or none: the pages are the same.
LEMMA Retag ==
    ASSUME NEW n \in Nat \ {0}, NEW B, Tiles(B, n), NEW x \in B, NEW y \in BlockSet,
           Pages(y) = Pages(x)
    PROVE  Tiles((B \ {x}) \cup {y}, n)
<1>1. PagesOf({x}) = Pages(x) /\ PagesOf({y}) = Pages(x)
  BY DEF PagesOf
<1>2. n .. (n - 1) = {}
  OBVIOUS
<1>3. Apart({y}) /\ {x} \subseteq B /\ {y} \subseteq BlockSet /\ n <= n
  BY DEF Apart
<1>4. PagesOf({y}) = PagesOf({x}) \cup n .. (n - 1)
  BY <1>1, <1>2
<1>. QED
  BY <1>3, <1>4, Replace

\* A step that takes pages for one more block.
LEMMA AllocKeeps ==
    ASSUME KernelInv, NEW n \in Nat \ {0}, NEW b \in Virt, NEW guard, AllocPages(n, b, guard),
           NEW tag \in HeldTag, Held' = Held \cup {Block(tag, Span(b, n))},
           Guards' = Guards \cup guard, guard \subseteq Pages(Span(b, n)),
           \A g \in Guards : g \in PagesOf(Held),
           HeapTypes', CacheDistinct'
    PROVE  KernelInv'
<1>. DEFINE new == Block(tag, Span(b, n))
            pages == Pages(Span(b, n))
            mapped == PagesOf(Held) \ Guards
<1>1. /\ Tiles(FreeBlocks' \cup Tagged("lost", lost) \cup (Held \cup {new}), kvirt_next')
      /\ kvirt_free' \subseteq Extent /\ FarApart(kvirt_free')
      /\ kvirt_next' \in 1 .. (VirtMax + 1) /\ lost' = lost
      /\ Span(b, n) \in Extent
      /\ pages \subseteq Virt
      /\ pages \cap PagesOf(Held) = {}
  <2>. HIDE DEF new
  <2>. QED
    BY AllocTiles DEF new
<1>2. Tiles(Blocks', kvirt_next')
  BY <1>1 DEF Blocks
<1>3. KernelTypes /\ FramesOK(page_table, frames, mapped) /\ lost \subseteq Extent
  BY DEF KernelInv, KernelTypes
<1>4. MapFrames(b, n, guard)
  BY DEF AllocPages
<1>5. pages \cap mapped = {}
  BY <1>1
<1>6. /\ FramesOK(page_table', frames', mapped \cup (pages \ guard))
      /\ page_table' \in [Virt -> Frame \cup {NoFrame}] /\ frames' \subseteq Frame
  <2>. HIDE DEF mapped
  <2>. QED
    BY <1>1, <1>3, <1>4, <1>5, MapKeeps
<1>7. PagesOf(Held') = PagesOf(Held) \cup pages
  <2>1. Pages(new) = pages
    BY <1>1, BlockFacts DEF HeldTag, Tag
  <2>2. PagesOf(Held') = PagesOf(Held) \cup Pages(new)
    BY DEF PagesOf
  <2>. QED
    BY <2>1, <2>2
<1>8. mapped \cup (pages \ guard) = PagesOf(Held') \ Guards'
  <2>. HIDE DEF pages
  <2>. QED
    BY <1>1, <1>7 DEF pages
<1>9. FramesOK(page_table', frames', PagesOf(Held') \ Guards')
  BY <1>6, <1>8
<1>10. FramesOK(page_table, frames, PagesOf(Held) \ Guards)'
  BY <1>9 DEF FramesOK, Guards, PagesOf, Pages
<1>11. KernelTypes'
  BY <1>1, <1>3, <1>6 DEF KernelTypes, HeapTypes, SlabTypes
<1>. QED
  BY <1>1, <1>2, <1>10, <1>11 DEF KernelInv

\* A step that leaves the pages alone and moves blocks at most.
LEMMA MoveKeeps ==
    ASSUME KernelInv, UNCHANGED <<ranges, stacks>>, Tiles(Blocks', kvirt_next),
           PagesOf(Held') = PagesOf(Held), HeapTypes', CacheDistinct'
    PROVE  KernelInv'
<1>1. /\ kvirt_next' = kvirt_next /\ kvirt_free' = kvirt_free /\ lost' = lost
      /\ page_table' = page_table /\ frames' = frames /\ stacks' = stacks /\ Guards' = Guards
  BY DEF ranges, Guards
<1>2. KernelTypes'
  BY <1>1 DEF KernelInv, KernelTypes, HeapTypes, SlabTypes
<1>3. FramesOK(page_table', frames', PagesOf(Held') \ Guards')
  BY <1>1 DEF KernelInv
<1>. QED
  BY <1>1, <1>2, <1>3 DEF KernelInv

\* Nothing that is held changes place.
LEMMA SameHeldKeeps ==
    ASSUME KernelInv, UNCHANGED <<ranges, stacks, overflow_table, large_cache>>,
           SlabPages' = SlabPages, SlabTypes'
    PROVE  KernelInv'
<1>1. /\ kvirt_next' = kvirt_next /\ kvirt_free' = kvirt_free /\ lost' = lost
      /\ stacks' = stacks /\ overflow_table' = overflow_table /\ large_cache' = large_cache
  BY DEF ranges
<1>2. Held' = Held
  BY <1>1 DEF Held, CacheRanges, SlabRanges, StackRanges
<1>3. Blocks' = Blocks
  BY <1>1, <1>2 DEF Blocks, FreeBlocks
<1>4. HeapTypes' /\ CacheDistinct'
  BY <1>1 DEF KernelInv, KernelTypes, HeapTypes, CacheDistinct
<1>5. Tiles(Blocks', kvirt_next) /\ PagesOf(Held') = PagesOf(Held)
  BY <1>2, <1>3 DEF KernelInv
<1>. QED
  BY <1>4, <1>5, MoveKeeps

\* The pages of a block that is held, without it.
LEMMA HeldWithout ==
    ASSUME KernelInv, NEW tag \in HeldTag, NEW r \in Extent, Block(tag, r) \in Held
    PROVE  /\ PagesOf(Held \ {Block(tag, r)}) = PagesOf(Held) \ Pages(r)
           /\ Pages(r) \subseteq Virt /\ Pages(r) \subseteq PagesOf(Held)
<1>. DEFINE old == Block(tag, r)
<1>1. Pages(old) = Pages(r)
  BY BlockFacts DEF HeldTag, Tag
<1>. HIDE DEF old
<1>2. PagesOf(Held \ {old}) = PagesOf(Held) \ PagesOf({old})
  <2>1. Apart(Blocks) /\ Held \subseteq Blocks /\ {old} \subseteq Blocks
    BY DEF KernelInv, Tiles, Blocks, old
  <2>. QED
    BY <2>1, GoneApart
<1>3. PagesOf({old}) = Pages(old)
  BY DEF PagesOf
<1>4. Pages(old) \subseteq PagesOf(Held)
  BY DEF PagesOf, old
<1>5. PagesOf(Held) \subseteq 1 .. (kvirt_next - 1)
  BY PagesFacts DEF KernelInv, Tiles, Blocks
<1>6. 1 .. (kvirt_next - 1) \subseteq Virt
  BY KernelMemoryAssumption DEF KernelInv, KernelTypes, Virt
<1>. QED
  BY <1>1, <1>2, <1>3, <1>4, <1>5, <1>6 DEF old

\* A step that gives back the pages of a block.
LEMMA FreeKeeps ==
    ASSUME KernelInv, NEW tag \in HeldTag, NEW r \in Extent, Block(tag, r) \in Held,
           NEW t, FreePages(r, t), Tiles(Blocks', kvirt_next),
           PagesOf(Held') = PagesOf(Held) \ Pages(r),
           PagesOf(Held') \ Guards' = (PagesOf(Held) \ Guards) \ Pages(r),
           HeapTypes', CacheDistinct'
    PROVE  KernelInv'
<1>1. /\ kvirt_free' \subseteq Extent /\ lost' \subseteq Extent /\ FarApart(kvirt_free')
      /\ kvirt_next' = kvirt_next
  BY FreeTiles
<1>2. Pages(r) \subseteq Virt
  BY HeldWithout
<1>3. KernelTypes /\ FramesOK(page_table, frames, PagesOf(Held) \ Guards)
  BY DEF KernelInv
<1>4. /\ FramesOK(page_table', frames', (PagesOf(Held) \ Guards) \ Pages(r))
      /\ page_table' \in [Virt -> Frame \cup {NoFrame}] /\ frames' \subseteq Frame
  BY <1>2, <1>3, UnmapKeeps
<1>5. KernelTypes'
  BY <1>1, <1>3, <1>4 DEF KernelTypes, HeapTypes, SlabTypes
<1>6. FramesOK(page_table', frames', PagesOf(Held') \ Guards')
  BY <1>4
<1>7. Tiles(Blocks', kvirt_next')
  BY <1>1
<1>. QED
  BY <1>1, <1>5, <1>6, <1>7 DEF KernelInv

\* Guard pages are pages of stacks.
LEMMA GuardsHeld ==
    ASSUME KernelInv
    PROVE  \A s \in stacks : s - 1 \in PagesOf(Held) /\ s - 1 \in Pages(StackRange(s))
                             /\ StackRange(s) \in Extent /\ Block("stack", StackRange(s)) \in Held
<1>1. ASSUME NEW s \in stacks
      PROVE  s - 1 \in PagesOf(Held) /\ s - 1 \in Pages(StackRange(s))
             /\ StackRange(s) \in Extent /\ Block("stack", StackRange(s)) \in Held
  <2>1. StackRange(s) \in Extent /\ StackRange(s).base = s - 1
    <3>1. KernelTypes
      BY DEF KernelInv
    <3>2. StackRange(s) \in Extent
      BY <3>1, HeldFacts DEF StackRanges
    <3>. QED
      BY <3>2 DEF StackRange, Span
  <2>2. s - 1 \in Pages(StackRange(s))
    BY <2>1, ExtentFacts
  <2>3. Block("stack", StackRange(s)) \in Held
    BY DEF Held, Tagged, StackRanges
  <2>4. Pages(Block("stack", StackRange(s))) = Pages(StackRange(s))
    BY <2>1, BlockFacts DEF Tag
  <2>. QED
    BY <2>1, <2>2, <2>3, <2>4, PagesFacts
<1>. QED
  BY <1>1

-----------------------------------------------------------------------------
(* The cache of large blocks, as a sequence.                               *)

Elems(q) == {q[i] : i \in DOMAIN q}
Distinct(q) == \A i, j \in DOMAIN q : q[i] = q[j] => i = j

LEMMA SwapRemoved ==
    ASSUME NEW S, NEW q \in Seq(S), NEW i \in DOMAIN q, Distinct(q)
    PROVE  /\ SwapRemove(q, i) \in Seq(S) /\ Distinct(SwapRemove(q, i))
           /\ Elems(SwapRemove(q, i)) = Elems(q) \ {q[i]}
<1>. DEFINE n == Len(q)
            e == [q EXCEPT ![i] = q[n]]
            p == SwapRemove(q, i)
<1>1. n \in Nat /\ i \in 1 .. n /\ DOMAIN q = 1 .. n /\ \A j \in 1 .. n : q[j] \in S
  OBVIOUS
<1>2. e \in Seq(S) /\ Len(e) = n /\ \A j \in 1 .. n : e[j] = IF j = i THEN q[n] ELSE q[j]
  BY <1>1
<1>3. /\ p \in Seq(S) /\ Len(p) = n - 1 /\ DOMAIN p = 1 .. (n - 1)
      /\ \A j \in 1 .. (n - 1) : p[j] = IF j = i THEN q[n] ELSE q[j]
  <2>. HIDE DEF e
  <2>1. p = SubSeq(e, 1, n - 1)
    BY <1>2 DEF SwapRemove, e
  <2>. HIDE DEF p, n
  <2>. QED
    BY <1>1, <1>2, <2>1
<1>. HIDE DEF p, n
<1>4. Distinct(p)
  BY <1>1, <1>3 DEF Distinct
<1>5. ASSUME NEW j \in 1 .. (n - 1) PROVE p[j] \in Elems(q) \ {q[i]}
  <2>1. (p[j] = q[n] /\ j = i) \/ (p[j] = q[j] /\ j # i)
    BY <1>3, <1>5
  <2>2. n \in DOMAIN q /\ j \in DOMAIN q /\ n # j
    BY <1>1, <1>5
  <2>. QED
    BY <2>1, <2>2, <1>1 DEF Elems, Distinct
<1>6. ASSUME NEW j \in 1 .. n, q[j] # q[i] PROVE q[j] \in Elems(p)
  <2>1. CASE j = n
    <3>1. i \in 1 .. (n - 1) /\ p[i] = q[j]
      BY <2>1, <1>1, <1>3, <1>6
    <3>. QED
      BY <3>1, <1>3 DEF Elems
  <2>2. CASE j # n
    <3>1. j \in 1 .. (n - 1) /\ p[j] = q[j]
      BY <2>2, <1>1, <1>3, <1>6
    <3>. QED
      BY <3>1, <1>3 DEF Elems
  <2>. QED
    BY <2>1, <2>2
<1>7. Elems(p) = Elems(q) \ {q[i]}
  BY <1>1, <1>3, <1>5, <1>6 DEF Elems
<1>. QED
  BY <1>3, <1>4, <1>7 DEF p

LEMMA Appended ==
    ASSUME NEW S, NEW q \in Seq(S), NEW x \in S, Distinct(q), x \notin Elems(q)
    PROVE  /\ Append(q, x) \in Seq(S) /\ Distinct(Append(q, x))
           /\ Elems(Append(q, x)) = Elems(q) \cup {x}
<1>. DEFINE p == Append(q, x)
            n == Len(q)
<1>1. n \in Nat /\ DOMAIN q = 1 .. n
  OBVIOUS
<1>2. /\ p \in Seq(S) /\ DOMAIN p = 1 .. (n + 1) /\ p[n + 1] = x
      /\ \A j \in 1 .. n : p[j] = q[j]
  OBVIOUS
<1>. HIDE DEF p, n
<1>3. Distinct(p)
  BY <1>1, <1>2 DEF Distinct, Elems
<1>4. Elems(p) = Elems(q) \cup {x}
  BY <1>1, <1>2 DEF Elems
<1>. QED
  BY <1>2, <1>3, <1>4 DEF p

\* large_cache when its first entry makes way for x (heap.c:224-229).
Swapped(q, x) == [q EXCEPT ![1] = q[Len(q)], ![Len(q)] = x]

\* The first entry gives way to the last, and that to a new one.
LEMMA Evicted ==
    ASSUME NEW S, NEW q \in Seq(S), q # <<>>, NEW x \in S, Distinct(q), x \notin Elems(q)
    PROVE  /\ Swapped(q, x) \in Seq(S) /\ Distinct(Swapped(q, x))
           /\ Elems(Swapped(q, x)) = (Elems(q) \ {q[1]}) \cup {x}
<1>. DEFINE n == Len(q)
            p == Swapped(q, x)
<1>1. n \in Nat \ {0} /\ DOMAIN q = 1 .. n /\ \A j \in 1 .. n : q[j] \in S
  OBVIOUS
<1>2. /\ p \in Seq(S) /\ DOMAIN p = 1 .. n /\ p[n] = x
      /\ \A j \in 1 .. n : j # n => p[j] = IF j = 1 THEN q[n] ELSE q[j]
  BY <1>1 DEF Swapped
<1>. HIDE DEF n, p
<1>3. Distinct(p)
  BY <1>1, <1>2 DEF Distinct, Elems
<1>4. ASSUME NEW j \in 1 .. n PROVE p[j] \in (Elems(q) \ {q[1]}) \cup {x}
  <2>1. CASE j = n
    BY <2>1, <1>2
  <2>2. CASE j # n /\ j = 1
    BY <2>2, <1>1, <1>2 DEF Elems, Distinct
  <2>3. CASE j # n /\ j # 1
    BY <2>3, <1>1, <1>2 DEF Elems, Distinct
  <2>. QED
    BY <2>1, <2>2, <2>3
<1>5. x \in Elems(p)
  BY <1>1, <1>2 DEF Elems
<1>6. ASSUME NEW j \in 1 .. n, q[j] # q[1] PROVE q[j] \in Elems(p)
  <2>1. CASE j = n
    <3>1. 1 \in 1 .. n /\ 1 # n
      BY <2>1, <1>1, <1>6
    <3>2. p[1] = q[j]
      BY <2>1, <3>1, <1>2
    <3>. QED
      BY <3>1, <3>2, <1>2 DEF Elems
  <2>2. CASE j # n
    <3>1. p[j] = q[j]
      BY <2>2, <1>2, <1>6
    <3>. QED
      BY <3>1, <1>2, <1>6 DEF Elems
  <2>. QED
    BY <2>1, <2>2
<1>7. Elems(p) = (Elems(q) \ {q[1]}) \cup {x}
  BY <1>1, <1>2, <1>4, <1>5, <1>6 DEF Elems
<1>. QED
  BY <1>2, <1>3, <1>7 DEF p

-----------------------------------------------------------------------------
(* The actions.                                                            *)

\* A slot more or less in a slab.
LEMMA UsedChanges ==
    ASSUME KernelInv, NEW c \in Classes, NEW i \in DOMAIN classes[c],
           NEW slots, slots \subseteq 1 .. SlotsOf[c],
           classes' = [classes EXCEPT ![c][i].used = slots],
           UNCHANGED <<ranges, stacks, overflow_table, large_cache>>
    PROVE  KernelInv'
<1>. DEFINE q == [classes[c] EXCEPT ![i] = [@ EXCEPT !.used = slots]]
<1>1. classes \in [Classes -> Seq(SlabPage)]
      /\ \A d \in Classes : \A j \in DOMAIN classes[d] : classes[d][j].used \subseteq 1 .. SlotsOf[d]
  BY DEF KernelInv, KernelTypes
<1>2. classes[c] \in Seq(SlabPage) /\ classes[c][i] \in SlabPage
  BY <1>1
<1>3. 1 .. SlotsOf[c] \subseteq Nat
  BY KernelMemoryAssumption
<1>4. LET x == [classes[c][i] EXCEPT !.used = slots]
      IN  x \in SlabPage /\ x.base = classes[c][i].base /\ x.used = slots
  BY <1>2, <1>3 DEF SlabPage
<1>5. /\ q \in Seq(SlabPage) /\ DOMAIN q = DOMAIN classes[c]
      /\ \A j \in DOMAIN q : q[j].base = classes[c][j].base
                             /\ q[j].used = IF j = i THEN slots ELSE classes[c][j].used
  BY <1>2, <1>4
<1>6. classes' = [classes EXCEPT ![c] = q]
  OBVIOUS
<1>. HIDE DEF q
<1>7. classes' \in [Classes -> Seq(SlabPage)] /\ classes'[c] = q
      /\ \A d \in Classes : d # c => classes'[d] = classes[d]
  BY <1>1, <1>5, <1>6
<1>8. SlabPages' = SlabPages
  <2>1. \A d \in Classes : DOMAIN classes'[d] = DOMAIN classes[d]
           /\ \A j \in DOMAIN classes[d] : classes'[d][j].base = classes[d][j].base
    BY <1>5, <1>7
  <2>2. \A d \in Classes : {classes'[d][j].base : j \in DOMAIN classes'[d]}
                              = {classes[d][j].base : j \in DOMAIN classes[d]}
    BY <2>1
  <2>. QED
    BY <2>2 DEF SlabPages
<1>9. SlabTypes'
  <2>1. ASSUME NEW d \in Classes, NEW j \in DOMAIN classes'[d]
        PROVE  classes'[d][j].used \subseteq 1 .. SlotsOf[d]
    <3>1. CASE d = c
      BY <3>1, <2>1, <1>1, <1>5, <1>7
    <3>2. CASE d # c
      BY <3>2, <2>1, <1>1, <1>7
    <3>. QED
      BY <3>1, <3>2
  <2>. QED
    BY <2>1, <1>7 DEF SlabTypes
<1>. QED
  BY <1>8, <1>9, SameHeldKeeps

LEMMA KmallocSlotKeeps ==
    ASSUME KernelInv, NEW c \in Classes, KmallocSlot(c)
    PROVE  KernelInv'
<1>1. PICK i \in DOMAIN classes[c] : HasRoom(c, i) /\ classes' = TakeSlot(c, i)
  BY DEF KmallocSlot
<1>. DEFINE used == classes[c][i].used
            slot == Min(1 .. SlotsOf[c] \ used)
<1>2. used \subseteq 1 .. SlotsOf[c] /\ used # 1 .. SlotsOf[c]
  BY <1>1 DEF KernelInv, KernelTypes, HasRoom
<1>3. slot \in 1 .. SlotsOf[c]
  <2>1. 1 .. SlotsOf[c] \subseteq Nat
    BY KernelMemoryAssumption
  <2>. HIDE DEF used
  <2>2. 1 .. SlotsOf[c] \ used \subseteq Nat /\ 1 .. SlotsOf[c] \ used # {}
    BY <1>2, <2>1
  <2>. QED
    BY <2>2, MinOfNats
<1>4. classes' = [classes EXCEPT ![c][i].used = used \cup {slot}]
  BY <1>1 DEF TakeSlot
<1>5. UNCHANGED <<ranges, stacks, overflow_table, large_cache>>
  BY DEF KmallocSlot
<1>6. used \cup {slot} \subseteq 1 .. SlotsOf[c]
  BY <1>2, <1>3
<1>. HIDE DEF used, slot
<1>. QED
  BY <1>4, <1>5, <1>6, UsedChanges

LEMMA KfreeSlotKeeps ==
    ASSUME KernelInv, NEW c \in Classes, NEW i \in DOMAIN classes[c], NEW slot,
           KfreeSlot(c, i, slot)
    PROVE  KernelInv'
<1>. DEFINE used == classes[c][i].used
<1>1. used \ {slot} \subseteq 1 .. SlotsOf[c]
  BY DEF KernelInv, KernelTypes
<1>2. classes' = [classes EXCEPT ![c][i].used = used \ {slot}]
  BY DEF KfreeSlot
<1>3. UNCHANGED <<ranges, stacks, overflow_table, large_cache>>
  BY DEF KfreeSlot
<1>. HIDE DEF used
<1>. QED
  BY <1>1, <1>2, <1>3, UsedChanges

LEMMA KmallocGrowKeeps ==
    ASSUME KernelInv, NEW c \in Classes, KmallocGrow(c)
    PROVE  KernelInv'
<1>1. PICK b \in Virt :
         /\ AllocPages(1, b, {})
         /\ classes' = [classes EXCEPT ![c] = Append(@, [base |-> b, used |-> {1}])]
  BY DEF KmallocGrow
<1>2. overflow_table' = overflow_table /\ large_cache' = large_cache /\ stacks' = stacks
  BY DEF KmallocGrow
<1>. DEFINE x == [base |-> b, used |-> {1}]
            q == Append(classes[c], x)
<1>3. /\ classes \in [Classes -> Seq(SlabPage)] /\ classes[c] \in Seq(SlabPage)
      /\ \A d \in Classes : \A j \in DOMAIN classes[d] : classes[d][j].used \subseteq 1 .. SlotsOf[d]
  BY DEF KernelInv, KernelTypes
<1>4. x \in SlabPage /\ x.base = b /\ x.used \subseteq 1 .. SlotsOf[c]
  BY KernelMemoryAssumption DEF SlabPage, Virt
<1>. HIDE DEF x
<1>5. /\ q \in Seq(SlabPage) /\ DOMAIN q = DOMAIN classes[c] \cup {Len(classes[c]) + 1}
      /\ \A j \in DOMAIN classes[c] : q[j] = classes[c][j]
      /\ q[Len(classes[c]) + 1] = x
  BY <1>3, <1>4
<1>6. classes' = [classes EXCEPT ![c] = q]
  BY <1>1 DEF x
<1>. HIDE DEF q
<1>7. classes' \in [Classes -> Seq(SlabPage)] /\ classes'[c] = q
      /\ \A d \in Classes : d # c => classes'[d] = classes[d]
  BY <1>3, <1>5, <1>6
<1>8. SlabPages' = SlabPages \cup {b}
  <2>. DEFINE bases(f, d) == {f[d][j].base : j \in DOMAIN f[d]}
  <2>1. bases(classes', c) = bases(classes, c) \cup {b}
    BY <1>4, <1>5, <1>7
  <2>2. \A d \in Classes : d # c => bases(classes', d) = bases(classes, d)
    BY <1>7
  <2>3. SlabPages' = UNION {bases(classes', d) : d \in Classes}
        /\ SlabPages = UNION {bases(classes, d) : d \in Classes}
    BY DEF SlabPages
  <2>. HIDE DEF bases
  <2>. QED
    BY <2>1, <2>2, <2>3
<1>9. SlabTypes'
  <2>1. ASSUME NEW d \in Classes, NEW j \in DOMAIN classes'[d]
        PROVE  classes'[d][j].used \subseteq 1 .. SlotsOf[d]
    <3>1. CASE d = c
      BY <3>1, <2>1, <1>3, <1>4, <1>5, <1>7
    <3>2. CASE d # c
      BY <3>2, <2>1, <1>3, <1>7
    <3>. QED
      BY <3>1, <3>2
  <2>. QED
    BY <2>1, <1>7 DEF SlabTypes
<1>10. Held' = Held \cup {Block("slab", Span(b, 1))}
  <2>1. SlabRanges' = SlabRanges \cup {Span(b, 1)}
    BY <1>8 DEF SlabRanges
  <2>2. Tagged("slab", SlabRanges') = Tagged("slab", SlabRanges) \cup {Block("slab", Span(b, 1))}
    BY <2>1 DEF Tagged
  <2>3. CacheRanges' = CacheRanges /\ StackRanges' = StackRanges
    BY <1>2 DEF CacheRanges, StackRanges
  <2>. QED
    BY <2>2, <2>3, <1>2 DEF Held
<1>11. HeapTypes' /\ CacheDistinct' /\ Guards' = Guards \cup {}
  BY <1>2, <1>9 DEF KernelInv, KernelTypes, HeapTypes, CacheDistinct, Guards
<1>12. \A g \in Guards : g \in PagesOf(Held)
  BY GuardsHeld DEF Guards
<1>. QED
  BY <1>1, <1>10, <1>11, <1>12, AllocKeeps DEF HeldTag

\* A block that is held in one way is not held in another.
LEMMA HeldOnce ==
    ASSUME KernelInv, NEW tag \in HeldTag, NEW tag2 \in HeldTag, tag # tag2, NEW r \in Extent
    PROVE  ~(Block(tag, r) \in Held /\ Block(tag2, r) \in Held)
<1>1. Pages(Block(tag, r)) = Pages(r) /\ Pages(Block(tag2, r)) = Pages(r) /\ Pages(r) # {}
  BY BlockFacts, ExtentFacts DEF HeldTag, Tag
<1>2. Block(tag, r) # Block(tag2, r)
  BY BlocksDiffer
<1>3. \A x, y \in Held : x # y => Pages(x) \cap Pages(y) = {}
  BY DEF KernelInv, Tiles, Apart, Blocks
<1>. QED
  BY <1>1, <1>2, <1>3

LEMMA BlocksOfKinds ==
    ASSUME KernelInv
    PROVE  /\ \A r \in Extent : Block("over", r) \in Held <=> r \in overflow_table
           /\ \A r \in Extent : Block("cache", r) \in Held <=> r \in CacheRanges
           /\ overflow_table \subseteq Extent /\ CacheRanges \subseteq Extent
           /\ CacheRanges = Elems(large_cache) /\ large_cache \in Seq(Extent)
           /\ Distinct(large_cache)
<1>1. KernelTypes /\ large_cache \in Seq(Extent) /\ overflow_table \subseteq Extent
  BY DEF KernelInv, KernelTypes
<1>2. CacheRanges \subseteq Extent /\ SlabRanges \subseteq Extent /\ StackRanges \subseteq Extent
  BY <1>1, HeldFacts
<1>3. /\ \A r \in Extent : Block("over", r) \in Tagged("over", overflow_table) <=> r \in overflow_table
      /\ \A x \in Tagged("over", overflow_table) : x.tag = "over"
  BY <1>1, TaggedFacts DEF Tag
<1>4. /\ \A r \in Extent : Block("cache", r) \in Tagged("cache", CacheRanges) <=> r \in CacheRanges
      /\ \A x \in Tagged("cache", CacheRanges) : x.tag = "cache"
  BY <1>2, TaggedFacts DEF Tag
<1>5. \A x \in Tagged("slab", SlabRanges) : x.tag = "slab"
  BY <1>2, TaggedFacts DEF Tag
<1>6. \A x \in Tagged("stack", StackRanges) : x.tag = "stack"
  BY <1>2, TaggedFacts DEF Tag
<1>7. \A r : Block("over", r).tag = "over" /\ Block("cache", r).tag = "cache"
  BY DEF Block
<1>8. /\ \A r \in Extent : Block("over", r) \in Held <=> r \in overflow_table
      /\ \A r \in Extent : Block("cache", r) \in Held <=> r \in CacheRanges
  BY <1>3, <1>4, <1>5, <1>6, <1>7 DEF Held
<1>9. CacheRanges = Elems(large_cache) /\ Distinct(large_cache)
  BY DEF CacheRanges, Elems, Distinct, KernelInv, CacheDistinct
<1>. QED
  BY <1>1, <1>2, <1>8, <1>9

\* A block changes hands between the cache and its users.
LEMMA CacheMoveKeeps ==
    ASSUME KernelInv, UNCHANGED <<ranges, stacks, classes>>, NEW r \in Extent,
           NEW tag \in {"over", "cache"}, NEW tag2 \in {"over", "cache"}, tag # tag2,
           Block(tag, r) \in Held, Held' = (Held \ {Block(tag, r)}) \cup {Block(tag2, r)},
           overflow_table' \subseteq Extent, large_cache' \in Seq(Extent), Distinct(large_cache')
    PROVE  KernelInv'
<1>. DEFINE x == Block(tag, r)
            y == Block(tag2, r)
<1>1. /\ x \in BlockSet /\ y \in BlockSet /\ Pages(x) = Pages(r) /\ Pages(y) = Pages(r)
      /\ x.tag = tag
  BY BlockFacts DEF Tag
<1>2. KernelTypes /\ Tiles(Blocks, kvirt_next) /\ kvirt_next \in Nat \ {0}
  BY DEF KernelInv, KernelTypes
<1>3. x \in Held /\ x \in Blocks /\ Held' = (Held \ {x}) \cup {y}
  BY DEF Blocks
<1>. HIDE DEF x, y
<1>4. Tiles((Blocks \ {x}) \cup {y}, kvirt_next)
  BY <1>1, <1>2, <1>3, Retag
<1>5. Blocks' = (Blocks \ {x}) \cup {y}
  <2>1. FreeBlocks' = FreeBlocks /\ Tagged("lost", lost)' = Tagged("lost", lost)
    BY DEF ranges, FreeBlocks
  <2>2. x \notin FreeBlocks /\ x \notin Tagged("lost", lost)
    BY <1>1, <1>2, HeldFacts
  <2>. QED
    BY <1>3, <2>1, <2>2 DEF Blocks
<1>6. PagesOf(Held') = PagesOf(Held)
  <2>1. \A v : v \in PagesOf((Held \ {x}) \cup {y}) <=> v \in PagesOf(Held)
    BY <1>1, <1>3 DEF PagesOf
  <2>. QED
    BY <2>1, <1>3 DEF PagesOf
<1>7. HeapTypes'
  BY <1>2 DEF KernelTypes, HeapTypes, SlabTypes
<1>8. CacheDistinct'
  BY DEF CacheDistinct, Distinct
<1>. QED
  BY <1>4, <1>5, <1>6, <1>7, <1>8, MoveKeeps

LEMMA KmallocLargeKeeps ==
    ASSUME KernelInv, NEW n \in LargeSizes, KmallocLarge(n)
    PROVE  KernelInv'
<1>1. classes' = classes /\ stacks' = stacks
  BY DEF KmallocLarge
<1>2. SlabRanges' = SlabRanges /\ StackRanges' = StackRanges /\ Guards' = Guards
  BY <1>1 DEF SlabRanges, SlabPages, StackRanges, Guards
<1>3. CASE /\ Cached(n) # {}
           /\ overflow_table' = overflow_table \cup {large_cache[Min(Cached(n))]}
           /\ large_cache' = SwapRemove(large_cache, Min(Cached(n)))
           /\ UNCHANGED ranges
  <2>. DEFINE i == Min(Cached(n))
              r == large_cache[i]
  <2>1. i \in DOMAIN large_cache
    <3>1. Cached(n) \subseteq DOMAIN large_cache /\ Cached(n) \subseteq Nat
      BY BlocksOfKinds DEF Cached
    <3>. QED
      BY <1>3, <3>1, MinOfNats
  <2>2. r \in Extent /\ r \in CacheRanges /\ Block("cache", r) \in Held
    BY <2>1, BlocksOfKinds DEF Elems
  <2>3. /\ large_cache' \in Seq(Extent) /\ Distinct(large_cache')
        /\ Elems(large_cache') = Elems(large_cache) \ {r}
    <3>. HIDE DEF i
    <3>. QED
      BY <1>3, <2>1, BlocksOfKinds, SwapRemoved DEF i
  <2>4. CacheRanges' = CacheRanges \ {r}
    BY <2>3, BlocksOfKinds DEF CacheRanges, Elems
  <2>. HIDE DEF r
  <2>5. overflow_table' = overflow_table \cup {r} /\ overflow_table' \subseteq Extent
    BY <1>3, <2>2, BlocksOfKinds DEF r
  <2>6. Tagged("cache", CacheRanges') = Tagged("cache", CacheRanges) \ {Block("cache", r)}
    <3>1. {r} \subseteq Extent /\ Tagged("cache", {r}) = {Block("cache", r)}
      BY <2>2 DEF Tagged
    <3>. QED
      BY <3>1, <2>4, BlocksOfKinds, TaggedMinus
  <2>7. Tagged("over", overflow_table') = Tagged("over", overflow_table) \cup {Block("over", r)}
    BY <2>5 DEF Tagged
  <2>8. Held' = (Held \ {Block("cache", r)}) \cup {Block("over", r)}
    <3>1. Block("cache", r).tag = "cache"
      BY DEF Block
    <3>2. /\ \A x \in Tagged("over", overflow_table) : x.tag = "over"
          /\ \A x \in Tagged("slab", SlabRanges) : x.tag = "slab"
          /\ \A x \in Tagged("stack", StackRanges) : x.tag = "stack"
      BY DEF Tagged, Block
    <3>. QED
      BY <1>2, <2>6, <2>7, <3>1, <3>2 DEF Held
  <2>. QED
    BY <1>1, <1>3, <2>2, <2>3, <2>5, <2>8, CacheMoveKeeps
<1>4. ASSUME NEW b \in Virt, AllocPages(n, b, {}),
             overflow_table' = overflow_table \cup {Span(b, n)}, large_cache' = large_cache
      PROVE  KernelInv'
  <2>1. n \in Nat \ {0}
    BY KernelMemoryAssumption
  <2>2. Span(b, n) \in Extent
    BY <2>1, KernelMemoryAssumption DEF Span, Extent, Virt
  <2>3. Held' = Held \cup {Block("over", Span(b, n))}
    <3>1. Tagged("over", overflow_table') = Tagged("over", overflow_table) \cup {Block("over", Span(b, n))}
      BY <1>4 DEF Tagged
    <3>2. CacheRanges' = CacheRanges
      BY <1>4 DEF CacheRanges
    <3>. QED
      BY <1>2, <3>1, <3>2 DEF Held
  <2>4. HeapTypes' /\ CacheDistinct'
    BY <1>1, <1>4, <2>2 DEF KernelInv, KernelTypes, HeapTypes, SlabTypes, CacheDistinct
  <2>5. \A g \in Guards : g \in PagesOf(Held)
    BY GuardsHeld DEF Guards
  <2>6. Guards' = Guards \cup {} /\ {} \subseteq Pages(Span(b, n))
    BY <1>2
  <2>. QED
    BY <1>4, <2>1, <2>3, <2>4, <2>5, <2>6, AllocKeeps DEF HeldTag
<1>. QED
  BY <1>3, <1>4 DEF KmallocLarge

LEMMA KfreeLargeKeeps ==
    ASSUME KernelInv, NEW r \in overflow_table, KfreeLarge(r)
    PROVE  KernelInv'
<1>. DEFINE q == large_cache
            over == Block("over", r)
            cached == Block("cache", r)
<1>1. classes' = classes /\ stacks' = stacks /\ overflow_table' = overflow_table \ {r}
  BY DEF KfreeLarge
<1>2. SlabRanges' = SlabRanges /\ StackRanges' = StackRanges /\ Guards' = Guards
  BY <1>1 DEF SlabRanges, SlabPages, StackRanges, Guards
<1>3. /\ r \in Extent /\ over \in Held /\ cached \notin Held /\ r \notin Elems(q)
      /\ q \in Seq(Extent) /\ Distinct(q)
  BY BlocksOfKinds, HeldOnce DEF HeldTag
<1>4. Tagged("over", overflow_table') = Tagged("over", overflow_table) \ {over}
      /\ overflow_table' \subseteq Extent
  <2>1. {r} \subseteq Extent /\ Tagged("over", {r}) = {over}
    BY <1>3 DEF Tagged
  <2>. QED
    BY <2>1, <1>1, BlocksOfKinds, TaggedMinus
<1>5. /\ \A x \in Tagged("over", overflow_table) : x.tag = "over"
      /\ \A x \in Tagged("cache", CacheRanges) : x.tag = "cache"
      /\ \A x \in Tagged("slab", SlabRanges) : x.tag = "slab"
      /\ \A x \in Tagged("stack", StackRanges) : x.tag = "stack"
      /\ over.tag = "over" /\ cached.tag = "cache"
  BY DEF Tagged, Block
<1>6. CASE large_cache' = Append(q, r) /\ UNCHANGED <<ranges, tlb>>
  <2>1. /\ large_cache' \in Seq(Extent) /\ Distinct(large_cache')
        /\ Elems(large_cache') = Elems(q) \cup {r}
    <3>. HIDE DEF q
    <3>. QED
      BY <1>3, <1>6, Appended
  <2>2. CacheRanges' = CacheRanges \cup {r}
    BY <2>1, BlocksOfKinds DEF CacheRanges, Elems
  <2>3. Tagged("cache", CacheRanges') = Tagged("cache", CacheRanges) \cup {cached}
    BY <2>2 DEF Tagged
  <2>. HIDE DEF over, cached
  <2>4. Held' = (Held \ {over}) \cup {cached}
    BY <1>2, <1>4, <1>5, <2>3 DEF Held
  <2>. QED
    BY <1>1, <1>3, <1>4, <1>6, <2>1, <2>4, CacheMoveKeeps DEF over, cached
<1>7. CASE /\ Len(q) = CacheMax /\ FreePages(q[1], tlb)
           /\ large_cache' = [q EXCEPT ![1] = q[CacheMax], ![CacheMax] = r]
  <2>. DEFINE e == q[1]
              gone == Block("cache", e)
  <2>1. q # <<>> /\ 1 \in DOMAIN q
    BY <1>3, <1>7, KernelMemoryAssumption
  <2>2. e \in Extent /\ e \in CacheRanges /\ gone \in Held
    BY <2>1, <1>3, BlocksOfKinds DEF Elems
  <2>3. /\ large_cache' \in Seq(Extent) /\ Distinct(large_cache')
        /\ Elems(large_cache') = (Elems(q) \ {e}) \cup {r}
    <3>1. large_cache' = Swapped(q, r)
      BY <1>7 DEF Swapped
    <3>2. r \in Extent /\ r \notin Elems(q) /\ q \in Seq(Extent) /\ Distinct(q) /\ q # <<>>
      BY <2>1, <1>3
    <3>. HIDE DEF q, over, cached, e, gone
    <3>3. /\ Swapped(q, r) \in Seq(Extent) /\ Distinct(Swapped(q, r))
          /\ Elems(Swapped(q, r)) = (Elems(q) \ {q[1]}) \cup {r}
      BY <3>2, Evicted
    <3>. QED
      BY <3>1, <3>3 DEF e
  <2>4. CacheRanges' = (CacheRanges \ {e}) \cup {r}
    BY <2>3, BlocksOfKinds DEF CacheRanges, Elems
  <2>. HIDE DEF e
  <2>5. Tagged("cache", CacheRanges') = (Tagged("cache", CacheRanges) \ {gone}) \cup {cached}
    <3>1. {e} \subseteq Extent /\ Tagged("cache", {e}) = {gone}
      BY <2>2 DEF Tagged
    <3>2. Tagged("cache", CacheRanges \ {e}) = Tagged("cache", CacheRanges) \ {gone}
      BY <3>1, BlocksOfKinds, TaggedMinus
    <3>3. Tagged("cache", CacheRanges') = Tagged("cache", CacheRanges \ {e}) \cup Tagged("cache", {r})
      BY <2>4, TaggedUnion
    <3>4. Tagged("cache", {r}) = {cached}
      BY DEF Tagged
    <3>. QED
      BY <3>2, <3>3, <3>4
  <2>6. gone.tag = "cache" /\ over # gone /\ r # e
    BY <1>3, <1>5, <2>2, BlocksOfKinds DEF Block
  <2>7. over \in Held \ {gone} /\ cached \in BlockSet /\ Pages(over) = Pages(r) /\ Pages(cached) = Pages(r)
    BY <1>3, <2>6, BlockFacts DEF Tag
  <2>. HIDE DEF over, cached, gone
  <2>8. Held' = ((Held \ {gone}) \ {over}) \cup {cached}
    BY <1>2, <1>4, <1>5, <2>5, <2>6, <2>7 DEF Held
  <2>9. FreePages(e, tlb)
    BY <1>7 DEF e
  <2>10. Tiles(FreeBlocks' \cup Tagged("lost", lost') \cup (Held \ {gone}), kvirt_next)
    BY <2>2, <2>9, FreeTiles DEF HeldTag, gone
  <2>. DEFINE B == FreeBlocks' \cup Tagged("lost", lost') \cup (Held \ {gone})
  <2>11. Tiles((B \ {over}) \cup {cached}, kvirt_next)
    <3>1. kvirt_next \in Nat \ {0} /\ over \in B
      BY <2>7 DEF KernelInv, KernelTypes
    <3>. HIDE DEF B
    <3>. QED
      BY <3>1, <2>10, <2>7, Retag DEF B
  <2>12. Blocks' = (B \ {over}) \cup {cached}
    <3>1. \A x \in FreeBlocks' : x.tag = "free"
      BY DEF FreeBlocks, Tagged, Block
    <3>2. \A x \in Tagged("lost", lost') : x.tag = "lost"
      BY DEF Tagged, Block
    <3>. QED
      BY <3>1, <3>2, <1>5, <2>8 DEF Blocks
  <2>13. PagesOf(Held') = PagesOf(Held) \ Pages(e)
    <3>1. PagesOf(Held \ {gone}) = PagesOf(Held) \ Pages(e)
      BY <2>2, HeldWithout DEF HeldTag, gone
    <3>2. \A v : v \in PagesOf(Held') <=> v \in PagesOf(Held \ {gone})
      BY <2>7, <2>8 DEF PagesOf
    <3>. QED
      BY <3>1, <3>2 DEF PagesOf
  <2>14. PagesOf(Held') \ Guards' = (PagesOf(Held) \ Guards) \ Pages(e)
    BY <1>2, <2>13
  <2>15. HeapTypes' /\ CacheDistinct'
    BY <1>1, <1>4, <2>3 DEF KernelInv, KernelTypes, HeapTypes, SlabTypes, CacheDistinct, Distinct
  <2>16. Tiles(Blocks', kvirt_next)
    BY <2>11, <2>12
  <2>. HIDE DEF B
  <2>. QED
    BY <2>2, <2>9, <2>13, <2>14, <2>15, <2>16, FreeKeeps DEF HeldTag, gone
<1>. QED
  BY <1>6, <1>7 DEF KfreeLarge

LEMMA KstackAllocKeeps ==
    ASSUME KernelInv, KstackAlloc
    PROVE  KernelInv'
<1>1. PICK b \in Virt : AllocPages(StackPages + 1, b, {b}) /\ stacks' = stacks \cup {b + 1}
  BY DEF KstackAlloc
<1>2. classes' = classes /\ overflow_table' = overflow_table /\ large_cache' = large_cache
  BY DEF KstackAlloc, heap
<1>3. StackPages + 1 \in Nat \ {0} /\ b \in Nat \ {0}
  BY KernelMemoryAssumption DEF Virt
<1>. DEFINE r == Span(b, StackPages + 1)
<1>4. StackRange(b + 1) = r
  <2>1. b + 1 - 1 = b
    BY <1>3
  <2>. QED
    BY <2>1, <1>3 DEF StackRange
<1>5. StackRanges' = StackRanges \cup {r}
  BY <1>1, <1>4 DEF StackRanges
<1>6. Held' = Held \cup {Block("stack", r)}
  <2>1. Tagged("stack", StackRanges') = Tagged("stack", StackRanges) \cup {Block("stack", r)}
    BY <1>5 DEF Tagged
  <2>2. CacheRanges' = CacheRanges /\ SlabRanges' = SlabRanges
    BY <1>2 DEF CacheRanges, SlabRanges, SlabPages
  <2>. QED
    BY <1>2, <2>1, <2>2 DEF Held
<1>7. Guards' = Guards \cup {b}
  <2>. DEFINE below(s) == s - 1
  <2>1. below(b + 1) = b
    BY <1>3
  <2>2. Guards = {below(s) : s \in stacks} /\ Guards' = {below(s) : s \in stacks'}
    BY DEF Guards
  <2>. HIDE DEF below
  <2>3. {below(s) : s \in stacks \cup {b + 1}} = {below(s) : s \in stacks} \cup {below(b + 1)}
    OBVIOUS
  <2>. QED
    BY <1>1, <2>1, <2>2, <2>3
<1>8. {b} \subseteq Pages(r)
  BY <1>3 DEF Pages, Span
<1>9. HeapTypes' /\ CacheDistinct'
  BY <1>1, <1>2, <1>3 DEF KernelInv, KernelTypes, HeapTypes, SlabTypes, CacheDistinct
<1>10. \A g \in Guards : g \in PagesOf(Held)
  BY GuardsHeld DEF Guards
<1>. QED
  BY <1>1, <1>3, <1>6, <1>7, <1>8, <1>9, <1>10, AllocKeeps DEF HeldTag

LEMMA KstackFreeKeeps ==
    ASSUME KernelInv, NEW s \in stacks, KstackFree(s)
    PROVE  KernelInv'
<1>. DEFINE r == StackRange(s)
            old == Block("stack", r)
            t == Touched(tlb, s, page_table)
<1>1. stacks' = stacks \ {s} /\ FreePages(r, t)
      /\ classes' = classes /\ overflow_table' = overflow_table /\ large_cache' = large_cache
  BY DEF KstackFree, heap
<1>2. r \in Extent /\ old \in Held /\ s - 1 \in Pages(r) /\ stacks \subseteq Nat \ {0, 1}
  BY GuardsHeld DEF KernelInv, KernelTypes
<1>3. \A u \in stacks : StackRange(u).base = u - 1
  BY DEF StackRange, Span
<1>4. StackRanges' = StackRanges \ {r}
  <2>1. \A u \in stacks : StackRange(u) = r => u = s
    BY <1>2, <1>3
  <2>. QED
    BY <1>1, <2>1 DEF StackRanges
<1>5. Tagged("stack", StackRanges') = Tagged("stack", StackRanges) \ {old}
  <2>1. StackRanges \subseteq Extent
    BY GuardsHeld DEF StackRanges
  <2>2. {r} \subseteq Extent /\ Tagged("stack", {r}) = {old}
    BY <1>2 DEF Tagged
  <2>. HIDE DEF r, old
  <2>. QED
    BY <2>1, <2>2, <1>4, TaggedMinus
<1>6. Held' = Held \ {old}
  <2>1. CacheRanges' = CacheRanges /\ SlabRanges' = SlabRanges
    BY <1>1 DEF CacheRanges, SlabRanges, SlabPages
  <2>2. /\ \A x \in Tagged("over", overflow_table) : x.tag = "over"
        /\ \A x \in Tagged("cache", CacheRanges) : x.tag = "cache"
        /\ \A x \in Tagged("slab", SlabRanges) : x.tag = "slab"
        /\ old.tag = "stack"
    BY DEF Tagged, Block
  <2>. HIDE DEF old
  <2>. QED
    BY <1>1, <1>5, <2>1, <2>2 DEF Held
<1>. HIDE DEF r, t
<1>7. Tiles(Blocks', kvirt_next)
  <2>1. Tiles(FreeBlocks' \cup Tagged("lost", lost') \cup (Held \ {old}), kvirt_next)
    BY <1>1, <1>2, FreeTiles DEF HeldTag
  <2>. QED
    BY <2>1, <1>6 DEF Blocks
<1>8. PagesOf(Held') = PagesOf(Held) \ Pages(r)
  BY <1>2, <1>6, HeldWithout DEF HeldTag
<1>9. PagesOf(Held') \ Guards' = (PagesOf(Held) \ Guards) \ Pages(r)
  <2>1. \A g : g \in Guards' => g \in Guards
    BY <1>1 DEF Guards
  <2>2. \A g \in Guards : g \in Guards' \/ g \in Pages(r)
    BY <1>1, <1>2 DEF Guards
  <2>. QED
    BY <1>8, <2>1, <2>2
<1>10. HeapTypes' /\ CacheDistinct'
  BY <1>1 DEF KernelInv, KernelTypes, HeapTypes, SlabTypes, CacheDistinct
<1>. QED
  BY <1>1, <1>2, <1>7, <1>8, <1>9, <1>10, FreeKeeps DEF HeldTag

LEMMA KernelStep == KernelInv /\ [KernelNext]_kernelVars => KernelInv'
<1>1. ASSUME KernelInv, UNCHANGED <<ranges, heap, stacks>> PROVE KernelInv'
  <2>1. SlabPages' = SlabPages /\ SlabTypes'
    BY <1>1 DEF heap, SlabPages, SlabTypes, KernelInv, KernelTypes
  <2>. QED
    BY <1>1, <2>1, SameHeldKeeps DEF heap
<1>2. ASSUME KernelInv, UNCHANGED kernelVars PROVE KernelInv'
  BY <1>1, <1>2 DEF kernelVars
<1>3. ASSUME KernelInv, NEW d \in Dirs, SwitchPageDir(d) PROVE KernelInv'
  BY <1>1, <1>3 DEF SwitchPageDir
<1>4. ASSUME KernelInv, NEW v \in Virt, Access(v) PROVE KernelInv'
  BY <1>1, <1>4 DEF Access
<1>. QED
  BY <1>2, <1>3, <1>4, KmallocSlotKeeps, KmallocGrowKeeps, KfreeSlotKeeps, KmallocLargeKeeps,
     KfreeLargeKeeps, KstackAllocKeeps, KstackFreeKeeps DEF KernelNext

LEMMA KernelStart == KernelInit => KernelInv
<1>. SUFFICES ASSUME KernelInit PROVE KernelInv
  OBVIOUS
<1>1. /\ kvirt_next = 1 /\ kvirt_free = {} /\ lost = {} /\ frames = {} /\ stacks = {}
      /\ page_table = [v \in Virt |-> NoFrame]
      /\ classes = [c \in Classes |-> <<>>] /\ overflow_table = {} /\ large_cache = <<>>
  BY DEF KernelInit
<1>2. KernelTypes
  BY <1>1, KernelMemoryAssumption DEF KernelTypes
<1>3. Blocks = {} /\ Held = {}
  <2>1. SlabPages = {}
    BY <1>1 DEF SlabPages
  <2>2. CacheRanges = {} /\ SlabRanges = {} /\ StackRanges = {}
    BY <1>1, <2>1 DEF CacheRanges, SlabRanges, StackRanges
  <2>. QED
    BY <1>1, <2>2 DEF Blocks, FreeBlocks, Held, Tagged
<1>4. Tiles(Blocks, kvirt_next)
  BY <1>1, <1>3 DEF Tiles, Apart, PagesOf
<1>5. FarApart(kvirt_free) /\ CacheDistinct
  BY <1>1 DEF FarApart, CacheDistinct
<1>6. FramesOK(page_table, frames, PagesOf(Held) \ Guards)
  BY <1>1, <1>3 DEF FramesOK, PagesOf
<1>. QED
  BY <1>2, <1>4, <1>5, <1>6 DEF KernelInv

\* The inductive invariant: the blocks tile the pages handed out so far, free ranges do
\* not touch, and the pages that are held, guards aside, are those with a frame
\* (vmm.c:145-239, heap.c:134-263, task.c:80-108).
THEOREM KernelInvariant == KernelSpec => []KernelInv
  BY KernelStart, KernelStep, PTL DEF KernelSpec

-----------------------------------------------------------------------------
(* Theorems.                                                               *)

\* The pages of one tag.
LEMMA PartIs ==
    ASSUME KernelInv
    PROVE  /\ PagesOf(kvirt_free) = PagesOf({x \in Blocks : x.tag = "free"})
           /\ PagesOf(lost) = PagesOf({x \in Blocks : x.tag = "lost"})
           /\ PagesOf(CacheRanges) = PagesOf({x \in Blocks : x.tag = "cache"})
           /\ PagesOf(overflow_table) = PagesOf({x \in Blocks : x.tag = "over"})
           /\ SlabPages = PagesOf({x \in Blocks : x.tag = "slab"})
           /\ PagesOf(StackRanges) = PagesOf({x \in Blocks : x.tag = "stack"})
<1>1. /\ kvirt_free \subseteq Extent /\ lost \subseteq Extent /\ overflow_table \subseteq Extent
      /\ CacheRanges \subseteq Extent /\ SlabRanges \subseteq Extent /\ StackRanges \subseteq Extent
  BY HeldFacts DEF KernelInv, KernelTypes
<1>2. \A tag, rs : \A x \in Tagged(tag, rs) : x.tag = tag
  BY DEF Tagged, Block
<1>3. Blocks = Tagged("free", kvirt_free) \cup Tagged("lost", lost) \cup Tagged("cache", CacheRanges)
        \cup Tagged("over", overflow_table) \cup Tagged("slab", SlabRanges) \cup Tagged("stack", StackRanges)
  BY DEF Blocks, FreeBlocks, Held
<1>4. /\ {x \in Blocks : x.tag = "free"} = Tagged("free", kvirt_free)
      /\ {x \in Blocks : x.tag = "lost"} = Tagged("lost", lost)
      /\ {x \in Blocks : x.tag = "cache"} = Tagged("cache", CacheRanges)
      /\ {x \in Blocks : x.tag = "over"} = Tagged("over", overflow_table)
      /\ {x \in Blocks : x.tag = "slab"} = Tagged("slab", SlabRanges)
      /\ {x \in Blocks : x.tag = "stack"} = Tagged("stack", StackRanges)
  BY <1>2, <1>3
<1>5. PagesOf(SlabRanges) = SlabPages
  <2>1. SlabPages \subseteq Nat
    <3>1. \A b \in SlabPages : Span(b, 1) \in Extent
      BY <1>1 DEF SlabRanges
    <3>2. \A b \in SlabPages : Span(b, 1).base \in Nat
      BY <3>1, ExtentFacts
    <3>. QED
      BY <3>2 DEF Span
  <2>2. \A b \in SlabPages : Pages(Span(b, 1)) = {b}
    BY <2>1 DEF Pages, Span
  <2>. QED
    BY <2>2 DEF PagesOf, SlabRanges
<1>6. \A tag, rs : tag \in Tag /\ rs \subseteq Extent => PagesOf(Tagged(tag, rs)) = PagesOf(rs)
  BY TaggedFacts
<1>7. {"free", "lost", "cache", "over", "slab", "stack"} \subseteq Tag
  BY DEF Tag
<1>8. /\ PagesOf(Tagged("free", kvirt_free)) = PagesOf(kvirt_free)
      /\ PagesOf(Tagged("lost", lost)) = PagesOf(lost)
      /\ PagesOf(Tagged("cache", CacheRanges)) = PagesOf(CacheRanges)
      /\ PagesOf(Tagged("over", overflow_table)) = PagesOf(overflow_table)
      /\ PagesOf(Tagged("slab", SlabRanges)) = PagesOf(SlabRanges)
      /\ PagesOf(Tagged("stack", StackRanges)) = PagesOf(StackRanges)
  BY <1>1, <1>6, <1>7
<1>. QED
  BY <1>4, <1>5, <1>8

\* Ranges of any two tags, or two of one, share no page.
LEMMA RangesApart ==
    ASSUME KernelInv, NEW r, NEW s, r # s,
           {r, s} \subseteq kvirt_free \cup lost \cup CacheRanges \cup overflow_table \cup StackRanges
    PROVE  Pages(r) \cap Pages(s) = {}
<1>1. ASSUME NEW x \in kvirt_free \cup lost \cup CacheRanges \cup overflow_table \cup StackRanges
      PROVE  x \in Extent /\ \E tag \in Tag : Block(tag, x) \in Blocks
  <2>1. x \in Extent
    BY <1>1, HeldFacts DEF KernelInv, KernelTypes
  <2>2. \E tag \in Tag : Block(tag, x) \in Blocks
    BY <1>1 DEF Blocks, FreeBlocks, Held, Tagged, Tag
  <2>. QED
    BY <2>1, <2>2
<1>2. PICK tr \in Tag, ts \in Tag : Block(tr, r) \in Blocks /\ Block(ts, s) \in Blocks
  BY <1>1
<1>3. r \in Extent /\ s \in Extent
  BY <1>1
<1>4. Block(tr, r) # Block(ts, s)
  BY <1>3, BlocksDiffer
<1>5. Pages(Block(tr, r)) \cap Pages(Block(ts, s)) = {}
  BY <1>2, <1>4 DEF KernelInv, Tiles, Apart
<1>. QED
  BY <1>3, <1>5, BlockFacts

\* Whatever the order of allocations, frees, evictions and merges, a page of the kernel is
\* free, lost, cached or part of one block or stack, for any sizes of space and tables
\* (vmm.c:145-239, heap.c:134-263).
THEOREM PagesStayInPlace == KernelSpec => []PagesInOnePlace
<1>1. ASSUME KernelInv PROVE PagesInOnePlace
  <2>. DEFINE kind == <<"free", "lost", "cache", "over", "slab", "stack">>
              part(i) == {x \in Blocks : x.tag = kind[i]}
  <2>1. DOMAIN Parts = 1 .. 6 /\ \A i \in 1 .. 6 : Parts[i] = PagesOf(part(i))
    <3>1. StackRanges = {StackRange(s) : s \in stacks}
      BY DEF StackRanges
    <3>. QED
      BY <1>1, <3>1, PartIs DEF Parts
  <2>2. ASSUME NEW i \in 1 .. 6, NEW j \in 1 .. 6, i # j
        PROVE  PagesOf(part(i)) \cap PagesOf(part(j)) = {}
    <3>1. kind[i] # kind[j]
      BY <2>2
    <3>2. \A x \in part(i), y \in part(j) : x \in Blocks /\ y \in Blocks /\ x # y
      BY <3>1
    <3>. HIDE DEF part
    <3>3. \A x \in part(i), y \in part(j) : Pages(x) \cap Pages(y) = {}
      BY <1>1, <3>2 DEF KernelInv, Tiles, Apart
    <3>. QED
      BY <3>3, PagesFacts
  <2>3. UNION {Parts[i] : i \in DOMAIN Parts} = 1 .. (kvirt_next - 1)
    <3>1. \A x \in Blocks : \E i \in 1 .. 6 : x \in part(i)
      <4>1. \A x \in Blocks : x.tag \in Tag
        BY <1>1 DEF KernelInv, Tiles, BlockSet
      <4>2. \A tag \in Tag : \E i \in 1 .. 6 : tag = kind[i]
        BY DEF Tag
      <4>. HIDE DEF kind
      <4>. QED
        BY <4>1, <4>2
    <3>2. \A i \in 1 .. 6 : part(i) \subseteq Blocks
      OBVIOUS
    <3>. HIDE DEF part
    <3>3. \A v : v \in PagesOf(Blocks) <=> \E i \in 1 .. 6 : v \in PagesOf(part(i))
      BY <3>1, <3>2, PagesFacts
    <3>4. PagesOf(Blocks) = 1 .. (kvirt_next - 1)
      BY <1>1 DEF KernelInv, Tiles
    <3>5. \A v : v \in UNION {Parts[i] : i \in DOMAIN Parts} <=> \E i \in 1 .. 6 : v \in PagesOf(part(i))
      BY <2>1
    <3>. QED
      BY <3>3, <3>4, <3>5
  <2>4. \A i, j \in DOMAIN Parts : i # j => Parts[i] \cap Parts[j] = {}
    <3>. HIDE DEF part
    <3>. QED
      BY <2>1, <2>2
  <2>5. \A r, s \in kvirt_free \cup lost \cup CacheRanges \cup overflow_table \cup {StackRange(s) : s \in stacks} :
           r # s => Pages(r) \cap Pages(s) = {}
    BY <1>1, RangesApart DEF StackRanges
  <2>6. \A r, s \in kvirt_free : r.base + r.npages # s.base
    BY <1>1 DEF KernelInv, FarApart
  <2>. QED
    BY <2>3, <2>4, <2>5, <2>6 DEF PagesInOnePlace
<1>. QED
  BY <1>1, KernelInvariant, PTL

\* No two pages in use share a frame, and no page in use is without one
\* (vmm.c:182-200, task.c:80-108).
THEOREM FramesStayPrivate == KernelSpec => []FramesPrivate
<1>1. ASSUME KernelInv PROVE FramesPrivate
  <2>1. InUse \cup PagesOf(CacheRanges) = PagesOf(Held)
    <3>1. PagesOf(Held) = PagesOf(Tagged("cache", CacheRanges)) \cup PagesOf(Tagged("over", overflow_table))
            \cup PagesOf(Tagged("slab", SlabRanges)) \cup PagesOf(Tagged("stack", StackRanges))
      BY DEF Held, PagesOf
    <3>2. /\ overflow_table \subseteq Extent /\ CacheRanges \subseteq Extent
          /\ SlabRanges \subseteq Extent /\ StackRanges \subseteq Extent
      BY <1>1, HeldFacts DEF KernelInv, KernelTypes
    <3>3. /\ PagesOf(Tagged("cache", CacheRanges)) = PagesOf(CacheRanges)
          /\ PagesOf(Tagged("over", overflow_table)) = PagesOf(overflow_table)
          /\ PagesOf(Tagged("stack", StackRanges)) = PagesOf(StackRanges)
          /\ PagesOf(Tagged("slab", SlabRanges)) = PagesOf(SlabRanges)
      BY <3>2, TaggedFacts DEF Tag
    <3>4. PagesOf(SlabRanges) = SlabPages
      <4>1. \A b \in SlabPages : Span(b, 1) \in Extent
        BY <3>2 DEF SlabRanges
      <4>2. \A b \in SlabPages : Span(b, 1).base \in Nat
        BY <4>1, ExtentFacts
      <4>3. \A b \in SlabPages : b \in Nat
        BY <4>2 DEF Span
      <4>4. \A b \in SlabPages : Pages(Span(b, 1)) = {b}
        BY <4>3 DEF Pages, Span
      <4>. QED
        BY <4>4 DEF PagesOf, SlabRanges
    <3>5. InUse = PagesOf(overflow_table) \cup PagesOf(StackRanges) \cup SlabPages
      BY DEF InUse, StackRanges
    <3>. QED
      BY <3>1, <3>3, <3>4, <3>5
  <2>2. FramesOK(page_table, frames, (InUse \cup PagesOf(CacheRanges)) \ {s - 1 : s \in stacks})
    BY <1>1, <2>1 DEF KernelInv, Guards
  <2>. QED
    BY <2>2 DEF FramesOK, FramesPrivate
<1>. QED
  BY <1>1, KernelInvariant, PTL

-----------------------------------------------------------------------------
(* Address spaces                                                          *)

\* One frame is at the same page wherever it is mapped.
SamePage ==
    \A t, u \in Task : \A p \in Mapped(t), q \in Mapped(u) : pte[t][p] = pte[u][q] => p = q

\* What a task has of its heap lies below its break.
Below(b, p) == p < b.page \/ (p = b.page /\ b.inside)
HeapBelowBreak == \A t \in Task : \A p \in Heap : pte[t][p] # Unmapped => Below(brk[t], p)

SpaceInv ==
    /\ SpaceTypeOK
    /\ \A f \in UserFrame : refcounts[f] = Cardinality(Sharers(f)) + leaked[f]
    /\ bitmap = {f \in UserFrame : refcounts[f] # 0}
    /\ SamePage
    /\ WritableUnshared
    /\ HeapBelowBreak

\* What t counts for f.
Share(t, f) == IF f \in FramesOf(t) THEN 1 ELSE 0

-----------------------------------------------------------------------------
(* Counting.                                                               *)

LEMMA TasksCount ==
    ASSUME NEW S \in SUBSET Task
    PROVE  /\ IsFiniteSet(S) /\ Cardinality(S) \in Nat /\ Cardinality(S) + LeakMax < RefMax
           /\ Cardinality(S) = 0 <=> S = {}
<1>1. IsFiniteSet(Task) /\ Cardinality(Task) + LeakMax < RefMax /\ RefMax \in Nat /\ LeakMax \in Nat
  BY AddressAssumption
<1>2. IsFiniteSet(S) /\ Cardinality(S) <= Cardinality(Task)
  BY <1>1, FS_Subset
<1>3. Cardinality(Task) \in Nat /\ Cardinality(S) \in Nat
  BY <1>1, <1>2, FS_CardinalityType
<1>. QED
  BY <1>1, <1>2, <1>3, FS_EmptySet

LEMMA OneCounts ==
    ASSUME NEW t \in Task
    PROVE  1 < RefMax /\ 1 \in 0 .. RefMax
<1>1. Cardinality({t}) = 1 /\ {t} \in SUBSET Task
  BY FS_Singleton
<1>2. Cardinality({t}) + LeakMax < RefMax /\ LeakMax \in Nat /\ RefMax \in Nat
  BY <1>1, TasksCount, AddressAssumption
<1>. QED
  BY <1>1, <1>2

LEMMA SharersFinite ==
    ASSUME NEW f
    PROVE  /\ IsFiniteSet(Sharers(f)) /\ Cardinality(Sharers(f)) \in Nat
           /\ Cardinality(Sharers(f)) + LeakMax < RefMax
           /\ Cardinality(Sharers(f)) = 0 <=> Sharers(f) = {}
<1>1. Sharers(f) \in SUBSET Task
  BY DEF Sharers
<1>. QED
  BY <1>1, TasksCount

LEMMA FramesAreFrames ==
    ASSUME SpaceTypeOK, NEW t \in Task
    PROVE  /\ FramesOf(t) \subseteq UserFrame /\ Mapped(t) \subseteq Page
           /\ \A p \in Mapped(t) : pte[t][p] \in FramesOf(t)
           /\ \A p \in Page : p \in Mapped(t) <=> pte[t][p] # Unmapped
           /\ \A f : f \in FramesOf(t) <=> t \in Sharers(f)
  BY DEF SpaceTypeOK, FramesOf, Mapped, Sharers

\* What the invariant says of a count.
LEMMA CountFacts ==
    ASSUME SpaceInv
    PROVE  /\ \A f \in UserFrame : refcounts[f] \in Nat /\ refcounts[f] < RefMax
           /\ \A f \in UserFrame : refcounts[f] = 0 <=> f \notin bitmap
           /\ \A f \in UserFrame : leaked[f] \in Nat /\ leaked[f] <= LeakMax
           /\ \A f \in FreeFrames : f \in UserFrame /\ refcounts[f] = 0
           /\ \A f \in FreeFrames, t \in Task : f \notin FramesOf(t)
           /\ \A t \in Task : \A f \in FramesOf(t) : refcounts[f] > 0 /\ f \in bitmap
<1>0. /\ \A f \in UserFrame : leaked[f] \in Nat /\ leaked[f] <= LeakMax
      /\ LeakMax \in Nat /\ RefMax \in Nat
  BY AddressAssumption DEF SpaceInv, SpaceTypeOK
<1>1. /\ \A f \in UserFrame : refcounts[f] \in Nat /\ refcounts[f] < RefMax
      /\ \A f \in UserFrame : refcounts[f] = 0 <=> f \notin bitmap
      /\ \A f \in UserFrame : Sharers(f) # {} => refcounts[f] > 0
  <2>. SUFFICES ASSUME NEW f \in UserFrame
                PROVE  /\ refcounts[f] \in Nat /\ refcounts[f] < RefMax
                       /\ refcounts[f] = 0 <=> f \notin bitmap
                       /\ Sharers(f) # {} => refcounts[f] > 0
    OBVIOUS
  <2>1. refcounts[f] = Cardinality(Sharers(f)) + leaked[f] /\ (f \in bitmap <=> refcounts[f] # 0)
    BY DEF SpaceInv
  <2>2. /\ Cardinality(Sharers(f)) \in Nat /\ Cardinality(Sharers(f)) + LeakMax < RefMax
        /\ Cardinality(Sharers(f)) = 0 <=> Sharers(f) = {}
    BY SharersFinite
  <2>. QED
    BY <1>0, <2>1, <2>2
<1>2. \A f \in FreeFrames : f \in UserFrame /\ refcounts[f] = 0
  BY <1>1 DEF FreeFrames
<1>3. ASSUME NEW t \in Task, NEW f \in FramesOf(t)
      PROVE  f \in UserFrame /\ refcounts[f] > 0 /\ f \in bitmap
  <2>1. f \in UserFrame /\ t \in Sharers(f)
    BY <1>3, FramesAreFrames DEF SpaceInv
  <2>2. refcounts[f] > 0 /\ f \in bitmap
    BY <1>1, <2>1
  <2>. QED
    BY <2>1, <2>2
<1>4. ASSUME NEW f \in FreeFrames, NEW t \in Task PROVE f \notin FramesOf(t)
  BY <1>3 DEF FreeFrames
<1>. QED
  BY <1>0, <1>1, <1>2, <1>3, <1>4

\* A step that changes the pages of one task only changes its share of each count.
LEMMA CountAfter ==
    ASSUME NEW t \in Task, \A u \in Task \ {t} : FramesOf(u)' = FramesOf(u), NEW f
    PROVE  Cardinality(Sharers(f)') = Cardinality(Sharers(f)) - Share(t, f) + Share(t, f)'
<1>. DEFINE rest == Sharers(f) \ {t}
<1>1. Sharers(f)' = IF f \in FramesOf(t)' THEN rest \cup {t} ELSE rest
  BY DEF Sharers
<1>2. t \in Sharers(f) <=> f \in FramesOf(t)
  BY DEF Sharers
<1>3. IsFiniteSet(rest)
      /\ Cardinality(rest) = IF t \in Sharers(f) THEN Cardinality(Sharers(f)) - 1 ELSE Cardinality(Sharers(f))
  BY SharersFinite, FS_RemoveElement
<1>4. t \notin rest
  OBVIOUS
<1>. HIDE DEF rest
<1>5. Cardinality(rest \cup {t}) = Cardinality(rest) + 1
  BY <1>3, <1>4, FS_AddElement
<1>6. Cardinality(Sharers(f)) \in Nat
  BY SharersFinite
<1>7. Cardinality(Sharers(f)') = IF f \in FramesOf(t)' THEN Cardinality(rest) + 1 ELSE Cardinality(rest)
  BY <1>1, <1>5
<1>8. Cardinality(rest) = Cardinality(Sharers(f)) - Share(t, f)
  BY <1>2, <1>3, <1>6 DEF Share
<1>. QED
  BY <1>6, <1>7, <1>8 DEF Share

-----------------------------------------------------------------------------
(* One task's pages change.                                                *)

LEMMA OthersKeepPages ==
    ASSUME SpaceTypeOK, NEW t \in Task, NEW new \in [Page -> UserFrame \cup {Unmapped}],
           pte' = [pte EXCEPT ![t] = new]
    PROVE  /\ pte' \in [Task -> [Page -> UserFrame \cup {Unmapped}]]
           /\ pte'[t] = new
           /\ \A u \in Task \ {t} : pte'[u] = pte[u] /\ Mapped(u)' = Mapped(u) /\ FramesOf(u)' = FramesOf(u)
           /\ Mapped(t)' = {p \in Page : new[p] # Unmapped}
           /\ FramesOf(t)' = {new[p] : p \in {q \in Page : new[q] # Unmapped}}
<1>1. /\ pte' \in [Task -> [Page -> UserFrame \cup {Unmapped}]]
      /\ pte'[t] = new
      /\ \A u \in Task \ {t} : pte'[u] = pte[u]
  BY DEF SpaceTypeOK
<1>2. \A u \in Task \ {t} : Mapped(u)' = Mapped(u)
  BY <1>1 DEF Mapped
<1>3. \A u \in Task \ {t} : FramesOf(u)' = FramesOf(u)
  BY <1>1, <1>2 DEF FramesOf
<1>4. Mapped(t)' = {p \in Page : new[p] # Unmapped}
  BY <1>1 DEF Mapped
<1>5. FramesOf(t)' = {new[p] : p \in {q \in Page : new[q] # Unmapped}}
  BY <1>1, <1>4 DEF FramesOf
<1>. QED
  BY <1>1, <1>2, <1>3, <1>4, <1>5

\* What such a step has to see to.
LEMMA InvAfter ==
    ASSUME SpaceInv, SpaceTypeOK', NEW t \in Task,
           \A u \in Task \ {t} : pte'[u] = pte[u] /\ Mapped(u)' = Mapped(u) /\ FramesOf(u)' = FramesOf(u),
           \A f \in UserFrame :
              refcounts'[f] - leaked'[f] = refcounts[f] - leaked[f] - Share(t, f) + Share(t, f)',
           \A f \in UserFrame : f \in bitmap' <=> refcounts'[f] # 0,
           \A u \in Task \ {t} : brk'[u] = brk[u],
           \A p \in Heap : pte'[t][p] # Unmapped => Below(brk'[t], p),
           \A u \in Task : \A p \in Mapped(t)', q \in Mapped(u)' : pte'[t][p] = pte'[u][q] => p = q,
           \A u \in Task : \A p \in Mapped(u)' : perm'[u][p] = "rw" =>
              /\ u = t => \A w \in Task \ {t} : pte'[t][p] \notin FramesOf(w)
              /\ u # t => perm[u][p] = "rw" /\ pte'[u][p] \notin FramesOf(t)'
    PROVE  SpaceInv'
<1>1. ASSUME NEW f \in UserFrame PROVE refcounts'[f] = Cardinality(Sharers(f)') + leaked'[f]
  <2>1. Cardinality(Sharers(f)') = Cardinality(Sharers(f)) - Share(t, f) + Share(t, f)'
    BY CountAfter
  <2>2. refcounts[f] = Cardinality(Sharers(f)) + leaked[f] /\ Cardinality(Sharers(f)) \in Nat
    BY SharersFinite DEF SpaceInv
  <2>3. leaked[f] \in Nat /\ leaked'[f] \in Nat /\ refcounts'[f] \in Nat /\ refcounts[f] \in Nat
    BY AddressAssumption DEF SpaceInv, SpaceTypeOK
  <2>4. Share(t, f) \in {0, 1} /\ Share(t, f)' \in {0, 1}
    BY DEF Share
  <2>. QED
    BY <2>1, <2>2, <2>3, <2>4
<1>2. bitmap' = {f \in UserFrame : refcounts'[f] # 0}
  BY DEF SpaceTypeOK
<1>3. SamePage'
  <2>. SUFFICES ASSUME NEW u \in Task, NEW w \in Task, NEW p \in Mapped(u)', NEW q \in Mapped(w)',
                       pte'[u][p] = pte'[w][q]
                PROVE  p = q
    BY DEF SamePage
  <2>1. CASE u = t \/ w = t
    BY <2>1
  <2>2. CASE u # t /\ w # t
    BY <2>2 DEF SpaceInv, SamePage
  <2>. QED
    BY <2>1, <2>2
<1>4. WritableUnshared'
  <2>. SUFFICES ASSUME NEW u \in Task, NEW w \in Task, NEW p \in Mapped(u)', perm'[u][p] = "rw", u # w
                PROVE  pte'[u][p] \notin FramesOf(w)'
    BY DEF WritableUnshared
  <2>1. CASE u = t
    BY <2>1
  <2>2. CASE u # t /\ w = t
    BY <2>2
  <2>3. CASE u # t /\ w # t
    BY <2>3 DEF SpaceInv, WritableUnshared
  <2>. QED
    BY <2>1, <2>2, <2>3
<1>5. HeapBelowBreak'
  BY DEF SpaceInv, HeapBelowBreak, Below
<1>. QED
  BY <1>1, <1>2, <1>3, <1>4, <1>5 DEF SpaceInv

-----------------------------------------------------------------------------
(* The steps.                                                              *)

\* A copy-on-write page that one task counts is mapped by no other.
LEMMA OnlySharer ==
    ASSUME SpaceInv, NEW t \in Task, NEW f \in FramesOf(t), refcounts[f] = 1
    PROVE  \A u \in Task \ {t} : f \notin FramesOf(u)
<1>1. f \in UserFrame /\ t \in Sharers(f)
  BY FramesAreFrames DEF SpaceInv
<1>2. IsFiniteSet(Sharers(f)) /\ Cardinality(Sharers(f)) = 1
  <2>1. refcounts[f] = Cardinality(Sharers(f)) + leaked[f] /\ leaked[f] \in Nat
    BY <1>1, CountFacts DEF SpaceInv
  <2>2. /\ IsFiniteSet(Sharers(f)) /\ Cardinality(Sharers(f)) \in Nat
        /\ Cardinality(Sharers(f)) = 0 <=> Sharers(f) = {}
    BY SharersFinite
  <2>. QED
    BY <1>1, <2>1, <2>2
<1>3. {t} \in SUBSET Sharers(f) /\ Cardinality({t}) = 1
  BY <1>1, FS_Singleton
<1>4. Sharers(f) = {t}
  BY <1>2, <1>3, FS_Subset
<1>. QED
  BY <1>4 DEF Sharers

LEMMA SpaceStart == SpaceInit => SpaceInv
<1>. SUFFICES ASSUME SpaceInit PROVE SpaceInv
  OBVIOUS
<1>1. \A t \in Task : Mapped(t) = {} /\ FramesOf(t) = {}
  BY DEF SpaceInit, Mapped, FramesOf, NoPages
<1>2. \A f : Sharers(f) = {}
  BY <1>1 DEF Sharers
<1>3. Cardinality({}) = 0
  BY FS_EmptySet
<1>4. SpaceTypeOK
  BY AddressAssumption DEF SpaceInit, SpaceTypeOK, NoPages, Entries, Breaks, ImageEnd
<1>5. /\ \A f \in UserFrame : refcounts[f] = Cardinality(Sharers(f)) + leaked[f]
      /\ bitmap = {f \in UserFrame : refcounts[f] # 0}
  BY <1>2, <1>3 DEF SpaceInit
<1>6. HeapBelowBreak
  BY AddressAssumption DEF SpaceInit, NoPages, HeapBelowBreak
<1>. QED
  BY <1>1, <1>4, <1>5, <1>6 DEF SpaceInv, SamePage, WritableUnshared

\* What destroying the directory of t leaves of the counts.
LEMMA ReleasedCounts ==
    ASSUME SpaceInv, NEW t \in Task
    PROVE  /\ \A f \in UserFrame : Released(t)[f] = refcounts[f] - Share(t, f) /\ Released(t)[f] \in 0 .. RefMax
           /\ \A f \in UserFrame : f \in bitmap \ Freed(t) <=> Released(t)[f] # 0
<1>1. ASSUME NEW f \in UserFrame
      PROVE  Released(t)[f] = refcounts[f] - Share(t, f) /\ Released(t)[f] \in 0 .. RefMax
             /\ (f \in bitmap \ Freed(t) <=> Released(t)[f] # 0)
  <2>1. refcounts[f] \in Nat /\ refcounts[f] < RefMax /\ (refcounts[f] = 0 <=> f \notin bitmap)
        /\ (f \in FramesOf(t) => refcounts[f] > 0)
    BY CountFacts
  <2>2. Released(t)[f] = IF f \in FramesOf(t) /\ refcounts[f] > 0 THEN refcounts[f] - 1 ELSE refcounts[f]
    BY DEF Released, RefDec
  <2>3. Released(t)[f] = refcounts[f] - Share(t, f)
    BY <2>1, <2>2 DEF Share
  <2>4. RefMax \in Nat
    BY AddressAssumption
  <2>5. f \in bitmap \ Freed(t) <=> Released(t)[f] # 0
    BY <2>1, <2>2 DEF Freed
  <2>. QED
    BY <2>1, <2>2, <2>3, <2>4, <2>5
<1>. QED
  BY <1>1

LEMMA DestroyStep == ASSUME SpaceInv, NEW t \in Task, Destroy(t) PROVE SpaceInv'
<1>1. /\ pte' = [pte EXCEPT ![t] = NoPages] /\ perm' = [perm EXCEPT ![t] = [p \in Page |-> "ro"]]
      /\ refcounts' = Released(t) /\ bitmap' = bitmap \ Freed(t) /\ contents' = contents
      /\ brk' = brk /\ leaked' = leaked
  BY DEF Destroy
<1>2. SpaceTypeOK
  BY DEF SpaceInv
<1>3. NoPages \in [Page -> UserFrame \cup {Unmapped}]
  BY DEF NoPages
<1>4. /\ pte' \in [Task -> [Page -> UserFrame \cup {Unmapped}]]
      /\ \A u \in Task \ {t} : pte'[u] = pte[u] /\ Mapped(u)' = Mapped(u) /\ FramesOf(u)' = FramesOf(u)
      /\ Mapped(t)' = {p \in Page : NoPages[p] # Unmapped}
      /\ FramesOf(t)' = {NoPages[p] : p \in {q \in Page : NoPages[q] # Unmapped}}
  BY <1>1, <1>2, <1>3, OthersKeepPages
<1>5. Mapped(t)' = {} /\ FramesOf(t)' = {}
  BY <1>4 DEF NoPages
<1>6. SpaceTypeOK'
  <2>1. perm' \in [Task -> [Page -> Entries]]
    BY <1>1, <1>2 DEF SpaceTypeOK, Entries
  <2>2. refcounts' \in [UserFrame -> 0 .. RefMax]
    BY <1>1, ReleasedCounts DEF Released
  <2>. QED
    BY <1>1, <1>2, <1>4, <2>1, <2>2 DEF SpaceTypeOK
<1>7. \A f \in UserFrame :
         refcounts'[f] - leaked'[f] = refcounts[f] - leaked[f] - Share(t, f) + Share(t, f)'
  <2>1. \A f \in UserFrame : refcounts'[f] = refcounts[f] - Share(t, f) /\ refcounts[f] \in Nat /\ leaked[f] \in Nat
    BY <1>1, ReleasedCounts, CountFacts
  <2>2. \A f : Share(t, f)' = 0
    BY <1>5 DEF Share
  <2>. QED
    BY <1>1, <2>1, <2>2 DEF Share
<1>8. \A f \in UserFrame : f \in bitmap' <=> refcounts'[f] # 0
  BY <1>1, ReleasedCounts
<1>9. \A u \in Task \ {t} : perm'[u] = perm[u]
  BY <1>1, <1>2 DEF SpaceTypeOK
<1>10. \A p \in Heap : pte'[t][p] = Unmapped
  BY <1>1, <1>2, AddressAssumption DEF SpaceTypeOK, NoPages
<1>11. \A u \in Task \ {t} : brk'[u] = brk[u]
  BY <1>1
<1>. QED
  BY <1>4, <1>5, <1>6, <1>7, <1>8, <1>9, <1>10, <1>11, InvAfter

\* A frame for each page of the image, fresh and used once.
LEMMA LoadStep ==
    ASSUME SpaceInv, NEW t \in Task, NEW g \in [Image -> FreeFrames], NEW data \in [Image -> Value],
           Load(t, g, data)
    PROVE  SpaceInv'
<1>. DEFINE fresh == {g[p] : p \in Image}
            new == [p \in Page |-> IF p \in Image THEN g[p] ELSE Unmapped]
<1>1. /\ pte' = [pte EXCEPT ![t] = new]
      /\ perm' = [perm EXCEPT ![t] = [p \in Page |-> IF p \in Image \ TextPages THEN "rw" ELSE "ro"]]
      /\ refcounts' = [f \in UserFrame |-> IF f \in fresh THEN 1 ELSE Released(t)[f]]
      /\ bitmap' = (bitmap \ Freed(t)) \cup fresh
      /\ contents' = [f \in UserFrame |-> IF f \in fresh THEN data[CHOOSE p \in Image : g[p] = f] ELSE contents[f]]
      /\ \A p, q \in Image : g[p] = g[q] => p = q
      /\ brk' = [brk EXCEPT ![t] = ImageEnd] /\ leaked' = leaked
  BY DEF Load
<1>2. SpaceTypeOK /\ Image \subseteq Page /\ Unmapped \notin UserFrame /\ RefMax \in Nat /\ 1 \in 0 .. RefMax
  <2>1. 1 < RefMax
    BY OneCounts
  <2>. QED
    BY <2>1, AddressAssumption DEF SpaceInv
<1>3. fresh \subseteq FreeFrames /\ fresh \subseteq UserFrame
  BY DEF FreeFrames
<1>4. new \in [Page -> UserFrame \cup {Unmapped}]
  BY <1>3
<1>5. \A p \in Page : IF p \in Image THEN new[p] = g[p] /\ new[p] \in fresh /\ new[p] # Unmapped ELSE new[p] = Unmapped
  BY <1>2, <1>3
<1>6. contents' \in [UserFrame -> Value]
  <2>1. ASSUME NEW f \in fresh PROVE data[CHOOSE p \in Image : g[p] = f] \in Value
    <3>1. (CHOOSE p \in Image : g[p] = f) \in Image
      OBVIOUS
    <3>. QED
      BY <3>1
  <2>. QED
    BY <1>1, <1>2, <2>1 DEF SpaceTypeOK
<1>7. \A p \in Image : \E f \in fresh : f = g[p]
  OBVIOUS
<1>8. \A f \in fresh : \E p \in Image : f = g[p]
  OBVIOUS
<1>. HIDE DEF new, fresh
<1>9. /\ pte' \in [Task -> [Page -> UserFrame \cup {Unmapped}]] /\ pte'[t] = new
      /\ \A u \in Task \ {t} : pte'[u] = pte[u] /\ Mapped(u)' = Mapped(u) /\ FramesOf(u)' = FramesOf(u)
      /\ Mapped(t)' = {p \in Page : new[p] # Unmapped}
      /\ FramesOf(t)' = {new[p] : p \in {q \in Page : new[q] # Unmapped}}
  <2>1. SpaceTypeOK /\ pte' = [pte EXCEPT ![t] = new]
    BY <1>1, <1>2
  <2>. QED
    BY <2>1, <1>4, OthersKeepPages
<1>10. Mapped(t)' = Image /\ FramesOf(t)' = fresh
  BY <1>2, <1>5, <1>7, <1>8, <1>9
<1>11. \A f \in fresh : f \in UserFrame /\ refcounts[f] = 0 /\ \A u \in Task : f \notin FramesOf(u)
  BY <1>3, CountFacts
<1>12. SpaceTypeOK'
  <2>1. perm' \in [Task -> [Page -> Entries]]
    BY <1>1, <1>2 DEF SpaceTypeOK, Entries
  <2>2. refcounts' \in [UserFrame -> 0 .. RefMax]
    BY <1>1, <1>2, ReleasedCounts
  <2>3. bitmap' \subseteq UserFrame
    BY <1>1, <1>2, <1>3 DEF SpaceTypeOK
  <2>4. brk' \in [Task -> Breaks] /\ leaked' \in [UserFrame -> 0 .. LeakMax]
    BY <1>1, <1>2, AddressAssumption DEF SpaceTypeOK, Breaks, ImageEnd
  <2>. QED
    BY <1>6, <1>9, <2>1, <2>2, <2>3, <2>4 DEF SpaceTypeOK
<1>13. ASSUME NEW f \in UserFrame
       PROVE  /\ refcounts'[f] - leaked'[f] = refcounts[f] - leaked[f] - Share(t, f) + Share(t, f)'
              /\ f \in bitmap' <=> refcounts'[f] # 0
  <2>0. leaked'[f] = leaked[f] /\ leaked[f] \in Nat
    BY <1>1, CountFacts
  <2>1. CASE f \in fresh
    BY <1>1, <1>10, <1>11, <2>0, <2>1 DEF Share
  <2>2. CASE f \notin fresh
    <3>1. refcounts'[f] = refcounts[f] - Share(t, f) /\ (f \in bitmap' <=> refcounts'[f] # 0)
          /\ refcounts[f] \in Nat
      BY <1>1, <2>2, ReleasedCounts, CountFacts
    <3>. QED
      BY <1>10, <2>0, <2>2, <3>1 DEF Share
  <2>. QED
    BY <2>1, <2>2
<1>14. ASSUME NEW u \in Task, NEW p \in Mapped(t)', NEW q \in Mapped(u)', pte'[t][p] = pte'[u][q]
       PROVE  p = q
  <2>1. p \in Image /\ pte'[t][p] = g[p] /\ g[p] \in fresh
    BY <1>2, <1>5, <1>9, <1>10
  <2>2. CASE u = t
    BY <1>1, <1>2, <1>5, <1>9, <1>10, <1>14, <2>1, <2>2
  <2>3. CASE u # t
    <3>1. q \in Mapped(u) /\ pte'[u][q] = pte[u][q]
      BY <1>9, <2>3
    <3>2. pte[u][q] \in FramesOf(u)
      BY <1>2, <3>1, FramesAreFrames
    <3>3. pte[u][q] \in fresh
      BY <1>14, <2>1, <3>1
    <3>. QED
      BY <1>11, <3>2, <3>3
  <2>. QED
    BY <2>2, <2>3
<1>15. ASSUME NEW u \in Task, NEW p \in Mapped(u)', perm'[u][p] = "rw"
       PROVE  /\ u = t => \A w \in Task \ {t} : pte'[t][p] \notin FramesOf(w)
              /\ u # t => perm[u][p] = "rw" /\ pte'[u][p] \notin FramesOf(t)'
  <2>1. CASE u = t
    BY <1>2, <1>5, <1>9, <1>10, <1>11, <2>1
  <2>2. CASE u # t
    <3>1. pte'[u][p] \in FramesOf(u)
      BY <1>2, <1>9, <2>2, FramesAreFrames
    <3>2. perm'[u] = perm[u]
      BY <1>1, <1>2, <2>2 DEF SpaceTypeOK
    <3>. QED
      BY <1>10, <1>11, <1>15, <2>2, <3>1, <3>2
  <2>. QED
    BY <2>1, <2>2
<1>16. \A p \in Heap : pte'[t][p] = Unmapped
  BY <1>5, <1>9, AddressAssumption
<1>17. \A u \in Task \ {t} : brk'[u] = brk[u]
  BY <1>1, <1>2 DEF SpaceTypeOK
<1>. QED
  BY <1>9, <1>12, <1>13, <1>14, <1>15, <1>16, <1>17, InvAfter

\* One page of t gets a fresh frame, which it may write: brk, and a fault on a
\* page that is shared.
LEMMA FreshPage ==
    ASSUME SpaceInv, SpaceTypeOK', NEW t \in Task, NEW p \in Page, NEW f \in FreeFrames,
           \A u \in Task \ {t} : pte'[u] = pte[u] /\ perm'[u] = perm[u],
           \A q \in Page : q # p => pte'[t][q] = pte[t][q] /\ perm'[t][q] = perm[t][q],
           pte'[t][p] = f, refcounts'[f] = 1, leaked'[f] = leaked[f],
           \A e \in UserFrame : e # f => refcounts'[e] # 0 <=> refcounts[e] # 0,
           \A e \in UserFrame : e # f =>
              refcounts'[e] - leaked'[e]
                 = refcounts[e] - leaked[e] - (IF e = pte[t][p] THEN 1 ELSE 0),
           bitmap' = bitmap \cup {f},
           \A u \in Task \ {t} : brk'[u] = brk[u],
           \A q \in Heap : q = p \/ Below(brk[t], q) => Below(brk'[t], q)
    PROVE  SpaceInv'
<1>1. SpaceTypeOK /\ Unmapped \notin UserFrame /\ f \in UserFrame /\ refcounts[f] = 0
      /\ \A u \in Task : f \notin FramesOf(u)
  BY AddressAssumption, CountFacts DEF SpaceInv
<1>2. \A u \in Task \ {t} : Mapped(u)' = Mapped(u)
  BY DEF Mapped
<1>3. \A u \in Task \ {t} : FramesOf(u)' = FramesOf(u)
  BY <1>2 DEF FramesOf
<1>4. \A u \in Task \ {t} : pte'[u] = pte[u] /\ Mapped(u)' = Mapped(u) /\ FramesOf(u)' = FramesOf(u)
  BY <1>2, <1>3
<1>5. /\ Mapped(t)' = {q \in Page : pte'[t][q] # Unmapped}
      /\ FramesOf(t)' = {pte'[t][q] : q \in {r \in Page : pte'[t][r] # Unmapped}}
  BY DEF Mapped, FramesOf
<1>6. Mapped(t)' = Mapped(t) \cup {p} /\ p \in Mapped(t)'
  BY <1>1, <1>5 DEF Mapped
<1>7. ASSUME NEW e PROVE e \in FramesOf(t)' <=> e = f \/ (e \in FramesOf(t) /\ e # pte[t][p])
  <2>1. ASSUME e \in FramesOf(t)' PROVE e = f \/ (e \in FramesOf(t) /\ e # pte[t][p])
    <3>1. PICK q \in Page : e = pte'[t][q] /\ pte'[t][q] # Unmapped
      BY <1>5, <2>1
    <3>2. CASE q = p
      BY <1>5, <3>1, <3>2
    <3>3. CASE q # p
      <4>1. e = pte[t][q] /\ q \in Mapped(t)
        BY <1>5, <3>1, <3>3 DEF Mapped
      <4>2. pte[t][p] = pte[t][q] => p \in Mapped(t)
        BY <4>1 DEF Mapped
      <4>. QED
        BY <3>3, <4>1, <4>2 DEF FramesOf, SpaceInv, SamePage
    <3>. QED
      BY <3>2, <3>3
  <2>2. ASSUME e \in FramesOf(t), e # pte[t][p] PROVE e \in FramesOf(t)'
    <3>1. PICK q \in Mapped(t) : e = pte[t][q]
      BY <2>2 DEF FramesOf
    <3>2. q \in Page /\ q # p /\ pte[t][q] # Unmapped
      BY <2>2, <3>1 DEF Mapped
    <3>. QED
      BY <1>5, <3>1, <3>2
  <2>3. f \in FramesOf(t)'
    BY <1>1, <1>5
  <2>. QED
    BY <2>1, <2>2, <2>3
<1>8. ASSUME NEW e \in UserFrame
      PROVE  /\ refcounts'[e] - leaked'[e] = refcounts[e] - leaked[e] - Share(t, e) + Share(t, e)'
             /\ e \in bitmap' <=> refcounts'[e] # 0
  <2>1. /\ refcounts[e] \in Nat /\ leaked[e] \in Nat /\ (refcounts[e] = 0 <=> e \notin bitmap)
        /\ refcounts'[e] \in Nat /\ leaked'[e] \in Nat
    BY CountFacts, AddressAssumption DEF SpaceTypeOK
  <2>2. CASE e = f
    BY <1>1, <1>7, <2>1, <2>2 DEF Share
  <2>3. CASE e # f /\ e = pte[t][p]
    <3>1. e \in FramesOf(t)
      BY <1>1, <2>3 DEF FramesOf, Mapped
    <3>2. Share(t, e) = 1 /\ Share(t, e)' = 0
      BY <1>7, <2>3, <3>1 DEF Share
    <3>. QED
      BY <2>1, <2>3, <3>2
  <2>4. CASE e # f /\ e # pte[t][p]
    <3>1. refcounts'[e] - leaked'[e] = refcounts[e] - leaked[e] /\ (e \in bitmap' <=> e \in bitmap)
      BY <2>1, <2>4
    <3>2. Share(t, e)' = Share(t, e) /\ Share(t, e) \in {0, 1}
      BY <1>7, <2>4 DEF Share
    <3>. QED
      BY <2>1, <2>4, <3>1, <3>2
  <2>. QED
    BY <2>2, <2>3, <2>4
<1>9. \A q \in Mapped(t)' : pte'[t][q] = IF q = p THEN f ELSE pte[t][q]
  BY <1>5 DEF Mapped
<1>10. \A q \in Mapped(t)' : q # p => q \in Mapped(t)
  BY <1>6
<1>11. ASSUME NEW u \in Task, NEW q \in Mapped(t)', NEW r \in Mapped(u)', pte'[t][q] = pte'[u][r]
       PROVE  q = r
  <2>1. CASE u = t
    <3>1. CASE q = p \/ r = p
      BY <1>1, <1>6, <1>9, <1>10, <1>11, <2>1, <3>1, FramesAreFrames
    <3>2. CASE q # p /\ r # p
      BY <1>9, <1>10, <1>11, <2>1, <3>2 DEF SpaceInv, SamePage
    <3>. QED
      BY <3>1, <3>2
  <2>2. CASE u # t
    <3>1. pte'[u][r] = pte[u][r] /\ r \in Mapped(u) /\ pte[u][r] \in FramesOf(u)
      BY <1>1, <1>4, <2>2, FramesAreFrames
    <3>2. q # p
      BY <1>1, <1>9, <1>11, <3>1
    <3>. QED
      BY <1>9, <1>10, <1>11, <3>1, <3>2 DEF SpaceInv, SamePage
  <2>. QED
    BY <2>1, <2>2
<1>12. /\ \A u \in Task \ {t} : perm'[u] = perm[u]
       /\ \A q \in Page : q # p => perm'[t][q] = perm[t][q]
  OBVIOUS
<1>13. ASSUME NEW u \in Task, NEW q \in Mapped(u)', perm'[u][q] = "rw"
       PROVE  /\ u = t => \A w \in Task \ {t} : pte'[t][q] \notin FramesOf(w)
              /\ u # t => perm[u][q] = "rw" /\ pte'[u][q] \notin FramesOf(t)'
  <2>1. CASE u = t /\ q = p
    BY <1>1, <1>9, <2>1
  <2>2. CASE u = t /\ q # p
    <3>1. q \in Mapped(t) /\ q \in Page /\ pte'[t][q] = pte[t][q]
      BY <1>9, <1>10, <1>13, <2>2 DEF Mapped
    <3>2. perm[t][q] = "rw"
      BY <1>12, <1>13, <2>2, <3>1
    <3>. QED
      BY <2>2, <3>1, <3>2 DEF SpaceInv, WritableUnshared
  <2>3. CASE u # t
    <3>1. q \in Mapped(u) /\ pte'[u][q] = pte[u][q] /\ perm[u][q] = "rw" /\ pte[u][q] \in FramesOf(u)
      BY <1>1, <1>4, <1>12, <1>13, <2>3, FramesAreFrames
    <3>2. pte[u][q] \notin FramesOf(t) /\ pte[u][q] # f
      BY <1>1, <2>3, <3>1 DEF SpaceInv, WritableUnshared
    <3>. QED
      BY <1>7, <2>3, <3>1, <3>2
  <2>. QED
    BY <2>1, <2>2, <2>3
<1>14. \A q \in Heap : pte'[t][q] # Unmapped => Below(brk'[t], q)
  <2>. SUFFICES ASSUME NEW q \in Heap, pte'[t][q] # Unmapped PROVE Below(brk'[t], q)
    OBVIOUS
  <2>1. CASE q = p
    BY <2>1
  <2>2. CASE q # p
    <3>1. q \in Page /\ pte[t][q] # Unmapped
      BY <2>2, AddressAssumption
    <3>2. Below(brk[t], q)
      BY <3>1 DEF SpaceInv, HeapBelowBreak
    <3>. QED
      BY <3>2
  <2>. QED
    BY <2>1, <2>2
<1>. QED
  BY <1>4, <1>8, <1>11, <1>13, <1>14, InvAfter

\* brk.
LEMMA BrkStep ==
    ASSUME SpaceInv, NEW t \in Task, NEW c \in Breaks, NEW f \in FreeFrames, Brk(t, c, f)
    PROVE  SpaceInv'
<1>. DEFINE p == brk[t].page
            new == [q \in Page |-> IF q = p THEN f ELSE pte[t][q]]
            access == [q \in Page |-> IF q = p THEN "rw" ELSE perm[t][q]]
<1>1. SpaceTypeOK /\ f \in UserFrame /\ Unmapped \notin UserFrame /\ 1 \in 0 .. RefMax
  BY OneCounts, AddressAssumption DEF SpaceInv, FreeFrames
<1>2. pte' = [pte EXCEPT ![t] = new]
  <2>1. pte' = [pte EXCEPT ![t] = [pte[t] EXCEPT ![p] = f]]
    BY Zenon DEF Brk
  <2>2. [pte[t] EXCEPT ![p] = f] = new
    BY <1>1 DEF SpaceTypeOK
  <2>. QED
    BY <2>1, <2>2
<1>3. perm' = [perm EXCEPT ![t] = access]
  <2>1. perm' = [perm EXCEPT ![t] = [perm[t] EXCEPT ![p] = "rw"]]
    BY Zenon DEF Brk
  <2>2. [perm[t] EXCEPT ![p] = "rw"] = access
    BY <1>1 DEF SpaceTypeOK
  <2>. QED
    BY <2>1, <2>2
<1>4. /\ refcounts' = [refcounts EXCEPT ![f] = 1] /\ bitmap' = bitmap \cup {f} /\ contents' = contents
      /\ brk' = [brk EXCEPT ![t] = c] /\ p \in Heap /\ c \in Further(brk[t])
      /\ IF p \in Mapped(t)
         THEN leaked[pte[t][p]] < LeakMax /\ leaked' = [leaked EXCEPT ![pte[t][p]] = @ + 1]
         ELSE leaked' = leaked
  BY DEF Brk
<1>5. p \in Page /\ p \in Nat /\ brk[t] \in Breaks
  BY <1>1, <1>4, AddressAssumption DEF SpaceTypeOK, Heap
<1>6. p \in Mapped(t) => pte[t][p] \in UserFrame /\ pte[t][p] \in FramesOf(t) /\ pte[t][p] # f
  BY <1>1, FramesAreFrames, CountFacts
<1>7. leaked' \in [UserFrame -> 0 .. LeakMax]
      /\ \A e \in UserFrame : leaked'[e] = IF e = pte[t][p] THEN leaked[e] + 1 ELSE leaked[e]
  <2>1. leaked \in [UserFrame -> 0 .. LeakMax] /\ LeakMax \in Nat
    BY <1>1, AddressAssumption DEF SpaceTypeOK
  <2>2. CASE p \in Mapped(t)
    BY <1>4, <1>6, <2>1, <2>2
  <2>3. CASE p \notin Mapped(t)
    BY <1>1, <1>4, <1>5, <2>1, <2>3 DEF Mapped
  <2>. QED
    BY <2>2, <2>3
<1>8. new[p] = f /\ \A q \in Page : q # p => new[q] = pte[t][q] /\ access[q] = perm[t][q]
  BY <1>5
<1>9. new \in [Page -> UserFrame \cup {Unmapped}] /\ access \in [Page -> Entries]
  BY <1>1 DEF SpaceTypeOK, Entries
<1>10. \A q \in Heap : q = p \/ Below(brk[t], q) => Below(c, q)
  BY <1>4, <1>5 DEF Below, Further, Breaks, Heap
<1>. HIDE DEF new, access, p
<1>11. SpaceTypeOK'
  <2>1. pte' \in [Task -> [Page -> UserFrame \union {Unmapped}]] /\ perm' \in [Task -> [Page -> Entries]]
    BY <1>1, <1>2, <1>3, <1>9 DEF SpaceTypeOK
  <2>2. refcounts' \in [UserFrame -> 0 .. RefMax] /\ bitmap' \subseteq UserFrame
        /\ brk' \in [Task -> Breaks] /\ contents' \in [UserFrame -> Value]
    BY <1>1, <1>4 DEF SpaceTypeOK
  <2>. QED
    BY <1>7, <2>1, <2>2 DEF SpaceTypeOK
<1>12. /\ \A u \in Task \ {t} : pte'[u] = pte[u] /\ perm'[u] = perm[u] /\ brk'[u] = brk[u]
       /\ \A q \in Page : q # p => pte'[t][q] = pte[t][q] /\ perm'[t][q] = perm[t][q]
       /\ pte'[t][p] = f /\ brk'[t] = c
  BY <1>1, <1>2, <1>3, <1>4, <1>8 DEF SpaceTypeOK
<1>13. /\ refcounts'[f] = 1
       /\ \A e \in UserFrame : e # f => refcounts'[e] = refcounts[e]
  BY <1>1, <1>4 DEF SpaceTypeOK
<1>14. pte[t][p] # f
  BY <1>1, <1>5, <1>6 DEF Mapped
<1>15. \A e \in UserFrame : e # f =>
          refcounts'[e] - leaked'[e] = refcounts[e] - leaked[e] - (IF e = pte[t][p] THEN 1 ELSE 0)
  BY <1>7, <1>13, CountFacts
<1>16. leaked'[f] = leaked[f]
  BY <1>1, <1>7, <1>14
<1>. QED
  BY <1>4, <1>5, <1>10, <1>11, <1>12, <1>13, <1>15, <1>16, FreshPage

\* A fault on a page that others map too.
LEMMA CowFaultSharedStep ==
    ASSUME SpaceInv, NEW t \in Task, NEW p \in Page, NEW f \in FreeFrames, CowFaultShared(t, p, f)
    PROVE  SpaceInv'
<1>. DEFINE new == [q \in Page |-> IF q = p THEN f ELSE pte[t][q]]
            access == [q \in Page |-> IF q = p THEN "rw" ELSE perm[t][q]]
            old == pte[t][p]
<1>1. SpaceTypeOK /\ f \in UserFrame /\ Unmapped \notin UserFrame /\ 1 \in 0 .. RefMax
  BY OneCounts, AddressAssumption DEF SpaceInv, FreeFrames
<1>2. pte' = [pte EXCEPT ![t] = new]
  <2>1. pte' = [pte EXCEPT ![t] = [pte[t] EXCEPT ![p] = f]]
    BY Zenon DEF CowFaultShared
  <2>2. [pte[t] EXCEPT ![p] = f] = new
    BY <1>1 DEF SpaceTypeOK
  <2>. QED
    BY <2>1, <2>2
<1>3. perm' = [perm EXCEPT ![t] = access]
  <2>1. perm' = [perm EXCEPT ![t] = [perm[t] EXCEPT ![p] = "rw"]]
    BY Zenon DEF CowFaultShared
  <2>2. [perm[t] EXCEPT ![p] = "rw"] = access
    BY <1>1 DEF SpaceTypeOK
  <2>. QED
    BY <2>1, <2>2
<1>4. /\ p \in Mapped(t) /\ refcounts[old] # 1
      /\ refcounts' = [refcounts EXCEPT ![old] = IF @ > 0 THEN @ - 1 ELSE @, ![f] = 1]
      /\ contents' = [contents EXCEPT ![f] = contents[old]]
      /\ bitmap' = bitmap \cup {f} /\ brk' = brk /\ leaked' = leaked
  BY DEF CowFaultShared
<1>5. old \in FramesOf(t) /\ old \in UserFrame /\ old # f /\ refcounts[old] \in Nat /\ refcounts[old] > 0
      /\ refcounts[old] < RefMax
  <2>1. old \in FramesOf(t) /\ old \in UserFrame
    BY <1>1, <1>4, FramesAreFrames
  <2>. QED
    BY <2>1, CountFacts
<1>. HIDE DEF old
<1>6. SpaceTypeOK'
  <2>1. new \in [Page -> UserFrame \cup {Unmapped}] /\ access \in [Page -> Entries]
    BY <1>1 DEF SpaceTypeOK, Entries
  <2>. HIDE DEF new, access
  <2>2. refcounts' \in [UserFrame -> 0 .. RefMax]
    BY <1>1, <1>4, <1>5, AddressAssumption DEF SpaceTypeOK
  <2>. QED
    BY <1>1, <1>2, <1>3, <1>4, <1>5, <2>1, <2>2 DEF SpaceTypeOK
<1>7. new[p] = f /\ \A q \in Page : q # p => new[q] = pte[t][q] /\ access[q] = perm[t][q]
  OBVIOUS
<1>. HIDE DEF new, access
<1>8. /\ \A u \in Task \ {t} : pte'[u] = pte[u] /\ perm'[u] = perm[u]
      /\ \A q \in Page : q # p => pte'[t][q] = pte[t][q] /\ perm'[t][q] = perm[t][q]
      /\ pte'[t][p] = f
  BY <1>1, <1>2, <1>3, <1>7 DEF SpaceTypeOK
<1>9. \A e \in UserFrame : refcounts'[e] = IF e = f THEN 1 ELSE IF e = old THEN refcounts[e] - 1 ELSE refcounts[e]
  BY <1>1, <1>4, <1>5 DEF SpaceTypeOK
<1>10. \A e \in UserFrame : e # f => refcounts'[e] # 0 <=> refcounts[e] # 0
  <2>. SUFFICES ASSUME NEW e \in UserFrame, e # f PROVE refcounts'[e] # 0 <=> refcounts[e] # 0
    OBVIOUS
  <2>1. CASE e = old
    <3>1. refcounts'[e] = refcounts[old] - 1 /\ refcounts[e] = refcounts[old]
      BY <1>9, <2>1
    <3>. QED
      BY <1>4, <1>5, <3>1
  <2>2. CASE e # old
    BY <1>9, <2>2
  <2>. QED
    BY <2>1, <2>2
<1>11. \A e \in UserFrame : e # f =>
          refcounts'[e] - leaked'[e] = refcounts[e] - leaked[e] - (IF e = pte[t][p] THEN 1 ELSE 0)
  <2>. SUFFICES ASSUME NEW e \in UserFrame, e # f
                PROVE  refcounts'[e] - leaked[e] = refcounts[e] - leaked[e] - (IF e = old THEN 1 ELSE 0)
    BY <1>4 DEF old
  <2>1. refcounts'[e] = (IF e = old THEN refcounts[e] - 1 ELSE refcounts[e])
        /\ refcounts[e] \in Nat /\ leaked[e] \in Nat
    BY <1>9, CountFacts
  <2>. QED
    BY <2>1
<1>12. \A q \in Heap : q = p \/ Below(brk[t], q) => Below(brk'[t], q)
  <2>1. p \in Heap => Below(brk[t], p)
    BY <1>4 DEF SpaceInv, HeapBelowBreak, Mapped
  <2>. QED
    BY <1>4, <2>1
<1>13. refcounts'[f] = 1 /\ leaked'[f] = leaked[f]
  BY <1>1, <1>4, <1>9
<1>14. bitmap' = bitmap \cup {f} /\ \A u \in Task \ {t} : brk'[u] = brk[u]
  BY <1>4
<1>. QED
  BY <1>6, <1>8, <1>10, <1>11, <1>12, <1>13, <1>14, FreshPage

\* A fault on a page that nobody else maps any more.
LEMMA CowFaultAloneStep ==
    ASSUME SpaceInv, NEW t \in Task, NEW p \in Page, CowFaultAlone(t, p)
    PROVE  SpaceInv'
<1>. DEFINE access == [perm[t] EXCEPT ![p] = "rw"]
<1>1. perm' = [perm EXCEPT ![t] = access]
  BY Zenon DEF CowFaultAlone
<1>2. SpaceTypeOK /\ p \in Mapped(t) /\ refcounts[pte[t][p]] = 1
      /\ pte' = pte /\ refcounts' = refcounts /\ bitmap' = bitmap /\ contents' = contents
      /\ brk' = brk /\ leaked' = leaked
  BY DEF CowFaultAlone, SpaceInv
<1>3. access \in [Page -> Entries] /\ \A q \in Page : q # p => access[q] = perm[t][q]
  BY <1>2 DEF SpaceTypeOK, Entries
<1>. HIDE DEF access
<1>4. SpaceTypeOK'
  BY <1>1, <1>2, <1>3 DEF SpaceTypeOK
<1>5. /\ \A u \in Task : Mapped(u)' = Mapped(u) /\ FramesOf(u)' = FramesOf(u)
      /\ \A f : Sharers(f)' = Sharers(f)
  BY <1>2 DEF Mapped, FramesOf, Sharers
<1>6. \A u \in Task : \A q \in Page : u # t \/ q # p => perm'[u][q] = perm[u][q]
  BY <1>1, <1>2, <1>3 DEF SpaceTypeOK
<1>7. WritableUnshared'
  <2>. SUFFICES ASSUME NEW u \in Task, NEW w \in Task, NEW q \in Mapped(u), perm'[u][q] = "rw", u # w
                PROVE  pte[u][q] \notin FramesOf(w)
    BY <1>2, <1>5 DEF WritableUnshared
  <2>1. CASE u = t /\ q = p
    BY <1>2, <2>1, OnlySharer, FramesAreFrames
  <2>2. CASE u # t \/ q # p
    <3>1. perm[u][q] = "rw"
      BY <1>6, <2>2 DEF Mapped
    <3>. QED
      BY <3>1 DEF SpaceInv, WritableUnshared
  <2>. QED
    BY <2>1, <2>2
<1>. QED
  BY <1>2, <1>4, <1>5, <1>7 DEF SpaceInv, SamePage, HeapBelowBreak, Below

\* A store changes the content of a frame only.
LEMMA WriteStep ==
    ASSUME SpaceInv, NEW t \in Task, NEW p \in Page, NEW v \in Value, UserWrite(t, p, v) \/ KernelWrite(t, p, v)
    PROVE  SpaceInv'
<1>1. /\ pte' = pte /\ perm' = perm /\ refcounts' = refcounts /\ bitmap' = bitmap
      /\ contents' = [contents EXCEPT ![pte[t][p]] = v] /\ brk' = brk /\ leaked' = leaked
  BY DEF UserWrite, KernelWrite
<1>2. SpaceTypeOK'
  BY <1>1 DEF SpaceInv, SpaceTypeOK
<1>3. \A u \in Task : Mapped(u)' = Mapped(u) /\ FramesOf(u)' = FramesOf(u)
  BY <1>1 DEF Mapped, FramesOf
<1>4. \A f : Sharers(f)' = Sharers(f)
  BY <1>3 DEF Sharers
<1>. QED
  BY <1>1, <1>2, <1>3, <1>4 DEF SpaceInv, SamePage, WritableUnshared, HeapBelowBreak, Below

\* A fork: the child gets what the parent has, and what both could write they now
\* share read-only.
LEMMA CloneStep ==
    ASSUME SpaceInv, NEW t \in Task, NEW c \in Task, Clone(t, c)
    PROVE  SpaceInv'
<1>. DEFINE shared == [p \in Page |-> IF p \in Mapped(t) /\ perm[t][p] = "rw" THEN "cow" ELSE perm[t][p]]
<1>1. /\ Mapped(t) # {} /\ Mapped(c) = {} /\ t # c
      /\ perm' = [perm EXCEPT ![t] = shared, ![c] = shared]
      /\ pte' = [pte EXCEPT ![c] = pte[t]]
      /\ refcounts' = [f \in UserFrame |-> RefInc(t, f)]
      /\ bitmap' = bitmap /\ contents' = contents /\ leaked' = leaked
      /\ brk' = [brk EXCEPT ![c] = brk[t]]
  BY DEF Clone
<1>2. SpaceTypeOK
  BY DEF SpaceInv
<1>3. shared \in [Page -> Entries] /\ \A p \in Mapped(t) : shared[p] # "rw"
  BY <1>2 DEF SpaceTypeOK, Entries, Mapped
<1>. HIDE DEF shared
<1>4. /\ pte'[c] = pte[t] /\ perm'[t] = shared /\ perm'[c] = shared
      /\ \A u \in Task \ {c} : pte'[u] = pte[u]
      /\ \A u \in Task \ {t, c} : perm'[u] = perm[u]
  BY <1>1, <1>2 DEF SpaceTypeOK
<1>5. /\ Mapped(c)' = Mapped(t)
      /\ \A u \in Task \ {c} : Mapped(u)' = Mapped(u)
  BY <1>4 DEF Mapped
<1>6. /\ FramesOf(c)' = FramesOf(t) /\ FramesOf(c) = {}
      /\ \A u \in Task \ {c} : pte'[u] = pte[u] /\ Mapped(u)' = Mapped(u) /\ FramesOf(u)' = FramesOf(u)
  BY <1>1, <1>4, <1>5 DEF FramesOf
<1>7. \A f \in UserFrame :
         /\ refcounts'[f] - leaked'[f] = refcounts[f] - leaked[f] - Share(c, f) + Share(c, f)'
         /\ f \in bitmap' <=> refcounts'[f] # 0
         /\ refcounts'[f] \in 0 .. RefMax
  <2>. SUFFICES ASSUME NEW f \in UserFrame
                PROVE  /\ refcounts'[f] - leaked'[f] = refcounts[f] - leaked[f] - Share(c, f) + Share(c, f)'
                       /\ f \in bitmap' <=> refcounts'[f] # 0
                       /\ refcounts'[f] \in 0 .. RefMax
    OBVIOUS
  <2>1. refcounts[f] \in Nat /\ refcounts[f] < RefMax /\ (refcounts[f] = 0 <=> f \notin bitmap)
        /\ (f \in FramesOf(t) => refcounts[f] > 0) /\ RefMax \in Nat /\ leaked[f] \in Nat
    BY CountFacts, AddressAssumption
  <2>2. refcounts'[f] = IF f \in FramesOf(t) THEN refcounts[f] + 1 ELSE refcounts[f]
    BY <1>1, <2>1 DEF RefInc
  <2>3. Share(c, f) = 0 /\ Share(c, f)' = IF f \in FramesOf(t) THEN 1 ELSE 0
    BY <1>6 DEF Share
  <2>. QED
    BY <1>1, <2>1, <2>2, <2>3
<1>8. SpaceTypeOK'
  <2>1. refcounts' \in [UserFrame -> 0 .. RefMax]
    BY <1>1, <1>7
  <2>. QED
    BY <1>1, <1>2, <1>3, <2>1 DEF SpaceTypeOK
<1>9. ASSUME NEW u \in Task, NEW p \in Mapped(c)', NEW q \in Mapped(u)', pte'[c][p] = pte'[u][q]
      PROVE  p = q
  <2>1. p \in Mapped(t) /\ pte'[c][p] = pte[t][p]
    BY <1>4, <1>5
  <2>2. PICK w \in Task : q \in Mapped(w) /\ pte'[u][q] = pte[w][q]
    BY <1>4, <1>5
  <2>. QED
    BY <1>9, <2>1, <2>2 DEF SpaceInv, SamePage
<1>10. ASSUME NEW u \in Task, NEW p \in Mapped(u)', perm'[u][p] = "rw"
       PROVE  /\ u = c => \A w \in Task \ {c} : pte'[c][p] \notin FramesOf(w)
              /\ u # c => perm[u][p] = "rw" /\ pte'[u][p] \notin FramesOf(c)'
  <2>1. u # c /\ u # t
    BY <1>3, <1>4, <1>5, <1>10
  <2>2. p \in Mapped(u) /\ perm[u][p] = "rw" /\ pte'[u][p] = pte[u][p]
    BY <1>4, <1>6, <1>10, <2>1
  <2>. QED
    BY <1>6, <2>1, <2>2 DEF SpaceInv, WritableUnshared
<1>11. /\ \A u \in Task \ {c} : brk'[u] = brk[u]
       /\ \A p \in Heap : pte'[c][p] # Unmapped => Below(brk'[c], p)
  BY <1>1, <1>2, <1>4 DEF SpaceInv, SpaceTypeOK, HeapBelowBreak
<1>. QED
  BY <1>6, <1>7, <1>8, <1>9, <1>10, <1>11, InvAfter

LEMMA SpaceStep == SpaceInv /\ [SpaceNext]_spaceVars => SpaceInv'
<1>. SUFFICES ASSUME SpaceInv, [SpaceNext]_spaceVars PROVE SpaceInv'
  OBVIOUS
<1>1. CASE UNCHANGED spaceVars
  <2>1. /\ pte' = pte /\ perm' = perm /\ refcounts' = refcounts /\ bitmap' = bitmap
        /\ contents' = contents /\ brk' = brk /\ leaked' = leaked
    BY <1>1 DEF spaceVars
  <2>2. \A t : Mapped(t)' = Mapped(t) /\ FramesOf(t)' = FramesOf(t)
    BY <2>1 DEF Mapped, FramesOf
  <2>3. \A f : Sharers(f)' = Sharers(f)
    BY <2>2 DEF Sharers
  <2>. QED
    BY <2>1, <2>2, <2>3 DEF SpaceInv, SpaceTypeOK, SamePage, WritableUnshared, HeapBelowBreak, Below
<1>2. CASE SpaceNext
  <2>1. PICK t \in Task :
           \/ \E g \in [Image -> FreeFrames], data \in [Image -> Value] : Load(t, g, data)
           \/ \E c \in Task : Clone(t, c)
           \/ Destroy(t)
           \/ \E p \in Page : CowFaultAlone(t, p)
           \/ \E c \in Breaks, f \in FreeFrames : Brk(t, c, f)
           \/ \E p \in Page : \E f \in FreeFrames : CowFaultShared(t, p, f)
           \/ \E p \in Page : \E v \in Value : UserWrite(t, p, v) \/ KernelWrite(t, p, v)
    BY <1>2 DEF SpaceNext, Create, Exec
  <2>. QED
    BY <2>1, LoadStep, CloneStep, DestroyStep, CowFaultAloneStep, BrkStep, CowFaultSharedStep, WriteStep
<1>. QED
  BY <1>1, <1>2

\* After any sequence of loads, forks, faults, stores, brks and kills the counts of the
\* frames, the bitmap and the entries fit together, and what a task has of its heap
\* lies below its break (pmm.c:41-45, vmm.h:41-43, syscall.c:858-875).
THEOREM SpaceInvariant == SpaceSpec => []SpaceInv
<1>. QED
  BY SpaceStart, SpaceStep, PTL DEF SpaceSpec

\* The count of a frame is the number of tasks that map it and of the entries for it
\* that brk has overwritten, and the frames that count nothing are the free ones,
\* whatever was shared and given up before: brk is the only operation that loses a
\* frame (pmm.c:41-45, syscall.c:866).
THEOREM CountsAreRight == SpaceSpec => []CountsMatchSharers
<1>1. SpaceInv => CountsMatchSharers
  BY DEF SpaceInv, SamePage, CountsMatchSharers
<1>. QED
  BY <1>1, SpaceInvariant, PTL

\* A page that can be written without a fault is in one address space only
\* (vmm.h:41-43).
THEOREM WritablePagesUnshared == SpaceSpec => []WritableUnshared
<1>1. SpaceInv => WritableUnshared
  BY DEF SpaceInv
<1>. QED
  BY <1>1, SpaceInvariant, PTL

-----------------------------------------------------------------------------
(* What the tasks see.                                                     *)

Seen == [t \in Task |-> [p \in Page |-> IF pte[t][p] = Unmapped
                                        THEN Unmapped ELSE contents[pte[t][p]]]]

LEMMA OneTaskSees ==
    ASSUME NEW t \in Task, NEW new, new = [p \in Page |-> new[p]],
           \A u \in Task \ {t} : \A p \in Page : Seen'[u][p] = Seen[u][p],
           \A p \in Page : Seen'[t][p] = new[p]
    PROVE  Seen' = [Seen EXCEPT ![t] = new]
<1>1. \A u \in Task : Seen[u] = [p \in Page |-> Seen[u][p]] /\ Seen'[u] = [p \in Page |-> Seen'[u][p]]
  BY DEF Seen
<1>2. Seen = [u \in Task |-> Seen[u]] /\ Seen' = [u \in Task |-> Seen'[u]]
  BY DEF Seen
<1>3. \A u \in Task \ {t} : Seen'[u] = Seen[u]
  BY <1>1
<1>4. Seen'[t] = new
  BY <1>1
<1>. QED
  BY <1>2, <1>3, <1>4

LEMMA SeenAt ==
    ASSUME NEW t \in Task, NEW p \in Page
    PROVE  /\ Seen[t][p] = IF pte[t][p] = Unmapped THEN Unmapped ELSE contents[pte[t][p]]
           /\ Seen'[t][p] = IF pte'[t][p] = Unmapped THEN Unmapped ELSE contents'[pte'[t][p]]
  BY DEF Seen

LEMMA LoadSeen ==
    ASSUME SpaceInv, NEW t \in Task, NEW g \in [Image -> FreeFrames], NEW data \in [Image -> Value],
           Load(t, g, data)
    PROVE  Seen' = [Seen EXCEPT ![t] = [p \in Page |-> IF p \in Image THEN data[p] ELSE Unmapped]]
<1>. DEFINE fresh == {g[p] : p \in Image}
            program == [p \in Page |-> IF p \in Image THEN data[p] ELSE Unmapped]
<1>1. /\ pte' = [pte EXCEPT ![t] = [p \in Page |-> IF p \in Image THEN g[p] ELSE Unmapped]]
      /\ contents' = [f \in UserFrame |-> IF f \in fresh THEN data[CHOOSE p \in Image : g[p] = f] ELSE contents[f]]
      /\ \A p, q \in Image : g[p] = g[q] => p = q
  BY DEF Load
<1>2. SpaceTypeOK /\ Image \subseteq Page /\ Unmapped \notin UserFrame
  BY AddressAssumption DEF SpaceInv
<1>3. /\ \A u \in Task \ {t} : pte'[u] = pte[u]
      /\ \A p \in Page : pte'[t][p] = IF p \in Image THEN g[p] ELSE Unmapped
  BY <1>1, <1>2 DEF SpaceTypeOK
<1>4. \A p \in Image : contents'[g[p]] = data[p] /\ g[p] \in UserFrame
  <2>. SUFFICES ASSUME NEW p \in Image PROVE contents'[g[p]] = data[p] /\ g[p] \in UserFrame
    OBVIOUS
  <2>1. g[p] \in UserFrame /\ g[p] \in fresh
    BY DEF FreeFrames
  <2>2. (CHOOSE q \in Image : g[q] = g[p]) = p
    BY <1>1
  <2>. QED
    BY <1>1, <2>1, <2>2
<1>5. \A f \in fresh : \A u \in Task : f \notin FramesOf(u)
  BY CountFacts
<1>6. \A u \in Task \ {t} : \A p \in Mapped(u) : contents'[pte[u][p]] = contents[pte[u][p]]
  <2>. SUFFICES ASSUME NEW u \in Task \ {t}, NEW p \in Mapped(u) PROVE contents'[pte[u][p]] = contents[pte[u][p]]
    OBVIOUS
  <2>1. pte[u][p] \in FramesOf(u) /\ pte[u][p] \in UserFrame
    BY <1>2, FramesAreFrames
  <2>2. pte[u][p] \notin fresh
    BY <1>5, <2>1
  <2>. QED
    BY <1>1, <2>1, <2>2
<1>7. \A u \in Task \ {t} : \A p \in Page : Seen'[u][p] = Seen[u][p]
  BY <1>3, <1>6, SeenAt DEF Mapped
<1>8. \A p \in Page : Seen'[t][p] = program[p]
  BY <1>2, <1>3, <1>4, SeenAt
<1>9. program = [p \in Page |-> program[p]]
  OBVIOUS
<1>. HIDE DEF program
<1>10. Seen' = [Seen EXCEPT ![t] = program]
  BY <1>7, <1>8, <1>9, OneTaskSees
<1>. QED
  BY <1>10 DEF program

LEMMA DestroySeen ==
    ASSUME SpaceInv, NEW t \in Task, Destroy(t)
    PROVE  Seen' = [Seen EXCEPT ![t] = [p \in Page |-> Unmapped]]
<1>1. pte' = [pte EXCEPT ![t] = NoPages] /\ contents' = contents /\ SpaceTypeOK
  BY DEF Destroy, SpaceInv
<1>2. /\ \A u \in Task \ {t} : pte'[u] = pte[u]
      /\ \A p \in Page : pte'[t][p] = Unmapped
  BY <1>1 DEF SpaceTypeOK, NoPages
<1>3. \A u \in Task \ {t} : \A p \in Page : Seen'[u][p] = Seen[u][p]
  BY <1>1, <1>2, SeenAt
<1>4. \A p \in Page : Seen'[t][p] = NoPages[p]
  BY <1>2, SeenAt DEF NoPages
<1>5. NoPages = [p \in Page |-> NoPages[p]]
  BY DEF NoPages
<1>6. Seen' = [Seen EXCEPT ![t] = NoPages]
  BY <1>3, <1>4, <1>5, OneTaskSees
<1>. QED
  BY <1>6 DEF NoPages

LEMMA CloneSeen ==
    ASSUME SpaceInv, NEW t \in Task, NEW c \in Task, Clone(t, c)
    PROVE  Seen' = [Seen EXCEPT ![c] = Seen[t]]
<1>1. pte' = [pte EXCEPT ![c] = pte[t]] /\ contents' = contents /\ SpaceTypeOK
  BY DEF Clone, SpaceInv
<1>2. pte'[c] = pte[t] /\ \A u \in Task \ {c} : pte'[u] = pte[u]
  BY <1>1 DEF SpaceTypeOK
<1>3. \A u \in Task \ {c} : \A p \in Page : Seen'[u][p] = Seen[u][p]
  BY <1>1, <1>2, SeenAt
<1>4. \A p \in Page : Seen'[c][p] = Seen[t][p]
  BY <1>1, <1>2, SeenAt
<1>5. Seen[t] = [p \in Page |-> Seen[t][p]]
  BY DEF Seen
<1>. QED
  BY <1>3, <1>4, <1>5, OneTaskSees

\* A page of t that gets a frame of its own holding v.
LEMMA PageSeen ==
    ASSUME NEW t \in Task, NEW p \in Page, NEW v,
           \A u \in Task : \A q \in Page : u # t \/ q # p => Seen'[u][q] = Seen[u][q],
           Seen'[t][p] = v
    PROVE  Seen' = [Seen EXCEPT ![t][p] = v]
<1>. DEFINE new == [Seen[t] EXCEPT ![p] = v]
<1>1. Seen[t] = [q \in Page |-> Seen[t][q]]
  BY DEF Seen
<1>2. new = [q \in Page |-> new[q]] /\ \A q \in Page : new[q] = IF q = p THEN v ELSE Seen[t][q]
  BY <1>1
<1>. HIDE DEF new
<1>3. Seen' = [Seen EXCEPT ![t] = new]
  BY <1>2, OneTaskSees
<1>. QED
  BY <1>3, Zenon DEF new

LEMMA BrkSeen ==
    ASSUME SpaceInv, NEW t \in Task, NEW c \in Breaks, NEW f \in FreeFrames, Brk(t, c, f)
    PROVE  \E p \in Page, v \in Value :
              /\ p \in Heap /\ \A q \in Heap : q > p => Seen[t][q] = Unmapped
              /\ Seen' = [Seen EXCEPT ![t][p] = v]
<1>. DEFINE p == brk[t].page
<1>1. /\ p \in Heap /\ contents' = contents /\ SpaceTypeOK /\ f \in UserFrame
      /\ Unmapped \notin UserFrame /\ Heap \subseteq Page
  BY AddressAssumption DEF Brk, SpaceInv, FreeFrames
<1>2. pte' = [pte EXCEPT ![t] = [pte[t] EXCEPT ![p] = f]]
  BY Zenon DEF Brk
<1>3. \A q \in Heap : q > p => Seen[t][q] = Unmapped
  <2>. SUFFICES ASSUME NEW q \in Heap, q > p PROVE pte[t][q] = Unmapped
    BY <1>1, SeenAt
  <2>1. ~Below(brk[t], q)
    BY <1>1 DEF Below, Heap
  <2>. QED
    BY <2>1 DEF SpaceInv, HeapBelowBreak
<1>. HIDE DEF p
<1>4. /\ \A u \in Task : \A q \in Page : u # t \/ q # p => pte'[u][q] = pte[u][q]
      /\ pte'[t][p] = f
  BY <1>1, <1>2 DEF SpaceTypeOK
<1>5. \A u \in Task : \A q \in Page : u # t \/ q # p => Seen'[u][q] = Seen[u][q]
  BY <1>1, <1>4, SeenAt
<1>6. Seen'[t][p] = contents[f] /\ contents[f] \in Value /\ p \in Page
  BY <1>1, <1>4, SeenAt DEF SpaceTypeOK
<1>7. Seen' = [Seen EXCEPT ![t][p] = contents[f]]
  BY <1>5, <1>6, PageSeen
<1>. QED
  BY <1>1, <1>3, <1>6, <1>7

\* A fault changes what nobody sees.
LEMMA CowSharedSeen ==
    ASSUME SpaceInv, NEW t \in Task, NEW p \in Page, NEW f \in FreeFrames, CowFaultShared(t, p, f)
    PROVE  Seen' = Seen
<1>1. /\ p \in Mapped(t) /\ SpaceTypeOK /\ f \in UserFrame /\ Unmapped \notin UserFrame
      /\ contents' = [contents EXCEPT ![f] = contents[pte[t][p]]]
  BY AddressAssumption DEF CowFaultShared, SpaceInv, FreeFrames
<1>2. pte' = [pte EXCEPT ![t] = [pte[t] EXCEPT ![p] = f]]
  BY Zenon DEF CowFaultShared
<1>3. /\ \A u \in Task : \A q \in Page : u # t \/ q # p => pte'[u][q] = pte[u][q]
      /\ pte'[t][p] = f
  BY <1>1, <1>2 DEF SpaceTypeOK
<1>4. /\ contents'[f] = contents[pte[t][p]]
      /\ \A e \in UserFrame : e # f => contents'[e] = contents[e]
  BY <1>1 DEF SpaceTypeOK
<1>5. \A u \in Task : \A q \in Mapped(u) : pte[u][q] \in UserFrame /\ pte[u][q] # f
  BY <1>1, FramesAreFrames, CountFacts
<1>6. \A u \in Task : \A q \in Page : u # t \/ q # p => Seen'[u][q] = Seen[u][q]
  BY <1>3, <1>4, <1>5, SeenAt DEF Mapped
<1>7. Seen'[t][p] = Seen[t][p]
  BY <1>1, <1>3, <1>4, SeenAt DEF Mapped
<1>8. \A u \in Task : \A q \in Page : Seen'[u][q] = Seen[u][q]
  BY <1>6, <1>7
<1>9. Seen[t] = [q \in Page |-> Seen[t][q]]
  BY DEF Seen
<1>10. Seen' = [Seen EXCEPT ![t] = Seen[t]]
  BY <1>8, <1>9, OneTaskSees
<1>11. Seen = [u \in Task |-> Seen[u]]
  BY DEF Seen
<1>. QED
  BY <1>10, <1>11

\* A store to a page that is not shared shows in that page only.
LEMMA WriteSeen ==
    ASSUME SpaceInv, NEW t \in Task, NEW p \in Page, NEW v \in Value,
           p \in Mapped(t), perm[t][p] = "rw", pte' = pte,
           contents' = [contents EXCEPT ![pte[t][p]] = v]
    PROVE  /\ Seen[t][p] # Unmapped
           /\ Seen' = [Seen EXCEPT ![t][p] = v]
<1>. DEFINE f == pte[t][p]
<1>1. SpaceTypeOK /\ f \in UserFrame /\ Unmapped \notin Value
  BY AddressAssumption, FramesAreFrames DEF SpaceInv
<1>2. ASSUME NEW u \in Task, NEW q \in Mapped(u), u # t \/ q # p PROVE pte[u][q] \in UserFrame /\ pte[u][q] # f
  <2>1. CASE u = t
    BY <1>1, <1>2, <2>1, FramesAreFrames DEF SpaceInv, SamePage
  <2>2. CASE u # t
    BY <1>1, <2>2, FramesAreFrames DEF SpaceInv, WritableUnshared
  <2>. QED
    BY <2>1, <2>2
<1>3. contents'[f] = v /\ \A e \in UserFrame : e # f => contents'[e] = contents[e]
  BY <1>1 DEF SpaceTypeOK
<1>4. \A u \in Task : \A q \in Page : u # t \/ q # p => Seen'[u][q] = Seen[u][q]
  BY <1>2, <1>3, SeenAt DEF Mapped
<1>5. Seen'[t][p] = v
  BY <1>3, SeenAt DEF Mapped
<1>6. Seen[t][p] # Unmapped
  BY <1>1, SeenAt DEF Mapped, SpaceTypeOK
<1>. QED
  BY <1>4, <1>5, <1>6, PageSeen

LEMMA PrivateStart == SpaceInit => Memory!MemInit
<1>. SUFFICES ASSUME SpaceInit PROVE Memory!MemInit
  OBVIOUS
<1>1. \A t \in Task : \A p \in Page : pte[t][p] = Unmapped
  BY DEF SpaceInit, NoPages
<1>. QED
  BY <1>1 DEF Memory!MemInit

LEMMA PrivateStep ==
    ASSUME SpaceInv, WriteProtect = TRUE, SpaceNext
    PROVE  Memory!MemNext \/ Seen' = Seen
<1>1. PICK t \in Task :
         \/ \E g \in [Image -> FreeFrames], data \in [Image -> Value] : Load(t, g, data)
         \/ \E c \in Task : Clone(t, c)
         \/ Destroy(t)
         \/ \E p \in Page : CowFaultAlone(t, p)
         \/ \E c \in Breaks, f \in FreeFrames : Brk(t, c, f)
         \/ \E p \in Page : \E f \in FreeFrames : CowFaultShared(t, p, f)
         \/ \E p \in Page : \E v \in Value : UserWrite(t, p, v) \/ KernelWrite(t, p, v)
  BY DEF SpaceNext, Create, Exec
<1>2. CASE \E g \in [Image -> FreeFrames], data \in [Image -> Value] : Load(t, g, data)
  <2>1. PICK g \in [Image -> FreeFrames], data \in [Image -> Value] : Load(t, g, data)
    BY <1>2
  <2>2. Seen' = [Seen EXCEPT ![t] = [p \in Page |-> IF p \in Image THEN data[p] ELSE Unmapped]]
    BY <2>1, LoadSeen
  <2>3. Memory!MemLoad(t, data)
    BY <2>2, Zenon DEF Memory!MemLoad, Seen
  <2>. QED
    BY <2>3 DEF Memory!MemNext
<1>3. CASE \E c \in Task : Clone(t, c)
  <2>1. PICK c \in Task : Clone(t, c)
    BY <1>3
  <2>2. Memory!MemFork(t, c)
    BY <2>1, CloneSeen DEF Memory!MemFork, Seen
  <2>. QED
    BY <2>2 DEF Memory!MemNext
<1>4. CASE Destroy(t)
  <2>1. Memory!MemFree(t)
    BY <1>4, DestroySeen DEF Memory!MemFree, Seen
  <2>. QED
    BY <2>1 DEF Memory!MemNext
<1>5. CASE \E p \in Page : CowFaultAlone(t, p)
  <2>1. pte' = pte /\ contents' = contents
    BY <1>5 DEF CowFaultAlone
  <2>. QED
    BY <2>1 DEF Seen
<1>6. CASE \E p \in Page : \E f \in FreeFrames : CowFaultShared(t, p, f)
  BY <1>6, CowSharedSeen
<1>8. CASE \E c \in Breaks, f \in FreeFrames : Brk(t, c, f)
  <2>1. PICK c \in Breaks, f \in FreeFrames : Brk(t, c, f)
    BY <1>8
  <2>2. PICK p \in Page, v \in Value :
               /\ p \in Heap /\ \A q \in Heap : q > p => Seen[t][q] = Unmapped
               /\ Seen' = [Seen EXCEPT ![t][p] = v]
    BY <2>1, BrkSeen
  <2>3. Memory!MemGrow(t, p, v)
    BY <2>2, Zenon DEF Memory!MemGrow, Seen
  <2>. QED
    BY <2>2, <2>3 DEF Memory!MemNext
<1>7. CASE \E p \in Page : \E v \in Value : UserWrite(t, p, v) \/ KernelWrite(t, p, v)
  <2>1. PICK p \in Page, v \in Value : UserWrite(t, p, v) \/ KernelWrite(t, p, v)
    BY <1>7
  <2>2. /\ p \in Mapped(t) /\ perm[t][p] = "rw" /\ pte' = pte
        /\ contents' = [contents EXCEPT ![pte[t][p]] = v]
    BY <2>1 DEF UserWrite, KernelWrite
  <2>3. Seen[t][p] # Unmapped /\ Seen' = [Seen EXCEPT ![t][p] = v]
    BY <2>2, WriteSeen
  <2>4. Memory!MemWrite(t, p, v)
    BY <2>3, Zenon DEF Memory!MemWrite, Seen
  <2>. QED
    BY <2>4 DEF Memory!MemNext
<1>. QED
  BY <1>1, <1>2, <1>3, <1>4, <1>5, <1>6, <1>7, <1>8

\* Where the kernel obeys read-only entries as programs must (CR0.WP), address
\* spaces that share frames behave like memories of their own: what a task reads is
\* what it wrote, or inherited, but for the page in which its break lies when it asks
\* for more (vmm.c:323-464, elf.c:82-158, syscall.c:866).
THEOREM SpacesArePrivate ==
    ASSUME WriteProtect = TRUE
    PROVE  SpaceSpec => ImplementsPrivateMemory
<1>1. SpaceInv /\ [SpaceNext]_spaceVars => [Memory!MemNext]_Seen
  <2>1. UNCHANGED spaceVars => Seen' = Seen
    BY DEF spaceVars, Seen
  <2>. QED
    BY <2>1, PrivateStep
<1>. QED
  BY <1>1, PrivateStart, SpaceInvariant, PTL DEF SpaceSpec, ImplementsPrivateMemory, Memory!MemSpec, Seen

=============================================================================
