----------------------------- MODULE FileProofs -----------------------------
(***************************************************************************)
(* Proofs about the tree of files: for every size of the pool, every       *)
(* archive and all paths that programs pass, up to the first operation     *)
(* that spoils the tree.                                                   *)
(***************************************************************************)
EXTENDS Vfs, SeqLemmas, FiniteSetTheorems

---------------------------------------------------------------------------
(* What a tree is *)

Name == STRING \cup {"", "/"}
Kind == {"none", "dir", "file", "dev"}
NodeRec == [name : Name, kind : Kind, parent : VNode \cup {Nil}, kids : Seq(VNode),
            root : VNode \cup {Nil}, fs : {"none", "tmpfs", "initrd"},
            readonly : BOOLEAN, writable : BOOLEAN, size : Nat]
MountRec == [path : Seq(Name), at : VNode]
Tree == [node : [VNode -> NodeRec], free : Seq(VNode), used : 0..PoolSize, mounts : Seq(MountRec)]

Used(v, n) == v.node[n].kind # "none"
Kids(v, d) == Range(v.node[d].kids)

\* Nodes that may be handed out are empty, and no node is handed out twice.
PoolOK(v) ==
    /\ \A i \in DOMAIN v.free : v.free[i] <= v.used /\ ~Used(v, v.free[i])
    /\ IsInjective(v.free)
    /\ \A n \in VNode : v.used < n /\ n <= PoolSize => ~Used(v, n)
    /\ \A n \in VNode : ~Used(v, n) => v.node[n] = Blank

\* Entries are in use, point back, and have names of their own.
KidsOK(v) ==
    /\ \A d \in VNode : \A k \in Kids(v, d) : Used(v, k) /\ v.node[k].parent = d /\ k # BareRoot
    /\ \A d \in VNode : \A i, j \in DOMAIN v.node[d].kids :
          v.node[v.node[d].kids[i]].name = v.node[v.node[d].kids[j]].name => i = j
    /\ \A d \in VNode : v.node[d].kind # "dir" => v.node[d].kids = <<>> /\ v.node[d].root = Nil
    /\ v.node[BareRoot].kind = "dir" /\ v.node[BareRoot].parent = BareRoot

\* What is mounted is a directory and is linked from nowhere else.
RootsOK(v) ==
    \A d \in VNode : v.node[d].root # Nil =>
        /\ v.node[v.node[d].root].kind = "dir" /\ v.node[d].root # BareRoot
        /\ \A e \in VNode : v.node[d].root \notin Kids(v, e)
        /\ \A e \in VNode : v.node[e].root = v.node[d].root => e = d

\* No node is lost, but for those of X, which are not linked yet or no more.
Linked(v, n) == \E d \in VNode : n \in Kids(v, d) \/ v.node[d].root = n
LinksOK(v, X) ==
    /\ X \subseteq VNode \ {BareRoot}
    /\ \A n \in X : Used(v, n) /\ ~Linked(v, n)
    /\ \A n \in VNode \ X : Used(v, n) /\ n # BareRoot => Linked(v, n)

\* The table of mounts has each mount point once.
MountsOK(v) ==
    /\ \A i \in DOMAIN v.mounts : v.node[v.mounts[i].at].root # Nil
    /\ \A i, j \in DOMAIN v.mounts : v.mounts[i].at = v.mounts[j].at => i = j
    /\ \A d \in VNode : v.node[d].root # Nil => \E i \in DOMAIN v.mounts : v.mounts[i].at = d

TreeOK(v, X) ==
    /\ v \in Tree
    /\ PoolOK(v) /\ KidsOK(v) /\ RootsOK(v) /\ LinksOK(v, X) /\ MountsOK(v)

\* The numbers of nodes, and Nil, which is none of them.
LEMMA NodeNumbers ==
    /\ PoolSize \in Nat \ {0} /\ HeapNodes \in Nat /\ VNode \subseteq Nat /\ BareRoot \in VNode
    /\ Nil \notin VNode /\ \A n \in VNode : n # Nil
BY VfsAssumption DEF VNode, BareRoot, Nil

\* Empty nodes, and new directories.
LEMMA BlankIs ==
    /\ Blank \in NodeRec /\ DirNode \in NodeRec
    /\ Blank.kind = "none" /\ Blank.kids = <<>> /\ Blank.root = Nil /\ Blank.readonly = FALSE
    /\ DirNode.kind = "dir" /\ DirNode.kids = <<>> /\ DirNode.root = Nil /\ DirNode.readonly = FALSE
<1>1. <<>> \in Seq(VNode) /\ FALSE \in BOOLEAN /\ 0 \in Nat
  OBVIOUS
<1>2. Blank \in NodeRec
  BY <1>1 DEF Blank, NodeRec, Name, Kind
<1>. QED
  BY <1>2 DEF Blank, DirNode, NodeRec, Kind

\* The members of a sequence of nodes.
LEMMA KidsAre ==
    ASSUME NEW v \in Tree, NEW d \in VNode
    PROVE  /\ v.node[d] \in NodeRec /\ v.node[d].kids \in Seq(VNode)
           /\ DOMAIN v.node[d].kids = 1..Len(v.node[d].kids)
           /\ Kids(v, d) \subseteq VNode
<1>1. v.node[d] \in NodeRec
  BY DEF Tree
<1>2. v.node[d].kids \in Seq(VNode)
  BY <1>1 DEF NodeRec
<1>. QED
  BY <1>1, <1>2 DEF Kids, Range

\* The entries of the table of mounts.
LEMMA MountsAre ==
    ASSUME NEW v \in Tree
    PROVE  /\ v.mounts \in Seq(MountRec)
           /\ DOMAIN v.mounts = 1..Len(v.mounts)
           /\ \A i \in DOMAIN v.mounts : v.mounts[i] \in MountRec /\ v.mounts[i].at \in VNode
<1>1. v.mounts \in Seq(MountRec)
  BY DEF Tree
<1>2. \A m \in MountRec : m.at \in VNode
  BY DEF MountRec
<1>. QED
  BY <1>1, <1>2

---------------------------------------------------------------------------
(* The operations on the pool and on lists of entries *)

\* A node is handed out: it was empty, and is linked from nowhere yet.
LEMMA NextIsFree ==
    ASSUME NEW v, NEW X, TreeOK(v, X), NextNode(v) # Nil
    PROVE  /\ NextNode(v) \in VNode /\ ~Used(v, NextNode(v)) /\ v.node[NextNode(v)] = Blank
           /\ NextNode(v) \notin X /\ NextNode(v) # BareRoot /\ ~Linked(v, NextNode(v))
           /\ v.free = <<>> /\ v.used < PoolSize => NextNode(v) = v.used + 1
           /\ v.free = <<>> /\ v.used = PoolSize => NextNode(v) > PoolSize
           /\ v.free # <<>> => NextNode(v) = Head(v.free)
<1>. DEFINE n == NextNode(v)
            heap == {k \in VNode : k > PoolSize /\ v.node[k].kind = "none"}
<1>1. v.used \in Nat /\ v.used <= PoolSize /\ v.free \in Seq(VNode)
  BY NodeNumbers DEF TreeOK, Tree
<1>2. ASSUME v.free # <<>> PROVE n \in VNode /\ ~Used(v, n) /\ n = Head(v.free)
  <2>1. n = Head(v.free)
    BY <1>2, Zenon DEF NextNode
  <2>2. 1 \in DOMAIN v.free /\ n = v.free[1] /\ n \in VNode
    BY <1>1, <1>2, <2>1
  <2>3. ~Used(v, n)
    BY <2>2 DEF TreeOK, PoolOK
  <2>. QED
    BY <1>2, <2>1, <2>2, <2>3
<1>3. ASSUME v.free = <<>>, v.used < PoolSize PROVE n \in VNode /\ ~Used(v, n) /\ n = v.used + 1
  <2>1. n = v.used + 1
    <3>1. v.used # PoolSize
      BY <1>1, <1>3, NodeNumbers
    <3>. QED
      BY <1>3, <3>1, Zenon DEF NextNode
  <2>2. n \in VNode
    BY <1>1, <1>3, <2>1, NodeNumbers DEF VNode
  <2>3. ~Used(v, n)
    BY <1>1, <1>3, <2>1, <2>2, NodeNumbers DEF TreeOK, PoolOK
  <2>. QED
    BY <1>1, <1>3, <2>1, <2>2, <2>3, NodeNumbers
<1>4. ASSUME v.free = <<>>, v.used = PoolSize PROVE n \in VNode /\ ~Used(v, n) /\ n > PoolSize
  <2>1. heap # {} /\ n = Min(heap)
    <3>1. ~(v.used < PoolSize)
      BY <1>4, NodeNumbers
    <3>. QED
      BY <1>4, <3>1, Zenon DEF NextNode
  <2>2. n \in heap
    <3>1. heap \subseteq Nat
      BY NodeNumbers
    <3>. HIDE DEF heap
    <3>. QED
      BY <2>1, <3>1, MinOfNats
  <2>. QED
    BY <1>4, <2>2, NodeNumbers DEF Used
<1>5. /\ n \in VNode /\ ~Used(v, n)
      /\ v.free = <<>> /\ v.used < PoolSize => n = v.used + 1
      /\ v.free = <<>> /\ v.used = PoolSize => n > PoolSize
      /\ v.free # <<>> => n = Head(v.free)
  BY <1>1, <1>2, <1>3, <1>4, NodeNumbers
<1>. HIDE DEF n
<1>6. v.node[n] = Blank
  BY <1>5 DEF TreeOK, PoolOK
<1>7. n \notin X
  BY <1>5 DEF TreeOK, LinksOK
<1>8. n # BareRoot
  BY <1>5 DEF TreeOK, KidsOK, Used
<1>9. ~Linked(v, n)
  BY <1>5, NodeNumbers DEF TreeOK, KidsOK, RootsOK, Linked, Used
<1>. QED
  BY <1>5, <1>6, <1>7, <1>8, <1>9 DEF n

\* What a handed out node is made of is not linked yet.
LEMMA TakeKeeps ==
    ASSUME NEW v, NEW X, TreeOK(v, X), NextNode(v) # Nil,
           NEW rec \in NodeRec, rec.kind # "none", rec.kids = <<>>, rec.root = Nil
    PROVE  /\ TreeOK(TakeNode(v, rec), X \cup {NextNode(v)})
           /\ TakeNode(v, rec).node = [v.node EXCEPT ![NextNode(v)] = rec]
           /\ TakeNode(v, rec).mounts = v.mounts
<1>. DEFINE n == NextNode(v)
            w == TakeNode(v, rec)
<1>1. /\ n \in VNode /\ ~Used(v, n) /\ v.node[n] = Blank
      /\ n \notin X /\ n # BareRoot /\ ~Linked(v, n)
      /\ v.free = <<>> /\ v.used < PoolSize => n = v.used + 1
      /\ v.free = <<>> /\ v.used = PoolSize => n > PoolSize
      /\ v.free # <<>> => n = Head(v.free)
  BY NextIsFree
<1>2. v \in Tree /\ v.used \in Nat /\ v.used <= PoolSize /\ v.free \in Seq(VNode) /\ v.node \in [VNode -> NodeRec]
  BY NodeNumbers DEF TreeOK, Tree
<1>3. /\ w.node = [v.node EXCEPT ![n] = rec] /\ w.mounts = v.mounts
      /\ w.free = (IF v.free = <<>> THEN v.free ELSE Tail(v.free))
      /\ w.used = (IF v.free = <<>> /\ v.used < PoolSize THEN v.used + 1 ELSE v.used)
      /\ w \in Tree
  <2>1. [v.node EXCEPT ![n] = rec] \in [VNode -> NodeRec]
    BY <1>1, <1>2
  <2>2. (IF v.free = <<>> THEN v.free ELSE Tail(v.free)) \in Seq(VNode)
    BY <1>2
  <2>3. (IF v.free = <<>> /\ v.used < PoolSize THEN v.used + 1 ELSE v.used) \in 0..PoolSize
    BY <1>2, NodeNumbers
  <2>. HIDE DEF n
  <2>. QED
    BY <1>2, <2>1, <2>2, <2>3 DEF TakeNode, Tree, n
<1>. HIDE DEF n, w
<1>4. \A x \in VNode : w.node[x] = IF x = n THEN rec ELSE v.node[x]
  BY <1>1, <1>2, <1>3
<1>5. \A x \in VNode : Used(w, x) <=> x = n \/ Used(v, x)
  BY <1>4 DEF Used
<1>6. \A x \in VNode : Kids(w, x) = Kids(v, x) /\ w.node[x].kids = v.node[x].kids /\ w.node[x].root = v.node[x].root
  BY <1>1, <1>4, BlankIs DEF Kids
<1>7. PoolOK(w)
  <2>1. ASSUME NEW i \in DOMAIN w.free PROVE w.free[i] <= w.used /\ ~Used(w, w.free[i])
    <3>1. v.free # <<>> /\ i + 1 \in DOMAIN v.free /\ 1 \in DOMAIN v.free /\ w.free[i] = v.free[i + 1] /\ n = v.free[1] /\ i + 1 # 1
      BY <1>1, <1>2, <1>3
    <3>2. v.free[i + 1] # n /\ ~Used(v, v.free[i + 1]) /\ v.free[i + 1] <= v.used
      BY <3>1 DEF TreeOK, PoolOK, IsInjective
    <3>3. v.free[i + 1] \in VNode /\ w.used = v.used
      BY <1>2, <1>3, <3>1
    <3>. QED
      BY <1>5, <3>1, <3>2, <3>3
  <2>2. IsInjective(w.free)
    <3>1. CASE v.free = <<>>
      BY <1>3, <3>1 DEF IsInjective
    <3>2. CASE v.free # <<>>
      <4>. SUFFICES ASSUME NEW a \in DOMAIN w.free, NEW b \in DOMAIN w.free, w.free[a] = w.free[b]
                    PROVE  a = b
        BY DEF IsInjective
      <4>1. /\ a + 1 \in DOMAIN v.free /\ b + 1 \in DOMAIN v.free /\ a \in Nat /\ b \in Nat
            /\ w.free[a] = v.free[a + 1] /\ w.free[b] = v.free[b + 1]
        BY <1>2, <1>3, <3>2
      <4>2. a + 1 = b + 1
        BY <4>1 DEF TreeOK, PoolOK, IsInjective
      <4>. QED
        BY <4>1, <4>2
    <3>. QED
      BY <3>1, <3>2
  <2>3. ASSUME NEW x \in VNode, w.used < x, x <= PoolSize PROVE ~Used(w, x)
    <3>1. x \in Nat
      BY NodeNumbers
    <3>2. v.used < x
      BY <1>2, <1>3, <2>3, <3>1
    <3>3. ~Used(v, x)
      BY <2>3, <3>2 DEF TreeOK, PoolOK
    <3>4. x # n
      <4>1. CASE v.free # <<>>
        <5>1. 1 \in DOMAIN v.free /\ n = v.free[1]
          BY <1>1, <1>2, <4>1
        <5>2. n <= v.used
          BY <5>1 DEF TreeOK, PoolOK
        <5>. QED
          BY <1>2, <3>1, <3>2, <5>2
      <4>2. CASE v.free = <<>>
        BY <1>1, <1>2, <1>3, <2>3, <3>1, <4>2, NodeNumbers
      <4>. QED
        BY <4>1, <4>2
    <3>. QED
      BY <1>5, <3>3, <3>4
  <2>4. ASSUME NEW x \in VNode, ~Used(w, x) PROVE w.node[x] = Blank
    BY <1>4, <1>5, <2>4 DEF TreeOK, PoolOK
  <2>. QED
    BY <2>1, <2>2, <2>3, <2>4 DEF PoolOK
<1>8. KidsOK(w)
  <2>1. ASSUME NEW d \in VNode, NEW k \in Kids(w, d) PROVE Used(w, k) /\ w.node[k].parent = d /\ k # BareRoot /\ k # n /\ k \in VNode
    <3>1. k \in Kids(v, d) /\ k \in VNode
      BY <1>2, <1>6, KidsAre
    <3>2. k # n
      BY <1>1, <3>1 DEF Linked
    <3>. QED
      BY <1>4, <1>5, <3>1, <3>2 DEF TreeOK, KidsOK
  <2>2. ASSUME NEW d \in VNode, NEW i \in DOMAIN w.node[d].kids, NEW j \in DOMAIN w.node[d].kids,
               w.node[w.node[d].kids[i]].name = w.node[w.node[d].kids[j]].name
        PROVE  i = j
    <3>1. w.node[d].kids = v.node[d].kids
      BY <1>6
    <3>2. v.node[d].kids[i] \in Kids(w, d) /\ v.node[d].kids[j] \in Kids(w, d)
      BY <1>6, <3>1 DEF Kids, Range
    <3>3. /\ v.node[v.node[d].kids[i]].name = w.node[w.node[d].kids[i]].name
          /\ v.node[v.node[d].kids[j]].name = w.node[w.node[d].kids[j]].name
      BY <1>4, <2>1, <3>1, <3>2
    <3>4. v.node[v.node[d].kids[i]].name = v.node[v.node[d].kids[j]].name
      BY <2>2, <3>1, <3>3
    <3>5. KidsOK(v) /\ i \in DOMAIN v.node[d].kids /\ j \in DOMAIN v.node[d].kids
      BY <3>1 DEF TreeOK
    <3>. QED
      BY <3>4, <3>5 DEF KidsOK
  <2>3. ASSUME NEW d \in VNode, w.node[d].kind # "dir" PROVE w.node[d].kids = <<>> /\ w.node[d].root = Nil
    BY <1>4, <2>3 DEF TreeOK, KidsOK
  <2>4. w.node[BareRoot].kind = "dir" /\ w.node[BareRoot].parent = BareRoot
    BY <1>1, <1>4, NodeNumbers DEF TreeOK, KidsOK
  <2>. QED
    BY <2>1, <2>2, <2>3, <2>4 DEF KidsOK
<1>9. RootsOK(w)
  <2>. SUFFICES ASSUME NEW d \in VNode, w.node[d].root # Nil
                PROVE  /\ w.node[w.node[d].root].kind = "dir" /\ w.node[d].root # BareRoot
                       /\ \A e \in VNode : w.node[d].root \notin Kids(w, e)
                       /\ \A e \in VNode : w.node[e].root = w.node[d].root => e = d
    BY DEF RootsOK
  <2>1. w.node[d].root = v.node[d].root /\ v.node[d].root # Nil /\ v.node[d].root \in VNode
    BY <1>2, <1>6 DEF NodeRec
  <2>2. v.node[d].root # n
    BY <1>1 DEF Linked
  <2>. QED
    BY <1>4, <1>6, <2>1, <2>2 DEF TreeOK, RootsOK
<1>10. \A x \in VNode : Linked(w, x) <=> Linked(v, x)
  BY <1>6 DEF Linked
<1>11. LinksOK(w, X \cup {n})
  BY <1>1, <1>5, <1>10 DEF TreeOK, LinksOK
<1>12. MountsOK(w)
  BY <1>2, <1>3, <1>6, MountsAre DEF TreeOK, MountsOK
<1>. QED
  BY <1>3, <1>7, <1>8, <1>9, <1>11, <1>12 DEF TreeOK, n, w

\* A node goes back to the pool.
AsFreed(v, w, n) ==
    /\ w \in Tree /\ PoolOK(w)
    /\ w.node = [v.node EXCEPT ![n] = Blank] /\ w.mounts = v.mounts /\ w.used = v.used
    /\ \A x \in VNode : w.node[x] = IF x = n THEN Blank ELSE v.node[x]
    /\ \A x \in VNode : Used(w, x) <=> x # n /\ Used(v, x)

LEMMA FreeIs ==
    ASSUME NEW v \in Tree, PoolOK(v), NEW n \in VNode, Used(v, n)
    PROVE  AsFreed(v, FreeNode(v, n), n)
<1>. DEFINE w == FreeNode(v, n)
<1>1. v.used \in Nat /\ v.used <= PoolSize /\ v.free \in Seq(VNode) /\ v.node \in [VNode -> NodeRec]
  BY NodeNumbers DEF Tree
<1>2. n \in Nat /\ Used(v, n)
  BY NodeNumbers
<1>3. /\ w.node = [v.node EXCEPT ![n] = Blank] /\ w.mounts = v.mounts /\ w.used = v.used
      /\ w.free = (IF n <= PoolSize THEN <<n>> \o v.free ELSE v.free)
      /\ w \in Tree
  <2>1. [v.node EXCEPT ![n] = Blank] \in [VNode -> NodeRec]
    BY <1>1, <1>2, BlankIs
  <2>2. (IF n <= PoolSize THEN <<n>> \o v.free ELSE v.free) \in Seq(VNode)
    BY <1>1, <1>2
  <2>. QED
    BY <1>1, <2>1, <2>2 DEF FreeNode, Tree
<1>. HIDE DEF w
<1>4. \A x \in VNode : w.node[x] = IF x = n THEN Blank ELSE v.node[x]
  BY <1>1, <1>2, <1>3
<1>5. \A x \in VNode : Used(w, x) <=> x # n /\ Used(v, x)
  BY <1>4, BlankIs DEF Used
<1>7. PoolOK(w)
  <2>1. n <= PoolSize => n <= v.used
    BY <1>1, <1>2, NodeNumbers DEF PoolOK
  <2>2. \A i \in DOMAIN v.free : v.free[i] \in VNode /\ v.free[i] # n /\ v.free[i] <= v.used /\ ~Used(v, v.free[i])
    BY <1>1, <1>2 DEF PoolOK
  <2>3. ASSUME NEW i \in DOMAIN w.free
        PROVE  \/ n <= PoolSize /\ i = 1 /\ w.free[i] = n
               \/ \E j \in DOMAIN v.free : w.free[i] = v.free[j] /\ i = IF n <= PoolSize THEN j + 1 ELSE j
    <3>1. CASE n <= PoolSize
      <4>1. w.free = <<n>> \o v.free
        BY <1>3, <3>1
      <4>2. i = 1 \/ (i - 1 \in DOMAIN v.free /\ w.free[i] = v.free[i - 1])
        <5>1. i \in 1..(Len(v.free) + 1)
          BY <1>1, <4>1
        <5>. QED
          BY <1>1, <4>1, <5>1
      <4>3. i = 1 => w.free[i] = n
        BY <1>1, <4>1
      <4>4. i = (i - 1) + 1
        BY <1>1, <4>1
      <4>. QED
        BY <3>1, <4>2, <4>3, <4>4
    <3>2. CASE ~(n <= PoolSize)
      BY <1>3, <3>2
    <3>. QED
      BY <3>1, <3>2
  <2>4. \A i \in DOMAIN w.free : w.free[i] <= w.used /\ ~Used(w, w.free[i])
    BY <1>2, <1>3, <1>5, <2>1, <2>2, <2>3
  <2>5. IsInjective(w.free)
    <3>. SUFFICES ASSUME NEW a \in DOMAIN w.free, NEW b \in DOMAIN w.free, w.free[a] = w.free[b]
                  PROVE  a = b
      BY DEF IsInjective
    <3>1. \A j, k \in DOMAIN v.free : v.free[j] = v.free[k] => j = k
      BY DEF PoolOK, IsInjective
    <3>. QED
      BY <2>2, <2>3, <3>1
  <2>6. \A x \in VNode : w.used < x /\ x <= PoolSize => ~Used(w, x)
    BY <1>3, <1>5 DEF PoolOK
  <2>7. \A x \in VNode : ~Used(w, x) => w.node[x] = Blank
    BY <1>4, <1>5 DEF PoolOK
  <2>. QED
    BY <2>4, <2>5, <2>6, <2>7 DEF PoolOK
<1>. QED
  BY <1>3, <1>4, <1>5, <1>7 DEF AsFreed, w

\* An empty node that is linked from nowhere may be freed.
LEMMA FreeKeeps ==
    ASSUME NEW v, NEW X, TreeOK(v, X), NEW n \in X,
           v.node[n].kids = <<>>, v.node[n].root = Nil
    PROVE  /\ TreeOK(FreeNode(v, n), X \ {n})
           /\ FreeNode(v, n).node = [v.node EXCEPT ![n] = Blank]
<1>. DEFINE w == FreeNode(v, n)
<1>1. v \in Tree /\ v.used \in Nat /\ v.used <= PoolSize /\ v.free \in Seq(VNode) /\ v.node \in [VNode -> NodeRec]
  BY NodeNumbers DEF TreeOK, Tree
<1>2. n \in VNode /\ n # BareRoot /\ Used(v, n) /\ ~Linked(v, n) /\ n \in Nat
  BY NodeNumbers DEF TreeOK, LinksOK
<1>3. /\ w.node = [v.node EXCEPT ![n] = Blank] /\ w.mounts = v.mounts /\ w.used = v.used
      /\ w \in Tree /\ PoolOK(w)
      /\ \A x \in VNode : w.node[x] = IF x = n THEN Blank ELSE v.node[x]
      /\ \A x \in VNode : Used(w, x) <=> x # n /\ Used(v, x)
  <2>1. AsFreed(v, w, n)
    BY <1>1, <1>2, FreeIs DEF TreeOK
  <2>. QED
    BY <2>1 DEF AsFreed
<1>. HIDE DEF w
<1>4. \A x \in VNode : w.node[x] = IF x = n THEN Blank ELSE v.node[x]
  BY <1>3
<1>5. \A x \in VNode : Used(w, x) <=> x # n /\ Used(v, x)
  BY <1>3
<1>6. \A x \in VNode : Kids(w, x) = Kids(v, x) /\ w.node[x].kids = v.node[x].kids /\ w.node[x].root = v.node[x].root
  BY <1>1, <1>4, BlankIs DEF Kids
<1>8. KidsOK(w)
  <2>1. ASSUME NEW d \in VNode, NEW k \in Kids(w, d)
        PROVE  Used(w, k) /\ w.node[k].parent = d /\ k # BareRoot /\ k # n /\ k \in VNode
    <3>1. k \in Kids(v, d) /\ k \in VNode
      BY <1>1, <1>6, KidsAre
    <3>2. k # n
      BY <1>2, <3>1 DEF Linked
    <3>. QED
      BY <1>4, <1>5, <3>1, <3>2 DEF TreeOK, KidsOK
  <2>2. ASSUME NEW d \in VNode, NEW i \in DOMAIN w.node[d].kids, NEW j \in DOMAIN w.node[d].kids,
               w.node[w.node[d].kids[i]].name = w.node[w.node[d].kids[j]].name
        PROVE  i = j
    <3>1. w.node[d].kids = v.node[d].kids
      BY <1>6
    <3>2. v.node[d].kids[i] \in Kids(w, d) /\ v.node[d].kids[j] \in Kids(w, d)
      BY <1>6, <3>1 DEF Kids, Range
    <3>3. /\ v.node[v.node[d].kids[i]].name = w.node[w.node[d].kids[i]].name
          /\ v.node[v.node[d].kids[j]].name = w.node[w.node[d].kids[j]].name
      BY <1>4, <2>1, <3>1, <3>2
    <3>4. v.node[v.node[d].kids[i]].name = v.node[v.node[d].kids[j]].name
      BY <2>2, <3>1, <3>3
    <3>5. KidsOK(v) /\ i \in DOMAIN v.node[d].kids /\ j \in DOMAIN v.node[d].kids
      BY <3>1 DEF TreeOK
    <3>. QED
      BY <3>4, <3>5 DEF KidsOK
  <2>3. ASSUME NEW d \in VNode, w.node[d].kind # "dir" PROVE w.node[d].kids = <<>> /\ w.node[d].root = Nil
    BY <1>4, <2>3, BlankIs DEF TreeOK, KidsOK
  <2>4. w.node[BareRoot].kind = "dir" /\ w.node[BareRoot].parent = BareRoot
    BY <1>2, <1>4, NodeNumbers DEF TreeOK, KidsOK
  <2>. QED
    BY <2>1, <2>2, <2>3, <2>4 DEF KidsOK
<1>9. RootsOK(w)
  <2>. SUFFICES ASSUME NEW d \in VNode, w.node[d].root # Nil
                PROVE  /\ w.node[w.node[d].root].kind = "dir" /\ w.node[d].root # BareRoot
                       /\ \A e \in VNode : w.node[d].root \notin Kids(w, e)
                       /\ \A e \in VNode : w.node[e].root = w.node[d].root => e = d
    BY DEF RootsOK
  <2>1. w.node[d].root = v.node[d].root /\ v.node[d].root # Nil /\ v.node[d].root \in VNode
    BY <1>1, <1>6 DEF NodeRec
  <2>2. v.node[d].root # n
    BY <1>2 DEF Linked
  <2>. QED
    BY <1>4, <1>6, <2>1, <2>2 DEF TreeOK, RootsOK
<1>10. \A x \in VNode : Linked(w, x) <=> Linked(v, x)
  BY <1>6 DEF Linked
<1>11. LinksOK(w, X \ {n})
  BY <1>2, <1>5, <1>10 DEF TreeOK, LinksOK
<1>12. MountsOK(w)
  BY <1>1, <1>3, <1>6, MountsAre DEF TreeOK, MountsOK
<1>. QED
  BY <1>3, <1>8, <1>9, <1>11, <1>12 DEF TreeOK, w

\* A node is entered into a directory.
NamesApart(v, ks) == \A i, j \in DOMAIN ks : v.node[ks[i]].name = v.node[ks[j]].name => i = j
NameFree(v, ks, name) == \A k \in Range(ks) : v.node[k].name # name
Entered(v, w, n, d, ks) == w = [v EXCEPT !.node[d].kids = ks, !.node[n].parent = d]
AsEntered(v, w, n, d, ks) ==
    /\ \A x \in VNode : w.node[x] = IF x = d THEN [v.node[d] EXCEPT !.kids = ks]
                                    ELSE IF x = n THEN [v.node[n] EXCEPT !.parent = d] ELSE v.node[x]
    /\ w.mounts = v.mounts

LEMMA LinkKeeps ==
    ASSUME NEW v, NEW X, TreeOK(v, X), NEW n \in X,
           NEW d \in VNode, v.node[d].kind = "dir", n # d,
           NEW ks \in Seq(VNode), Range(ks) = Kids(v, d) \cup {n},
           NamesApart(v, ks),
           NEW w, Entered(v, w, n, d, ks)
    PROVE  TreeOK(w, X \ {n}) /\ AsEntered(v, w, n, d, ks)
<1>1. v \in Tree /\ v.free \in Seq(VNode) /\ v.node \in [VNode -> NodeRec]
  BY NodeNumbers DEF TreeOK, Tree
<1>2. n \in VNode /\ n # BareRoot /\ Used(v, n) /\ ~Linked(v, n) /\ n \in Nat
  BY NodeNumbers DEF TreeOK, LinksOK
<1>3. /\ w.node = [v.node EXCEPT ![d].kids = ks, ![n].parent = d]
      /\ w.mounts = v.mounts /\ w.used = v.used /\ w.free = v.free
      /\ w \in Tree
  <2>1. [v.node EXCEPT ![d].kids = ks, ![n].parent = d] \in [VNode -> NodeRec]
    <3>1. /\ v.node[d] \in NodeRec /\ v.node[n] \in NodeRec
          /\ [v.node[d] EXCEPT !.kids = ks] \in NodeRec
          /\ [v.node[n] EXCEPT !.parent = d] \in NodeRec
      <4>1. v.node[d] \in NodeRec /\ v.node[n] \in NodeRec
        BY <1>1, <1>2
      <4>. QED
        BY <4>1 DEF NodeRec
    <3>. QED
      BY <1>1, <1>2, <3>1
  <2>. QED
    BY <1>1, <2>1 DEF Tree, Entered
<1>4. \A x \in VNode : w.node[x] = IF x = d THEN [v.node[d] EXCEPT !.kids = ks]
                                   ELSE IF x = n THEN [v.node[n] EXCEPT !.parent = d] ELSE v.node[x]
  BY <1>1, <1>2, <1>3
<1>5. \A x \in VNode : /\ w.node[x].kind = v.node[x].kind /\ w.node[x].root = v.node[x].root
                       /\ w.node[x].name = v.node[x].name
                       /\ w.node[x].kids = IF x = d THEN ks ELSE v.node[x].kids
                       /\ w.node[x].parent = IF x = n THEN d ELSE v.node[x].parent
  <2>1. \A x \in VNode : v.node[x] \in NodeRec
    BY <1>1
  <2>. QED
    <3>. SUFFICES ASSUME NEW x \in VNode
                  PROVE  /\ w.node[x].kind = v.node[x].kind /\ w.node[x].root = v.node[x].root
                         /\ w.node[x].name = v.node[x].name
                         /\ w.node[x].kids = IF x = d THEN ks ELSE v.node[x].kids
                         /\ w.node[x].parent = IF x = n THEN d ELSE v.node[x].parent
      OBVIOUS
    <3>1. CASE x = d
      <4>1. w.node[x] = [v.node[d] EXCEPT !.kids = ks] /\ v.node[d] \in NodeRec
        BY <1>4, <2>1, <3>1
      <4>. QED
        BY <3>1, <4>1 DEF NodeRec
    <3>2. CASE x = n
      <4>1. w.node[x] = [v.node[n] EXCEPT !.parent = d] /\ v.node[n] \in NodeRec
        BY <1>4, <2>1, <3>2
      <4>. QED
        BY <3>2, <4>1 DEF NodeRec
    <3>3. CASE x # d /\ x # n
      <4>1. w.node[x] = v.node[x]
        BY <1>4, <3>3
      <4>. QED
        BY <3>3, <4>1
    <3>. QED
      BY <3>1, <3>2, <3>3
<1>6. \A x \in VNode : /\ (Used(w, x) <=> Used(v, x))
                       /\ Kids(w, x) = IF x = d THEN Kids(v, d) \cup {n} ELSE Kids(v, x)
  <2>1. \A x \in VNode : Used(w, x) <=> Used(v, x)
    BY <1>5 DEF Used
  <2>2. Kids(w, d) = Kids(v, d) \cup {n}
    BY <1>5 DEF Kids
  <2>3. \A x \in VNode : x # d => Kids(w, x) = Kids(v, x)
    BY <1>5 DEF Kids
  <2>. QED
    BY <2>1, <2>2, <2>3
<1>7. PoolOK(w)
  <2>1. \A i \in DOMAIN v.free : v.free[i] \in VNode
    BY <1>1
  <2>2. ASSUME NEW x \in VNode, ~Used(w, x) PROVE w.node[x] = Blank
    <3>1. ~Used(v, x)
      BY <1>6, <2>2
    <3>2. x # d /\ x # n
      BY <1>2, <3>1 DEF Used
    <3>. QED
      BY <1>4, <3>1, <3>2 DEF TreeOK, PoolOK
  <2>. QED
    BY <1>3, <1>6, <2>1, <2>2 DEF TreeOK, PoolOK
<1>8. KidsOK(w)
  <2>1. ASSUME NEW e \in VNode, NEW k \in Kids(w, e)
        PROVE  Used(w, k) /\ w.node[k].parent = e /\ k # BareRoot /\ k \in VNode
    <3>1. CASE e = d /\ k = n
      BY <1>2, <1>5, <1>6, <3>1
    <3>2. CASE ~(e = d /\ k = n)
      <4>1. k \in Kids(v, e)
        BY <1>6, <2>1, <3>2
      <4>2. k \in VNode /\ k # n
        BY <1>1, <1>2, <4>1, KidsAre DEF Linked
      <4>. QED
        BY <1>5, <1>6, <4>1, <4>2 DEF TreeOK, KidsOK
    <3>. QED
      BY <3>1, <3>2
  <2>2. ASSUME NEW e \in VNode, NEW i \in DOMAIN w.node[e].kids, NEW j \in DOMAIN w.node[e].kids,
               w.node[w.node[e].kids[i]].name = w.node[w.node[e].kids[j]].name
        PROVE  i = j
    <3>1. w.node[e].kids[i] \in Kids(w, e) /\ w.node[e].kids[j] \in Kids(w, e)
      BY DEF Kids, Range
    <3>2. v.node[w.node[e].kids[i]].name = v.node[w.node[e].kids[j]].name
      BY <1>5, <2>1, <2>2, <3>1
    <3>3. CASE e = d
      <4>1. w.node[e].kids = ks
        BY <1>5, <3>3
      <4>. QED
        BY <3>2, <4>1 DEF NamesApart
    <3>4. CASE e # d
      <4>1. w.node[e].kids = v.node[e].kids
        BY <1>5, <3>4
      <4>. QED
        BY <3>2, <4>1 DEF TreeOK, KidsOK
    <3>. QED
      BY <3>3, <3>4
  <2>3. ASSUME NEW e \in VNode, w.node[e].kind # "dir" PROVE w.node[e].kids = <<>> /\ w.node[e].root = Nil
    BY <1>5, <2>3 DEF TreeOK, KidsOK
  <2>4. w.node[BareRoot].kind = "dir" /\ w.node[BareRoot].parent = BareRoot
    BY <1>2, <1>5, NodeNumbers DEF TreeOK, KidsOK
  <2>. QED
    BY <2>1, <2>2, <2>3, <2>4 DEF KidsOK
<1>9. RootsOK(w)
  <2>. SUFFICES ASSUME NEW x \in VNode, w.node[x].root # Nil
                PROVE  /\ w.node[w.node[x].root].kind = "dir" /\ w.node[x].root # BareRoot
                       /\ \A e \in VNode : w.node[x].root \notin Kids(w, e)
                       /\ \A e \in VNode : w.node[e].root = w.node[x].root => e = x
    BY DEF RootsOK
  <2>1. w.node[x].root = v.node[x].root /\ v.node[x].root # Nil /\ v.node[x].root \in VNode
    <3>1. v.node[x] \in NodeRec
      BY <1>1
    <3>. QED
      BY <1>5, <3>1 DEF NodeRec
  <2>2. v.node[x].root # n
    BY <1>2 DEF Linked
  <2>. QED
    BY <1>5, <1>6, <2>1, <2>2 DEF TreeOK, RootsOK
<1>10. \A x \in VNode : Linked(w, x) <=> x = n \/ Linked(v, x)
  BY <1>5, <1>6 DEF Linked
<1>11. LinksOK(w, X \ {n})
  BY <1>2, <1>6, <1>10 DEF TreeOK, LinksOK
<1>12. MountsOK(w)
  <2>1. \A x \in VNode : w.node[x].root = v.node[x].root
    BY <1>5
  <2>2. \A i \in DOMAIN v.mounts : v.mounts[i].at \in VNode
    BY <1>1, MountsAre
  <2>3. MountsOK(v) /\ w.mounts = v.mounts
    BY <1>3 DEF TreeOK
  <2>4. ASSUME NEW i \in DOMAIN w.mounts PROVE w.node[w.mounts[i].at].root # Nil
    BY <2>1, <2>2, <2>3 DEF MountsOK
  <2>5. ASSUME NEW x \in VNode, w.node[x].root # Nil PROVE \E i \in DOMAIN w.mounts : w.mounts[i].at = x
    BY <2>1, <2>3, <2>5 DEF MountsOK
  <2>6. \A i, j \in DOMAIN w.mounts : w.mounts[i].at = w.mounts[j].at => i = j
    BY <2>3 DEF MountsOK
  <2>. QED
    BY <2>4, <2>5, <2>6 DEF MountsOK
<1>. QED
  BY <1>3, <1>4, <1>7, <1>8, <1>9, <1>11, <1>12 DEF TreeOK, AsEntered

\* Names stay apart when a node under another name comes first or last.
Longer(q, r, ks, n) == q = Append(ks, n) /\ r = <<n>> \o ks

LEMMA EntriesApart ==
    ASSUME NEW v, NEW ks \in Seq(VNode), NamesApart(v, ks), NEW n \in VNode,
           NameFree(v, ks, v.node[n].name),
           NEW q, NEW r, Longer(q, r, ks, n)
    PROVE  /\ q \in Seq(VNode) /\ Range(q) = Range(ks) \cup {n} /\ NamesApart(v, q)
           /\ r \in Seq(VNode) /\ Range(r) = Range(ks) \cup {n} /\ NamesApart(v, r)
<1>. DEFINE m == Len(ks)
<1>1. /\ m \in Nat /\ DOMAIN ks = 1..m
      /\ q \in Seq(VNode) /\ DOMAIN q = 1..(m + 1) /\ q[m + 1] = n /\ \A i \in 1..m : q[i] = ks[i]
      /\ r \in Seq(VNode) /\ DOMAIN r = 1..(m + 1) /\ r[1] = n /\ \A i \in 1..m : r[i + 1] = ks[i]
  BY DEF Longer
<1>2. \A i \in 2..(m + 1) : i - 1 \in 1..m /\ r[i] = ks[i - 1] /\ i \in 1..(m + 1)
  <2>. HIDE DEF m
  <2>. SUFFICES ASSUME NEW i \in 2..(m + 1) PROVE i - 1 \in 1..m /\ r[i] = ks[i - 1] /\ i \in 1..(m + 1)
    OBVIOUS
  <2>1. i - 1 \in 1..m /\ (i - 1) + 1 = i
    BY <1>1
  <2>. QED
    BY <1>1, <2>1
<1>. HIDE DEF m
<1>3. \A i \in 1..m : ks[i] \in Range(ks) /\ i \in 1..(m + 1) /\ i + 1 \in 1..(m + 1) /\ i # m + 1
  <2>1. m \in Nat /\ DOMAIN ks = 1..m
    BY <1>1
  <2>2. \A i \in 1..m : i \in 1..(m + 1) /\ i + 1 \in 1..(m + 1) /\ i # m + 1
    BY <2>1
  <2>. QED
    BY <2>1, <2>2 DEF Range
<1>4. Range(q) = Range(ks) \cup {n}
  <2>1. ASSUME NEW x \in Range(q) PROVE x \in Range(ks) \cup {n}
    <3>1. PICK i \in 1..(m + 1) : x = q[i]
      BY <1>1 DEF Range
    <3>2. i = m + 1 \/ i \in 1..m
      BY <1>1
    <3>. QED
      BY <1>1, <1>3, <3>1, <3>2
  <2>2. n \in Range(q)
    <3>1. m + 1 \in 1..(m + 1)
      BY <1>1
    <3>. QED
      BY <1>1, <3>1 DEF Range
  <2>3. ASSUME NEW x \in Range(ks) PROVE x \in Range(q)
    <3>1. PICK i \in 1..m : x = ks[i]
      BY <1>1 DEF Range
    <3>. QED
      BY <1>1, <1>3, <3>1 DEF Range
  <2>. QED
    BY <2>1, <2>2, <2>3
<1>5. Range(r) = Range(ks) \cup {n}
  <2>1. ASSUME NEW x \in Range(r) PROVE x \in Range(ks) \cup {n}
    <3>1. PICK i \in 1..(m + 1) : x = r[i]
      BY <1>1 DEF Range
    <3>2. i = 1 \/ i \in 2..(m + 1)
      BY <1>1
    <3>. QED
      BY <1>1, <1>2, <1>3, <3>1, <3>2
  <2>2. n \in Range(r)
    <3>1. 1 \in 1..(m + 1)
      BY <1>1
    <3>. QED
      BY <1>1, <3>1 DEF Range
  <2>3. ASSUME NEW x \in Range(ks) PROVE x \in Range(r)
    <3>1. PICK i \in 1..m : x = ks[i]
      BY <1>1 DEF Range
    <3>. QED
      BY <1>1, <1>3, <3>1 DEF Range
  <2>. QED
    BY <2>1, <2>2, <2>3
<1>6. NamesApart(v, q)
  <2>. SUFFICES ASSUME NEW i \in 1..(m + 1), NEW j \in 1..(m + 1), v.node[q[i]].name = v.node[q[j]].name
                PROVE  i = j
    BY <1>1 DEF NamesApart
  <2>1. (i = m + 1 \/ i \in 1..m) /\ (j = m + 1 \/ j \in 1..m)
    BY <1>1
  <2>2. \A k \in 1..m : q[k] = ks[k] /\ v.node[ks[k]].name # v.node[n].name
    BY <1>1, <1>3 DEF NameFree, Range
  <2>3. q[m + 1] = n
    BY <1>1, <1>3
  <2>4. \A k, l \in 1..m : v.node[ks[k]].name = v.node[ks[l]].name => k = l
    BY <1>1 DEF NamesApart
  <2>. QED
    BY <2>1, <2>2, <2>3, <2>4
<1>7. NamesApart(v, r)
  <2>. SUFFICES ASSUME NEW i \in 1..(m + 1), NEW j \in 1..(m + 1), v.node[r[i]].name = v.node[r[j]].name
                PROVE  i = j
    BY <1>1 DEF NamesApart
  <2>1. (i = 1 \/ i \in 2..(m + 1)) /\ (j = 1 \/ j \in 2..(m + 1))
    BY <1>1
  <2>2. i \in 2..(m + 1) => i - 1 \in 1..m /\ r[i] = ks[i - 1] /\ ks[i - 1] \in Range(ks)
    BY <1>2, <1>3
  <2>3. j \in 2..(m + 1) => j - 1 \in 1..m /\ r[j] = ks[j - 1] /\ ks[j - 1] \in Range(ks)
    BY <1>2, <1>3
  <2>4. ASSUME i \in 2..(m + 1), j \in 2..(m + 1) PROVE i = j
    <3>1. PICK k \in 1..m, l \in 1..m : k = i - 1 /\ l = j - 1 /\ r[i] = ks[k] /\ r[j] = ks[l]
      BY <2>2, <2>3, <2>4
    <3>2. \A a, b \in 1..m : v.node[ks[a]].name = v.node[ks[b]].name => a = b
      BY <1>1 DEF NamesApart
    <3>3. k = l
      BY <3>1, <3>2
    <3>4. i - 1 = j - 1 /\ i \in Int /\ j \in Int
      BY <1>1, <3>1, <3>3
    <3>. QED
      BY <3>4
  <2>. QED
    BY <1>1, <2>1, <2>2, <2>3, <2>4 DEF NameFree
<1>. QED
  BY <1>1, <1>4, <1>5, <1>6, <1>7

\* One entry is taken out of a list.
LEMMA WithoutIs ==
    ASSUME NEW v, NEW ks \in Seq(VNode), NamesApart(v, ks), NEW n \in Range(ks)
    PROVE  /\ Without(ks, n) \in Seq(VNode)
           /\ Range(Without(ks, n)) = Range(ks) \ {n}
           /\ NamesApart(v, Without(ks, n))
<1>. DEFINE found == {i \in DOMAIN ks : ks[i] = n}
<1>1. found # {} /\ found \subseteq Nat /\ DOMAIN ks = 1..Len(ks) /\ Len(ks) \in Nat
  BY DEF Range
<1>2. PICK k \in 1..Len(ks) : k = Min(found) /\ ks[k] = n /\ Without(ks, n) = RemoveAt(ks, k)
  <2>1. Without(ks, n) = RemoveAt(ks, Min(found))
    BY <1>1 DEF Without
  <2>2. Min(found) \in found
    <3>. HIDE DEF found
    <3>. QED
      BY <1>1, MinOfNats
  <2>. QED
    BY <1>1, <2>1, <2>2
<1>3. PICK r : r = RemoveAt(ks, k)
  OBVIOUS
<1>4. r \in Seq(VNode) /\ IsRemoval(r, ks, k)
  BY <1>3, RemoveAtProperties
<1>. HIDE DEF found
<1>5. \A i \in 1..Len(ks) : ks[i] = ks[k] => i = k
  BY <1>1, <1>2 DEF NamesApart
<1>6. ToSet(r) = ToSet(ks) \ {ks[k]}
  BY <1>4, <1>5, RemovedMembers
<1>7. Range(r) = Range(ks) \ {n}
  BY <1>2, <1>6 DEF Range, ToSet
<1>8. NamesApart(v, r)
  <2>. SUFFICES ASSUME NEW i \in DOMAIN r, NEW j \in DOMAIN r, v.node[r[i]].name = v.node[r[j]].name
                PROVE  i = j
    BY DEF NamesApart
  <2>1. Len(r) = Len(ks) - 1 /\ DOMAIN r = 1..Len(r)
    BY <1>4 DEF IsRemoval
  <2>2. PICK a \in 1..Len(ks) : r[i] = ks[a] /\ a = IF i < k THEN i ELSE i + 1
    BY <1>1, <1>4, <2>1 DEF IsRemoval
  <2>3. PICK b \in 1..Len(ks) : r[j] = ks[b] /\ b = IF j < k THEN j ELSE j + 1
    BY <1>1, <1>4, <2>1 DEF IsRemoval
  <2>4. a = b
    BY <1>1, <2>2, <2>3 DEF NamesApart
  <2>. QED
    BY <2>1, <2>2, <2>3, <2>4
<1>. QED
  BY <1>2, <1>3, <1>4, <1>7, <1>8

\* A node is taken out of its directory.
AsDetached(v, w, d, n) ==
    /\ Kids(w, d) = Kids(v, d) \ {n}
    /\ \A x \in VNode \ {d} : w.node[x].kids = v.node[x].kids
    /\ \A x \in VNode : /\ w.node[x].kind = v.node[x].kind
                        /\ w.node[x].root = v.node[x].root
                        /\ w.node[x].name = v.node[x].name
                        /\ w.node[x].readonly = v.node[x].readonly
    /\ \A x \in VNode : x # n => w.node[x].parent = v.node[x].parent

LEMMA DetachKeeps ==
    ASSUME NEW v, NEW X, TreeOK(v, X), NEW d \in VNode, NEW n \in Kids(v, d)
    PROVE  TreeOK(Detach(v, d, n), X \cup {n}) /\ AsDetached(v, Detach(v, d, n), d, n)
<1>. DEFINE w == Detach(v, d, n)
            ks == Without(v.node[d].kids, n)
<1>1. v \in Tree /\ v.free \in Seq(VNode) /\ v.node \in [VNode -> NodeRec]
  BY NodeNumbers DEF TreeOK, Tree
<1>2. /\ n \in VNode /\ n # BareRoot /\ Used(v, n) /\ Linked(v, n) /\ n \notin X
      /\ \A e \in VNode : n \in Kids(v, e) => e = d
      /\ \A e \in VNode : v.node[e].root # n
  <2>1. n \in VNode /\ Linked(v, n)
    BY <1>1, KidsAre DEF Linked
  <2>2. Used(v, n) /\ n # BareRoot /\ \A e \in VNode : n \in Kids(v, e) => e = d
    BY DEF TreeOK, KidsOK
  <2>3. n \notin X
    BY <2>1 DEF TreeOK, LinksOK
  <2>4. ASSUME NEW e \in VNode, v.node[e].root = n PROVE FALSE
    BY <2>1, <2>4, NodeNumbers DEF TreeOK, RootsOK
  <2>. QED
    BY <2>1, <2>2, <2>3, <2>4
<1>3. ks \in Seq(VNode) /\ Range(ks) = Kids(v, d) \ {n} /\ NamesApart(v, ks)
  <2>1. NamesApart(v, v.node[d].kids)
    BY DEF TreeOK, KidsOK, NamesApart
  <2>2. v.node[d].kids \in Seq(VNode) /\ n \in Range(v.node[d].kids)
    BY <1>1, KidsAre DEF Kids
  <2>. QED
    BY <2>1, <2>2, WithoutIs DEF Kids
<1>4. w.node = [v.node EXCEPT ![d].kids = ks, ![n].parent = Nil]
      /\ w.mounts = v.mounts /\ w.used = v.used /\ w.free = v.free
      /\ w = [v EXCEPT !.node = [v.node EXCEPT ![d].kids = ks, ![n].parent = Nil]]
  BY <1>1 DEF Detach, Tree
<1>. HIDE DEF ks, w
<1>5. \A x \in VNode : v.node[x] \in NodeRec
  BY <1>1
<1>6. [v.node[d] EXCEPT !.kids = ks] \in NodeRec /\ v.node[d] \in NodeRec
  BY <1>3, <1>5 DEF NodeRec
<1>7. PICK f : f = [v.node EXCEPT ![d].kids = ks]
  OBVIOUS
<1>8. f \in [VNode -> NodeRec] /\ f[d] = [v.node[d] EXCEPT !.kids = ks] /\ \A x \in VNode : x # d => f[x] = v.node[x]
  BY <1>1, <1>6, <1>7
<1>9. w.node = [f EXCEPT ![n].parent = Nil]
  BY <1>4, <1>7
<1>10. f[n] \in NodeRec /\ [f[n] EXCEPT !.parent = Nil] \in NodeRec
  <2>1. f[n] \in NodeRec
    BY <1>2, <1>8
  <2>. QED
    BY <2>1 DEF NodeRec
<1>11. w.node \in [VNode -> NodeRec] /\ w.node[n] = [f[n] EXCEPT !.parent = Nil] /\ \A x \in VNode : x # n => w.node[x] = f[x]
  BY <1>2, <1>8, <1>9, <1>10
<1>12. w \in Tree
  <2>1. PICK g : g = w.node
    OBVIOUS
  <2>2. w = [v EXCEPT !.node = g] /\ g \in [VNode -> NodeRec]
    BY <1>4, <1>11, <2>1
  <2>. QED
    BY <1>1, <2>2 DEF Tree
<1>13. \A x \in VNode : /\ f[x].kind = v.node[x].kind /\ f[x].root = v.node[x].root
                        /\ f[x].name = v.node[x].name /\ f[x].readonly = v.node[x].readonly
                        /\ f[x].kids = (IF x = d THEN ks ELSE v.node[x].kids)
                        /\ f[x].parent = v.node[x].parent
  <2>1. ASSUME NEW x \in VNode, x # d PROVE f[x] = v.node[x]
    BY <1>8, <2>1
  <2>2. /\ f[d].kind = v.node[d].kind /\ f[d].root = v.node[d].root
        /\ f[d].name = v.node[d].name /\ f[d].readonly = v.node[d].readonly
        /\ f[d].kids = ks /\ f[d].parent = v.node[d].parent
    BY <1>6, <1>8 DEF NodeRec
  <2>. QED
    BY <2>1, <2>2
<1>14. \A x \in VNode : /\ w.node[x].kind = v.node[x].kind /\ w.node[x].root = v.node[x].root
                        /\ w.node[x].name = v.node[x].name /\ w.node[x].readonly = v.node[x].readonly
                        /\ w.node[x].kids = (IF x = d THEN ks ELSE v.node[x].kids)
                        /\ w.node[x].parent = (IF x = n THEN Nil ELSE v.node[x].parent)
  <2>1. ASSUME NEW x \in VNode, x # n PROVE w.node[x] = f[x]
    BY <1>11, <2>1
  <2>2. /\ w.node[n].kind = f[n].kind /\ w.node[n].root = f[n].root
        /\ w.node[n].name = f[n].name /\ w.node[n].readonly = f[n].readonly
        /\ w.node[n].kids = f[n].kids /\ w.node[n].parent = Nil
    BY <1>10, <1>11 DEF NodeRec
  <2>. QED
    BY <1>2, <1>13, <2>1, <2>2
<1>15. \A x \in VNode : Used(w, x) <=> Used(v, x)
  BY <1>14 DEF Used
<1>16. \A x \in VNode : Kids(w, x) = IF x = d THEN Kids(v, d) \ {n} ELSE Kids(v, x)
  BY <1>3, <1>14 DEF Kids
<1>17. PoolOK(w)
  <2>1. \A i \in DOMAIN v.free : v.free[i] \in VNode
    BY <1>1
  <2>2. ASSUME NEW x \in VNode, ~Used(w, x) PROVE w.node[x] = Blank
    <3>1. ~Used(v, x)
      BY <1>15, <2>2
    <3>2. x # n
      BY <1>2, <3>1
    <3>3. x # d
      <4>1. Kids(v, x) = {}
        BY <3>1, BlankIs DEF TreeOK, PoolOK, Kids, Range
      <4>. QED
        BY <4>1
    <3>. QED
      BY <1>8, <1>11, <3>1, <3>2, <3>3 DEF TreeOK, PoolOK
  <2>. QED
    BY <1>4, <1>15, <2>1, <2>2 DEF TreeOK, PoolOK
<1>18. KidsOK(w)
  <2>1. ASSUME NEW e \in VNode, NEW k \in Kids(w, e)
        PROVE  Used(w, k) /\ w.node[k].parent = e /\ k # BareRoot /\ k \in VNode
    <3>1. k \in Kids(v, e) /\ k # n /\ k \in VNode
      BY <1>1, <1>2, <1>16, <2>1, KidsAre
    <3>. QED
      BY <1>14, <1>15, <3>1 DEF TreeOK, KidsOK
  <2>2. ASSUME NEW e \in VNode, NEW i \in DOMAIN w.node[e].kids, NEW j \in DOMAIN w.node[e].kids,
               w.node[w.node[e].kids[i]].name = w.node[w.node[e].kids[j]].name
        PROVE  i = j
    <3>1. w.node[e].kids[i] \in Kids(w, e) /\ w.node[e].kids[j] \in Kids(w, e)
      BY DEF Kids, Range
    <3>2. v.node[w.node[e].kids[i]].name = v.node[w.node[e].kids[j]].name
      BY <1>14, <2>1, <2>2, <3>1
    <3>3. CASE e = d
      <4>1. w.node[e].kids = ks
        BY <1>14, <3>3
      <4>. QED
        BY <1>3, <3>2, <4>1 DEF NamesApart
    <3>4. CASE e # d
      <4>1. w.node[e].kids = v.node[e].kids
        BY <1>14, <3>4
      <4>. QED
        BY <3>2, <4>1 DEF TreeOK, KidsOK
    <3>. QED
      BY <3>3, <3>4
  <2>3. ASSUME NEW e \in VNode, w.node[e].kind # "dir" PROVE w.node[e].kids = <<>> /\ w.node[e].root = Nil
    <3>1. v.node[e].kids = <<>> /\ v.node[e].root = Nil
      BY <1>14, <2>3 DEF TreeOK, KidsOK
    <3>2. e # d
      <4>1. Kids(v, e) = {}
        BY <3>1 DEF Kids, Range
      <4>. QED
        BY <4>1
    <3>. QED
      BY <1>14, <3>1, <3>2
  <2>4. w.node[BareRoot].kind = "dir" /\ w.node[BareRoot].parent = BareRoot
    BY <1>2, <1>14, NodeNumbers DEF TreeOK, KidsOK
  <2>. QED
    BY <2>1, <2>2, <2>3, <2>4 DEF KidsOK
<1>19. RootsOK(w)
  <2>. SUFFICES ASSUME NEW x \in VNode, w.node[x].root # Nil
                PROVE  /\ w.node[w.node[x].root].kind = "dir" /\ w.node[x].root # BareRoot
                       /\ \A e \in VNode : w.node[x].root \notin Kids(w, e)
                       /\ \A e \in VNode : w.node[e].root = w.node[x].root => e = x
    BY DEF RootsOK
  <2>1. w.node[x].root = v.node[x].root /\ v.node[x].root # Nil /\ v.node[x].root \in VNode
    BY <1>5, <1>14 DEF NodeRec
  <2>. QED
    BY <1>14, <1>16, <2>1 DEF TreeOK, RootsOK
<1>20. \A x \in VNode : Linked(w, x) <=> x # n /\ Linked(v, x)
  BY <1>2, <1>14, <1>16 DEF Linked
<1>21. LinksOK(w, X \cup {n})
  BY <1>2, <1>15, <1>20 DEF TreeOK, LinksOK
<1>22. MountsOK(w)
  <2>1. \A i \in DOMAIN v.mounts : v.mounts[i].at \in VNode
    BY <1>1, MountsAre
  <2>. QED
    BY <1>4, <1>14, <2>1 DEF TreeOK, MountsOK
<1>23. AsDetached(v, w, d, n)
  BY <1>14, <1>16 DEF AsDetached
<1>. QED
  BY <1>12, <1>17, <1>18, <1>19, <1>21, <1>22, <1>23 DEF TreeOK, w

\* What the tree is does not depend on sizes and flags, nor on the name of a
\* node that is not linked.
LEMMA RelabelKeeps ==
    ASSUME NEW v, NEW X, TreeOK(v, X), NEW w \in Tree,
           w.free = v.free, w.used = v.used, w.mounts = v.mounts,
           \A x \in VNode : /\ w.node[x].kind = v.node[x].kind /\ w.node[x].parent = v.node[x].parent
                            /\ w.node[x].kids = v.node[x].kids /\ w.node[x].root = v.node[x].root
                            /\ x \notin X => w.node[x].name = v.node[x].name
                            /\ ~Used(v, x) => w.node[x] = v.node[x]
    PROVE  TreeOK(w, X)
<1>1. v \in Tree /\ v.node \in [VNode -> NodeRec] /\ v.free \in Seq(VNode)
  BY DEF TreeOK, Tree
<1>2. \A x \in VNode : (Used(w, x) <=> Used(v, x)) /\ Kids(w, x) = Kids(v, x)
  BY DEF Used, Kids
<1>3. \A x \in VNode : Linked(w, x) <=> Linked(v, x)
  BY <1>2 DEF Linked
<1>4. ASSUME NEW d \in VNode, NEW k \in Kids(v, d) PROVE k \in VNode /\ k \notin X
  BY <1>1, KidsAre DEF TreeOK, LinksOK, Linked
<1>5. PoolOK(w)
  <2>1. \A i \in DOMAIN v.free : v.free[i] \in VNode
    BY <1>1
  <2>. QED
    BY <1>2, <2>1 DEF TreeOK, PoolOK
<1>6. KidsOK(w)
  <2>1. ASSUME NEW d \in VNode, NEW k \in Kids(w, d)
        PROVE  Used(w, k) /\ w.node[k].parent = d /\ k # BareRoot
    BY <1>2, <1>4 DEF TreeOK, KidsOK
  <2>2. ASSUME NEW d \in VNode, NEW i \in DOMAIN w.node[d].kids, NEW j \in DOMAIN w.node[d].kids,
               w.node[w.node[d].kids[i]].name = w.node[w.node[d].kids[j]].name
        PROVE  i = j
    <3>1. w.node[d].kids = v.node[d].kids
      OBVIOUS
    <3>2. v.node[d].kids[i] \in Kids(v, d) /\ v.node[d].kids[j] \in Kids(v, d)
      BY <3>1 DEF Kids, Range
    <3>3. /\ v.node[v.node[d].kids[i]].name = w.node[w.node[d].kids[i]].name
          /\ v.node[v.node[d].kids[j]].name = w.node[w.node[d].kids[j]].name
      BY <1>4, <3>1, <3>2
    <3>4. v.node[v.node[d].kids[i]].name = v.node[v.node[d].kids[j]].name
      BY <2>2, <3>1, <3>3
    <3>5. KidsOK(v) /\ i \in DOMAIN v.node[d].kids /\ j \in DOMAIN v.node[d].kids
      BY <3>1 DEF TreeOK
    <3>. QED
      BY <3>4, <3>5 DEF KidsOK
  <2>3. ASSUME NEW d \in VNode, w.node[d].kind # "dir" PROVE w.node[d].kids = <<>> /\ w.node[d].root = Nil
    BY <2>3 DEF TreeOK, KidsOK
  <2>4. w.node[BareRoot].kind = "dir" /\ w.node[BareRoot].parent = BareRoot
    BY NodeNumbers DEF TreeOK, KidsOK
  <2>. QED
    BY <2>1, <2>2, <2>3, <2>4 DEF KidsOK
<1>7. RootsOK(w)
  <2>. SUFFICES ASSUME NEW d \in VNode, w.node[d].root # Nil
                PROVE  /\ w.node[w.node[d].root].kind = "dir" /\ w.node[d].root # BareRoot
                       /\ \A e \in VNode : w.node[d].root \notin Kids(w, e)
                       /\ \A e \in VNode : w.node[e].root = w.node[d].root => e = d
    BY DEF RootsOK
  <2>1. w.node[d].root = v.node[d].root /\ v.node[d].root # Nil /\ v.node[d].root \in VNode
    BY <1>1 DEF NodeRec
  <2>. QED
    BY <1>2, <2>1 DEF TreeOK, RootsOK
<1>8. LinksOK(w, X)
  BY <1>2, <1>3 DEF TreeOK, LinksOK
<1>9. MountsOK(w)
  <2>1. \A i \in DOMAIN v.mounts : v.mounts[i].at \in VNode
    BY <1>1, MountsAre
  <2>. QED
    BY <2>1 DEF TreeOK, MountsOK
<1>. QED
  BY <1>5, <1>6, <1>7, <1>8, <1>9 DEF TreeOK

\* A directory that is linked from nowhere is mounted.
Mounted(v, w, mp, r, path) ==
    w = [v EXCEPT !.node[mp].root = r, !.mounts = Append(@, [path |-> path, at |-> mp])]
AsMounted(v, w, mp, r) ==
    \A x \in VNode : /\ w.node[x].kind = v.node[x].kind /\ w.node[x].parent = v.node[x].parent
                     /\ w.node[x].kids = v.node[x].kids /\ w.node[x].name = v.node[x].name
                     /\ w.node[x].root = IF x = mp THEN r ELSE v.node[x].root

LEMMA MountKeeps ==
    ASSUME NEW v, NEW X, TreeOK(v, X), NEW r \in X, v.node[r].kind = "dir",
           NEW mp \in VNode, v.node[mp].kind = "dir", v.node[mp].root = Nil, mp # r,
           NEW path \in Seq(Name), NEW w, Mounted(v, w, mp, r, path)
    PROVE  TreeOK(w, X \ {r}) /\ AsMounted(v, w, mp, r)
<1>1. v \in Tree /\ v.node \in [VNode -> NodeRec] /\ v.free \in Seq(VNode) /\ v.mounts \in Seq(MountRec)
  BY DEF TreeOK, Tree
<1>2. r \in VNode /\ r # Nil /\ r # BareRoot /\ ~Linked(v, r) /\ Used(v, r)
  BY NodeNumbers DEF TreeOK, LinksOK
<1>3. PICK m \in MountRec : m = [path |-> path, at |-> mp] /\ m.at = mp
  <2>1. [path |-> path, at |-> mp] \in MountRec
    BY DEF MountRec
  <2>. QED
    BY <2>1
<1>4. /\ w.node = [v.node EXCEPT ![mp].root = r] /\ w.free = v.free /\ w.used = v.used
      /\ w.mounts = Append(v.mounts, m) /\ w \in Tree
  <2>1. v.node[mp] \in NodeRec
    BY <1>1
  <2>2. [v.node[mp] EXCEPT !.root = r] \in NodeRec
    BY <1>2, <2>1 DEF NodeRec
  <2>3. [v.node EXCEPT ![mp].root = r] \in [VNode -> NodeRec]
    BY <1>1, <2>2
  <2>4. Append(v.mounts, m) \in Seq(MountRec)
    BY <1>1
  <2>. QED
    BY <1>1, <1>3, <2>3, <2>4 DEF Mounted, Tree
<1>5. \A x \in VNode : w.node[x] = IF x = mp THEN [v.node[mp] EXCEPT !.root = r] ELSE v.node[x]
  BY <1>1, <1>4
<1>6. \A x \in VNode : /\ w.node[x].kind = v.node[x].kind /\ w.node[x].parent = v.node[x].parent
                       /\ w.node[x].kids = v.node[x].kids /\ w.node[x].name = v.node[x].name
                       /\ w.node[x].root = IF x = mp THEN r ELSE v.node[x].root
  <2>. SUFFICES ASSUME NEW x \in VNode
                PROVE  /\ w.node[x].kind = v.node[x].kind /\ w.node[x].parent = v.node[x].parent
                       /\ w.node[x].kids = v.node[x].kids /\ w.node[x].name = v.node[x].name
                       /\ w.node[x].root = IF x = mp THEN r ELSE v.node[x].root
    OBVIOUS
  <2>1. v.node[x] \in NodeRec
    BY <1>1
  <2>. QED
    BY <1>5, <2>1 DEF NodeRec
<1>7. \A x \in VNode : (Used(w, x) <=> Used(v, x)) /\ Kids(w, x) = Kids(v, x)
  BY <1>6 DEF Used, Kids
<1>8. \A d \in VNode : Kids(v, d) \subseteq VNode
  BY <1>1, KidsAre
<1>9. PoolOK(w)
  <2>1. \A i \in DOMAIN v.free : v.free[i] \in VNode
    BY <1>1
  <2>2. \A x \in VNode : ~Used(w, x) => w.node[x] = Blank
    BY <1>5, <1>7 DEF TreeOK, PoolOK, Used
  <2>. QED
    BY <1>4, <1>7, <2>1, <2>2 DEF TreeOK, PoolOK
<1>10. KidsOK(w)
  <2>1. ASSUME NEW d \in VNode, NEW k \in Kids(w, d)
        PROVE  Used(w, k) /\ w.node[k].parent = d /\ k # BareRoot
    BY <1>6, <1>7, <1>8 DEF TreeOK, KidsOK
  <2>2. ASSUME NEW d \in VNode, NEW i \in DOMAIN w.node[d].kids, NEW j \in DOMAIN w.node[d].kids,
               w.node[w.node[d].kids[i]].name = w.node[w.node[d].kids[j]].name
        PROVE  i = j
    <3>1. w.node[d].kids = v.node[d].kids
      BY <1>6
    <3>2. v.node[d].kids[i] \in Kids(v, d) /\ v.node[d].kids[j] \in Kids(v, d)
      BY <3>1 DEF Kids, Range
    <3>3. /\ v.node[v.node[d].kids[i]].name = w.node[w.node[d].kids[i]].name
          /\ v.node[v.node[d].kids[j]].name = w.node[w.node[d].kids[j]].name
      BY <1>6, <1>8, <3>1, <3>2
    <3>4. v.node[v.node[d].kids[i]].name = v.node[v.node[d].kids[j]].name
      BY <2>2, <3>1, <3>3
    <3>. QED
      BY <3>1, <3>4 DEF TreeOK, KidsOK
  <2>3. ASSUME NEW d \in VNode, w.node[d].kind # "dir" PROVE w.node[d].kids = <<>> /\ w.node[d].root = Nil
    <3>1. d # mp
      BY <1>6, <2>3
    <3>. QED
      BY <1>6, <2>3, <3>1 DEF TreeOK, KidsOK
  <2>4. w.node[BareRoot].kind = "dir" /\ w.node[BareRoot].parent = BareRoot
    BY <1>6, NodeNumbers DEF TreeOK, KidsOK
  <2>. QED
    BY <2>1, <2>2, <2>3, <2>4 DEF KidsOK
<1>11. RootsOK(w)
  <2>. SUFFICES ASSUME NEW d \in VNode, w.node[d].root # Nil
                PROVE  /\ w.node[w.node[d].root].kind = "dir" /\ w.node[d].root # BareRoot
                       /\ \A e \in VNode : w.node[d].root \notin Kids(w, e)
                       /\ \A e \in VNode : w.node[e].root = w.node[d].root => e = d
    BY DEF RootsOK
  <2>1. \A e \in VNode : v.node[e].root # r
    BY <1>2 DEF Linked
  <2>2. CASE d = mp
    <3>1. w.node[d].root = r
      BY <1>6, <2>2
    <3>2. \A e \in VNode : r \notin Kids(w, e)
      BY <1>2, <1>7 DEF Linked
    <3>. QED
      BY <1>2, <1>6, <2>1, <2>2, <3>1, <3>2
  <2>3. CASE d # mp
    <3>1. w.node[d].root = v.node[d].root /\ v.node[d].root # Nil /\ v.node[d].root \in VNode
      BY <1>1, <1>6, <2>3 DEF NodeRec
    <3>2. \A e \in VNode : w.node[e].root = w.node[d].root => e = d
      BY <1>6, <2>1, <3>1 DEF TreeOK, RootsOK
    <3>. QED
      BY <1>6, <1>7, <3>1, <3>2 DEF TreeOK, RootsOK
  <2>. QED
    BY <2>2, <2>3
<1>12. \A x \in VNode : Linked(w, x) <=> x = r \/ Linked(v, x)
  <2>1. \A x, d \in VNode : w.node[d].root = x <=> (d = mp /\ x = r) \/ v.node[d].root = x
    BY <1>6, NodeNumbers
  <2>. QED
    BY <1>7, <2>1 DEF Linked
<1>13. LinksOK(w, X \ {r})
  BY <1>7, <1>12 DEF TreeOK, LinksOK
<1>14. MountsOK(w)
  <2>1. /\ DOMAIN v.mounts = 1..Len(v.mounts) /\ Len(v.mounts) \in Nat
        /\ DOMAIN w.mounts = 1..(Len(v.mounts) + 1)
        /\ \A i \in 1..Len(v.mounts) : w.mounts[i] = v.mounts[i]
        /\ w.mounts[Len(v.mounts) + 1] = m
    BY <1>1, <1>4
  <2>2. \A i \in DOMAIN v.mounts : /\ v.mounts[i].at \in VNode /\ v.mounts[i].at # mp
                                   /\ v.node[v.mounts[i].at].root # Nil
    BY <1>1, MountsAre DEF TreeOK, MountsOK
  <2>3. \A i \in DOMAIN w.mounts : \/ i \in DOMAIN v.mounts /\ w.mounts[i] = v.mounts[i]
                                   \/ i = Len(v.mounts) + 1 /\ w.mounts[i] = m
    BY <2>1
  <2>4. ASSUME NEW i \in DOMAIN w.mounts PROVE w.node[w.mounts[i].at].root # Nil
    BY <1>2, <1>3, <1>6, <2>2, <2>3
  <2>5. ASSUME NEW i \in DOMAIN w.mounts, NEW j \in DOMAIN w.mounts, w.mounts[i].at = w.mounts[j].at
        PROVE  i = j
    BY <1>3, <2>2, <2>3, <2>5 DEF TreeOK, MountsOK
  <2>6. ASSUME NEW d \in VNode, w.node[d].root # Nil PROVE \E i \in DOMAIN w.mounts : w.mounts[i].at = d
    <3>1. CASE d = mp
      <4>1. Len(v.mounts) + 1 \in DOMAIN w.mounts
        BY <2>1
      <4>. QED
        BY <1>3, <2>1, <3>1, <4>1
    <3>2. CASE d # mp
      <4>1. PICK i \in DOMAIN v.mounts : v.mounts[i].at = d
        BY <1>6, <2>6, <3>2 DEF TreeOK, MountsOK
      <4>2. i \in DOMAIN w.mounts /\ w.mounts[i] = v.mounts[i]
        BY <2>1
      <4>. QED
        BY <4>1, <4>2
    <3>. QED
      BY <3>1, <3>2
  <2>. QED
    BY <2>4, <2>5, <2>6 DEF MountsOK
<1>. QED
  BY <1>4, <1>6, <1>9, <1>10, <1>11, <1>13, <1>14 DEF TreeOK, AsMounted

\* The entry that a lookup in one directory finds.
LEMMA DirChildIs ==
    ASSUME NEW v \in Tree, NEW d \in VNode, NEW name
    PROVE  /\ DirChild(v, d, name) = Nil => \A k \in Kids(v, d) : v.node[k].name # name
           /\ DirChild(v, d, name) # Nil => /\ DirChild(v, d, name) \in Kids(v, d)
                                            /\ DirChild(v, d, name) \in VNode
                                            /\ v.node[DirChild(v, d, name)].name = name
<1>. DEFINE found == {i \in DOMAIN v.node[d].kids : v.node[v.node[d].kids[i]].name = name}
<1>1. v.node[d].kids \in Seq(VNode) /\ DOMAIN v.node[d].kids = 1..Len(v.node[d].kids) /\ found \subseteq Nat
  BY KidsAre
<1>2. CASE found = {}
  <2>1. DirChild(v, d, name) = Nil
    BY <1>2 DEF DirChild
  <2>2. \A k \in Kids(v, d) : v.node[k].name # name
    BY <1>2 DEF Kids, Range
  <2>. QED
    BY <2>1, <2>2
<1>3. CASE found # {}
  <2>1. DirChild(v, d, name) = v.node[d].kids[Min(found)]
    BY <1>3 DEF DirChild
  <2>2. Min(found) \in found
    <3>. HIDE DEF found
    <3>. QED
      BY <1>1, <1>3, MinOfNats
  <2>3. PICK i \in 1..Len(v.node[d].kids) : i = Min(found) /\ v.node[v.node[d].kids[i]].name = name
    BY <1>1, <2>2
  <2>. HIDE DEF found
  <2>4. v.node[d].kids[i] \in VNode /\ v.node[d].kids[i] \in Kids(v, d)
    BY <1>1, <2>3 DEF Kids, Range
  <2>. QED
    BY <2>1, <2>3, <2>4, NodeNumbers
<1>. QED
  BY <1>2, <1>3

\* A new node is entered, last or first in its directory, under a name that no
\* entry of the directory has.
NewIn(v, w, d, rec) ==
    /\ w.mounts = v.mounts
    /\ Kids(w, d) = Kids(v, d) \cup {NextNode(v)}
    /\ \A x \in VNode : w.node[x] = IF x = d THEN [v.node[d] EXCEPT !.kids = w.node[d].kids]
                                    ELSE IF x = NextNode(v) THEN [rec EXCEPT !.parent = d]
                                    ELSE v.node[x]

LEMMA NewChildKeeps ==
    ASSUME NEW v, NEW X, TreeOK(v, X), NextNode(v) # Nil,
           NEW rec \in NodeRec, rec.kind # "none", rec.kids = <<>>, rec.root = Nil,
           NEW d \in VNode, v.node[d].kind = "dir",
           \A k \in Kids(v, d) : v.node[k].name # rec.name
    PROVE  /\ TreeOK(NewChild(v, d, rec), X)
           /\ NewIn(v, NewChild(v, d, rec), d, rec)
<1>. DEFINE n == NextNode(v)
            t == TakeNode(v, rec)
            ks == Append(v.node[d].kids, n)
            w == NewChild(v, d, rec)
<1>1. /\ n \in VNode /\ ~Used(v, n) /\ n \notin X /\ ~Linked(v, n) /\ n # d
      /\ v \in Tree /\ v.node \in [VNode -> NodeRec]
  BY NextIsFree DEF TreeOK, Used, Tree
<1>2. TreeOK(t, X \cup {n}) /\ t.node = [v.node EXCEPT ![n] = rec] /\ t.mounts = v.mounts
  BY TakeKeeps
<1>3. /\ \A x \in VNode : t.node[x] = IF x = n THEN rec ELSE v.node[x]
      /\ t.node[d] = v.node[d] /\ t \in Tree
  BY <1>1, <1>2 DEF TreeOK
<1>4. Entered(t, w, n, d, ks)
  BY <1>1, <1>3 DEF NewChild, Attach, TreeOK, Tree, Entered
<1>. HIDE DEF w, t, n
<1>5. /\ ks \in Seq(VNode) /\ Range(ks) = Kids(t, d) \cup {n}
      /\ NamesApart(t, ks)
  <2>1. NamesApart(t, t.node[d].kids)
    BY <1>2 DEF TreeOK, KidsOK, NamesApart
  <2>2. t.node[d].kids \in Seq(VNode) /\ Kids(t, d) \subseteq VNode
    BY <1>3, KidsAre
  <2>3. \A k \in Range(t.node[d].kids) : t.node[k].name # t.node[n].name
    <3>1. Range(t.node[d].kids) = Kids(v, d) /\ n \notin Kids(v, d) /\ t.node[n] = rec
      BY <1>1, <1>3 DEF Kids, Linked
    <3>. QED
      BY <1>3, <2>2, <3>1 DEF Kids
  <2>4. PICK kd \in Seq(VNode) : kd = t.node[d].kids
    BY <2>2
  <2>6. NamesApart(t, kd) /\ NameFree(t, kd, t.node[n].name)
    BY <2>1, <2>3, <2>4 DEF NameFree
  <2>5. PICK q, r : Longer(q, r, kd, n)
    BY DEF Longer
  <2>7. /\ q \in Seq(VNode) /\ Range(q) = Range(kd) \cup {n} /\ NamesApart(t, q)
        /\ r \in Seq(VNode) /\ Range(r) = Range(kd) \cup {n} /\ NamesApart(t, r)
    BY <1>1, <2>5, <2>6, EntriesApart
  <2>. QED
    BY <1>3, <2>4, <2>5, <2>7 DEF Kids, Longer
<1>6. /\ TreeOK(w, (X \cup {n}) \ {n})
      /\ \A x \in VNode : w.node[x] = IF x = d THEN [t.node[d] EXCEPT !.kids = ks]
                                      ELSE IF x = n THEN [t.node[n] EXCEPT !.parent = d] ELSE t.node[x]
      /\ w.mounts = t.mounts
  <2>1. n \in X \cup {n} /\ t.node[d].kind = "dir"
    BY <1>3
  <2>. HIDE DEF ks
  <2>2. PICK Y : Y = X \cup {n}
    OBVIOUS
  <2>3. TreeOK(t, Y) /\ n \in Y /\ Y \ {n} = (X \cup {n}) \ {n}
    BY <1>2, <2>1, <2>2
  <2>4. TreeOK(w, Y \ {n}) /\ AsEntered(t, w, n, d, ks)
    BY <1>1, <1>4, <1>5, <2>1, <2>3, LinkKeeps
  <2>. QED
    BY <2>3, <2>4 DEF AsEntered
<1>7. TreeOK(w, X)
  <2>1. (X \cup {n}) \ {n} = X
    BY <1>1
  <2>. QED
    BY <1>6, <2>1
<1>8. w.node[d].kids = ks
  <2>1. w.node[d] = [t.node[d] EXCEPT !.kids = ks] /\ t.node[d] \in NodeRec
    BY <1>6, <1>3 DEF Tree
  <2>. QED
    BY <2>1 DEF NodeRec
<1>9. NewIn(v, w, d, rec)
  BY <1>2, <1>3, <1>5, <1>6, <1>8 DEF NewIn, Kids, n
<1>. QED
  BY <1>7, <1>9 DEF w

LEMMA AddFrontKeeps ==
    ASSUME NEW v, NEW X, TreeOK(v, X), NextNode(v) # Nil,
           NEW rec \in NodeRec, rec.kind # "none", rec.kids = <<>>, rec.root = Nil,
           NEW d \in VNode, v.node[d].kind = "dir",
           \A k \in Kids(v, d) : v.node[k].name # rec.name
    PROVE  /\ TreeOK(AddFront(v, d, rec), X)
           /\ NewIn(v, AddFront(v, d, rec), d, rec)
<1>. DEFINE n == NextNode(v)
            r == [rec EXCEPT !.parent = d]
            t == TakeNode(v, r)
            ks == <<n>> \o v.node[d].kids
            w == AddFront(v, d, rec)
<1>1. /\ n \in VNode /\ ~Used(v, n) /\ n \notin X /\ ~Linked(v, n) /\ n # d
      /\ v \in Tree /\ v.node \in [VNode -> NodeRec]
  BY NextIsFree DEF TreeOK, Used, Tree
<1>2. /\ r \in NodeRec /\ r.kind # "none" /\ r.kids = <<>> /\ r.root = Nil
      /\ r.name = rec.name /\ [r EXCEPT !.parent = d] = r
  BY DEF NodeRec
<1>. HIDE DEF r
<1>3. TreeOK(t, X \cup {n}) /\ t.node = [v.node EXCEPT ![n] = r] /\ t.mounts = v.mounts
  BY <1>2, TakeKeeps
<1>4. /\ \A x \in VNode : t.node[x] = IF x = n THEN r ELSE v.node[x]
      /\ t.node[d] = v.node[d] /\ t \in Tree /\ t.node \in [VNode -> NodeRec]
  BY <1>1, <1>3 DEF TreeOK, Tree
<1>5. w = [t EXCEPT !.node[d].kids = ks]
  BY <1>4 DEF AddFront, Tree, r
<1>. HIDE DEF w, t, n
<1>6. Entered(t, w, n, d, ks)
  <2>1. PICK a : a = [t.node EXCEPT ![d].kids = ks]
    OBVIOUS
  <2>3. \A x \in VNode : a[x] = IF x = d THEN [t.node[d] EXCEPT !.kids = ks] ELSE t.node[x]
    BY <1>4, <2>1
  <2>4. a[n] = r
    BY <1>1, <1>4, <2>3
  <2>5. [a EXCEPT ![n].parent = d] = a
    BY <1>1, <1>2, <1>4, <2>1, <2>4
  <2>. QED
    BY <1>4, <1>5, <2>1, <2>5 DEF Tree, Entered
<1>7. /\ ks \in Seq(VNode) /\ Range(ks) = Kids(t, d) \cup {n}
      /\ NamesApart(t, ks)
  <2>1. NamesApart(t, t.node[d].kids)
    BY <1>3 DEF TreeOK, KidsOK, NamesApart
  <2>2. t.node[d].kids \in Seq(VNode) /\ Kids(t, d) \subseteq VNode
    BY <1>4, KidsAre
  <2>3. \A k \in Range(t.node[d].kids) : t.node[k].name # t.node[n].name
    <3>1. Range(t.node[d].kids) = Kids(v, d) /\ n \notin Kids(v, d) /\ t.node[n] = r
      BY <1>1, <1>4 DEF Kids, Linked
    <3>. QED
      BY <1>2, <1>4, <2>2, <3>1 DEF Kids
  <2>4. PICK kd \in Seq(VNode) : kd = t.node[d].kids
    BY <2>2
  <2>6. NamesApart(t, kd) /\ NameFree(t, kd, t.node[n].name)
    BY <2>1, <2>3, <2>4 DEF NameFree
  <2>5. PICK q, p : Longer(q, p, kd, n)
    BY DEF Longer
  <2>7. /\ q \in Seq(VNode) /\ Range(q) = Range(kd) \cup {n} /\ NamesApart(t, q)
        /\ p \in Seq(VNode) /\ Range(p) = Range(kd) \cup {n} /\ NamesApart(t, p)
    BY <1>1, <2>5, <2>6, EntriesApart
  <2>. QED
    BY <1>4, <2>4, <2>5, <2>7 DEF Kids, Longer
<1>8. /\ TreeOK(w, (X \cup {n}) \ {n})
      /\ \A x \in VNode : w.node[x] = IF x = d THEN [t.node[d] EXCEPT !.kids = ks]
                                      ELSE IF x = n THEN [t.node[n] EXCEPT !.parent = d] ELSE t.node[x]
      /\ w.mounts = t.mounts
  <2>1. n \in X \cup {n} /\ t.node[d].kind = "dir"
    BY <1>4
  <2>. HIDE DEF ks
  <2>2. PICK Y : Y = X \cup {n}
    OBVIOUS
  <2>3. TreeOK(t, Y) /\ n \in Y /\ Y \ {n} = (X \cup {n}) \ {n}
    BY <1>3, <2>1, <2>2
  <2>4. TreeOK(w, Y \ {n}) /\ AsEntered(t, w, n, d, ks)
    BY <1>1, <1>6, <1>7, <2>1, <2>3, LinkKeeps
  <2>. QED
    BY <2>3, <2>4 DEF AsEntered
<1>9. TreeOK(w, X)
  <2>1. (X \cup {n}) \ {n} = X
    BY <1>1
  <2>. QED
    BY <1>8, <2>1
<1>10. w.node[d].kids = ks
  <2>1. w.node[d] = [t.node[d] EXCEPT !.kids = ks] /\ t.node[d] \in NodeRec
    BY <1>8, <1>4 DEF Tree
  <2>. QED
    BY <2>1 DEF NodeRec
<1>11. NewIn(v, w, d, rec)
  <2>1. \A x \in VNode : w.node[x] = IF x = d THEN [v.node[d] EXCEPT !.kids = ks]
                                     ELSE IF x = n THEN r ELSE v.node[x]
    BY <1>1, <1>2, <1>4, <1>8
  <2>2. Kids(w, d) = Kids(v, d) \cup {n}
    BY <1>4, <1>7, <1>10 DEF Kids
  <2>. HIDE DEF ks
  <2>. QED
    BY <1>3, <1>8, <1>10, <2>1, <2>2 DEF NewIn, n, r
<1>. QED
  BY <1>9, <1>11 DEF w

---------------------------------------------------------------------------
(* Lookups *)

\* Where a lookup goes on: at the node itself or at what is mounted on it. The
\* node is known from where the lookup goes on.
Entry(v, n) == n \in VNode /\ (n = BareRoot \/ \E d \in VNode : n \in Kids(v, d))

\* Followed to what is mounted there, an entry stays a node in use, and no two
\* entries become one.
LEMMA FollowIs ==
    ASSUME NEW v, NEW X, TreeOK(v, X), NEW n, Entry(v, n)
    PROVE  /\ Follow(v, n) \in VNode /\ Used(v, Follow(v, n)) /\ Follow(v, n) \notin X
           /\ v.node[n].kind = "dir" => v.node[Follow(v, n)].kind = "dir"
           /\ \A m : Entry(v, m) /\ Follow(v, m) = Follow(v, n) => m = n
           /\ Follow(v, n) \notin MountedRoots(v) => Follow(v, n) = n /\ v.node[n].root = Nil
<1>1. v \in Tree /\ \A x \in VNode : v.node[x] \in NodeRec /\ v.node[x].root \in VNode \cup {Nil}
  BY DEF TreeOK, Tree, NodeRec
<1>2. ASSUME NEW m, Entry(v, m) PROVE /\ m \in VNode /\ m # Nil /\ Used(v, m) /\ m \notin X
                                      /\ \A e \in VNode : v.node[e].root # m
  <2>1. m \in VNode /\ m # Nil
    BY <1>2, NodeNumbers DEF Entry
  <2>2. Used(v, m)
    BY <1>2, <2>1 DEF Entry, TreeOK, KidsOK, Used
  <2>3. m \notin X
    BY <1>2 DEF Entry, TreeOK, LinksOK, Linked
  <2>4. \A e \in VNode : v.node[e].root # m
    BY <1>2, <2>1 DEF Entry, TreeOK, RootsOK
  <2>. QED
    BY <2>1, <2>2, <2>3, <2>4
<1>3. \A m : Entry(v, m) => Follow(v, m) = IF v.node[m].root # Nil THEN v.node[m].root ELSE m
  BY <1>2 DEF Follow
<1>4. Follow(v, n) \in VNode /\ Used(v, Follow(v, n)) /\ Follow(v, n) \notin X
  <2>1. CASE v.node[n].root # Nil
    <3>1. v.node[n].root \in VNode /\ Follow(v, n) = v.node[n].root /\ v.node[v.node[n].root].kind = "dir"
      BY <1>1, <1>2, <1>3, <2>1 DEF TreeOK, RootsOK
    <3>2. v.node[n].root \notin X
      BY <1>2, <3>1 DEF TreeOK, LinksOK, Linked
    <3>. QED
      BY <3>1, <3>2 DEF Used
  <2>2. CASE v.node[n].root = Nil
    BY <1>2, <1>3, <2>2
  <2>. QED
    BY <2>1, <2>2
<1>5. v.node[n].kind = "dir" => v.node[Follow(v, n)].kind = "dir"
  BY <1>2, <1>3 DEF TreeOK, RootsOK
<1>6. ASSUME NEW m, Entry(v, m), Follow(v, m) = Follow(v, n) PROVE m = n
  <2>1. Follow(v, m) = v.node[m].root \/ Follow(v, m) = m
    BY <1>3, <1>6
  <2>2. v.node[m].root # Nil /\ v.node[n].root = v.node[m].root => m = n
    BY <1>2, <1>6 DEF TreeOK, RootsOK
  <2>. QED
    BY <1>2, <1>3, <1>6, <2>2
<1>7. Follow(v, n) \notin MountedRoots(v) => Follow(v, n) = n /\ v.node[n].root = Nil
  BY <1>2, <1>3 DEF MountedRoots
<1>. QED
  BY <1>4, <1>5, <1>6, <1>7

\* Entries that are followed to the same node are the same.
LEMMA FollowsApart ==
    ASSUME NEW v, NEW X, TreeOK(v, X), NEW a, Entry(v, a), NEW b, Entry(v, b),
           Follow(v, a) = Follow(v, b)
    PROVE  a = b
<1>1. \A m : Entry(v, m) /\ Follow(v, m) = Follow(v, b) => m = b
  BY FollowIs
<1>. QED
  BY <1>1

\* The steps of a lookup.
WalkStep(v, n, name) == IF IsDir(v, n) THEN Follow(v, DirChild(v, n, name)) ELSE Nil

\* A lookup goes from node to node, or fails.
LEMMA WalkStepIs ==
    ASSUME NEW v \in Tree, NEW n \in VNode \cup {Nil}, NEW name
    PROVE  WalkStep(v, n, name) \in VNode \cup {Nil}
<1>1. CASE IsDir(v, n)
  <2>1. n \in VNode
    BY <1>1 DEF IsDir
  <2>2. PICK k \in VNode \cup {Nil} : k = DirChild(v, n, name)
    BY <2>1, DirChildIs
  <2>3. Follow(v, k) \in VNode \cup {Nil}
    BY <2>2 DEF Follow, Tree, NodeRec
  <2>. QED
    BY <1>1, <2>2, <2>3 DEF WalkStep
<1>2. CASE ~IsDir(v, n)
  BY <1>2 DEF WalkStep
<1>. QED
  BY <1>1, <1>2

\* A lookup, name after name.
LEMMA WalkIs ==
    ASSUME NEW v \in Tree, NEW path \in Seq(Name)
    PROVE  /\ \A i \in 0..Len(path) : Walk(v, path)[i] \in VNode \cup {Nil}
           /\ Walk(v, path)[0] = Follow(v, BareRoot)
           /\ \A i \in 1..Len(path) : Walk(v, path)[i] = WalkStep(v, Walk(v, path)[i - 1], path[i])
<1>. DEFINE A == VNode \cup {Nil}
            n == Len(path)
            a == Follow(v, BareRoot)
            step == [i \in 1..n |-> [x \in A |-> WalkStep(v, x, path[i])]]
            Runs(h) == h = [i \in 0..n |-> IF i = 0 THEN a
                                           ELSE IF IsDir(v, h[i - 1]) THEN Follow(v, DirChild(v, h[i - 1], path[i]))
                                           ELSE Nil]
<1>1. n \in Nat /\ a \in A
  BY NodeNumbers DEF Follow, Tree, NodeRec
<1>2. step \in [1..n -> [A -> A]]
  BY WalkStepIs
<1>3. \A i \in 1..n : i - 1 \in 0..n
  BY <1>1
<1>. HIDE DEF A, a, n
<1>4. PICK h \in [0..n -> A] : h = [i \in 0..n |-> IF i = 0 THEN a ELSE step[i][h[i - 1]]]
  <2>. HIDE DEF step
  <2>1. \E h \in [0..n -> A] : IsLoop(h, n, a, step)
    BY <1>1, <1>2, LoopRuns
  <2>. QED
    BY <2>1 DEF IsLoop
<1>5. Runs(h)
  <2>1. \A i \in 0..n : i # 0 => /\ i \in 1..n /\ i - 1 \in 0..n
    BY <1>1
  <2>2. \A i \in 1..n : step[i][h[i - 1]] = WalkStep(v, h[i - 1], path[i])
    BY <1>3, <1>4
  <2>3. \A i \in 0..n : h[i] = IF i = 0 THEN a ELSE WalkStep(v, h[i - 1], path[i])
    BY <1>4, <2>1, <2>2
  <2>. QED
    BY <1>4, <2>3 DEF WalkStep
<1>6. Walk(v, path) = CHOOSE g : Runs(g)
  BY DEF Walk, n, a
<1>7. PICK g : g = Walk(v, path) /\ Runs(g)
  <2>. HIDE DEF Runs
  <2>. QED
    BY <1>5, <1>6
<1>8. g[0] = a /\ \A i \in 1..n : g[i] = WalkStep(v, g[i - 1], path[i])
  <2>1. 0 \in 0..n /\ \A i \in 1..n : i \in 0..n /\ i # 0
    BY <1>1
  <2>. QED
    BY <1>7, <2>1 DEF WalkStep
<1>9. \A i \in 0..n : g[i] \in A
  <2>1. ASSUME NEW i \in 1..n, g[i - 1] \in A PROVE g[i] \in A
    BY <1>8, <2>1, WalkStepIs DEF A
  <2>. HIDE DEF Runs
  <2>. QED
    BY <1>1, <1>8, <2>1, LoopKeeps
<1>. QED
  BY <1>7, <1>8, <1>9 DEF A, a, n

\* A lookup that gets on took an entry of the directory where it was.
LEMMA WalkTakes ==
    ASSUME NEW v, NEW X, TreeOK(v, X), NEW d, NEW name, WalkStep(v, d, name) # Nil
    PROVE  /\ d \in VNode \cup {Nil} => d \in VNode
           /\ d \in VNode => /\ v.node[d].kind = "dir"
                             /\ Entry(v, DirChild(v, d, name)) /\ DirChild(v, d, name) # BareRoot
                             /\ DirChild(v, d, name) \in Kids(v, d)
                             /\ v.node[DirChild(v, d, name)].name = name
                             /\ WalkStep(v, d, name) = Follow(v, DirChild(v, d, name))
<1>1. IsDir(v, d) /\ WalkStep(v, d, name) = Follow(v, DirChild(v, d, name))
  BY DEF WalkStep
<1>2. d # Nil /\ v.node[d].kind = "dir"
  BY <1>1 DEF IsDir
<1>3. ASSUME d \in VNode
      PROVE  /\ Entry(v, DirChild(v, d, name)) /\ DirChild(v, d, name) # BareRoot
             /\ DirChild(v, d, name) \in Kids(v, d)
             /\ v.node[DirChild(v, d, name)].name = name
  <2>1. DirChild(v, d, name) # Nil
    BY <1>1 DEF Follow
  <2>2. /\ DirChild(v, d, name) \in Kids(v, d) /\ DirChild(v, d, name) \in VNode
        /\ v.node[DirChild(v, d, name)].name = name
    BY <1>3, <2>1, DirChildIs DEF TreeOK
  <2>3. DirChild(v, d, name) # BareRoot
    BY <1>3, <2>2 DEF TreeOK, KidsOK
  <2>. QED
    BY <1>3, <2>2, <2>3 DEF Entry
<1>. QED
  BY <1>1, <1>2, <1>3

\* Where a lookup comes is a node in use, the root or what an entry leads to.
LEMMA WalkFound ==
    ASSUME NEW v, NEW X, TreeOK(v, X), NEW path \in Seq(Name), NEW i \in 0..Len(path),
           Walk(v, path)[i] # Nil
    PROVE  /\ Walk(v, path)[i] \in VNode /\ Used(v, Walk(v, path)[i]) /\ Walk(v, path)[i] \notin X
           /\ \E c : Entry(v, c) /\ Walk(v, path)[i] = Follow(v, c) /\ (c = BareRoot <=> i = 0)
<1>1. v \in Tree
  BY DEF TreeOK
<1>2. PICK g : g = Walk(v, path)
  OBVIOUS
<1>3. /\ \A j \in 0..Len(path) : g[j] \in VNode \cup {Nil}
      /\ g[0] = Follow(v, BareRoot)
      /\ \A j \in 1..Len(path) : g[j] = WalkStep(v, g[j - 1], path[j])
  BY <1>1, <1>2, WalkIs
<1>4. PICK c : Entry(v, c) /\ g[i] = Follow(v, c) /\ (c = BareRoot <=> i = 0)
  <2>1. CASE i = 0
    BY <1>3, <2>1, NodeNumbers DEF Entry
  <2>2. CASE i # 0
    <3>1. i \in 1..Len(path) /\ i - 1 \in 0..Len(path)
      BY <2>2
    <3>2. g[i] = WalkStep(v, g[i - 1], path[i]) /\ g[i - 1] \in VNode \cup {Nil} /\ g[i] # Nil
      BY <1>2, <1>3, <3>1
    <3>. QED
      BY <2>2, <3>2, WalkTakes
  <2>. QED
    BY <2>1, <2>2
<1>5. Follow(v, c) \in VNode /\ Used(v, Follow(v, c)) /\ Follow(v, c) \notin X
  BY <1>4, FollowIs
<1>. QED
  BY <1>2, <1>4, <1>5

\* Two lookups that meet have come the same way.
LEMMA WalksApart ==
    ASSUME NEW v, NEW X, TreeOK(v, X), NEW p \in Seq(Name), NEW q \in Seq(Name)
    PROVE  \A i \in 0..Len(p), j \in 0..Len(q) :
              Walk(v, p)[i] = Walk(v, q)[j] /\ Walk(v, p)[i] # Nil
                  => i = j /\ \A k \in 1..i : p[k] = q[k]
<1>1. v \in Tree
  BY DEF TreeOK
<1>2. PICK f, g : f = Walk(v, p) /\ g = Walk(v, q)
  OBVIOUS
<1>3. /\ \A j \in 0..Len(p) : f[j] \in VNode \cup {Nil}
      /\ f[0] = Follow(v, BareRoot)
      /\ \A j \in 1..Len(p) : f[j] = WalkStep(v, f[j - 1], p[j])
  BY <1>1, <1>2, WalkIs
<1>4. /\ \A j \in 0..Len(q) : g[j] \in VNode \cup {Nil}
      /\ g[0] = Follow(v, BareRoot)
      /\ \A j \in 1..Len(q) : g[j] = WalkStep(v, g[j - 1], q[j])
  BY <1>1, <1>2, WalkIs
<1>. DEFINE Same(i, j) == i = j /\ \A k \in 1..i : p[k] = q[k]
            S == {i \in 0..Len(p) : \A j \in 0..Len(q) : f[i] = g[j] /\ f[i] # Nil => Same(i, j)}
<1>5. ASSUME NEW i \in 0..Len(p), NEW j \in 0..Len(q), f[i] = g[j], f[i] # Nil
      PROVE  i = 0 <=> j = 0
  <2>1. PICK b : Entry(v, b) /\ f[i] = Follow(v, b) /\ (b = BareRoot <=> i = 0)
    BY <1>2, <1>5, WalkFound
  <2>2. PICK c : Entry(v, c) /\ g[j] = Follow(v, c) /\ (c = BareRoot <=> j = 0)
    BY <1>2, <1>5, WalkFound
  <2>3. b = c
    BY <1>5, <2>1, <2>2, FollowsApart
  <2>. QED
    BY <2>1, <2>2, <2>3
<1>6. 0 \in S
  <2>1. ASSUME NEW j \in 0..Len(q), f[0] = g[j], f[0] # Nil PROVE Same(0, j)
    <3>1. j = 0
      BY <1>5, <2>1
    <3>. QED
      BY <3>1
  <2>. HIDE DEF Same
  <2>. QED
    BY <2>1
<1>7. ASSUME NEW i \in 1..Len(p), i - 1 \in S PROVE i \in S
  <2>1. ASSUME NEW j \in 0..Len(q), f[i] = g[j], f[i] # Nil PROVE Same(i, j)
    <3>1. j \in 1..Len(q) /\ i - 1 \in 0..Len(p) /\ j - 1 \in 0..Len(q) /\ i \in 0..Len(p)
      BY <1>5, <2>1
    <3>2. f[i] = WalkStep(v, f[i - 1], p[i]) /\ f[i - 1] \in VNode \cup {Nil}
      BY <1>3, <3>1
    <3>3. g[j] = WalkStep(v, g[j - 1], q[j]) /\ g[j - 1] \in VNode \cup {Nil}
      BY <1>4, <3>1
    <3>4. PICK b : b = DirChild(v, f[i - 1], p[i])
      OBVIOUS
    <3>5. PICK c : c = DirChild(v, g[j - 1], q[j])
      OBVIOUS
    <3>6. /\ f[i - 1] \in VNode /\ Entry(v, b) /\ b \in Kids(v, f[i - 1])
          /\ v.node[b].name = p[i] /\ f[i] = Follow(v, b)
      BY <2>1, <3>2, <3>4, WalkTakes
    <3>7. /\ g[j - 1] \in VNode /\ Entry(v, c) /\ c \in Kids(v, g[j - 1])
          /\ v.node[c].name = q[j] /\ g[j] = Follow(v, c)
      BY <2>1, <3>3, <3>5, WalkTakes
    <3>8. b = c
      BY <2>1, <3>6, <3>7, FollowsApart
    <3>9. f[i - 1] = g[j - 1] /\ p[i] = q[j]
      BY <3>6, <3>7, <3>8 DEF TreeOK, KidsOK
    <3>10. f[i - 1] # Nil
      BY <3>6, NodeNumbers
    <3>11. Same(i - 1, j - 1)
      <4>. HIDE DEF Same
      <4>. QED
        BY <1>7, <3>1, <3>9, <3>10
    <3>12. i = j
      BY <3>1, <3>11
    <3>13. \A k \in 1..i : k = i \/ k \in 1..(i - 1)
      OBVIOUS
    <3>. QED
      BY <3>9, <3>11, <3>12, <3>13
  <2>. HIDE DEF Same
  <2>. QED
    BY <2>1
<1>8. 0..Len(p) \subseteq S
  <2>. HIDE DEF S
  <2>1. Len(p) \in Nat
    OBVIOUS
  <2>. QED
    BY <1>6, <1>7, <2>1, CountingUp
<1>. QED
  BY <1>2, <1>8

\* A lookup does not depend on the names that follow.
LEMMA WalkPrefix ==
    ASSUME NEW v \in Tree, NEW p \in Seq(Name), NEW q \in Seq(Name), Len(p) <= Len(q),
           \A i \in 1..Len(p) : p[i] = q[i]
    PROVE  \A i \in 0..Len(p) : Walk(v, p)[i] = Walk(v, q)[i]
<1>1. PICK f, g : f = Walk(v, p) /\ g = Walk(v, q)
  OBVIOUS
<1>2. f[0] = Follow(v, BareRoot) /\ \A j \in 1..Len(p) : f[j] = WalkStep(v, f[j - 1], p[j])
  BY <1>1, WalkIs
<1>3. g[0] = Follow(v, BareRoot) /\ \A j \in 1..Len(q) : g[j] = WalkStep(v, g[j - 1], q[j])
  BY <1>1, WalkIs
<1>. DEFINE S == {i \in 0..Len(p) : f[i] = g[i]}
<1>4. 0 \in S
  BY <1>2, <1>3
<1>5. ASSUME NEW i \in 1..Len(p), i - 1 \in S PROVE i \in S
  <2>1. i \in 1..Len(q) /\ f[i - 1] = g[i - 1] /\ p[i] = q[i]
    BY <1>5
  <2>2. f[i] = g[i]
    BY <1>2, <1>3, <2>1
  <2>. QED
    BY <2>2
<1>6. 0..Len(p) \subseteq S
  <2>. HIDE DEF S
  <2>1. Len(p) \in Nat
    OBVIOUS
  <2>. QED
    BY <1>4, <1>5, <2>1, CountingUp
<1>. QED
  BY <1>1, <1>6

\* A path is what is above its last name, and the last name.
LEMMA FrontIs ==
    ASSUME NEW path \in Seq(Name), path # <<>>
    PROVE  /\ Front(path) \in Seq(Name) /\ Len(Front(path)) = Len(path) - 1 /\ Len(path) \in Nat \ {0}
           /\ \A i \in 1..(Len(path) - 1) : Front(path)[i] = path[i]
           /\ Last(path) = path[Len(path)] /\ Last(path) \in Name
<1>1. Len(path) \in Nat \ {0} /\ Len(path) \in 1..Len(path)
  OBVIOUS
<1>2. Front(path) = SubSeq(path, 1, Len(path) - 1) /\ Last(path) = path[Len(path)]
  BY DEF Front, Last
<1>3. PICK m \in 1..Len(path) : m = Len(path)
  BY <1>1
<1>4. /\ SubSeq(path, 1, m - 1) \in Seq(Name)
      /\ Len(SubSeq(path, 1, m - 1)) = m - 1
      /\ \A i \in 1..(m - 1) : SubSeq(path, 1, m - 1)[i] = path[i]
  OBVIOUS
<1>5. path[Len(path)] \in Name
  BY <1>1
<1>. QED
  BY <1>1, <1>2, <1>3, <1>4, <1>5

\* What a lookup returns, by the last name of the path.
LEMMA LookupIs ==
    ASSUME NEW v, NEW X, TreeOK(v, X), NEW path \in Seq(Name)
    PROVE  /\ Lookup(v, path) \in VNode \cup {Nil}
           /\ Lookup(v, path) # Nil => /\ Lookup(v, path) \in VNode /\ Used(v, Lookup(v, path))
                                       /\ Lookup(v, path) \notin X
                                       /\ \E c : /\ Entry(v, c) /\ Lookup(v, path) = Follow(v, c)
                                                 /\ c = BareRoot <=> path = <<>>
           /\ path = <<>> => Lookup(v, path) = Follow(v, BareRoot)
           /\ path # <<>> => Lookup(v, path) = WalkStep(v, EntryDir(v, path), Last(path))
<1>1. v \in Tree /\ Len(path) \in Nat
  BY DEF TreeOK
<1>2. PICK g : g = Walk(v, path)
  OBVIOUS
<1>3. /\ \A j \in 0..Len(path) : g[j] \in VNode \cup {Nil}
      /\ g[0] = Follow(v, BareRoot)
      /\ \A j \in 1..Len(path) : g[j] = WalkStep(v, g[j - 1], path[j])
  BY <1>1, <1>2, WalkIs
<1>4. Lookup(v, path) = g[Len(path)] /\ Len(path) \in 0..Len(path) /\ (Len(path) = 0 <=> path = <<>>)
  BY <1>1, <1>2 DEF Lookup
<1>5. Lookup(v, path) \in VNode \cup {Nil}
  BY <1>3, <1>4
<1>6. path = <<>> => Lookup(v, path) = Follow(v, BareRoot)
  BY <1>3, <1>4
<1>7. ASSUME path # <<>> PROVE Lookup(v, path) = WalkStep(v, EntryDir(v, path), Last(path))
  <2>1. /\ Front(path) \in Seq(Name) /\ Len(Front(path)) = Len(path) - 1 /\ Len(path) \in 1..Len(path)
        /\ \A i \in 1..(Len(path) - 1) : Front(path)[i] = path[i]
        /\ Last(path) = path[Len(path)]
    BY <1>1, <1>7, FrontIs
  <2>2. Walk(v, Front(path))[Len(path) - 1] = g[Len(path) - 1]
    <3>1. PICK f \in Seq(Name) : f = Front(path)
      BY <2>1
    <3>2. Len(f) <= Len(path) /\ \A i \in 1..Len(f) : f[i] = path[i]
      BY <1>1, <2>1, <3>1
    <3>3. Len(f) \in 0..Len(f) /\ Len(f) = Len(path) - 1
      BY <2>1, <3>1
    <3>4. \A i \in 0..Len(f) : Walk(v, f)[i] = Walk(v, path)[i]
      BY <1>1, <3>2, WalkPrefix
    <3>. QED
      BY <1>2, <3>1, <3>3, <3>4
  <2>3. EntryDir(v, path) = g[Len(path) - 1]
    BY <2>1, <2>2 DEF EntryDir, Lookup
  <2>. QED
    BY <1>3, <1>4, <2>1, <2>3
<1>8. ASSUME Lookup(v, path) # Nil
      PROVE  /\ Lookup(v, path) \in VNode /\ Used(v, Lookup(v, path)) /\ Lookup(v, path) \notin X
             /\ \E c : /\ Entry(v, c) /\ Lookup(v, path) = Follow(v, c)
                       /\ c = BareRoot <=> path = <<>>
  <2>1. PICK i \in 0..Len(path) : i = Len(path)
    BY <1>4
  <2>2. Walk(v, path)[i] # Nil /\ Lookup(v, path) = Walk(v, path)[i]
    BY <1>2, <1>4, <1>8, <2>1
  <2>3. /\ Walk(v, path)[i] \in VNode /\ Used(v, Walk(v, path)[i]) /\ Walk(v, path)[i] \notin X
        /\ \E c : Entry(v, c) /\ Walk(v, path)[i] = Follow(v, c) /\ (c = BareRoot <=> i = 0)
    BY <2>2, WalkFound
  <2>. QED
    BY <1>4, <2>1, <2>2, <2>3
<1>. QED
  BY <1>5, <1>6, <1>7, <1>8

\* A node has one path.
LEMMA LookupsApart ==
    ASSUME NEW v, NEW X, TreeOK(v, X), NEW p \in Seq(Name), NEW q \in Seq(Name),
           Lookup(v, p) = Lookup(v, q), Lookup(v, p) # Nil
    PROVE  p = q
<1>1. Len(p) \in 0..Len(p) /\ Len(q) \in 0..Len(q)
  OBVIOUS
<1>2. \A i \in 0..Len(p), j \in 0..Len(q) :
              Walk(v, p)[i] = Walk(v, q)[j] /\ Walk(v, p)[i] # Nil
                  => i = j /\ \A k \in 1..i : p[k] = q[k]
  BY WalksApart
<1>3. Len(p) = Len(q) /\ \A k \in 1..Len(p) : p[k] = q[k]
  BY <1>1, <1>2 DEF Lookup
<1>. QED
  BY <1>3

\* Relative paths are resolved to paths.
LEMMA KeepNameIs ==
    ASSUME NEW out \in Seq(Name), NEW s \in Name
    PROVE  KeepName(out, s) \in Seq(Name)
<1>1. CASE s = "."
  BY <1>1, Zenon DEF KeepName
<1>2. ASSUME s # ".", s = ".." PROVE KeepName(out, s) \in Seq(Name)
  <2>1. KeepName(out, s) = IF out = <<>> THEN out ELSE Front(out)
    BY <1>2, Zenon DEF KeepName
  <2>. QED
    BY <2>1, FrontIs
<1>3. ASSUME s # ".", s # ".." PROVE KeepName(out, s) \in Seq(Name)
  <2>1. KeepName(out, s) = IF Len(out) < SegMax THEN Append(out, s) ELSE out
    BY <1>3, Zenon DEF KeepName
  <2>. QED
    BY <2>1
<1>. QED
  BY <1>1, <1>2, <1>3

\* Names that programs pass.
LEMMA StringsAreNames == STRING \subseteq Name
BY Zenon DEF Name

\* A sequence over a set is one over each wider set.
LEMMA WiderSeq ==
    ASSUME NEW S, NEW T, S \subseteq T, NEW q \in Seq(S)
    PROVE  q \in Seq(T)
OBVIOUS

\* What vfs_resolve returns is a path.
LEMMA ResolveIs ==
    ASSUME NEW dir \in Seq(Name), NEW p \in Inputs
    PROVE  Resolve(dir, p) \in Seq(Name)
<1>1. PICK raw \in Seq(Name) : raw = IF p.abs THEN p.segs ELSE dir \o p.segs
  <2>1. p.segs \in Seq(STRING)
    BY VfsAssumption
  <2>2. p.segs \in Seq(Name)
    BY <2>1, WiderSeq, StringsAreNames
  <2>3. (IF p.abs THEN p.segs ELSE dir \o p.segs) \in Seq(Name)
    BY <2>2
  <2>. QED
    BY <2>3
<1>2. PICK n \in Nat : n = Min({Len(raw), RawMax}) /\ n <= Len(raw)
  <2>1. Len(raw) \in Nat /\ RawMax \in Nat
    BY VfsAssumption
  <2>. QED
    BY <2>1, MinOfTwo
<1>. DEFINE step == [i \in 1..n |-> [out \in Seq(Name) |-> KeepName(out, raw[i])]]
            Runs(h) == h = [i \in 0..n |-> IF i = 0 THEN <<>> ELSE KeepName(h[i - 1], raw[i])]
<1>3. \A i \in 1..n : raw[i] \in Name
  BY <1>1, <1>2
<1>4. step \in [1..n -> [Seq(Name) -> Seq(Name)]]
  BY <1>3, KeepNameIs
<1>5. <<>> \in Seq(Name)
  OBVIOUS
<1>6. PICK h \in [0..n -> Seq(Name)] : h = [i \in 0..n |-> IF i = 0 THEN <<>> ELSE step[i][h[i - 1]]]
  <2>. HIDE DEF step
  <2>1. \E h \in [0..n -> Seq(Name)] : IsLoop(h, n, <<>>, step)
    BY <1>4, <1>5, LoopRuns
  <2>. QED
    BY <2>1 DEF IsLoop
<1>7. Runs(h)
  <2>1. \A i \in 0..n : i # 0 => i \in 1..n /\ i - 1 \in 0..n
    OBVIOUS
  <2>2. \A i \in 1..n : step[i][h[i - 1]] = KeepName(h[i - 1], raw[i])
    <3>1. \A i \in 1..n : h[i - 1] \in Seq(Name)
      <4>1. \A i \in 1..n : i - 1 \in 0..n
        OBVIOUS
      <4>. QED
        BY <4>1
    <3>. QED
      BY <3>1
  <2>3. \A i \in 0..n : h[i] = IF i = 0 THEN <<>> ELSE KeepName(h[i - 1], raw[i])
    BY <1>6, <2>1, <2>2
  <2>. QED
    BY <1>6, <2>3
<1>8. Resolve(dir, p) = (CHOOSE g : Runs(g))[n]
  BY <1>1, <1>2 DEF Resolve
<1>9. PICK g : g[n] = Resolve(dir, p) /\ Runs(g)
  <2>. HIDE DEF Runs
  <2>. QED
    BY <1>7, <1>8
<1>10. g[0] = <<>> /\ \A i \in 1..n : g[i] = KeepName(g[i - 1], raw[i])
  <2>1. 0 \in 0..n /\ \A i \in 1..n : i \in 0..n /\ i # 0
    OBVIOUS
  <2>. QED
    BY <1>9, <2>1
<1>11. \A i \in 0..n : g[i] \in Seq(Name)
  <2>1. g[0] \in Seq(Name)
    BY <1>10
  <2>2. ASSUME NEW i \in 1..n, g[i - 1] \in Seq(Name) PROVE g[i] \in Seq(Name)
    BY <1>3, <1>10, <2>2, KeepNameIs
  <2>. HIDE DEF Runs
  <2>. QED
    BY <2>1, <2>2, LoopKeeps
<1>12. n \in 0..n
  OBVIOUS
<1>. HIDE DEF Runs
<1>. QED
  BY <1>9, <1>11, <1>12

---------------------------------------------------------------------------
(* Unmounting *)

Depth == Cardinality(VNode)

\* There are as many levels as nodes.
LEMMA DepthIs == Depth \in Nat /\ Depth = PoolSize + HeapNodes /\ IsFiniteSet(VNode)
<1>1. PoolSize + HeapNodes \in Nat /\ PoolSize + HeapNodes > 0
  BY NodeNumbers
<1>. QED
  BY <1>1, FS_Interval DEF Depth, VNode

\* The nodes at each depth below a node.
Levels(v, root, lv) ==
    /\ lv \in [0..Depth -> SUBSET VNode] /\ lv[0] = {root}
    /\ \A i \in 1..Depth : lv[i] = UNION {Kids(v, x) : x \in lv[i - 1]}

\* Nodes have levels below a root.
LEMMA LevelsExist ==
    ASSUME NEW v \in Tree, NEW root \in VNode
    PROVE  \E lv : Levels(v, root, lv)
<1>. DEFINE A == SUBSET VNode
            step == [i \in 1..Depth |-> [S \in A |-> UNION {Kids(v, x) : x \in S}]]
<1>1. \A S \in A : UNION {Kids(v, x) : x \in S} \in A
  BY KidsAre
<1>2. step \in [1..Depth -> [A -> A]] /\ {root} \in A
  BY <1>1
<1>3. PICK lv \in [0..Depth -> A] : IsLoop(lv, Depth, {root}, step)
  <2>. HIDE DEF A, step
  <2>. QED
    BY <1>2, DepthIs, LoopRuns
<1>4. lv[0] = {root} /\ \A i \in 1..Depth : i - 1 \in 0..Depth /\ lv[i] = step[i][lv[i - 1]]
  <2>1. 0 \in 0..Depth /\ \A i \in 1..Depth : i \in 0..Depth /\ i # 0 /\ i - 1 \in 0..Depth
    BY DepthIs
  <2>. HIDE DEF step
  <2>. QED
    BY <1>3, <2>1 DEF IsLoop
<1>5. ASSUME NEW i \in 1..Depth PROVE lv[i] = UNION {Kids(v, x) : x \in lv[i - 1]}
  <2>1. lv[i - 1] \in A
    <3>. HIDE DEF A
    <3>. QED
      BY <1>4
  <2>2. step[i][lv[i - 1]] = UNION {Kids(v, x) : x \in lv[i - 1]}
    BY <2>1
  <2>. HIDE DEF step
  <2>. QED
    BY <1>4, <2>2
<1>. QED
  BY <1>4, <1>5 DEF Levels

\* What is below a node that is no entry: no node twice, and no deeper than
\* there are nodes.
LEMMA LevelsApart ==
    ASSUME NEW v, NEW X, TreeOK(v, X), NEW root \in VNode, \A d \in VNode : root \notin Kids(v, d),
           NEW lv, Levels(v, root, lv)
    PROVE  /\ \A i, j \in 0..Depth : i < j => lv[i] \cap lv[j] = {}
           /\ lv[Depth] = {}
<1>1. v \in Tree /\ \A d \in VNode : Kids(v, d) \subseteq VNode
  BY KidsAre DEF TreeOK
<1>2. ASSUME NEW i \in 1..Depth, NEW x \in lv[i]
      PROVE  /\ \E d \in lv[i - 1] : d \in VNode /\ x \in Kids(v, d)
             /\ i - 1 \in 0..Depth /\ x \in VNode
  <2>1. i - 1 \in 0..Depth /\ i \in 0..Depth
    BY DepthIs
  <2>2. lv[i - 1] \subseteq VNode /\ lv[i] \subseteq VNode
    BY <2>1 DEF Levels
  <2>. QED
    BY <2>1, <2>2 DEF Levels
<1>. DEFINE Apart(i) == \A j \in 0..Depth : i < j => lv[i] \cap lv[j] = {}
            S == {i \in 0..Depth : Apart(i)}
<1>3. 0 \in S
  <2>1. ASSUME NEW j \in 0..Depth, 0 < j PROVE lv[0] \cap lv[j] = {}
    <3>1. j \in 1..Depth
      BY <2>1
    <3>2. root \notin lv[j]
      BY <1>2, <3>1
    <3>. QED
      BY <3>2 DEF Levels
  <2>. QED
    BY <2>1, DepthIs
<1>4. ASSUME NEW i \in 1..Depth, i - 1 \in S PROVE i \in S
  <2>1. ASSUME NEW j \in 0..Depth, i < j, NEW x \in lv[i], x \in lv[j] PROVE FALSE
    <3>1. j \in 1..Depth /\ i - 1 < j - 1 /\ j - 1 \in 0..Depth
      BY <2>1, DepthIs
    <3>2. PICK d \in lv[i - 1] : d \in VNode /\ x \in Kids(v, d)
      BY <1>2
    <3>3. PICK e \in lv[j - 1] : e \in VNode /\ x \in Kids(v, e)
      BY <1>2, <2>1, <3>1
    <3>4. d = e
      BY <3>2, <3>3 DEF TreeOK, KidsOK
    <3>5. lv[i - 1] \cap lv[j - 1] = {}
      BY <1>4, <3>1
    <3>. QED
      BY <3>4, <3>5
  <2>2. i \in 0..Depth
    BY DepthIs
  <2>. QED
    BY <2>1, <2>2
<1>5. 0..Depth \subseteq S
  <2>. HIDE DEF S
  <2>. QED
    BY <1>3, <1>4, DepthIs, CountingUp
<1>6. \A i, j \in 0..Depth : i < j => lv[i] \cap lv[j] = {}
  BY <1>5
<1>7. ASSUME lv[Depth] # {} PROVE FALSE
  <2>1. ASSUME NEW k \in 0..Depth, lv[k] = {} PROVE FALSE
    <3>. DEFINE R == {i \in 0..Depth : k <= i => lv[i] = {}}
    <3>1. 0 \in R
      <4>1. k <= 0 => k = 0
        BY DepthIs
      <4>. QED
        BY <2>1, <4>1, DepthIs
    <3>2. ASSUME NEW i \in 1..Depth, i - 1 \in R PROVE i \in R
      <4>1. i \in 0..Depth /\ (k <= i => k = i \/ k <= i - 1)
        BY DepthIs
      <4>2. lv[i - 1] = {} => lv[i] = {}
        BY DEF Levels
      <4>. QED
        BY <2>1, <3>2, <4>1, <4>2
    <3>3. 0..Depth \subseteq R
      <4>. HIDE DEF R
      <4>. QED
        BY <3>1, <3>2, DepthIs, CountingUp
    <3>4. Depth \in 0..Depth /\ k <= Depth
      BY DepthIs
    <3>. QED
      BY <1>7, <3>3, <3>4
  <2>. DEFINE f == [i \in 0..Depth |-> CHOOSE x : x \in lv[i]]
  <2>2. \A i \in 0..Depth : f[i] \in lv[i]
    BY <2>1
  <2>3. f \in [0..Depth -> VNode]
    BY <2>2 DEF Levels
  <2>4. /\ IsFiniteSet(0..Depth) /\ Cardinality(VNode) < Cardinality(0..Depth)
    <3>1. Cardinality(0..Depth) = Depth + 1 /\ IsFiniteSet(0..Depth)
      BY DepthIs, FS_Interval
    <3>. QED
      BY <3>1, DepthIs DEF Depth
  <2>. HIDE DEF f
  <2>5. PICK i, j \in 0..Depth : i # j /\ f[i] = f[j]
    BY <2>3, <2>4, DepthIs, FS_PigeonHole
  <2>6. i < j \/ j < i
    BY <2>5, DepthIs
  <2>. QED
    BY <1>6, <2>2, <2>5, <2>6
<1>. QED
  BY <1>6, <1>7

\* The order in which a tree is freed, one level after the other.
NextOrder(v, f) ==
    [x \in VNode |-> FlattenSeq([i \in DOMAIN v.node[x].kids |-> f[v.node[x].kids[i]]]) \o <<x>>]

\* One level more in the order in which a tree is freed.
LEMMA NextOrderIs ==
    ASSUME NEW v \in Tree, NEW f \in [VNode -> Seq(VNode)]
    PROVE  /\ NextOrder(v, f) \in [VNode -> Seq(VNode)]
           /\ \A x \in VNode :
                 /\ \A t : t \in Range(NextOrder(v, f)[x]) <=>
                             t = x \/ \E k \in Kids(v, x) : t \in Range(f[k])
                 /\ /\ NamesApart(v, v.node[x].kids)
                    /\ \A k \in Kids(v, x) : IsInjective(f[k]) /\ x \notin Range(f[k])
                    /\ \A k, l \in Kids(v, x) : k # l => Range(f[k]) \cap Range(f[l]) = {}
                    => IsInjective(NextOrder(v, f)[x])
<1>1. ASSUME NEW x \in VNode
      PROVE  /\ NextOrder(v, f)[x] \in Seq(VNode)
             /\ \A t : t \in Range(NextOrder(v, f)[x]) <=>
                             t = x \/ \E k \in Kids(v, x) : t \in Range(f[k])
             /\ /\ NamesApart(v, v.node[x].kids)
                /\ \A k \in Kids(v, x) : IsInjective(f[k]) /\ x \notin Range(f[k])
                /\ \A k, l \in Kids(v, x) : k # l => Range(f[k]) \cap Range(f[l]) = {}
                => IsInjective(NextOrder(v, f)[x])
  <2>1. PICK ks \in Seq(VNode) : ks = v.node[x].kids
    BY KidsAre
  <2>2. DOMAIN ks = 1..Len(ks) /\ Len(ks) \in Nat
    BY <2>1
  <2>3. \A i \in 1..Len(ks) : ks[i] \in VNode /\ ks[i] \in Kids(v, x) /\ f[ks[i]] \in Seq(VNode)
    <3>1. \A i \in 1..Len(ks) : ks[i] \in VNode
      BY <2>2
    <3>2. \A i \in 1..Len(ks) : ks[i] \in Kids(v, x)
      BY <2>1, <2>2 DEF Kids, Range
    <3>. QED
      BY <3>1, <3>2
  <2>4. PICK q : q = [i \in 1..Len(ks) |-> f[ks[i]]]
    OBVIOUS
  <2>5. q \in Seq(Seq(VNode)) /\ Len(q) = Len(ks) /\ \A i \in 1..Len(ks) : q[i] = f[ks[i]]
    BY <2>2, <2>3, <2>4
  <2>6. PICK c : c = FlattenSeq(q)
    OBVIOUS
  <2>7. /\ c \in Seq(VNode)
        /\ \A t : t \in Range(c) <=> \E i \in 1..Len(q) : t \in Range(q[i])
        /\ /\ \A i \in 1..Len(q) : IsInjective(q[i])
           /\ \A i, j \in 1..Len(q) : i # j => Range(q[i]) \cap Range(q[j]) = {}
           => IsInjective(c)
    BY <2>5, <2>6, FlattenIs
  <2>8. PICK one \in Seq(VNode) : one = <<x>> /\ Range(one) = {x} /\ IsInjective(one)
    <3>1. <<x>> \in Seq(VNode) /\ DOMAIN <<x>> = {1} /\ <<x>>[1] = x
      OBVIOUS
    <3>. QED
      BY <3>1 DEF Range, IsInjective
  <2>9. PICK s : s = NextOrder(v, f)[x]
    OBVIOUS
  <2>10. s = c \o one
    BY <2>1, <2>2, <2>4, <2>6, <2>8, <2>9 DEF NextOrder
  <2>11. /\ s \in Seq(VNode) /\ Range(s) = Range(c) \cup Range(one)
         /\ IsInjective(c) /\ IsInjective(one) /\ Range(c) \cap Range(one) = {} => IsInjective(s)
    <3>1. IsConcat(s, c, one)
      BY <2>10 DEF IsConcat
    <3>2. c \in Seq(VNode)
      BY <2>7
    <3>. QED
      BY <3>1, <3>2, ConcatIs
  <2>12. ASSUME NEW t PROVE t \in Range(c) <=> \E k \in Kids(v, x) : t \in Range(f[k])
    <3>1. \A k \in Kids(v, x) : \E i \in 1..Len(ks) : ks[i] = k
      BY <2>1, <2>2 DEF Kids, Range
    <3>. QED
      <4>1. ASSUME t \in Range(c) PROVE \E k \in Kids(v, x) : t \in Range(f[k])
        <5>1. PICK i \in 1..Len(ks) : t \in Range(q[i])
          BY <2>5, <2>7, <4>1
        <5>. QED
          BY <2>3, <2>5, <5>1
      <4>2. ASSUME NEW k \in Kids(v, x), t \in Range(f[k]) PROVE t \in Range(c)
        <5>1. PICK i \in 1..Len(ks) : ks[i] = k
          BY <3>1
        <5>2. i \in 1..Len(q) /\ t \in Range(q[i])
          BY <2>5, <4>2, <5>1
        <5>. QED
          BY <2>7, <5>2
      <4>. QED
        BY <4>1, <4>2
  <2>13. ASSUME NamesApart(v, v.node[x].kids),
                \A k \in Kids(v, x) : IsInjective(f[k]) /\ x \notin Range(f[k]),
                \A k, l \in Kids(v, x) : k # l => Range(f[k]) \cap Range(f[l]) = {}
         PROVE  IsInjective(s)
    <3>1. \A i \in 1..Len(q) : IsInjective(q[i])
      BY <2>3, <2>5, <2>13
    <3>2. \A i, j \in 1..Len(q) : i # j => Range(q[i]) \cap Range(q[j]) = {}
      <4>1. \A i, j \in 1..Len(ks) : i # j => ks[i] # ks[j]
        BY <2>1, <2>2, <2>13 DEF NamesApart
      <4>. SUFFICES ASSUME NEW i \in 1..Len(ks), NEW j \in 1..Len(ks), i # j
                    PROVE  Range(q[i]) \cap Range(q[j]) = {}
        BY <2>5
      <4>2. ks[i] \in Kids(v, x) /\ ks[j] \in Kids(v, x) /\ ks[i] # ks[j]
        BY <2>3, <4>1
      <4>3. Range(f[ks[i]]) \cap Range(f[ks[j]]) = {}
        BY <2>13, <4>2
      <4>. QED
        BY <2>5, <4>3
    <3>3. IsInjective(c)
      BY <2>7, <3>1, <3>2
    <3>4. x \notin Range(c)
      BY <2>12, <2>13
    <3>. QED
      BY <2>8, <2>11, <3>3, <3>4
  <2>. QED
    BY <2>8, <2>9, <2>11, <2>12, <2>13
<1>2. NextOrder(v, f) \in [VNode -> Seq(VNode)]
  <2>1. NextOrder(v, f) = [x \in VNode |-> NextOrder(v, f)[x]]
    BY DEF NextOrder
  <2>. QED
    BY <1>1, <2>1
<1>. QED
  BY <1>1, <1>2

Orders(v, order) ==
    /\ order \in [0..Depth -> [VNode -> Seq(VNode)]]
    /\ \A i \in 1..Depth : order[i] = NextOrder(v, order[i - 1])
    /\ \A n \in VNode : PostOrder(v, n) = order[Depth][n]

\* The recursion of the order in which a tree is freed has a solution.
LEMMA OrdersExist ==
    ASSUME NEW v \in Tree
    PROVE  \E order : Orders(v, order)
<1>. DEFINE A == [VNode -> Seq(VNode)]
            a == [x \in VNode |-> <<>>]
            step == [i \in 1..Depth |-> [f \in A |-> NextOrder(v, f)]]
            Runs(h) == h = [depth \in 0..Depth |->
                               IF depth = 0 THEN [x \in VNode |-> <<>>]
                               ELSE [x \in VNode |->
                                        FlattenSeq([i \in DOMAIN v.node[x].kids |-> h[depth - 1][v.node[x].kids[i]]])
                                            \o <<x>>]]
<1>1. step \in [1..Depth -> [A -> A]] /\ a \in A
  <2>1. <<>> \in Seq(VNode)
    OBVIOUS
  <2>. QED
    BY <2>1, NextOrderIs
<1>2. PICK h \in [0..Depth -> A] : IsLoop(h, Depth, a, step)
  <2>. HIDE DEF A, step, a
  <2>. QED
    BY <1>1, DepthIs, LoopRuns
<1>3. /\ 0 \in 0..Depth /\ Depth \in 0..Depth
      /\ \A i \in 1..Depth : i \in 0..Depth /\ i # 0 /\ i - 1 \in 0..Depth
      /\ \A i \in 0..Depth : i # 0 => i \in 1..Depth
  BY DepthIs
<1>4. h[0] = a /\ \A i \in 1..Depth : h[i] = step[i][h[i - 1]]
  <2>. HIDE DEF step, a
  <2>. QED
    BY <1>2, <1>3 DEF IsLoop
<1>5. ASSUME NEW i \in 1..Depth PROVE h[i] = NextOrder(v, h[i - 1])
  <2>1. h[i - 1] \in A
    <3>. HIDE DEF A
    <3>. QED
      BY <1>3
  <2>2. step[i][h[i - 1]] = NextOrder(v, h[i - 1])
    BY <2>1
  <2>. HIDE DEF step
  <2>. QED
    BY <1>4, <2>2
<1>6. Runs(h)
  <2>1. \A i \in 0..Depth : h[i] = IF i = 0 THEN a ELSE NextOrder(v, h[i - 1])
    <3>. HIDE DEF a
    <3>. QED
      BY <1>3, <1>4, <1>5
  <2>2. h = [i \in 0..Depth |-> h[i]]
    <3>. HIDE DEF A
    <3>. QED
      OBVIOUS
  <2>3. h = [i \in 0..Depth |-> IF i = 0 THEN a ELSE NextOrder(v, h[i - 1])]
    <3>. HIDE DEF a
    <3>. QED
      BY <2>1, <2>2
  <2>. QED
    BY <2>3 DEF NextOrder
<1>7. \A n \in VNode : PostOrder(v, n) = (CHOOSE g : Runs(g))[Depth][n]
  BY DEF PostOrder, Depth
<1>8. PICK g : Runs(g) /\ \A n \in VNode : PostOrder(v, n) = g[Depth][n]
  <2>. HIDE DEF Runs
  <2>. QED
    BY <1>6, <1>7
<1>9. g[0] = a /\ \A i \in 1..Depth : g[i] = NextOrder(v, g[i - 1])
  BY <1>3, <1>8 DEF NextOrder
<1>10. \A i \in 0..Depth : g[i] \in A
  <2>1. ASSUME NEW i \in 1..Depth, g[i - 1] \in A PROVE g[i] \in A
    BY <1>9, <2>1, NextOrderIs
  <2>2. g[0] \in A
    BY <1>1, <1>9
  <2>. HIDE DEF A, Runs
  <2>. QED
    BY <2>1, <2>2, DepthIs, LoopKeeps
<1>11. g \in [0..Depth -> A]
  <2>1. DOMAIN g = 0..Depth /\ g = [i \in 0..Depth |-> g[i]]
    BY <1>8
  <2>. HIDE DEF A, Runs
  <2>. QED
    BY <1>10, <2>1
<1>. QED
  BY <1>8, <1>9, <1>11 DEF Orders

\* A tree in the order in which it is freed: every node below the root, once.
Complete(v, s, root) ==
    /\ s \in Seq(VNode) /\ IsInjective(s) /\ root \in Range(s)
    /\ \A x \in Range(s) : Kids(v, x) \subseteq Range(s)
    /\ \A x \in Range(s) : x = root \/ \E d \in Range(s) : x \in Kids(v, d)

\* A tree is freed completely, each node once, and nothing else.
LEMMA PostOrderIs ==
    ASSUME NEW v, NEW X, TreeOK(v, X), NEW root \in VNode, \A d \in VNode : root \notin Kids(v, d)
    PROVE  Complete(v, PostOrder(v, root), root)
<1>1. v \in Tree /\ \A d \in VNode : Kids(v, d) \subseteq VNode
  BY KidsAre DEF TreeOK
<1>2. PICK lv : Levels(v, root, lv)
  BY <1>1, LevelsExist
<1>3. lv[Depth] = {} /\ \A i, j \in 0..Depth : i < j => lv[i] \cap lv[j] = {}
  BY <1>2, LevelsApart
<1>4. PICK order : Orders(v, order)
  BY <1>1, OrdersExist
<1>. DEFINE Under(k, s) == \A x \in Range(s) : \E i \in (Depth - k)..Depth : x \in lv[i]
            Good(k) == /\ \A a \in lv[Depth - k] : Complete(v, order[k][a], a) /\ Under(k, order[k][a])
                       /\ \A a, b \in lv[Depth - k] :
                             a # b => Range(order[k][a]) \cap Range(order[k][b]) = {}
            S == {k \in 0..Depth : Good(k)}
<1>5. 0 \in S
  <2>1. Depth - 0 = Depth /\ 0 \in 0..Depth
    BY DepthIs
  <2>. QED
    BY <1>3, <2>1
<1>6. ASSUME NEW k \in 1..Depth, k - 1 \in S PROVE k \in S
  <2>1. PICK m \in 0..Depth : m = Depth - k /\ m + 1 = Depth - (k - 1) /\ m + 1 \in 1..Depth /\ k - 1 \in 0..Depth
    BY DepthIs
  <2>2. PICK f \in [VNode -> Seq(VNode)] : f = order[k - 1] /\ order[k] = NextOrder(v, f)
    BY <1>4, <2>1 DEF Orders
  <2>3. /\ lv[m] \subseteq VNode /\ lv[m + 1] \subseteq VNode
        /\ \A a \in lv[m] : Kids(v, a) \subseteq lv[m + 1]
        /\ \A a \in lv[m + 1] : Complete(v, f[a], a) /\ Under(k - 1, f[a])
        /\ \A a, b \in lv[m + 1] : a # b => Range(f[a]) \cap Range(f[b]) = {}
    <3>1. m + 1 \in 0..Depth /\ (m + 1) - 1 = m
      BY <2>1, DepthIs
    <3>2. lv[m] \subseteq VNode /\ lv[m + 1] \subseteq VNode
      BY <1>2, <3>1 DEF Levels
    <3>3. lv[m + 1] = UNION {Kids(v, x) : x \in lv[m]}
      BY <1>2, <2>1, <3>1 DEF Levels
    <3>4. Good(k - 1)
      <4>. HIDE DEF Good
      <4>. QED
        BY <1>6
    <3>. QED
      BY <2>1, <2>2, <3>2, <3>3, <3>4
  <2>4. \A i \in (Depth - (k - 1))..Depth : i \in (Depth - k)..Depth /\ i \in 0..Depth /\ m < i
    BY <2>1, DepthIs
  <2>5. ASSUME NEW a \in lv[m], NEW c \in Kids(v, a) PROVE /\ c \in lv[m + 1] /\ c \in VNode
                                                           /\ Complete(v, f[c], c)
                                                           /\ \A x \in lv[m] : x \notin Range(f[c])
                                                           /\ Under(k, f[c])
    <3>1. c \in lv[m + 1] /\ c \in VNode /\ Complete(v, f[c], c) /\ Under(k - 1, f[c])
      BY <2>3
    <3>2. ASSUME NEW x \in lv[m] PROVE x \notin Range(f[c])
      BY <1>3, <2>4, <3>1
    <3>3. Under(k, f[c])
      BY <2>4, <3>1
    <3>. HIDE DEF Under
    <3>. QED
      BY <3>1, <3>2, <3>3
  <2>6. ASSUME NEW a \in lv[m]
        PROVE  /\ order[k][a] \in Seq(VNode)
               /\ \A t : t \in Range(order[k][a]) <=> t = a \/ \E c \in Kids(v, a) : t \in Range(f[c])
               /\ IsInjective(order[k][a])
    <3>1. a \in VNode /\ NextOrder(v, f) \in [VNode -> Seq(VNode)]
      BY <1>1, <2>3, NextOrderIs
    <3>2. NamesApart(v, v.node[a].kids)
      BY <3>1 DEF TreeOK, KidsOK, NamesApart
    <3>3. \A c \in Kids(v, a) : IsInjective(f[c]) /\ a \notin Range(f[c])
      BY <2>5 DEF Complete
    <3>4. \A b, c \in Kids(v, a) : b # c => Range(f[b]) \cap Range(f[c]) = {}
      BY <2>3
    <3>5. /\ \A t : t \in Range(NextOrder(v, f)[a]) <=> t = a \/ \E c \in Kids(v, a) : t \in Range(f[c])
          /\ /\ NamesApart(v, v.node[a].kids)
             /\ \A c \in Kids(v, a) : IsInjective(f[c]) /\ a \notin Range(f[c])
             /\ \A b, c \in Kids(v, a) : b # c => Range(f[b]) \cap Range(f[c]) = {}
             => IsInjective(NextOrder(v, f)[a])
      BY <1>1, <3>1, NextOrderIs
    <3>6. IsInjective(NextOrder(v, f)[a])
      BY <3>2, <3>3, <3>4, <3>5
    <3>. QED
      BY <2>2, <3>1, <3>5, <3>6
  <2>. HIDE DEF Under
  <2>7. ASSUME NEW a \in lv[m] PROVE Complete(v, order[k][a], a) /\ Under(k, order[k][a])
    <3>1. PICK s : s = order[k][a]
      OBVIOUS
    <3>2. /\ s \in Seq(VNode) /\ IsInjective(s)
          /\ \A t : t \in Range(s) <=> t = a \/ \E c \in Kids(v, a) : t \in Range(f[c])
      BY <2>6, <3>1
    <3>3. ASSUME NEW x \in Range(s), NEW y \in Kids(v, x) PROVE y \in Range(s)
      <4>1. CASE x = a
        <5>1. y \in Range(f[y]) /\ y \in Kids(v, a)
          BY <2>5, <3>3, <4>1 DEF Complete
        <5>. QED
          BY <3>2, <5>1
      <4>2. CASE \E c \in Kids(v, a) : x \in Range(f[c])
        BY <2>5, <3>2, <3>3, <4>2 DEF Complete
      <4>. QED
        BY <3>2, <4>1, <4>2
    <3>4. ASSUME NEW x \in Range(s), x # a PROVE \E d \in Range(s) : x \in Kids(v, d)
      <4>1. PICK c \in Kids(v, a) : x \in Range(f[c])
        BY <3>2, <3>4
      <4>2. x = c \/ \E d \in Range(f[c]) : x \in Kids(v, d)
        BY <2>5, <4>1 DEF Complete
      <4>3. a \in Range(s) /\ \A d \in Range(f[c]) : d \in Range(s)
        BY <3>2
      <4>. QED
        BY <4>2, <4>3
    <3>5. Under(k, s)
      <4>. SUFFICES ASSUME NEW x \in Range(s) PROVE \E i \in (Depth - k)..Depth : x \in lv[i]
        BY DEF Under
      <4>1. CASE x = a
        <5>1. m \in (Depth - k)..Depth
          BY <2>1, DepthIs
        <5>. QED
          BY <4>1, <5>1
      <4>2. CASE \E c \in Kids(v, a) : x \in Range(f[c])
        BY <2>5, <4>2 DEF Under
      <4>. QED
        BY <3>2, <4>1, <4>2
    <3>. QED
      BY <3>1, <3>2, <3>3, <3>4, <3>5 DEF Complete
  <2>8. ASSUME NEW a \in lv[m], NEW b \in lv[m], a # b
        PROVE  Range(order[k][a]) \cap Range(order[k][b]) = {}
    <3>. SUFFICES ASSUME NEW t, t \in Range(order[k][a]), t \in Range(order[k][b]) PROVE FALSE
      OBVIOUS
    <3>1. t = a \/ \E c \in Kids(v, a) : t \in Range(f[c])
      BY <2>6
    <3>2. t = b \/ \E c \in Kids(v, b) : t \in Range(f[c])
      BY <2>6
    <3>3. t # a
      BY <2>5, <2>8, <3>2
    <3>4. t # b
      BY <2>5, <2>8, <3>1
    <3>5. PICK c \in Kids(v, a) : t \in Range(f[c])
      BY <3>1, <3>3
    <3>6. PICK d \in Kids(v, b) : t \in Range(f[d])
      BY <3>2, <3>4
    <3>7. c # d
      <4>1. a \in VNode /\ b \in VNode
        BY <2>3
      <4>2. v.node[c].parent = a /\ v.node[d].parent = b
        BY <4>1 DEF TreeOK, KidsOK
      <4>. QED
        BY <2>8, <4>2
    <3>8. c \in lv[m + 1] /\ d \in lv[m + 1]
      BY <2>5
    <3>. QED
      BY <2>3, <3>5, <3>6, <3>7, <3>8
  <2>9. Good(k)
    BY <2>1, <2>7, <2>8
  <2>10. k \in 0..Depth
    BY DepthIs
  <2>. HIDE DEF Good
  <2>. QED
    BY <2>9, <2>10
<1>7. Good(Depth)
  <2>. HIDE DEF Good
  <2>1. 0..Depth \subseteq S
    <3>. HIDE DEF S
    <3>. QED
      BY <1>5, <1>6, DepthIs, CountingUp
  <2>2. Depth \in 0..Depth
    BY DepthIs
  <2>. QED
    BY <2>1, <2>2
<1>8. Depth - Depth = 0 /\ root \in lv[0]
  BY <1>2, DepthIs DEF Levels
<1>9. PostOrder(v, root) = order[Depth][root]
  BY <1>4 DEF Orders
<1>. QED
  BY <1>7, <1>8, <1>9

\* The nodes of a tree are freed one after the other.
FreedUpTo(v, w, s, i) ==
    /\ w \in Tree /\ PoolOK(w) /\ w.mounts = v.mounts /\ w.used = v.used
    /\ \A x \in VNode : w.node[x] = IF \E j \in 1..i : s[j] = x THEN Blank ELSE v.node[x]

\* What is freed is empty, all else stays.
LEMMA FreeTreeIs ==
    ASSUME NEW v \in Tree, PoolOK(v), NEW n \in VNode, NEW s \in Seq(VNode), s = PostOrder(v, n),
           IsInjective(s), \A x \in Range(s) : Used(v, x)
    PROVE  FreedUpTo(v, FreeTree(v, n), s, Len(s))
<1>. DEFINE m == Len(s)
            step == [i \in 1..m |-> [w \in Tree |-> IF Used(w, s[i]) THEN FreeNode(w, s[i]) ELSE w]]
            Runs(h) == h = [i \in 0..m |-> IF i = 0 THEN v ELSE FreeNode(h[i - 1], s[i])]
            Good(i, w) == FreedUpTo(v, w, s, i)
<1>1. /\ m \in Nat /\ 0 \in 0..m /\ m \in 0..m
      /\ \A i \in 1..m : s[i] \in VNode /\ Used(v, s[i]) /\ i \in 0..m /\ i # 0 /\ i - 1 \in 0..m
      /\ \A i \in 0..m : i # 0 => i \in 1..m
      /\ \A i, j \in 1..m : s[i] = s[j] => i = j
  BY DEF Range, IsInjective
<1>. HIDE DEF m
<1>2. ASSUME NEW i \in 1..m, NEW w, Good(i - 1, w)
      PROVE  /\ Used(w, s[i])
             /\ \A u : u = FreeNode(w, s[i]) => Good(i, u)
  <2>1. w \in Tree /\ PoolOK(w) /\ \A x \in VNode : w.node[x] = IF \E j \in 1..(i - 1) : s[j] = x THEN Blank ELSE v.node[x]
    BY <1>2 DEF FreedUpTo
  <2>2. \A j \in 1..(i - 1) : j \in 1..m /\ j # i /\ j \in 1..i
    BY <1>1
  <2>3. w.node[s[i]] = v.node[s[i]]
    <3>1. s[i] \in VNode
      BY <1>1
    <3>2. ~(\E j \in 1..(i - 1) : s[j] = s[i])
      BY <1>1, <2>2
    <3>. QED
      BY <2>1, <3>1, <3>2
  <2>4. Used(w, s[i])
    BY <1>1, <2>3 DEF Used
  <2>5. ASSUME NEW u, u = FreeNode(w, s[i]) PROVE Good(i, u)
    <3>1. /\ u \in Tree /\ PoolOK(u) /\ u.mounts = w.mounts /\ u.used = w.used
          /\ \A x \in VNode : u.node[x] = IF x = s[i] THEN Blank ELSE w.node[x]
      <4>1. PICK k \in VNode : k = s[i]
        BY <1>1
      <4>2. w \in Tree /\ PoolOK(w) /\ Used(w, k)
        BY <2>1, <2>4, <4>1
      <4>3. AsFreed(w, FreeNode(w, k), k)
        BY <4>2, FreeIs
      <4>4. AsFreed(w, u, k)
        BY <2>5, <4>1, <4>3
      <4>. QED
        BY <4>1, <4>4 DEF AsFreed
    <3>2. \A j \in 1..i : j = i \/ j \in 1..(i - 1)
      BY <1>1
    <3>3. i \in 1..i
      BY <1>1
    <3>4. \A x \in VNode : u.node[x] = IF \E j \in 1..i : s[j] = x THEN Blank ELSE v.node[x]
      BY <2>1, <2>2, <3>1, <3>2, <3>3
    <3>. QED
      BY <1>2, <3>1, <3>4 DEF FreedUpTo
  <2>. QED
    BY <2>4, <2>5
<1>3. step \in [1..m -> [Tree -> Tree]]
  <2>1. ASSUME NEW i \in 1..m, NEW w \in Tree
        PROVE  (IF Used(w, s[i]) THEN FreeNode(w, s[i]) ELSE w) \in Tree
    <3>1. s[i] \in VNode
      BY <1>1
    <3>2. w.free \in Seq(VNode) /\ w.node \in [VNode -> NodeRec]
      BY DEF Tree
    <3>3. [w.node EXCEPT ![s[i]] = Blank] \in [VNode -> NodeRec]
      BY <3>1, <3>2, BlankIs
    <3>4. (IF s[i] <= PoolSize THEN <<s[i]>> \o w.free ELSE w.free) \in Seq(VNode)
      BY <3>1, <3>2
    <3>5. FreeNode(w, s[i]) \in Tree
      BY <3>2, <3>3, <3>4 DEF FreeNode, Tree
    <3>. QED
      BY <3>5
  <2>. QED
    BY <2>1
<1>4. PICK h \in [0..m -> Tree] : IsLoop(h, m, v, step)
  <2>. HIDE DEF step
  <2>. QED
    BY <1>1, <1>3, LoopRuns
<1>5. h[0] = v /\ \A i \in 1..m : h[i] = IF Used(h[i - 1], s[i]) THEN FreeNode(h[i - 1], s[i]) ELSE h[i - 1]
  <2>1. h[0] = v /\ \A i \in 1..m : h[i] = step[i][h[i - 1]]
    <3>. HIDE DEF step
    <3>. QED
      BY <1>1, <1>4 DEF IsLoop
  <2>2. \A i \in 1..m : h[i - 1] \in Tree
    BY <1>1
  <2>. QED
    BY <2>1, <2>2
<1>6. Good(0, v)
  BY DEF FreedUpTo
<1>. HIDE DEF Good
<1>7. \A i \in 0..m : Good(i, h[i])
  <2>. DEFINE S == {i \in 0..m : Good(i, h[i])}
  <2>1. 0 \in S
    BY <1>1, <1>5, <1>6
  <2>2. ASSUME NEW i \in 1..m, i - 1 \in S PROVE i \in S
    <3>1. Used(h[i - 1], s[i]) /\ \A u : u = FreeNode(h[i - 1], s[i]) => Good(i, u)
      BY <1>2, <2>2
    <3>2. h[i] = FreeNode(h[i - 1], s[i])
      BY <1>5, <3>1
    <3>. QED
      BY <1>1, <3>1, <3>2
  <2>3. 0..m \subseteq S
    <3>. HIDE DEF S
    <3>. QED
      BY <1>1, <2>1, <2>2, CountingUp
  <2>. QED
    BY <2>3
<1>8. Runs(h)
  <2>1. ASSUME NEW i \in 1..m PROVE h[i] = FreeNode(h[i - 1], s[i])
    <3>1. Used(h[i - 1], s[i])
      BY <1>1, <1>2, <1>7
    <3>. QED
      BY <1>5, <3>1
  <2>2. \A i \in 0..m : h[i] = IF i = 0 THEN v ELSE FreeNode(h[i - 1], s[i])
    BY <1>1, <1>5, <2>1
  <2>3. h = [i \in 0..m |-> h[i]]
    OBVIOUS
  <2>. QED
    BY <2>2, <2>3
<1>9. FreeTree(v, n) = (CHOOSE g : Runs(g))[m]
  BY DEF FreeTree, m
<1>10. PICK g : Runs(g) /\ FreeTree(v, n) = g[m]
  <2>. HIDE DEF Runs
  <2>. QED
    BY <1>8, <1>9
<1>11. g[0] = v /\ \A i \in 1..m : g[i] = FreeNode(g[i - 1], s[i])
  BY <1>1, <1>10
<1>12. \A i \in 0..m : Good(i, g[i])
  <2>. DEFINE S == {i \in 0..m : Good(i, g[i])}
  <2>. HIDE DEF Runs
  <2>1. 0 \in S
    BY <1>1, <1>6, <1>11
  <2>2. ASSUME NEW i \in 1..m, i - 1 \in S PROVE i \in S
    <3>1. \A u : u = FreeNode(g[i - 1], s[i]) => Good(i, u)
      BY <1>2, <2>2
    <3>. QED
      BY <1>1, <1>11, <3>1
  <2>3. 0..m \subseteq S
    <3>. HIDE DEF S
    <3>. QED
      BY <1>1, <2>1, <2>2, CountingUp
  <2>. QED
    BY <2>3
<1>13. Good(m, FreeTree(v, n))
  BY <1>1, <1>10, <1>12
<1>. QED
  BY <1>13 DEF Good, m

\* Directories that are read-only before and after keep their entries.
EntriesKept(v, w) ==
    \A x \in VNode : v.node[x].readonly /\ w.node[x].readonly => w.node[x].kids = v.node[x].kids

\* An umount leaves a sound tree when no other mount point was in what it frees.
Unmounts(v, u, i, at, root) ==
    /\ i \in DOMAIN v.mounts /\ at = v.mounts[i].at /\ root = v.node[at].root
    /\ \A j \in DOMAIN v.mounts \ {i} : v.mounts[j].at \notin Range(PostOrder(v, root))
    /\ u = [FreeTree(v, root) EXCEPT !.node[at].root = Nil, !.mounts = RemoveAt(@, i)]

LEMMA UmountKeeps ==
    ASSUME NEW v, TreeOK(v, {}), NEW u, NEW i, NEW at, NEW root, Unmounts(v, u, i, at, root)
    PROVE  TreeOK(u, {}) /\ EntriesKept(v, u)
<1>1. /\ v \in Tree /\ v.node \in [VNode -> NodeRec] /\ v.mounts \in Seq(MountRec)
      /\ DOMAIN v.mounts = 1..Len(v.mounts) /\ Len(v.mounts) \in Nat
      /\ \A j \in DOMAIN v.mounts : v.mounts[j].at \in VNode
      /\ \A d \in VNode : Kids(v, d) \subseteq VNode
      /\ i \in 1..Len(v.mounts) /\ at = v.mounts[i].at /\ root = v.node[at].root
  <2>1. v \in Tree /\ v.node \in [VNode -> NodeRec] /\ v.mounts \in Seq(MountRec)
    BY DEF TreeOK, Tree
  <2>2. i \in DOMAIN v.mounts /\ at = v.mounts[i].at /\ root = v.node[at].root
    BY DEF Unmounts
  <2>. QED
    BY <2>1, <2>2, MountsAre, KidsAre
<1>2. /\ at \in VNode /\ root # Nil /\ root \in VNode /\ Used(v, root) /\ root # BareRoot
      /\ \A d \in VNode : root \notin Kids(v, d)
      /\ \A d \in VNode : v.node[d].root = root => d = at
  <2>1. at \in VNode /\ root # Nil
    BY <1>1 DEF TreeOK, MountsOK
  <2>2. root \in VNode
    BY <1>1, <2>1 DEF NodeRec
  <2>. QED
    BY <1>1, <2>1, <2>2 DEF TreeOK, RootsOK, Used
<1>3. PICK s : s = PostOrder(v, root)
  OBVIOUS
<1>4. Complete(v, s, root)
  BY <1>2, <1>3, PostOrderIs
<1>5. PICK S : S = Range(s)
  OBVIOUS
<1>6. /\ s \in Seq(VNode) /\ IsInjective(s) /\ root \in S /\ S \subseteq VNode
      /\ \A x \in S : Kids(v, x) \subseteq S
      /\ \A x \in S : x = root \/ \E d \in S : x \in Kids(v, d)
      /\ \A j \in DOMAIN v.mounts : v.mounts[j].at \in S => j = i
  <2>1. s \in Seq(VNode) => Range(s) \subseteq VNode
    BY DEF Range
  <2>. QED
    BY <1>3, <1>4, <1>5, <2>1 DEF Complete, Unmounts
<1>7. \A x \in S : Used(v, x) /\ x # BareRoot
  BY <1>2, <1>6 DEF TreeOK, KidsOK
<1>8. PICK w : w = FreeTree(v, root)
  OBVIOUS
<1>9. /\ w \in Tree /\ PoolOK(w) /\ w.mounts = v.mounts /\ w.used = v.used
      /\ \A x \in VNode : w.node[x] = IF x \in S THEN Blank ELSE v.node[x]
  <2>1. FreedUpTo(v, FreeTree(v, root), s, Len(s))
    BY <1>1, <1>2, <1>3, <1>5, <1>6, <1>7, FreeTreeIs DEF TreeOK
  <2>2. \A x : x \in S <=> \E j \in 1..Len(s) : s[j] = x
    BY <1>5, <1>6 DEF Range
  <2>. QED
    BY <1>8, <2>1, <2>2 DEF FreedUpTo
<1>10. /\ u.node = [w.node EXCEPT ![at].root = Nil] /\ u.free = w.free /\ u.used = w.used
       /\ u.mounts = RemoveAt(v.mounts, i) /\ u \in Tree
  <2>1. w.node \in [VNode -> NodeRec] /\ w.free \in Seq(VNode) /\ w.node[at] \in NodeRec
    BY <1>2, <1>9 DEF Tree
  <2>2. [w.node[at] EXCEPT !.root = Nil] \in NodeRec
    BY <2>1 DEF NodeRec
  <2>3. [w.node EXCEPT ![at].root = Nil] \in [VNode -> NodeRec]
    BY <2>1, <2>2
  <2>4. RemoveAt(v.mounts, i) \in Seq(MountRec)
    BY <1>1, RemoveAtProperties
  <2>5. u = [w EXCEPT !.node[at].root = Nil, !.mounts = RemoveAt(@, i)]
    BY <1>8 DEF Unmounts
  <2>. QED
    BY <1>9, <2>1, <2>3, <2>4, <2>5 DEF Tree
<1>11. \A x \in VNode : u.node[x] = IF x \in S THEN Blank
                                    ELSE IF x = at THEN [v.node[at] EXCEPT !.root = Nil] ELSE v.node[x]
  <2>1. w.node \in [VNode -> NodeRec]
    BY <1>9 DEF Tree
  <2>2. \A x \in VNode : u.node[x] = IF x = at THEN [w.node[at] EXCEPT !.root = Nil] ELSE w.node[x]
    BY <1>2, <1>10, <2>1
  <2>3. [Blank EXCEPT !.root = Nil] = Blank
    <3>1. PICK b \in NodeRec : b = Blank /\ b.root = Nil
      BY BlankIs
    <3>2. [b EXCEPT !.root = Nil] = b
      BY <3>1 DEF NodeRec
    <3>. QED
      BY <3>1, <3>2
  <2>. QED
    BY <1>2, <1>9, <2>2, <2>3
<1>12. /\ \A x \in S : u.node[x] = Blank
       /\ \A x \in VNode \ S : /\ u.node[x].kind = v.node[x].kind /\ u.node[x].parent = v.node[x].parent
                               /\ u.node[x].kids = v.node[x].kids /\ u.node[x].name = v.node[x].name
                               /\ u.node[x].root = IF x = at THEN Nil ELSE v.node[x].root
  <2>1. \A x \in S : u.node[x] = Blank
    BY <1>6, <1>11
  <2>2. ASSUME NEW x \in VNode \ S
        PROVE  /\ u.node[x].kind = v.node[x].kind /\ u.node[x].parent = v.node[x].parent
               /\ u.node[x].kids = v.node[x].kids /\ u.node[x].name = v.node[x].name
               /\ u.node[x].root = IF x = at THEN Nil ELSE v.node[x].root
    <3>1. v.node[x] \in NodeRec
      BY <1>1
    <3>. QED
      BY <1>11, <3>1 DEF NodeRec
  <2>. QED
    BY <2>1, <2>2
<1>13. \A x \in VNode : /\ Used(u, x) <=> x \notin S /\ Used(v, x)
                        /\ Kids(u, x) = IF x \in S THEN {} ELSE Kids(v, x)
  <2>1. Range(<<>>) = {}
    BY DEF Range
  <2>. QED
    BY <1>12, <2>1, BlankIs DEF Used, Kids
<1>14. PoolOK(u)
  <2>1. \A x \in VNode : Used(u, x) <=> Used(w, x)
    BY <1>9, <1>13, BlankIs DEF Used
  <2>2. w.free \in Seq(VNode)
    BY <1>9 DEF Tree
  <2>3. \A k \in DOMAIN w.free : w.free[k] \in VNode
    BY <2>2
  <2>4. \A x \in VNode : ~Used(u, x) => u.node[x] = Blank
    <3>1. Used(v, at)
      BY <1>1, <1>2 DEF TreeOK, KidsOK, Used
    <3>. QED
      BY <1>11, <1>13, <3>1 DEF TreeOK, PoolOK
  <2>. QED
    BY <1>9, <1>10, <2>1, <2>3, <2>4 DEF PoolOK
\* Entries that stay are not in the freed tree.
<1>15. \A d \in VNode : \A k \in Kids(u, d) : d \notin S /\ k \in Kids(v, d) /\ k \in VNode /\ k \notin S
  <2>. SUFFICES ASSUME NEW d \in VNode, NEW k \in Kids(u, d)
                PROVE  d \notin S /\ k \in Kids(v, d) /\ k \in VNode /\ k \notin S
    OBVIOUS
  <2>1. d \notin S /\ k \in Kids(v, d) /\ k \in VNode
    BY <1>1, <1>13
  <2>2. ASSUME k \in S PROVE FALSE
    <3>1. PICK e \in S : k \in Kids(v, e)
      BY <1>2, <1>6, <2>1, <2>2
    <3>2. v.node[k].parent = e /\ v.node[k].parent = d
      BY <1>6, <2>1, <3>1 DEF TreeOK, KidsOK
    <3>. QED
      BY <2>1, <3>2
  <2>. QED
    BY <2>1, <2>2
<1>16. KidsOK(u)
  <2>1. ASSUME NEW d \in VNode, NEW k \in Kids(u, d)
        PROVE  Used(u, k) /\ u.node[k].parent = d /\ k # BareRoot
    BY <1>12, <1>13, <1>15 DEF TreeOK, KidsOK
  <2>2. ASSUME NEW d \in VNode, NEW a \in DOMAIN u.node[d].kids, NEW b \in DOMAIN u.node[d].kids,
               u.node[u.node[d].kids[a]].name = u.node[u.node[d].kids[b]].name
        PROVE  a = b
    <3>1. u.node[d].kids[a] \in Kids(u, d) /\ u.node[d].kids[b] \in Kids(u, d)
      BY DEF Kids, Range
    <3>2. d \notin S /\ u.node[d].kids = v.node[d].kids
      BY <1>12, <1>15, <3>1
    <3>3. /\ v.node[v.node[d].kids[a]].name = u.node[u.node[d].kids[a]].name
          /\ v.node[v.node[d].kids[b]].name = u.node[u.node[d].kids[b]].name
      BY <1>12, <1>15, <3>1, <3>2
    <3>4. v.node[v.node[d].kids[a]].name = v.node[v.node[d].kids[b]].name
      BY <2>2, <3>3
    <3>. QED
      BY <3>2, <3>4 DEF TreeOK, KidsOK
  <2>3. ASSUME NEW d \in VNode, u.node[d].kind # "dir" PROVE u.node[d].kids = <<>> /\ u.node[d].root = Nil
    <3>1. CASE d \in S
      BY <1>12, <3>1, BlankIs
    <3>2. CASE d \notin S
      BY <1>12, <2>3, <3>2 DEF TreeOK, KidsOK
    <3>. QED
      BY <3>1, <3>2
  <2>4. u.node[BareRoot].kind = "dir" /\ u.node[BareRoot].parent = BareRoot
    BY <1>7, <1>12, NodeNumbers DEF TreeOK, KidsOK
  <2>. QED
    BY <2>1, <2>2, <2>3, <2>4 DEF KidsOK
<1>17. ASSUME NEW d \in VNode, u.node[d].root # Nil
       PROVE  /\ d \notin S /\ d # at /\ u.node[d].root = v.node[d].root
              /\ v.node[d].root \in VNode /\ v.node[d].root \notin S
  <2>1. d \notin S /\ d # at /\ u.node[d].root = v.node[d].root
    BY <1>12, <1>17, BlankIs
  <2>2. v.node[d].root \in VNode
    BY <1>1, <1>17, <2>1 DEF NodeRec
  <2>3. \A e \in VNode : v.node[d].root \notin Kids(v, e)
    BY <1>17, <2>1 DEF TreeOK, RootsOK
  <2>. QED
    BY <1>2, <1>6, <2>1, <2>2, <2>3
<1>18. RootsOK(u)
  <2>. SUFFICES ASSUME NEW d \in VNode, u.node[d].root # Nil
                PROVE  /\ u.node[u.node[d].root].kind = "dir" /\ u.node[d].root # BareRoot
                       /\ \A e \in VNode : u.node[d].root \notin Kids(u, e)
                       /\ \A e \in VNode : u.node[e].root = u.node[d].root => e = d
    BY DEF RootsOK
  <2>1. /\ u.node[d].root = v.node[d].root /\ v.node[d].root # Nil
        /\ v.node[d].root \in VNode /\ v.node[d].root \notin S
    BY <1>17
  <2>2. /\ v.node[v.node[d].root].kind = "dir" /\ v.node[d].root # BareRoot
        /\ \A e \in VNode : v.node[d].root \notin Kids(v, e)
        /\ \A e \in VNode : v.node[e].root = v.node[d].root => e = d
    BY <2>1 DEF TreeOK, RootsOK
  <2>3. \A e \in VNode : u.node[d].root \notin Kids(u, e)
    BY <1>15, <2>1, <2>2
  <2>4. \A e \in VNode : u.node[e].root = u.node[d].root => e = d
    BY <1>17, <2>1, <2>2
  <2>. QED
    BY <1>12, <2>1, <2>2, <2>3, <2>4
<1>19. LinksOK(u, {})
  <2>1. ASSUME NEW x \in VNode, Used(u, x), x # BareRoot PROVE Linked(u, x)
    <3>1. x \notin S /\ Used(v, x)
      BY <1>13, <2>1
    <3>2. PICK d \in VNode : x \in Kids(v, d) \/ v.node[d].root = x
      BY <2>1, <3>1 DEF TreeOK, LinksOK, Linked
    <3>3. CASE x \in Kids(v, d)
      BY <1>6, <1>13, <3>1, <3>3 DEF Linked
    <3>4. CASE v.node[d].root = x
      <4>1. x # Nil /\ x # root
        BY <1>6, <3>1, NodeNumbers
      <4>2. d # at
        BY <1>1, <3>4, <4>1
      <4>3. PICK j \in DOMAIN v.mounts : v.mounts[j].at = d
        BY <3>4, <4>1 DEF TreeOK, MountsOK
      <4>4. d \notin S
        BY <1>1, <1>6, <4>2, <4>3
      <4>. QED
        BY <1>12, <3>4, <4>2, <4>4 DEF Linked
    <3>. QED
      BY <3>2, <3>3, <3>4
  <2>. QED
    BY <2>1 DEF LinksOK
<1>20. MountsOK(u)
  <2>1. PICK r : r = RemoveAt(v.mounts, i)
    OBVIOUS
  <2>2. IsRemoval(r, v.mounts, i) /\ r \in Seq(MountRec)
    BY <1>1, <2>1, RemoveAtProperties
  <2>3. /\ u.mounts = r /\ DOMAIN r = 1..Len(r) /\ Len(r) = Len(v.mounts) - 1
        /\ \A k \in 1..Len(r) : r[k] = IF k < i THEN v.mounts[k] ELSE v.mounts[k + 1]
    BY <1>10, <2>1, <2>2 DEF IsRemoval
  <2>4. ASSUME NEW k \in DOMAIN r
        PROVE  \E j \in DOMAIN v.mounts : r[k] = v.mounts[j] /\ j # i /\ j = IF k < i THEN k ELSE k + 1
    <3>1. (IF k < i THEN k ELSE k + 1) \in DOMAIN v.mounts /\ (IF k < i THEN k ELSE k + 1) # i
      BY <1>1, <2>3
    <3>. QED
      BY <2>3, <3>1
  <2>5. \A j, k \in DOMAIN v.mounts : v.mounts[j].at = v.mounts[k].at => j = k
    BY DEF TreeOK, MountsOK
  <2>6. ASSUME NEW k \in DOMAIN r PROVE u.node[r[k].at].root # Nil
    <3>1. PICK j \in DOMAIN v.mounts : r[k] = v.mounts[j] /\ j # i
      BY <2>4
    <3>2. v.mounts[j].at \in VNode \ S /\ v.mounts[j].at # at
      BY <1>1, <1>6, <2>5, <3>1
    <3>3. v.node[v.mounts[j].at].root # Nil
      BY DEF TreeOK, MountsOK
    <3>. QED
      BY <1>12, <3>1, <3>2, <3>3
  <2>7. ASSUME NEW k \in DOMAIN r, NEW l \in DOMAIN r, r[k].at = r[l].at PROVE k = l
    <3>1. PICK a \in DOMAIN v.mounts : r[k] = v.mounts[a] /\ a = IF k < i THEN k ELSE k + 1
      BY <2>4
    <3>2. PICK b \in DOMAIN v.mounts : r[l] = v.mounts[b] /\ b = IF l < i THEN l ELSE l + 1
      BY <2>4
    <3>3. a = b
      BY <2>5, <2>7, <3>1, <3>2
    <3>. QED
      BY <1>1, <2>3, <3>1, <3>2, <3>3
  <2>8. ASSUME NEW d \in VNode, u.node[d].root # Nil PROVE \E k \in DOMAIN r : r[k].at = d
    <3>1. d # at /\ v.node[d].root # Nil
      BY <1>17, <2>8
    <3>2. PICK j \in DOMAIN v.mounts : v.mounts[j].at = d /\ j # i
      BY <1>1, <3>1 DEF TreeOK, MountsOK
    <3>3. CASE j < i
      <4>1. j \in DOMAIN r
        BY <1>1, <2>3, <3>3
      <4>. QED
        BY <2>3, <3>2, <3>3, <4>1
    <3>4. CASE ~(j < i)
      <4>1. j - 1 \in DOMAIN r /\ ~(j - 1 < i) /\ (j - 1) + 1 = j
        BY <1>1, <2>3, <3>2, <3>4
      <4>. QED
        BY <2>3, <3>2, <4>1
    <3>. QED
      BY <3>3, <3>4
  <2>. QED
    BY <2>3, <2>6, <2>7, <2>8 DEF MountsOK
<1>21. \A x \in VNode : u.node[x].readonly => u.node[x].kids = v.node[x].kids
  BY <1>12, BlankIs
<1>. QED
  BY <1>10, <1>14, <1>16, <1>18, <1>19, <1>20, <1>21 DEF TreeOK, EntriesKept

---------------------------------------------------------------------------
(* The calls that change the tree *)

\* A new entry in a directory that may be written.
LEMMA NewChildIsFine ==
    ASSUME NEW v, TreeOK(v, {}), NextNode(v) # Nil,
           NEW rec \in NodeRec, rec.kind # "none", rec.kids = <<>>, rec.root = Nil,
           NEW d \in VNode, v.node[d].kind = "dir", ~v.node[d].readonly,
           DirChild(v, d, rec.name) = Nil
    PROVE  TreeOK(NewChild(v, d, rec), {}) /\ EntriesKept(v, NewChild(v, d, rec))
<1>1. \A k \in Kids(v, d) : v.node[k].name # rec.name
  BY DirChildIs DEF TreeOK
<1>2. TreeOK(NewChild(v, d, rec), {}) /\ NewIn(v, NewChild(v, d, rec), d, rec)
  BY <1>1, NewChildKeeps
<1>3. NextNode(v) \in VNode /\ ~v.node[NextNode(v)].readonly
  BY NextIsFree, BlankIs
<1>4. EntriesKept(v, NewChild(v, d, rec))
  BY <1>2, <1>3 DEF NewIn, EntriesKept
<1>. QED
  BY <1>2, <1>4

\* An entry without entries and mounts is taken away.
Cleared(v, d, t) == FreeNode(Detach(v, d, t), t)
AsCleared(v, w, d, t) ==
    /\ t \in VNode /\ t # d
    /\ Kids(w, d) = Kids(v, d) \ {t}
    /\ w.node[t] = Blank
    /\ \A x \in VNode : x # d => w.node[x].kids = v.node[x].kids
    /\ \A x \in VNode : x # t => /\ w.node[x].kind = v.node[x].kind
                                 /\ w.node[x].name = v.node[x].name
                                 /\ w.node[x].readonly = v.node[x].readonly
                                 /\ w.node[x].parent = v.node[x].parent

LEMMA ClearKeeps ==
    ASSUME NEW v, TreeOK(v, {}), NEW d \in VNode, NEW t \in Kids(v, d),
           v.node[t].kids = <<>>, v.node[t].root = Nil,
           NEW w, w = Cleared(v, d, t)
    PROVE  TreeOK(w, {}) /\ AsCleared(v, w, d, t)
<1>1. PICK u : u = Detach(v, d, t)
  OBVIOUS
<1>2. /\ TreeOK(u, {} \cup {t})
      /\ Kids(u, d) = Kids(v, d) \ {t}
      /\ \A x \in VNode \ {d} : u.node[x].kids = v.node[x].kids
      /\ \A x \in VNode : /\ u.node[x].kind = v.node[x].kind /\ u.node[x].root = v.node[x].root
                          /\ u.node[x].name = v.node[x].name /\ u.node[x].readonly = v.node[x].readonly
                          /\ x # t => u.node[x].parent = v.node[x].parent
  <2>1. TreeOK(Detach(v, d, t), {} \cup {t}) /\ AsDetached(v, Detach(v, d, t), d, t)
    BY DetachKeeps
  <2>. QED
    BY <1>1, <2>1 DEF AsDetached
<1>3. t \in VNode /\ t # d
  <2>1. Range(<<>>) = {}
    BY DEF Range
  <2>. QED
    BY <2>1, KidsAre DEF TreeOK, Kids
<1>4. TreeOK(u, {t}) /\ u.node[t].kids = <<>> /\ u.node[t].root = Nil
  <2>1. {} \cup {t} = {t}
    OBVIOUS
  <2>. QED
    BY <1>2, <1>3, <2>1
<1>5. w = FreeNode(u, t)
  BY <1>1 DEF Cleared
<1>6. TreeOK(w, {t} \ {t}) /\ w.node = [u.node EXCEPT ![t] = Blank]
  <2>1. t \in {t}
    OBVIOUS
  <2>2. TreeOK(FreeNode(u, t), {t} \ {t}) /\ FreeNode(u, t).node = [u.node EXCEPT ![t] = Blank]
    BY <1>4, <2>1, FreeKeeps
  <2>. QED
    BY <1>5, <2>2
<1>7. {t} \ {t} = {}
  OBVIOUS
<1>8. \A x \in VNode : w.node[x] = IF x = t THEN Blank ELSE u.node[x]
  BY <1>4, <1>6 DEF TreeOK, Tree
<1>9. w.node[t] = Blank /\ \A x \in VNode \ {t} : w.node[x] = u.node[x]
  BY <1>3, <1>8
<1>10. Kids(w, d) = Kids(v, d) \ {t}
  BY <1>2, <1>3, <1>9 DEF Kids
<1>11. w.node[t].kids = v.node[t].kids
  BY <1>9, BlankIs
<1>12. ASSUME NEW x \in VNode
       PROVE  /\ x # d => w.node[x].kids = v.node[x].kids
              /\ x # t => /\ w.node[x].kind = v.node[x].kind
                          /\ w.node[x].name = v.node[x].name
                          /\ w.node[x].readonly = v.node[x].readonly
                          /\ w.node[x].parent = v.node[x].parent
  <2>1. CASE x = t
    BY <1>11, <2>1
  <2>2. CASE x # t
    BY <1>2, <1>9, <2>2
  <2>. QED
    BY <2>1, <2>2
<1>. QED
  BY <1>3, <1>6, <1>7, <1>9, <1>10, <1>12 DEF AsCleared

\* An entry goes to another directory, or to another name.
AsMoved(v, w, p, d) ==
    \A x \in VNode : /\ w.node[x].readonly = v.node[x].readonly
                     /\ x # p /\ x # d => w.node[x].kids = v.node[x].kids

LEMMA MoveKeeps ==
    ASSUME NEW v, TreeOK(v, {}), NEW p \in VNode, NEW n \in Kids(v, p), v.node[n].parent = p,
           NEW d \in VNode, v.node[d].kind = "dir", n # d, NEW name \in Name,
           \A k \in Kids(v, d) : v.node[k].name # name,
           NEW w, w = Moved(v, n, d, name)
    PROVE  TreeOK(w, {}) /\ AsMoved(v, w, p, d)
<1>1. PICK a : a = Detach(v, p, n)
  OBVIOUS
<1>2. /\ TreeOK(a, {} \cup {n})
      /\ Kids(a, p) = Kids(v, p) \ {n}
      /\ \A x \in VNode \ {p} : a.node[x].kids = v.node[x].kids
      /\ \A x \in VNode : /\ a.node[x].kind = v.node[x].kind /\ a.node[x].root = v.node[x].root
                          /\ a.node[x].name = v.node[x].name /\ a.node[x].readonly = v.node[x].readonly
  <2>1. TreeOK(Detach(v, p, n), {} \cup {n}) /\ AsDetached(v, Detach(v, p, n), p, n)
    BY DetachKeeps
  <2>. QED
    BY <1>1, <2>1 DEF AsDetached
<1>3. n \in VNode /\ Used(v, n)
  BY KidsAre DEF TreeOK, KidsOK
<1>4. TreeOK(a, {n}) /\ a \in Tree /\ a.node \in [VNode -> NodeRec]
  <2>1. {} \cup {n} = {n}
    OBVIOUS
  <2>2. TreeOK(a, {n})
    BY <1>2, <2>1
  <2>. QED
    BY <2>2 DEF TreeOK, Tree
<1>5. PICK b : b = [a EXCEPT !.node[n].name = name]
  OBVIOUS
<1>6. /\ b \in Tree /\ b.free = a.free /\ b.used = a.used /\ b.mounts = a.mounts
      /\ \A x \in VNode : b.node[x] = IF x = n THEN [a.node[n] EXCEPT !.name = name] ELSE a.node[x]
  <2>1. [a.node[n] EXCEPT !.name = name] \in NodeRec
    <3>1. a.node[n] \in NodeRec
      BY <1>3, <1>4
    <3>. QED
      BY <3>1 DEF NodeRec
  <2>2. [a.node EXCEPT ![n].name = name] \in [VNode -> NodeRec]
    BY <1>3, <1>4, <2>1
  <2>. QED
    BY <1>3, <1>4, <1>5, <2>2 DEF Tree
<1>7. \A x \in VNode : /\ b.node[x].kind = a.node[x].kind /\ b.node[x].parent = a.node[x].parent
                       /\ b.node[x].kids = a.node[x].kids /\ b.node[x].root = a.node[x].root
                       /\ b.node[x].readonly = a.node[x].readonly
                       /\ b.node[x].name = IF x = n THEN name ELSE a.node[x].name
  <2>. SUFFICES ASSUME NEW x \in VNode
                PROVE  /\ b.node[x].kind = a.node[x].kind /\ b.node[x].parent = a.node[x].parent
                       /\ b.node[x].kids = a.node[x].kids /\ b.node[x].root = a.node[x].root
                       /\ b.node[x].readonly = a.node[x].readonly
                       /\ b.node[x].name = IF x = n THEN name ELSE a.node[x].name
    OBVIOUS
  <2>1. a.node[x] \in NodeRec
    BY <1>4
  <2>. QED
    BY <1>6, <2>1 DEF NodeRec
<1>8. TreeOK(b, {n})
  <2>1. \A x \in VNode : ~Used(a, x) => x # n
    BY <1>2, <1>3 DEF Used
  <2>2. \A x \in VNode : x \notin {n} => b.node[x].name = a.node[x].name
    BY <1>7
  <2>. QED
    BY <1>4, <1>6, <1>7, <2>1, <2>2, RelabelKeeps
<1>9. PICK kd \in Seq(VNode) : kd = b.node[d].kids
  BY <1>6, KidsAre
<1>10. Range(kd) = Kids(v, d) \ {n} /\ Range(kd) = Kids(b, d)
  <2>1. Kids(a, d) = Kids(v, d) \ {n}
    <3>1. CASE d = p
      BY <1>2, <3>1
    <3>2. CASE d # p
      <4>1. n \notin Kids(v, d)
        BY <3>2 DEF TreeOK, KidsOK
      <4>. QED
        BY <1>2, <3>2, <4>1 DEF Kids
    <3>. QED
      BY <3>1, <3>2
  <2>. QED
    BY <1>7, <1>9, <2>1 DEF Kids
<1>11. NamesApart(b, kd) /\ NameFree(b, kd, b.node[n].name)
  <2>1. NamesApart(b, kd)
    BY <1>8, <1>9 DEF TreeOK, KidsOK, NamesApart
  <2>2. ASSUME NEW k \in Range(kd) PROVE b.node[k].name # b.node[n].name
    <3>1. k \in VNode /\ k \in Kids(v, d) /\ k # n
      BY <1>10, KidsAre DEF TreeOK
    <3>. QED
      BY <1>2, <1>3, <1>7, <3>1
  <2>. QED
    BY <2>1, <2>2 DEF NameFree
<1>12. PICK q, r : Longer(q, r, kd, n)
  BY DEF Longer
<1>13. q \in Seq(VNode) /\ Range(q) = Range(kd) \cup {n} /\ NamesApart(b, q)
  BY <1>3, <1>11, <1>12, EntriesApart
<1>14. Entered(b, w, n, d, q)
  <2>1. w = Attach(b, d, n)
    BY <1>1, <1>5 DEF Moved
  <2>. QED
    BY <1>6, <1>9, <1>12, <2>1 DEF Attach, Entered, Longer, Tree
<1>15. TreeOK(w, {n} \ {n}) /\ AsEntered(b, w, n, d, q)
  <2>1. n \in {n} /\ b.node[d].kind = "dir" /\ Range(q) = Kids(b, d) \cup {n}
    BY <1>2, <1>7, <1>10, <1>13
  <2>. QED
    BY <1>8, <1>13, <1>14, <2>1, LinkKeeps
<1>16. {n} \ {n} = {}
  OBVIOUS
<1>17. \A x \in VNode : /\ w.node[x].readonly = b.node[x].readonly
                        /\ x # d => w.node[x].kids = b.node[x].kids
  <2>. SUFFICES ASSUME NEW x \in VNode
                PROVE  /\ w.node[x].readonly = b.node[x].readonly
                       /\ x # d => w.node[x].kids = b.node[x].kids
    OBVIOUS
  <2>1. b.node[x] \in NodeRec
    BY <1>6 DEF Tree
  <2>2. \/ x = d /\ w.node[x] = [b.node[x] EXCEPT !.kids = q]
        \/ x # d /\ x = n /\ w.node[x] = [b.node[x] EXCEPT !.parent = d]
        \/ x # d /\ w.node[x] = b.node[x]
    BY <1>15 DEF AsEntered
  <2>. QED
    BY <2>1, <2>2 DEF NodeRec
<1>18. AsMoved(v, w, p, d)
  <2>. SUFFICES ASSUME NEW x \in VNode
                PROVE  /\ w.node[x].readonly = v.node[x].readonly
                       /\ x # p /\ x # d => w.node[x].kids = v.node[x].kids
    BY DEF AsMoved
  <2>1. w.node[x].readonly = b.node[x].readonly /\ b.node[x].readonly = a.node[x].readonly
    BY <1>7, <1>17
  <2>2. x # p /\ x # d => w.node[x].kids = b.node[x].kids /\ b.node[x].kids = a.node[x].kids
    BY <1>7, <1>17
  <2>. QED
    BY <1>2, <2>1, <2>2
<1>. QED
  BY <1>15, <1>16, <1>18

\* A path that does not end at a mount names an entry of its directory.
AtEntry(v, d, n, name) ==
    /\ d \in VNode /\ v.node[d].kind = "dir"
    /\ n \in Kids(v, d) /\ n \in VNode /\ n = DirChild(v, d, name)
    /\ v.node[n].parent = d /\ v.node[n].name = name /\ v.node[n].root = Nil

LEMMA PlainLookup ==
    ASSUME NEW v, TreeOK(v, {}), NEW path \in Seq(Name), path # <<>>,
           Lookup(v, path) # Nil, Lookup(v, path) \notin MountedRoots(v)
    PROVE  AtEntry(v, EntryDir(v, path), Lookup(v, path), Last(path))
<1>1. PICK d : d = EntryDir(v, path)
  OBVIOUS
<1>2. d \in VNode \cup {Nil}
  <2>1. Front(path) \in Seq(Name)
    BY FrontIs
  <2>. QED
    BY <1>1, <2>1, LookupIs DEF EntryDir
<1>3. PICK name : name = Last(path)
  OBVIOUS
<1>4. Lookup(v, path) = WalkStep(v, d, name)
  BY <1>1, <1>3, LookupIs
<1>5. PICK c : c = DirChild(v, d, name)
  OBVIOUS
<1>6. /\ d \in VNode /\ v.node[d].kind = "dir" /\ Entry(v, c) /\ c \in Kids(v, d)
      /\ v.node[c].name = name /\ WalkStep(v, d, name) = Follow(v, c)
  BY <1>2, <1>4, <1>5, WalkTakes
<1>7. Follow(v, c) = c /\ v.node[c].root = Nil
  BY <1>4, <1>6, FollowIs
<1>8. c \in VNode /\ v.node[c].parent = d
  BY <1>6, KidsAre DEF TreeOK, KidsOK
<1>. QED
  BY <1>1, <1>3, <1>4, <1>5, <1>6, <1>7, <1>8 DEF AtEntry

\* The root of the tree is a directory, and no entry.
LEMMA RootLookup ==
    ASSUME NEW v, TreeOK(v, {})
    PROVE  LET n == Lookup(v, <<>>) IN
           /\ n \in VNode /\ v.node[n].kind = "dir"
           /\ n \notin MountedRoots(v) => n = BareRoot /\ v.node[n].parent = n
<1>1. Lookup(v, <<>>) = Follow(v, BareRoot)
  <2>1. <<>> \in Seq(Name)
    OBVIOUS
  <2>. QED
    BY <2>1, LookupIs
<1>2. Entry(v, BareRoot) /\ v.node[BareRoot].kind = "dir" /\ v.node[BareRoot].parent = BareRoot
  BY NodeNumbers DEF Entry, TreeOK, KidsOK
<1>. QED
  BY <1>1, <1>2, FollowIs

\* A removal keeps a sound tree.
LEMMA UnlinkKeeps ==
    ASSUME TreeOK(vfs, {}), NEW path \in Seq(Name), Unlink(path)
    PROVE  TreeOK(vfs', {}) /\ EntriesKept(vfs, vfs')
<1>1. PICK n : n = Lookup(vfs, path)
  OBVIOUS
<1>2. PICK d : d = vfs.node[n].parent
  OBVIOUS
<1>3. n # Nil /\ vfs.node[n].kind = "file" /\ ~vfs.node[d].readonly /\ vfs' = Cleared(vfs, d, n)
  BY <1>1, <1>2 DEF Unlink, Cleared
<1>4. path # <<>>
  BY <1>1, <1>3, RootLookup
<1>5. n \notin MountedRoots(vfs)
  BY <1>3 DEF MountedRoots, TreeOK, RootsOK
<1>6. AtEntry(vfs, EntryDir(vfs, path), n, Last(path))
  BY <1>1, <1>3, <1>4, <1>5, PlainLookup
<1>7. d \in VNode /\ n \in Kids(vfs, d) /\ n \in VNode /\ vfs.node[n].root = Nil
  BY <1>2, <1>6 DEF AtEntry
<1>8. vfs.node[n].kids = <<>>
  BY <1>3, <1>7 DEF TreeOK, KidsOK
<1>9. TreeOK(vfs', {}) /\ AsCleared(vfs, vfs', d, n)
  BY <1>3, <1>7, <1>8, ClearKeeps
<1>10. EntriesKept(vfs, vfs')
  BY <1>3, <1>7, <1>9 DEF EntriesKept, AsCleared
<1>. QED
  BY <1>9, <1>10

\* A name that a lookup does not find is free.
LEMMA NameIsFree ==
    ASSUME NEW v, TreeOK(v, {}), NEW path \in Seq(Name), path # <<>>,
           IsDir(v, EntryDir(v, path)), Lookup(v, path) = Nil
    PROVE  DirChild(v, EntryDir(v, path), Last(path)) = Nil
<1>1. PICK d : d = EntryDir(v, path)
  OBVIOUS
<1>2. d \in VNode
  <2>1. Front(path) \in Seq(Name)
    BY FrontIs
  <2>2. Lookup(v, Front(path)) \in VNode \cup {Nil}
    BY <2>1, LookupIs
  <2>. QED
    BY <1>1, <2>2 DEF EntryDir, IsDir
<1>3. PICK c : c = DirChild(v, d, Last(path))
  OBVIOUS
<1>4. Follow(v, c) = Nil
  <2>1. Lookup(v, path) = WalkStep(v, d, Last(path))
    BY <1>1, LookupIs
  <2>. QED
    BY <1>1, <1>3, <2>1 DEF WalkStep
<1>5. ASSUME c # Nil PROVE FALSE
  <2>1. Entry(v, c)
    BY <1>2, <1>3, <1>5, DirChildIs DEF TreeOK, Entry
  <2>2. Follow(v, c) \in VNode
    BY <2>1, FollowIs
  <2>. QED
    BY <1>4, <2>2, NodeNumbers
<1>. QED
  BY <1>1, <1>3, <1>5

\* What is above the last name is the beginning of a path.
LEMMA FrontIsPrefix ==
    ASSUME NEW path \in Seq(Name), path # <<>>
    PROVE  IsPrefix(Front(path), path)
<1>1. PICK q \in Seq(Name), n \in Nat : q = Front(path) /\ n = Len(path) - 1
  BY FrontIs
<1>2. Len(q) = n /\ Len(path) = n + 1 /\ \A i \in 1..n : q[i] = path[i]
  BY <1>1, FrontIs
<1>3. SubSeq(q, 1, n) = SubSeq(path, 1, n)
  BY <1>2
<1>. QED
  BY <1>1, <1>2, <1>3 DEF IsPrefix

\* So does a rename that meets no root of a mount,
LEMMA RenameKeeps ==
    ASSUME TreeOK(vfs, {}), NEW old \in Seq(Name), NEW new \in Seq(Name),
           Rename(old, new), ~spoilt'
    PROVE  TreeOK(vfs', {}) /\ EntriesKept(vfs, vfs')
<1>1. PICK n, d, t : n = Lookup(vfs, old) /\ d = EntryDir(vfs, new) /\ t = Lookup(vfs, new)
  OBVIOUS
<1>2. PICK p : p = vfs.node[n].parent
  OBVIOUS
<1>3. PICK name : name = Last(new)
  OBVIOUS
<1>4. PICK w : w = IF t = Nil THEN vfs ELSE Cleared(vfs, d, t)
  OBVIOUS
<1>5. MayRename(old, new, TRUE) /\ vfs' = Moved(w, n, d, name) /\ {n, t} \cap MountedRoots(vfs) = {}
  BY <1>1, <1>3, <1>4, Zenon DEF Rename, RenameFrom, Cleared
<1>6. /\ n # Nil /\ p # n /\ old # new /\ (IsDir(vfs, n) => ~IsPrefix(old, new))
      /\ new # <<>> /\ IsDir(vfs, d) /\ ~vfs.node[d].readonly /\ ~vfs.node[p].readonly
      /\ t # Nil => vfs.node[t].kids = <<>>
  BY <1>1, <1>2, <1>5 DEF MayRename, MayAdd
<1>7. n \notin MountedRoots(vfs) /\ t \notin MountedRoots(vfs)
  BY <1>5
<1>8. old # <<>>
  BY <1>1, <1>2, <1>6, <1>7, RootLookup
<1>9. /\ n \in VNode /\ p \in VNode /\ n \in Kids(vfs, p)
  BY <1>1, <1>2, <1>6, <1>7, <1>8, PlainLookup DEF AtEntry
<1>10. name \in Name /\ Front(new) \in Seq(Name)
  BY <1>3, <1>6, FrontIs
<1>11. d \in VNode /\ vfs.node[d].kind = "dir"
  <2>1. Lookup(vfs, Front(new)) \in VNode \cup {Nil}
    BY <1>10, LookupIs
  <2>. QED
    BY <1>1, <1>6, <2>1 DEF EntryDir, IsDir
<1>12. n # d
  <2>. SUFFICES ASSUME n = d PROVE FALSE
    OBVIOUS
  <2>1. Lookup(vfs, old) = Lookup(vfs, Front(new)) /\ Lookup(vfs, old) # Nil
    BY <1>1, <1>6 DEF EntryDir
  <2>2. old = Front(new)
    BY <1>10, <2>1, LookupsApart
  <2>3. IsPrefix(old, new)
    BY <1>6, <2>2, FrontIsPrefix
  <2>. QED
    BY <1>6, <2>3
<1>13. n # t
  BY <1>1, <1>6, LookupsApart
<1>14. ASSUME t # Nil PROVE AtEntry(vfs, d, t, name)
  BY <1>1, <1>3, <1>6, <1>7, <1>14, PlainLookup
<1>15. ASSUME t # Nil PROVE p # t
  <2>1. Kids(vfs, t) = {}
    BY <1>6, <1>15 DEF Kids, Range
  <2>. QED
    BY <1>9, <2>1
<1>16. ASSUME t # Nil PROVE TreeOK(w, {}) /\ AsCleared(vfs, w, d, t) /\ t \in VNode
  <2>1. t \in Kids(vfs, d) /\ vfs.node[t].root = Nil /\ vfs.node[t].kids = <<>> /\ t \in VNode
    BY <1>6, <1>14, <1>16 DEF AtEntry
  <2>2. w = Cleared(vfs, d, t)
    BY <1>4, <1>16
  <2>. QED
    BY <1>11, <2>1, <2>2, ClearKeeps
<1>17. TreeOK(w, {}) /\ n \in Kids(w, p) /\ w.node[n].parent = p /\ w.node[d].kind = "dir"
  <2>1. CASE t = Nil
    BY <1>2, <1>4, <1>9, <1>11, <2>1
  <2>2. CASE t # Nil
    <3>1. w.node[n].parent = p /\ w.node[d].kind = "dir"
      BY <1>2, <1>9, <1>11, <1>13, <1>16, <2>2 DEF AsCleared
    <3>2. n \in Kids(w, p)
      BY <1>9, <1>11, <1>13, <1>16, <2>2 DEF AsCleared, Kids
    <3>. QED
      BY <1>16, <2>2, <3>1, <3>2
  <2>. QED
    BY <2>1, <2>2
<1>18. \A k \in Kids(w, d) : w.node[k].name # name
  <2>1. CASE t = Nil
    <3>1. DirChild(vfs, d, name) = Nil
      BY <1>1, <1>3, <1>6, <2>1, NameIsFree
    <3>. QED
      BY <1>4, <1>11, <2>1, <3>1, DirChildIs DEF TreeOK
  <2>2. CASE t # Nil
    <3>1. ASSUME NEW k \in Kids(w, d) PROVE k \in VNode /\ k \in Kids(vfs, d) /\ k # t /\ w.node[k].name = vfs.node[k].name
      <4>1. k \in Kids(vfs, d) /\ k # t
        BY <1>16, <2>2 DEF AsCleared
      <4>2. k \in VNode
        BY <1>11, <4>1, KidsAre DEF TreeOK
      <4>. QED
        BY <1>16, <2>2, <4>1, <4>2 DEF AsCleared
    <3>2. ASSUME NEW k \in Kids(vfs, d), NEW l \in Kids(vfs, d), vfs.node[k].name = vfs.node[l].name PROVE k = l
      <4>1. PICK i \in DOMAIN vfs.node[d].kids, j \in DOMAIN vfs.node[d].kids :
               k = vfs.node[d].kids[i] /\ l = vfs.node[d].kids[j]
        BY DEF Kids, Range
      <4>. QED
        BY <1>11, <3>2, <4>1 DEF TreeOK, KidsOK
    <3>. QED
      BY <1>14, <2>2, <3>1, <3>2 DEF AtEntry
  <2>. QED
    BY <2>1, <2>2
<1>19. TreeOK(vfs', {}) /\ AsMoved(w, vfs', p, d)
  BY <1>5, <1>9, <1>10, <1>11, <1>12, <1>17, <1>18, MoveKeeps
<1>20. EntriesKept(vfs, vfs')
  <2>1. CASE t = Nil
    BY <1>4, <1>6, <1>9, <1>11, <1>19, <2>1 DEF EntriesKept, AsMoved
  <2>2. CASE t # Nil
    <3>. SUFFICES ASSUME NEW x \in VNode, vfs.node[x].readonly PROVE vfs'.node[x].kids = vfs.node[x].kids
      BY DEF EntriesKept
    <3>1. x # p /\ x # d
      BY <1>6
    <3>2. vfs'.node[x].kids = w.node[x].kids
      BY <1>19, <3>1 DEF AsMoved
    <3>3. w.node[x].kids = vfs.node[x].kids
      BY <1>16, <2>2, <3>1 DEF AsCleared
    <3>. QED
      BY <3>2, <3>3
  <2>. QED
    BY <2>1, <2>2
<1>. QED
  BY <1>19, <1>20

\* What a node is marked as, and the size of a file, may change.
Rewritten(v, w, n) ==
    /\ w.node[n] \in NodeRec
    /\ w = [v EXCEPT !.node = [v.node EXCEPT ![n] = w.node[n]]]
    /\ \A f \in {"name", "kind", "parent", "kids", "root"} : w.node[n][f] = v.node[n][f]

LEMMA RewriteKeeps ==
    ASSUME NEW v, NEW X, TreeOK(v, X), NEW n \in VNode, Used(v, n), NEW w, Rewritten(v, w, n)
    PROVE  TreeOK(w, X) /\ EntriesKept(v, w)
<1>1. v \in Tree /\ v.node \in [VNode -> NodeRec]
  BY DEF TreeOK, Tree
<1>2. PICK r \in NodeRec : r = w.node[n]
  BY DEF Rewritten
<1>3. /\ r.name = v.node[n].name /\ r.kind = v.node[n].kind /\ r.parent = v.node[n].parent
      /\ r.kids = v.node[n].kids /\ r.root = v.node[n].root
  <2>1. v.node[n] \in NodeRec
    BY <1>1
  <2>2. /\ r["name"] = v.node[n]["name"] /\ r["kind"] = v.node[n]["kind"] /\ r["parent"] = v.node[n]["parent"]
        /\ r["kids"] = v.node[n]["kids"] /\ r["root"] = v.node[n]["root"]
    BY <1>2 DEF Rewritten
  <2>. QED
    BY <2>1, <2>2 DEF NodeRec
<1>4. PICK g : g = [v.node EXCEPT ![n] = r]
  OBVIOUS
<1>5. g \in [VNode -> NodeRec] /\ g[n] = r /\ \A x \in VNode : x # n => g[x] = v.node[x]
  BY <1>1, <1>4
<1>6. w = [v EXCEPT !.node = g]
  BY <1>2, <1>4 DEF Rewritten
<1>7. w \in Tree /\ w.node = g /\ w.free = v.free /\ w.used = v.used /\ w.mounts = v.mounts
  BY <1>1, <1>5, <1>6 DEF Tree
<1>8. ASSUME NEW x \in VNode
      PROVE  /\ w.node[x].kind = v.node[x].kind /\ w.node[x].parent = v.node[x].parent
             /\ w.node[x].kids = v.node[x].kids /\ w.node[x].root = v.node[x].root
             /\ w.node[x].name = v.node[x].name
             /\ ~Used(v, x) => w.node[x] = v.node[x]
  <2>1. CASE x = n
    BY <1>3, <1>5, <1>7, <2>1
  <2>2. CASE x # n
    BY <1>5, <1>7, <2>2
  <2>. QED
    BY <2>1, <2>2
<1>9. TreeOK(w, X)
  BY <1>7, <1>8, RelabelKeeps
<1>10. EntriesKept(v, w)
  BY <1>8 DEF EntriesKept
<1>. QED
  BY <1>9, <1>10

\* The directory of a new entry.
LEMMA AddsTo ==
    ASSUME NEW v, NEW X, TreeOK(v, X), NEW path \in Seq(Name), MayAdd(v, path)
    PROVE  /\ EntryDir(v, path) \in VNode /\ v.node[EntryDir(v, path)].kind = "dir"
           /\ ~v.node[EntryDir(v, path)].readonly /\ Last(path) \in Name
<1>1. Front(path) \in Seq(Name) /\ Last(path) \in Name
  BY FrontIs DEF MayAdd
<1>2. Lookup(v, Front(path)) \in VNode \cup {Nil}
  BY <1>1, LookupIs
<1>. QED
  BY <1>1, <1>2 DEF MayAdd, EntryDir, IsDir

\* What new nodes are made of.
Fresh(rec, name, kind) ==
    /\ rec \in NodeRec /\ rec.name = name /\ rec.kind = kind
    /\ rec.kids = <<>> /\ rec.root = Nil /\ ~rec.readonly

LEMMA FreshNodes ==
    ASSUME NEW name \in Name
    PROVE  /\ Fresh([DirNode EXCEPT !.name = name], name, "dir")
           /\ Fresh([Blank EXCEPT !.name = name, !.kind = "dev"], name, "dev")
           /\ Fresh([Blank EXCEPT !.name = name, !.kind = "file", !.writable = TRUE], name, "file")
<1>1. {"dev", "file"} \subseteq Kind /\ TRUE \in BOOLEAN
  BY DEF Kind
<1>. QED
  BY <1>1, BlankIs DEF Fresh, NodeRec

\* A new directory keeps a sound tree,
LEMMA MkdirKeeps ==
    ASSUME TreeOK(vfs, {}), NEW path \in Seq(Name), Mkdir(path)
    PROVE  TreeOK(vfs', {}) /\ EntriesKept(vfs, vfs')
<1>1. PICK d : d = EntryDir(vfs, path)
  OBVIOUS
<1>2. PICK rec : rec = [DirNode EXCEPT !.name = Last(path)]
  OBVIOUS
<1>3. /\ MayAdd(vfs, path) /\ NextNode(vfs) # Nil /\ DirChild(vfs, d, Last(path)) = Nil
      /\ vfs' = NewChild(vfs, d, rec)
  BY <1>1, <1>2 DEF Mkdir
<1>4. d \in VNode /\ vfs.node[d].kind = "dir" /\ ~vfs.node[d].readonly /\ Last(path) \in Name
  BY <1>1, <1>3, AddsTo
<1>5. rec \in NodeRec /\ rec.kind # "none" /\ rec.kids = <<>> /\ rec.root = Nil /\ rec.name = Last(path)
  BY <1>2, <1>4, FreshNodes DEF Fresh
<1>. QED
  BY <1>3, <1>4, <1>5, NewChildIsFine

---------------------------------------------------------------------------
(* Descriptors *)

FdRec == [open : BOOLEAN, append : BOOLEAN, node : VNode \cup {Nil}, offset : Nat, dir_idx : Nat]
FdsOK ==
    /\ fds \in [1..FdMax -> FdRec]
    /\ \A i \in 1..FdMax : fds[i].open => fds[i].node # Nil

\* An open descriptor has a node.
LEMMA OpenOnKeeps ==
    ASSUME FdsOK, NEW v \in Tree, NEW n \in VNode, NEW append \in BOOLEAN, OpenOn(v, n, append)
    PROVE  FdsOK' /\ vfs' = v
<1>1. PICK r : r = [NoFd EXCEPT !.open = TRUE, !.append = append, !.node = n,
                                !.offset = IF append THEN v.node[n].size ELSE 0]
  OBVIOUS
<1>2. r \in FdRec /\ r.open /\ r.node # Nil
  <2>1. v.node[n].size \in Nat
    BY KidsAre DEF NodeRec
  <2>2. (IF append THEN v.node[n].size ELSE 0) \in Nat
    BY <2>1
  <2>. QED
    BY <1>1, <2>2, NodeNumbers DEF NoFd, FdRec
<1>3. vfs' = v /\ fds' = IF FreeFd = {} THEN fds ELSE [fds EXCEPT ![Min(FreeFd)] = r]
  BY <1>1 DEF OpenOn
<1>4. CASE FreeFd = {}
  BY <1>3, <1>4 DEF FdsOK
<1>5. CASE FreeFd # {}
  <2>1. Min(FreeFd) \in FreeFd /\ FreeFd \subseteq 1..FdMax
    <3>1. FreeFd \subseteq 1..FdMax /\ FreeFd \subseteq Nat
      BY DEF FreeFd
    <3>. QED
      BY <1>5, <3>1, MinOfNats
  <2>2. PICK i \in 1..FdMax : i = Min(FreeFd)
    BY <2>1
  <2>3. fds' = [fds EXCEPT ![i] = r]
    BY <1>3, <1>5, <2>2
  <2>. QED
    BY <1>2, <1>3, <2>3 DEF FdsOK
<1>. QED
  BY <1>4, <1>5

\* a file that is emptied,
LEMMA OpenTruncateKeeps ==
    ASSUME TreeOK(vfs, {}), FdsOK, NEW path \in Seq(Name), OpenTruncate(path)
    PROVE  TreeOK(vfs', {}) /\ EntriesKept(vfs, vfs') /\ FdsOK'
<1>1. PICK d, n : d = EntryDir(vfs, path) /\ n = DirChild(vfs, d, Last(path))
  OBVIOUS
<1>2. PICK w : w = [vfs EXCEPT !.node[n].size = 0, !.node[n].writable = TRUE]
  OBVIOUS
<1>3. MayAdd(vfs, path) /\ n # Nil /\ OpenOn(w, n, FALSE)
  BY <1>1, <1>2 DEF OpenTruncate
<1>4. d \in VNode
  BY <1>1, <1>3, AddsTo
<1>5. n \in VNode /\ Used(vfs, n)
  BY <1>1, <1>3, <1>4, DirChildIs DEF TreeOK, KidsOK
<1>6. Rewritten(vfs, w, n)
  <2>1. vfs \in Tree /\ vfs.node \in [VNode -> NodeRec] /\ vfs.node[n] \in NodeRec
    BY <1>5 DEF TreeOK, Tree
  <2>2. PICK r : r = [vfs.node[n] EXCEPT !.size = 0, !.writable = TRUE]
    OBVIOUS
  <2>3. /\ r \in NodeRec
        /\ \A f \in {"name", "kind", "parent", "kids", "root"} : r[f] = vfs.node[n][f]
    BY <2>1, <2>2 DEF NodeRec
  <2>4. w = [vfs EXCEPT !.node = [vfs.node EXCEPT ![n] = r]]
    BY <1>2, <1>5, <2>1, <2>2 DEF Tree
  <2>5. w.node = [vfs.node EXCEPT ![n] = r] /\ w.node[n] = r
    BY <1>5, <2>1, <2>4 DEF Tree
  <2>. QED
    BY <2>3, <2>4, <2>5 DEF Rewritten
<1>7. TreeOK(w, {}) /\ EntriesKept(vfs, w)
  BY <1>5, <1>6, RewriteKeeps
<1>8. FdsOK' /\ vfs' = w
  <2>1. w \in Tree /\ FALSE \in BOOLEAN
    BY <1>7 DEF TreeOK
  <2>. QED
    BY <1>3, <1>5, <2>1, OpenOnKeeps
<1>. QED
  BY <1>7, <1>8

\* a new file,
LEMMA OpenNewKeeps ==
    ASSUME TreeOK(vfs, {}), FdsOK, NEW path \in Seq(Name), NEW append \in BOOLEAN, NEW trunc \in BOOLEAN,
           OpenNew(path, append, trunc)
    PROVE  TreeOK(vfs', {}) /\ EntriesKept(vfs, vfs') /\ FdsOK'
<1>1. PICK d, n : d = EntryDir(vfs, path) /\ n = NextNode(vfs)
  OBVIOUS
<1>2. PICK rec : rec = [Blank EXCEPT !.name = Last(path), !.kind = "file", !.writable = TRUE]
  OBVIOUS
<1>3. PICK w : w = NewChild(vfs, d, rec)
  OBVIOUS
<1>4. /\ MayAdd(vfs, path) /\ n # Nil /\ DirChild(vfs, d, Last(path)) = Nil
      /\ OpenOn(w, n, append)
  BY <1>1, <1>2, <1>3 DEF OpenNew
<1>5. d \in VNode /\ vfs.node[d].kind = "dir" /\ ~vfs.node[d].readonly /\ Last(path) \in Name
  BY <1>1, <1>4, AddsTo
<1>6. rec \in NodeRec /\ rec.kind # "none" /\ rec.kids = <<>> /\ rec.root = Nil /\ rec.name = Last(path)
  BY <1>2, <1>5, FreshNodes DEF Fresh
<1>7. TreeOK(w, {}) /\ EntriesKept(vfs, w)
  BY <1>1, <1>3, <1>4, <1>5, <1>6, NewChildIsFine
<1>8. n \in VNode
  BY <1>1, <1>4, NextIsFree
<1>9. FdsOK' /\ vfs' = w
  <2>1. w \in Tree
    BY <1>7 DEF TreeOK
  <2>. QED
    BY <1>4, <1>8, <2>1, OpenOnKeeps
<1>. QED
  BY <1>7, <1>9

\* a file that is only opened,
LEMMA OpenExistingKeeps ==
    ASSUME TreeOK(vfs, {}), FdsOK, NEW path \in Seq(Name), NEW append \in BOOLEAN, NEW writes \in BOOLEAN,
           OpenExisting(path, append, writes)
    PROVE  vfs' = vfs /\ FdsOK'
<1>1. PICK n : n = Lookup(vfs, path)
  OBVIOUS
<1>2. n # Nil /\ OpenOn(vfs, n, append)
  BY <1>1 DEF OpenExisting
<1>3. n \in VNode /\ vfs \in Tree
  BY <1>1, <1>2, LookupIs DEF TreeOK
<1>. QED
  BY <1>2, <1>3, OpenOnKeeps

\* A descriptor that stays on its node.
LEMMA SameNode ==
    ASSUME FdsOK, NEW i \in 1..FdMax, NEW r \in FdRec, r.open => fds[i].open, r.open => r.node = fds[i].node,
           fds' = [fds EXCEPT ![i] = r]
    PROVE  FdsOK'
BY DEF FdsOK

\* a write,
LEMMA WriteFdKeeps ==
    ASSUME TreeOK(vfs, {}), FdsOK, NEW i \in 1..FdMax, WriteFd(i)
    PROVE  TreeOK(vfs', {}) /\ EntriesKept(vfs, vfs') /\ FdsOK'
<1>1. PICK n, end : /\ n = fds[i].node
                    /\ end = (IF fds[i].append THEN vfs.node[n].size ELSE fds[i].offset) + 1
  OBVIOUS
<1>2. /\ fds[i].open /\ vfs.node[n].kind = "file"
      /\ vfs' = [vfs EXCEPT !.node[n].size = IF end > @ THEN end ELSE @]
      /\ fds' = [fds EXCEPT ![i].offset = end]
  BY <1>1 DEF WriteFd
<1>3. n \in VNode /\ Used(vfs, n) /\ fds[i] \in FdRec
  BY <1>1, <1>2 DEF FdsOK, FdRec, Used
<1>4. vfs \in Tree /\ vfs.node \in [VNode -> NodeRec] /\ vfs.node[n] \in NodeRec
  BY <1>3 DEF TreeOK, Tree
<1>5. vfs.node[n].size \in Nat /\ fds[i].offset \in Nat /\ end \in Nat
  <2>1. vfs.node[n].size \in Nat /\ fds[i].offset \in Nat
    BY <1>3, <1>4 DEF NodeRec, FdRec
  <2>. QED
    BY <1>1, <2>1
<1>6. Rewritten(vfs, vfs', n)
  <2>1. PICK s \in Nat : s = IF end > vfs.node[n].size THEN end ELSE vfs.node[n].size
    BY <1>5
  <2>2. PICK r : r = [vfs.node[n] EXCEPT !.size = s]
    OBVIOUS
  <2>3. /\ r \in NodeRec
        /\ \A f \in {"name", "kind", "parent", "kids", "root"} : r[f] = vfs.node[n][f]
    BY <1>4, <2>2 DEF NodeRec
  <2>4. vfs' = [vfs EXCEPT !.node = [vfs.node EXCEPT ![n] = r]]
    BY <1>2, <1>3, <1>4, <2>1, <2>2 DEF Tree
  <2>5. vfs'.node = [vfs.node EXCEPT ![n] = r] /\ vfs'.node[n] = r
    BY <1>3, <1>4, <2>4 DEF Tree
  <2>. QED
    BY <2>3, <2>4, <2>5 DEF Rewritten
<1>7. FdsOK'
  <2>1. PICK r : r = [fds[i] EXCEPT !.offset = end]
    OBVIOUS
  <2>2. r \in FdRec /\ r.open = fds[i].open /\ r.node = fds[i].node
    BY <1>3, <1>5, <2>1 DEF FdRec
  <2>3. fds' = [fds EXCEPT ![i] = r]
    BY <1>2, <2>1 DEF FdsOK
  <2>. QED
    BY <2>2, <2>3, SameNode
<1>. QED
  BY <1>3, <1>6, <1>7, RewriteKeeps

\* and all other calls on descriptors.
LEMMA OtherFdsKeep ==
    ASSUME TreeOK(vfs, {}), FdsOK, NEW i \in 1..FdMax, NEW off \in 0..SizeMax,
           CloseFd(i) \/ ReadFd(i) \/ Readdir(i) \/ Lseek(i, off)
    PROVE  FdsOK' /\ vfs' = vfs
<1>1. fds \in [1..FdMax -> FdRec] /\ fds[i] \in FdRec /\ off \in Nat
  BY VfsAssumption DEF FdsOK
<1>2. vfs' = vfs
  BY DEF CloseFd, ReadFd, Readdir, Lseek
<1>3. CASE CloseFd(i)
  <2>1. NoFd \in FdRec /\ ~NoFd.open
    BY DEF NoFd, FdRec
  <2>. QED
    BY <1>2, <1>3, <2>1, SameNode DEF CloseFd
<1>4. CASE ReadFd(i)
  <2>1. PICK r : r = [fds[i] EXCEPT !.offset = @ + 1]
    OBVIOUS
  <2>2. r \in FdRec /\ r.open = fds[i].open /\ r.node = fds[i].node
    BY <1>1, <2>1 DEF FdRec
  <2>3. fds' = [fds EXCEPT ![i] = r]
    BY <1>1, <1>4, <2>1 DEF ReadFd
  <2>. QED
    BY <1>2, <2>2, <2>3, SameNode
<1>5. CASE Readdir(i)
  <2>1. PICK r : r = [fds[i] EXCEPT !.dir_idx = @ + 1]
    OBVIOUS
  <2>2. r \in FdRec /\ r.open = fds[i].open /\ r.node = fds[i].node
    BY <1>1, <2>1 DEF FdRec
  <2>3. fds' = [fds EXCEPT ![i] = r]
    BY <1>1, <1>5, <2>1 DEF Readdir
  <2>. QED
    BY <1>2, <2>2, <2>3, SameNode
<1>6. CASE Lseek(i, off)
  <2>1. PICK n : n = fds[i].node
    OBVIOUS
  <2>2. fds[i].open /\ n \in VNode
    BY <1>1, <1>6, <2>1 DEF Lseek, FdsOK, FdRec
  <2>3. vfs.node[n].size \in Nat
    BY <2>2, KidsAre DEF TreeOK, NodeRec
  <2>4. PICK o \in Nat : o = IF off > vfs.node[n].size THEN vfs.node[n].size ELSE off
    BY <1>1, <2>3
  <2>5. PICK r : r = [fds[i] EXCEPT !.offset = o]
    OBVIOUS
  <2>6. r \in FdRec /\ r.open = fds[i].open /\ r.node = fds[i].node
    BY <1>1, <2>4, <2>5 DEF FdRec
  <2>7. fds' = [fds EXCEPT ![i] = r]
    BY <1>1, <1>6, <2>1, <2>4, <2>5 DEF Lseek
  <2>. QED
    BY <1>2, <2>6, <2>7, SameNode
<1>. QED
  BY <1>2, <1>3, <1>4, <1>5, <1>6

---------------------------------------------------------------------------
(* The parser of the archive *)

\* What the operations on the pool return, for every tree of the right type.
LEMMA TakeType ==
    ASSUME NEW v \in Tree, NextNode(v) # Nil, NEW rec \in NodeRec
    PROVE  NextNode(v) \in VNode /\ TakeNode(v, rec) \in Tree
<1>. DEFINE n == NextNode(v)
            heap == {k \in VNode : k > PoolSize /\ v.node[k].kind = "none"}
<1>1. v.used \in Nat /\ v.used <= PoolSize /\ v.free \in Seq(VNode) /\ v.node \in [VNode -> NodeRec]
  BY NodeNumbers DEF Tree
<1>2. n \in VNode
  <2>1. CASE v.free # <<>>
    <3>1. n = Head(v.free)
      BY <2>1, Zenon DEF NextNode
    <3>. QED
      BY <1>1, <2>1, <3>1
  <2>2. CASE v.free = <<>> /\ v.used < PoolSize
    <3>1. v.used # PoolSize
      BY <1>1, <2>2, NodeNumbers
    <3>2. n = v.used + 1
      BY <2>2, <3>1, Zenon DEF NextNode
    <3>. QED
      BY <1>1, <2>2, <3>2, NodeNumbers DEF VNode
  <2>3. CASE v.free = <<>> /\ v.used = PoolSize
    <3>1. ~(v.used < PoolSize)
      BY <1>1, <2>3, NodeNumbers
    <3>2. heap # {} /\ n = Min(heap)
      BY <2>3, <3>1, Zenon DEF NextNode
    <3>3. heap \subseteq Nat
      BY NodeNumbers
    <3>4. Min(heap) \in heap
      BY <3>2, <3>3, MinOfNats
    <3>. QED
      BY <3>2, <3>4
  <2>. QED
    BY <1>1, <2>1, <2>2, <2>3, NodeNumbers
<1>. HIDE DEF n
<1>3. [v.node EXCEPT ![n] = rec] \in [VNode -> NodeRec]
  BY <1>1, <1>2
<1>4. (IF v.free = <<>> THEN v.free ELSE Tail(v.free)) \in Seq(VNode)
  BY <1>1
<1>5. (IF v.free = <<>> /\ v.used < PoolSize THEN v.used + 1 ELSE v.used) \in 0..PoolSize
  BY <1>1, NodeNumbers
<1>6. TakeNode(v, rec) \in Tree
  BY <1>1, <1>3, <1>4, <1>5 DEF TakeNode, Tree, n
<1>. QED
  BY <1>2, <1>6 DEF n

\* Another list of entries.
LEMMA KidsType ==
    ASSUME NEW v \in Tree, NEW d \in VNode, NEW ks \in Seq(VNode)
    PROVE  [v EXCEPT !.node[d].kids = ks] \in Tree
<1>1. v.node \in [VNode -> NodeRec] /\ v.node[d] \in NodeRec
  BY DEF Tree
<1>2. [v.node[d] EXCEPT !.kids = ks] \in NodeRec
  BY <1>1 DEF NodeRec
<1>. QED
  BY <1>1, <1>2 DEF Tree

\* A new entry in front of others.
LEMMA AddFrontType ==
    ASSUME NEW v \in Tree, NextNode(v) # Nil, NEW rec \in NodeRec, NEW d \in VNode
    PROVE  AddFront(v, d, rec) \in Tree
<1>1. PICK n : n = NextNode(v)
  OBVIOUS
<1>2. PICK t : t = TakeNode(v, [rec EXCEPT !.parent = d])
  OBVIOUS
<1>3. n \in VNode /\ t \in Tree
  <2>1. [rec EXCEPT !.parent = d] \in NodeRec
    BY DEF NodeRec
  <2>. QED
    BY <1>1, <1>2, <2>1, TakeType
<1>4. PICK ks \in Seq(VNode) : ks = <<n>> \o t.node[d].kids
  <2>1. PICK q \in Seq(VNode) : q = t.node[d].kids
    BY <1>3, KidsAre
  <2>2. <<n>> \o q \in Seq(VNode)
    BY <1>3
  <2>. QED
    BY <2>1, <2>2
<1>5. AddFront(v, d, rec) = [t EXCEPT !.node[d].kids = ks]
  BY <1>1, <1>2, <1>3, <1>4 DEF AddFront, Tree
<1>. QED
  BY <1>3, <1>5, KidsType

\* The state of the parser: the tree, and the directory that it is in.
Place == [v : Tree, at : VNode \cup {Nil}]

LEMMA FindOrCreateType ==
    ASSUME NEW s \in Place, NEW rec \in NodeRec
    PROVE  FindOrCreate(s, rec) \in Place
<1>1. s.v \in Tree /\ s.at \in VNode \cup {Nil}
  BY DEF Place
<1>2. PICK old : old = DirChild(s.v, s.at, rec.name)
  OBVIOUS
<1>3. PICK n : n = NextNode(s.v)
  OBVIOUS
<1>4. CASE s.at = Nil
  BY <1>4, Zenon DEF FindOrCreate
<1>5. CASE s.at # Nil /\ (old # Nil \/ n = Nil)
  <2>1. FindOrCreate(s, rec) = [s EXCEPT !.at = old]
    BY <1>2, <1>3, <1>5, Zenon DEF FindOrCreate
  <2>2. old \in VNode \cup {Nil}
    BY <1>1, <1>2, <1>5, DirChildIs
  <2>. QED
    BY <2>1, <2>2 DEF Place
<1>6. CASE s.at # Nil /\ old = Nil /\ n # Nil
  <2>1. FindOrCreate(s, rec) = [v |-> AddFront(s.v, s.at, rec), at |-> n]
    BY <1>2, <1>3, <1>6, Zenon DEF FindOrCreate
  <2>2. n \in VNode /\ AddFront(s.v, s.at, rec) \in Tree
    <3>1. s.at \in VNode
      BY <1>1, <1>6
    <3>2. n \in VNode
      BY <1>1, <1>3, <1>6, BlankIs, TakeType
    <3>3. AddFront(s.v, s.at, rec) \in Tree
      BY <1>1, <1>3, <1>6, <3>1, AddFrontType
    <3>. QED
      BY <3>2, <3>3
  <2>. QED
    BY <2>1, <2>2 DEF Place
<1>. QED
  BY <1>4, <1>5, <1>6

\* The tree in the middle of parsing: new nodes In below the root that is not
\* mounted yet, each with the path pm[x] that leads to it; all other nodes as
\* they were before, in u.
IsFile(path) == \E i \in DOMAIN Archive : Archive[i].path = path /\ ~Archive[i].dir

Parsing(v, u, root, In, pm) ==
    /\ TreeOK(v, {root}) /\ v.mounts = u.mounts
    /\ In \subseteq VNode /\ root \in In /\ v.node[root].kind = "dir"
    /\ pm \in [VNode -> Seq(Name)] /\ pm[root] = <<>>
    /\ \A x \in In : Used(v, x) /\ ~Used(u, x) /\ ~v.node[x].readonly
    /\ \A d \in In : \A k \in Kids(v, d) : k \in In /\ pm[k] = Append(pm[d], v.node[k].name)
    /\ \A x \in In : v.node[x].kind # "dir" => IsFile(pm[x])
    /\ \A x \in VNode \ In : v.node[x] = u.node[x]

\* at is where the path q leads to, or the parser found no way to go on.
ParsedTo(s, u, root, In, pm, q) ==
    /\ Parsing(s.v, u, root, In, pm)
    /\ s.at # Nil => s.at \in In /\ pm[s.at] = q

LEMMA FindOrCreateKeeps ==
    ASSUME NEW s \in Place, NEW u, NEW root, NEW In, NEW pm, NEW q \in Seq(Name),
           ParsedTo(s, u, root, In, pm, q),
           s.at # Nil => s.v.node[s.at].kind = "dir",
           NEW name \in Name, NEW kind \in {"dir", "file"}, NEW rec, Fresh(rec, name, kind),
           NEW r \in Seq(Name), r = Append(q, name), kind # "dir" => IsFile(r)
    PROVE  \E In2, pm2 : ParsedTo(FindOrCreate(s, rec), u, root, In2, pm2, r)
<1>1. PICK v \in Tree, at \in VNode \cup {Nil} : v = s.v /\ at = s.at
  BY DEF Place
<1>2. Parsing(v, u, root, In, pm) /\ (at # Nil => at \in In /\ pm[at] = q)
  BY <1>1 DEF ParsedTo
<1>3. PICK old : old = DirChild(v, at, name)
  OBVIOUS
<1>4. PICK n : n = NextNode(v)
  OBVIOUS
<1>5. rec \in NodeRec /\ rec.name = name
  BY DEF Fresh
<1>6. CASE at = Nil
  <2>1. FindOrCreate(s, rec) = s
    BY <1>1, <1>6, Zenon DEF FindOrCreate
  <2>. QED
    BY <1>1, <1>2, <1>6, <2>1 DEF ParsedTo
<1>7. CASE at # Nil /\ (old # Nil \/ n = Nil)
  <2>1. FindOrCreate(s, rec) = [s EXCEPT !.at = old]
    BY <1>1, <1>3, <1>4, <1>5, <1>7, Zenon DEF FindOrCreate
  <2>2. FindOrCreate(s, rec).v = v /\ FindOrCreate(s, rec).at = old
    BY <1>1, <2>1 DEF Place
  <2>3. ASSUME old # Nil PROVE old \in In /\ pm[old] = r
    <3>1. old \in Kids(v, at) /\ v.node[old].name = name
      BY <1>3, <1>7, <2>3, DirChildIs
    <3>. QED
      BY <1>2, <1>7, <3>1 DEF Parsing
  <2>. QED
    BY <1>2, <2>2, <2>3 DEF ParsedTo
<1>8. CASE at # Nil /\ old = Nil /\ n # Nil
  <2>1. PICK w : w = AddFront(v, at, rec)
    OBVIOUS
  <2>2. FindOrCreate(s, rec) = [v |-> w, at |-> n]
    <3>1. s.at # Nil /\ old = DirChild(s.v, s.at, rec.name) /\ old = Nil /\ n = NextNode(s.v) /\ n # Nil
      BY <1>1, <1>3, <1>4, <1>5, <1>8
    <3>2. w = AddFront(s.v, s.at, rec)
      BY <1>1, <2>1
    <3>. QED
      BY <3>1, <3>2, Zenon DEF FindOrCreate
  <2>3. at \in VNode /\ v.node[at].kind = "dir" /\ at \in In /\ pm[at] = q
    BY <1>1, <1>2, <1>8
  <2>4. TreeOK(v, {root})
    BY <1>2 DEF Parsing
  <2>5. TreeOK(w, {root}) /\ NewIn(v, w, at, rec)
    <3>1. \A k \in Kids(v, at) : v.node[k].name # rec.name
      <4>1. DirChild(v, at, name) = Nil => \A k \in Kids(v, at) : v.node[k].name # name
        BY <2>3, DirChildIs
      <4>2. DirChild(v, at, name) = Nil
        BY <1>3, <1>8
      <4>. QED
        BY <1>5, <4>1, <4>2
    <3>2. rec.kind # "none" /\ rec.kids = <<>> /\ rec.root = Nil
      BY DEF Fresh
    <3>3. NextNode(v) # Nil /\ rec \in NodeRec /\ at \in VNode /\ v.node[at].kind = "dir"
      BY <1>4, <1>5, <1>8, <2>3
    <3>4. TreeOK(AddFront(v, at, rec), {root}) /\ NewIn(v, AddFront(v, at, rec), at, rec)
      BY <2>4, <3>1, <3>2, <3>3, AddFrontKeeps
    <3>. QED
      BY <2>1, <3>4
  <2>6. n \in VNode /\ ~Used(v, n) /\ ~Linked(v, n)
    BY <1>4, <1>8, <2>4, NextIsFree
  <2>7. n \notin In /\ n # at /\ n # root
    BY <1>2, <2>3, <2>6 DEF Parsing
  <2>8. /\ w.node[n].kids = <<>> /\ w.node[n].kind = kind /\ w.node[n].name = name /\ ~w.node[n].readonly
        /\ Kids(w, n) = {}
    <3>1. w.node[n] = [rec EXCEPT !.parent = at]
      BY <1>4, <2>5, <2>6, <2>7 DEF NewIn
    <3>2. w.node[n].kids = <<>> /\ w.node[n].kind = kind /\ w.node[n].name = name /\ ~w.node[n].readonly
      BY <3>1 DEF Fresh, NodeRec
    <3>. QED
      BY <3>2 DEF Kids, Range
  <2>9. ASSUME NEW x \in VNode, x # n
        PROVE  /\ w.node[x].kind = v.node[x].kind /\ w.node[x].name = v.node[x].name
               /\ w.node[x].readonly = v.node[x].readonly
    <3>1. CASE x = at
      <4>1. w.node[x] = [v.node[x] EXCEPT !.kids = w.node[at].kids] /\ v.node[x] \in NodeRec
        BY <2>3, <2>5, <3>1, KidsAre DEF NewIn
      <4>. QED
        BY <4>1 DEF NodeRec
    <3>2. CASE x # at
      BY <1>4, <2>5, <2>9, <3>2 DEF NewIn
    <3>. QED
      BY <3>1, <3>2
  <2>10. \A x \in VNode : x # n /\ x # at => w.node[x] = v.node[x] /\ Kids(w, x) = Kids(v, x)
    BY <1>4, <2>5 DEF NewIn, Kids
  <2>11. Kids(w, at) = Kids(v, at) \cup {n} /\ w.mounts = v.mounts
    BY <1>4, <2>5 DEF NewIn
  <2>12. PICK In2 : In2 = In \cup {n}
    OBVIOUS
  <2>13. PICK pm2 : pm2 = [pm EXCEPT ![n] = r]
    OBVIOUS
  <2>14. pm2 \in [VNode -> Seq(Name)] /\ pm2[n] = r /\ \A x \in VNode : x # n => pm2[x] = pm[x]
    BY <1>2, <2>6, <2>13 DEF Parsing
  <2>15. In \subseteq VNode /\ root \in In
    BY <1>2 DEF Parsing
  <2>16. ASSUME NEW x \in In2 PROVE Used(w, x) /\ ~Used(u, x) /\ ~w.node[x].readonly
    <3>1. CASE x = n
      <4>1. v.node[n] = u.node[n]
        BY <1>2, <2>6, <2>7 DEF Parsing
      <4>. QED
        BY <2>6, <2>8, <3>1, <4>1 DEF Used
    <3>2. CASE x # n
      BY <1>2, <2>9, <2>12, <2>15, <3>2 DEF Parsing, Used
    <3>. QED
      BY <3>1, <3>2
  <2>17. ASSUME NEW d \in In2, NEW k \in Kids(w, d) PROVE k \in In2 /\ pm2[k] = Append(pm2[d], w.node[k].name)
    <3>1. d # n
      BY <2>8
    <3>2. d \in In /\ d \in VNode /\ pm2[d] = pm[d]
      BY <2>12, <2>14, <2>15, <3>1
    <3>3. CASE k = n
      <4>1. d = at
        BY <2>6, <2>10, <3>1, <3>2, <3>3 DEF Linked
      <4>. QED
        BY <2>3, <2>8, <2>12, <2>14, <3>2, <3>3, <4>1
    <3>4. CASE k # n
      <4>1. k \in Kids(v, d)
        BY <2>10, <2>11, <3>1, <3>2, <3>4
      <4>2. k \in In /\ pm[k] = Append(pm[d], v.node[k].name)
        BY <1>2, <3>2, <4>1 DEF Parsing
      <4>. QED
        BY <2>9, <2>12, <2>14, <2>15, <3>2, <3>4, <4>2
    <3>. QED
      BY <3>3, <3>4
  <2>18. ASSUME NEW x \in In2, w.node[x].kind # "dir" PROVE IsFile(pm2[x])
    <3>1. CASE x = n
      BY <2>8, <2>14, <2>18, <3>1
    <3>2. CASE x # n
      <4>1. x \in In /\ x \in VNode
        BY <2>12, <2>15, <3>2
      <4>. QED
        BY <1>2, <2>9, <2>14, <2>18, <3>2, <4>1 DEF Parsing
    <3>. QED
      BY <3>1, <3>2
  <2>19. ASSUME NEW x \in VNode \ In2 PROVE w.node[x] = u.node[x]
    BY <1>2, <2>3, <2>10, <2>12 DEF Parsing
  <2>20. In2 \subseteq VNode /\ root \in In2 /\ w.node[root].kind = "dir" /\ pm2[root] = <<>> /\ w.mounts = u.mounts
    BY <1>2, <2>6, <2>7, <2>9, <2>11, <2>12, <2>14, <2>15 DEF Parsing
  <2>21. Parsing(w, u, root, In2, pm2)
    BY <2>5, <2>14, <2>16, <2>17, <2>18, <2>19, <2>20 DEF Parsing
  <2>22. FindOrCreate(s, rec).v = w /\ FindOrCreate(s, rec).at = n /\ n \in In2 /\ pm2[n] = r
    BY <2>2, <2>12, <2>14
  <2>. QED
    BY <2>21, <2>22 DEF ParsedTo
<1>. QED
  BY <1>6, <1>7, <1>8

DirRec(name) == [DirNode EXCEPT !.name = name]

LEMMA DirRecIs ==
    ASSUME NEW name \in Name
    PROVE  DirRec(name) \in NodeRec /\ Fresh(DirRec(name), name, "dir")
BY FreshNodes DEF DirRec, Fresh

EnsureRun(g, v, root, path, n) ==
    /\ EnsureDirs(v, root, path) = g[n]
    /\ g[0] = [v |-> v, at |-> root]
    /\ \A i \in 0..n : g[i] \in Place
    /\ \A i \in 1..n : g[i] = FindOrCreate(g[i - 1], DirRec(path[i]))

LEMMA EnsureDirsIs ==
    ASSUME NEW v \in Tree, NEW root \in VNode, NEW path \in Seq(Name), NEW n \in Nat, Len(path) = n + 1
    PROVE  \E g : EnsureRun(g, v, root, path, n)
<1>. DEFINE a == [v |-> v, at |-> root]
            step == [i \in 1..n |-> [s \in Place |-> FindOrCreate(s, DirRec(path[i]))]]
            Runs(h) == h = [i \in 0..n |-> IF i = 0 THEN a
                                           ELSE FindOrCreate(h[i - 1], DirRec(path[i]))]
<1>1. a \in Place
  BY DEF Place
<1>2. step \in [1..n -> [Place -> Place]]
  <2>1. ASSUME NEW i \in 1..n PROVE DirRec(path[i]) \in NodeRec
    <3>1. path[i] \in Name
      OBVIOUS
    <3>. QED
      BY <3>1, DirRecIs
  <2>. QED
    BY <2>1, FindOrCreateType
<1>3. \A i \in 1..n : i - 1 \in 0..n
  OBVIOUS
<1>. HIDE DEF a
<1>4. PICK h \in [0..n -> Place] : h = [i \in 0..n |-> IF i = 0 THEN a ELSE step[i][h[i - 1]]]
  <2>. HIDE DEF step
  <2>1. \E h \in [0..n -> Place] : IsLoop(h, n, a, step)
    BY <1>1, <1>2, LoopRuns
  <2>. QED
    BY <2>1 DEF IsLoop
<1>5. Runs(h)
  <2>1. \A i \in 0..n : i # 0 => /\ i \in 1..n /\ i - 1 \in 0..n
    OBVIOUS
  <2>2. \A i \in 1..n : step[i][h[i - 1]] = FindOrCreate(h[i - 1], DirRec(path[i]))
    BY <1>3, <1>4
  <2>. QED
    BY <1>4, <2>1, <2>2
<1>6. EnsureDirs(v, root, path) = (CHOOSE g : Runs(g))[n]
  <2>1. Len(path) - 1 = n
    OBVIOUS
  <2>. QED
    BY <2>1 DEF EnsureDirs, DirRec, a
<1>7. PICK g : EnsureDirs(v, root, path) = g[n] /\ Runs(g)
  <2>. HIDE DEF Runs
  <2>. QED
    BY <1>5, <1>6
<1>8. g[0] = a /\ \A i \in 1..n : g[i] = FindOrCreate(g[i - 1], DirRec(path[i]))
  <2>1. 0 \in 0..n /\ \A i \in 1..n : i \in 0..n /\ i # 0
    OBVIOUS
  <2>. QED
    BY <1>7, <2>1
<1>9. \A i \in 0..n : g[i] \in Place
  <2>1. ASSUME NEW i \in 1..n, g[i - 1] \in Place PROVE g[i] \in Place
    <3>1. path[i] \in Name
      OBVIOUS
    <3>. QED
      BY <1>8, <2>1, <3>1, DirRecIs, FindOrCreateType
  <2>. HIDE DEF Runs
  <2>. QED
    BY <1>1, <1>8, <2>1, LoopKeeps
<1>. QED
  BY <1>7, <1>8, <1>9 DEF EnsureRun, a

\* The entries of the archive.
LEMMA ArchiveEntries ==
    ASSUME NEW e \in DOMAIN Archive
    PROVE  /\ Archive[e].path \in Seq(STRING) /\ Archive[e].path \in Seq(Name) /\ Archive[e].path # <<>>
           /\ Archive[e].dir \in BOOLEAN
<1>. DEFINE E == [path : Seq(STRING) \ {<<>>}, dir : BOOLEAN]
<1>1. Archive \in Seq(E)
  BY ArchiveAssumption
<1>2. Archive[e] \in E
  <2>. HIDE DEF E
  <2>. QED
    BY <1>1
<1>3. Archive[e].path \in Seq(STRING) /\ Archive[e].path # <<>> /\ Archive[e].dir \in BOOLEAN
  BY <1>2
<1>4. Archive[e].path \in Seq(Name)
  BY <1>3, StringsAreNames, WiderSeq
<1>. QED
  BY <1>3, <1>4

\* The first i names of a path; an entry of the archive with fewer names than
\* another one on the same way is a directory.
Begins(q, path, i) == q \in Seq(Name) /\ Len(q) = i /\ \A j \in 1..i : q[j] = path[j]

LEMMA AboveEntries ==
    ASSUME NEW e \in DOMAIN Archive, NEW i \in Nat, i < Len(Archive[e].path), NEW q, Begins(q, Archive[e].path, i)
    PROVE  ~IsFile(q)
<1>. SUFFICES ASSUME NEW k \in DOMAIN Archive, Archive[k].path = q PROVE Archive[k].dir
  BY DEF IsFile
<1>1. PICK path \in Seq(Name) : path = Archive[e].path
  BY ArchiveEntries
<1>2. SubSeq(q, 1, i) = SubSeq(path, 1, i)
  <2>1. q \in Seq(Name) /\ Len(q) = i /\ i < Len(path) /\ \A j \in 1..i : q[j] = path[j]
    BY <1>1 DEF Begins
  <2>. QED
    BY <2>1
<1>3. IsPrefix(q, path)
  BY <1>1, <1>2 DEF Begins, IsPrefix
<1>4. q # path
  BY <1>1 DEF Begins
<1>5. IsStrictPrefix(Archive[k].path, Archive[e].path)
  BY <1>1, <1>3, <1>4 DEF IsStrictPrefix
<1>. QED
  BY <1>5, ArchiveAssumption

\* The directories on the way to an entry of the archive.
LEMMA EnsureDirsKeeps ==
    ASSUME NEW v, NEW u, NEW root, NEW In, NEW pm, Parsing(v, u, root, In, pm),
           NEW e \in DOMAIN Archive, NEW path \in Seq(Name), path = Archive[e].path,
           NEW n \in Nat, Len(path) = n + 1
    PROVE  \E In2, pm2, q : /\ ParsedTo(EnsureDirs(v, root, path), u, root, In2, pm2, q)
                            /\ EnsureDirs(v, root, path) \in Place /\ Begins(q, path, n)
<1>1. v \in Tree /\ root \in VNode /\ root \in In
  BY DEF Parsing, TreeOK, LinksOK
<1>2. PICK g : EnsureRun(g, v, root, path, n)
  BY <1>1, EnsureDirsIs
<1>. DEFINE Good(i) == \E In2, pm2, q : ParsedTo(g[i], u, root, In2, pm2, q) /\ Begins(q, path, i)
            S == {i \in 0..n : Good(i)}
<1>3. Good(0)
  <2>1. g[0].v = v /\ g[0].at = root
    BY <1>2 DEF EnsureRun
  <2>2. ParsedTo(g[0], u, root, In, pm, <<>>)
    BY <1>1, <2>1 DEF ParsedTo, Parsing
  <2>3. <<>> \in Seq(Name) /\ Len(<<>>) = 0
    OBVIOUS
  <2>4. Begins(<<>>, path, 0)
    BY <2>3 DEF Begins
  <2>. QED
    BY <2>2, <2>4
<1>4. ASSUME NEW i \in 1..n, i - 1 \in S PROVE i \in S
  <2>1. PICK j \in 0..n : j = i - 1 /\ i = j + 1 /\ j < Len(path)
    OBVIOUS
  <2>2. PICK In1, pm1, q : ParsedTo(g[j], u, root, In1, pm1, q) /\ Begins(q, path, j)
    BY <1>4, <2>1
  <2>3. g[j] \in Place /\ g[i] = FindOrCreate(g[j], DirRec(path[i])) /\ path[i] \in Name
    BY <1>2, <2>1 DEF EnsureRun
  <2>4. q \in Seq(Name) /\ Len(q) = j /\ \A k \in 1..j : q[k] = path[k]
    BY <2>2 DEF Begins
  <2>5. ASSUME g[j].at # Nil PROVE g[j].v.node[g[j].at].kind = "dir"
    <3>1. ~IsFile(q)
      BY <2>1, <2>2, AboveEntries
    <3>. QED
      BY <2>2, <2>5, <3>1 DEF ParsedTo, Parsing
  <2>6. PICK r \in Seq(Name) : r = Append(q, path[i])
    <3>1. PICK name \in Name : name = path[i]
      BY <2>3
    <3>2. Append(q, name) \in Seq(Name)
      BY <2>4
    <3>. QED
      BY <3>1, <3>2
  <2>7. Begins(r, path, i)
    BY <2>1, <2>3, <2>4, <2>6 DEF Begins
  <2>8. \E In2, pm2 : ParsedTo(g[i], u, root, In2, pm2, r)
    <3>1. DirRec(path[i]) \in NodeRec /\ Fresh(DirRec(path[i]), path[i], "dir") /\ "dir" \in {"dir", "file"}
      BY <2>3, DirRecIs
    <3>2. PICK name \in Name : name = path[i]
      BY <2>3
    <3>4. PICK rec : rec = DirRec(name)
      OBVIOUS
    <3>3. \E In2, pm2 : ParsedTo(FindOrCreate(g[j], rec), u, root, In2, pm2, r)
      BY <2>2, <2>3, <2>4, <2>5, <2>6, <3>1, <3>2, <3>4, FindOrCreateKeeps
    <3>. QED
      BY <2>3, <3>2, <3>3, <3>4
  <2>. QED
    BY <2>7, <2>8
<1>5. n \in S
  <2>1. 0 \in S
    BY <1>3
  <2>. HIDE DEF S
  <2>2. 0..n \subseteq S
    BY <1>4, <2>1, CountingUp
  <2>. QED
    BY <2>2
<1>. QED
  BY <1>2, <1>5 DEF EnsureRun

EntryRec(e) == [Blank EXCEPT !.name = Last(e.path), !.kind = IF e.dir THEN "dir" ELSE "file",
                             !.size = IF e.dir THEN 0 ELSE 1]

LEMMA EntryRecIs ==
    ASSUME NEW i \in DOMAIN Archive, NEW name, name = Last(Archive[i].path),
           NEW kind, kind = IF Archive[i].dir THEN "dir" ELSE "file"
    PROVE  /\ EntryRec(Archive[i]) \in NodeRec /\ Fresh(EntryRec(Archive[i]), name, kind)
           /\ name \in Name /\ kind \in {"dir", "file"}
<1>1. name \in Name
  BY ArchiveEntries, FrontIs
<1>2. kind \in {"dir", "file"} /\ kind \in Kind
  BY DEF Kind
<1>3. PICK size \in Nat : size = IF Archive[i].dir THEN 0 ELSE 1
  OBVIOUS
<1>4. EntryRec(Archive[i]) = [Blank EXCEPT !.name = name, !.kind = kind, !.size = size]
  BY <1>3 DEF EntryRec
<1>. QED
  BY <1>1, <1>2, <1>4, BlankIs DEF Fresh, NodeRec

\* The path of an entry of the archive has a last name.
LEMMA EntryPath ==
    ASSUME NEW i \in DOMAIN Archive
    PROVE  \E path \in Seq(Name), n \in Nat : path = Archive[i].path /\ Len(path) = n + 1
<1>1. PICK path \in Seq(Name) : path = Archive[i].path /\ path # <<>>
  BY ArchiveEntries
<1>2. Len(path) \in Nat \ {0}
  BY <1>1
<1>3. PICK n \in Nat : n = Len(path) - 1
  BY <1>2
<1>4. Len(path) = n + 1
  BY <1>2, <1>3
<1>. QED
  BY <1>1, <1>4

\* An entry of the archive gives a tree again.
LEMMA AddEntryType ==
    ASSUME NEW v \in Tree, NEW root \in VNode, NEW i \in DOMAIN Archive
    PROVE  AddEntry(v, root, Archive[i]) \in Tree
<1>1. PICK path \in Seq(Name), n \in Nat : path = Archive[i].path /\ Len(path) = n + 1
  BY EntryPath
<1>2. PICK g : EnsureRun(g, v, root, path, n)
  BY <1>1, EnsureDirsIs
<1>3. EnsureDirs(v, root, path) \in Place
  BY <1>2 DEF EnsureRun
<1>4. EntryRec(Archive[i]) \in NodeRec
  BY EntryRecIs
<1>5. FindOrCreate(EnsureDirs(v, root, path), EntryRec(Archive[i])) \in Place
  BY <1>3, <1>4, FindOrCreateType
<1>. QED
  BY <1>1, <1>5 DEF AddEntry, EntryRec, Place

\* An entry of the archive is entered where its path says.
LEMMA AddEntryKeeps ==
    ASSUME NEW v, NEW u, NEW root, NEW In, NEW pm, Parsing(v, u, root, In, pm), NEW i \in DOMAIN Archive
    PROVE  \E In2, pm2 : Parsing(AddEntry(v, root, Archive[i]), u, root, In2, pm2)
<1>1. PICK path \in Seq(Name), n \in Nat : path = Archive[i].path /\ Len(path) = n + 1
  BY EntryPath
<1>2. PICK s : s = EnsureDirs(v, root, path)
  OBVIOUS
<1>3. PICK In1, pm1, q : ParsedTo(s, u, root, In1, pm1, q) /\ s \in Place /\ Begins(q, path, n)
  BY <1>1, <1>2, EnsureDirsKeeps
<1>4. PICK name \in Name, kind \in {"dir", "file"} :
         /\ name = Last(path) /\ kind = IF Archive[i].dir THEN "dir" ELSE "file"
         /\ Fresh(EntryRec(Archive[i]), name, kind)
  BY <1>1, EntryRecIs
<1>5. q \in Seq(Name) /\ Len(q) = n /\ \A j \in 1..n : q[j] = path[j]
  BY <1>3 DEF Begins
<1>6. s.at # Nil => s.v.node[s.at].kind = "dir"
  <2>1. ~IsFile(q)
    BY <1>1, <1>3, AboveEntries
  <2>. QED
    BY <1>3, <2>1 DEF ParsedTo, Parsing
<1>7. path = Append(q, name)
  <2>1. PICK p : p = Append(q, name)
    OBVIOUS
  <2>2. p \in Seq(Name) /\ Len(p) = n + 1 /\ (\A j \in 1..n : p[j] = q[j]) /\ p[n + 1] = name
    BY <1>5, <2>1
  <2>3. name = path[n + 1]
    BY <1>1, <1>4, FrontIs
  <2>4. \A j \in 1..Len(path) : j \in 1..n \/ j = n + 1
    BY <1>1
  <2>5. \A j \in 1..Len(path) : p[j] = path[j]
    BY <1>5, <2>2, <2>3, <2>4
  <2>6. p = path
    BY <1>1, <2>2, <2>5
  <2>. QED
    BY <2>1, <2>6
<1>8. kind # "dir" => IsFile(path)
  BY <1>1, <1>4 DEF IsFile
<1>9. PICK rec : rec = EntryRec(Archive[i])
  OBVIOUS
<1>10. PICK In2, pm2 : ParsedTo(FindOrCreate(s, rec), u, root, In2, pm2, path)
  <2>1. s \in Place /\ ParsedTo(s, u, root, In1, pm1, q)
    BY <1>3
  <2>2. q \in Seq(Name)
    BY <1>5
  <2>3. Fresh(rec, name, kind)
    BY <1>4, <1>9
  <2>. QED
    BY <1>6, <1>7, <1>8, <2>1, <2>2, <2>3, FindOrCreateKeeps
<1>11. AddEntry(v, root, Archive[i]) = FindOrCreate(s, rec).v
  BY <1>1, <1>2, <1>9 DEF AddEntry, EntryRec
<1>. QED
  BY <1>10, <1>11 DEF ParsedTo

\* The whole archive is.
LEMMA ParsedKeeps ==
    ASSUME NEW v, NEW u, NEW root, NEW In, NEW pm, Parsing(v, u, root, In, pm)
    PROVE  \E In2, pm2 : Parsing(Parsed(v, root), u, root, In2, pm2)
<1>. DEFINE n == Len(Archive)
            step == [i \in 1..n |-> [t \in Tree |-> AddEntry(t, root, Archive[i])]]
            Runs(h) == h = [i \in 0..n |-> IF i = 0 THEN v ELSE AddEntry(h[i - 1], root, Archive[i])]
<1>1. n \in Nat /\ DOMAIN Archive = 1..n
  BY ArchiveAssumption
<1>2. v \in Tree /\ root \in VNode
  BY DEF Parsing, TreeOK, LinksOK
<1>3. step \in [1..n -> [Tree -> Tree]]
  BY <1>1, <1>2, AddEntryType
<1>. HIDE DEF n
<1>4. \A i \in 1..n : i - 1 \in 0..n
  BY <1>1
<1>5. PICK h \in [0..n -> Tree] : h = [i \in 0..n |-> IF i = 0 THEN v ELSE step[i][h[i - 1]]]
  <2>. HIDE DEF step
  <2>1. \E h \in [0..n -> Tree] : IsLoop(h, n, v, step)
    BY <1>1, <1>2, <1>3, LoopRuns
  <2>. QED
    BY <2>1 DEF IsLoop
<1>6. Runs(h)
  <2>1. \A i \in 0..n : i # 0 => /\ i \in 1..n /\ i - 1 \in 0..n
    BY <1>1
  <2>2. \A i \in 1..n : step[i][h[i - 1]] = AddEntry(h[i - 1], root, Archive[i])
    BY <1>4, <1>5
  <2>. QED
    BY <1>5, <2>1, <2>2
<1>7. Parsed(v, root) = (CHOOSE g : Runs(g))[n]
  BY DEF Parsed, n
<1>8. PICK g : Parsed(v, root) = g[n] /\ Runs(g)
  <2>. HIDE DEF Runs
  <2>. QED
    BY <1>6, <1>7
<1>9. g[0] = v /\ \A i \in 1..n : g[i] = AddEntry(g[i - 1], root, Archive[i])
  <2>1. 0 \in 0..n /\ \A i \in 1..n : i \in 0..n /\ i # 0
    BY <1>1
  <2>. QED
    BY <1>8, <2>1
<1>. DEFINE S == {i \in 0..n : \E In2, pm2 : Parsing(g[i], u, root, In2, pm2)}
<1>10. 0 \in S
  BY <1>1, <1>9
<1>11. ASSUME NEW i \in 1..n, i - 1 \in S PROVE i \in S
  <2>1. PICK In1, pm1 : Parsing(g[i - 1], u, root, In1, pm1)
    BY <1>11
  <2>2. PICK t : t = g[i - 1]
    OBVIOUS
  <2>3. i \in DOMAIN Archive
    BY <1>1
  <2>4. \E In2, pm2 : Parsing(AddEntry(t, root, Archive[i]), u, root, In2, pm2)
    BY <2>1, <2>2, <2>3, AddEntryKeeps
  <2>5. g[i] = AddEntry(t, root, Archive[i]) /\ i \in 0..n
    BY <1>1, <1>9, <2>2
  <2>. QED
    BY <2>4, <2>5
<1>12. n \in S
  <2>. HIDE DEF S, Runs
  <2>1. 0..n \subseteq S
    BY <1>1, <1>10, <1>11, CountingUp
  <2>. QED
    BY <1>1, <2>1
<1>. QED
  BY <1>8, <1>12

---------------------------------------------------------------------------
(* Mounting *)

\* A node that is handed out as the root of a mount.
AsNewRoot(v, w, r, rec) ==
    /\ TreeOK(w, {r}) /\ r \in VNode /\ ~Used(v, r) /\ w.mounts = v.mounts
    /\ w.node[r] = rec /\ \A x \in VNode \ {r} : w.node[x] = v.node[x]

LEMMA NewRoot ==
    ASSUME NEW v, TreeOK(v, {}), NEW r, r = NextNode(v), r # Nil, NEW rec, Fresh(rec, rec.name, "dir"),
           NEW w, w = TakeNode(v, rec)
    PROVE  AsNewRoot(v, w, r, rec)
<1>1. rec \in NodeRec /\ rec.kind # "none" /\ rec.kids = <<>> /\ rec.root = Nil
  BY DEF Fresh
<1>2. TreeOK(w, {} \cup {r}) /\ w.node = [v.node EXCEPT ![r] = rec] /\ w.mounts = v.mounts
  BY <1>1, TakeKeeps
<1>3. {} \cup {r} = {r}
  OBVIOUS
<1>4. r \in VNode /\ ~Used(v, r)
  BY NextIsFree
<1>5. v.node \in [VNode -> NodeRec]
  BY DEF TreeOK, Tree
<1>. QED
  BY <1>2, <1>3, <1>4, <1>5 DEF AsNewRoot

\* A read-only node is in use.
LEMMA ReadOnlyIsUsed ==
    ASSUME NEW v, NEW X, TreeOK(v, X), NEW x \in VNode, v.node[x].readonly
    PROVE  Used(v, x)
BY BlankIs DEF TreeOK, PoolOK

\* A tmpfs is mounted,
LEMMA TmpfsKeeps ==
    ASSUME NEW v, TreeOK(v, {}), NEW path \in Seq(Name), MayMount(v, path),
           NEW w, w = DoMount(v, path, "tmpfs")
    PROVE  TreeOK(w, {}) /\ EntriesKept(v, w)
<1>1. PICK mp, r : mp = Lookup(v, path) /\ r = NextNode(v)
  OBVIOUS
<1>2. mp \in VNode /\ v.node[mp].kind = "dir" /\ v.node[mp].root = Nil /\ r # Nil
  BY <1>1, LookupIs DEF MayMount, IsDir
<1>3. PICK rec : rec = [DirNode EXCEPT !.name = v.node[mp].name, !.parent = v.node[mp].parent, !.fs = "tmpfs"]
  OBVIOUS
<1>4. Fresh(rec, rec.name, "dir")
  <2>1. v.node[mp] \in NodeRec
    BY <1>2, KidsAre DEF TreeOK
  <2>. QED
    BY <1>3, <2>1, BlankIs DEF Fresh, NodeRec
<1>5. PICK t : t = TakeNode(v, rec)
  OBVIOUS
<1>6. /\ TreeOK(t, {r}) /\ r \in VNode /\ ~Used(v, r) /\ t.mounts = v.mounts
      /\ t.node[r] = rec /\ \A x \in VNode \ {r} : t.node[x] = v.node[x]
  <2>1. r = NextNode(v) /\ r # Nil
    BY <1>1, <1>2
  <2>2. AsNewRoot(v, t, r, rec)
    BY <1>4, <1>5, <2>1, NewRoot
  <2>. QED
    BY <2>2 DEF AsNewRoot
<1>7. mp # r
  BY <1>2, <1>6 DEF Used
<1>8. Mounted(t, w, mp, r, path)
  <2>1. t \in Tree
    BY <1>6 DEF TreeOK
  <2>. QED
    BY <1>1, <1>3, <1>5, <2>1 DEF DoMount, TmpfsMount, Mounted, Tree
<1>9. TreeOK(w, {r} \ {r}) /\ AsMounted(t, w, mp, r)
  <2>1. r \in {r} /\ t.node[r].kind = "dir" /\ t.node[mp].kind = "dir" /\ t.node[mp].root = Nil
    BY <1>2, <1>4, <1>6, <1>7 DEF Fresh
  <2>. QED
    BY <1>2, <1>6, <1>7, <1>8, <2>1, MountKeeps
<1>10. {r} \ {r} = {}
  OBVIOUS
<1>11. EntriesKept(v, w)
  <2>. SUFFICES ASSUME NEW x \in VNode, v.node[x].readonly PROVE w.node[x].kids = v.node[x].kids
    BY DEF EntriesKept
  <2>1. x # r
    BY <1>6, ReadOnlyIsUsed
  <2>. QED
    BY <1>6, <1>9, <2>1 DEF AsMounted
<1>. QED
  BY <1>9, <1>10, <1>11

\* or the archive,
LEMMA InitrdKeeps ==
    ASSUME NEW v, TreeOK(v, {}), NEW path \in Seq(Name), MayMount(v, path),
           NEW w, w = DoMount(v, path, "initrd")
    PROVE  TreeOK(w, {}) /\ EntriesKept(v, w)
<1>1. PICK mp, r : mp = Lookup(v, path) /\ r = NextNode(v)
  OBVIOUS
<1>2. mp \in VNode /\ v.node[mp].kind = "dir" /\ v.node[mp].root = Nil /\ r # Nil
  BY <1>1, LookupIs DEF MayMount, IsDir
<1>3. PICK rec : rec = [DirNode EXCEPT !.name = "/", !.parent = r]
  OBVIOUS
<1>4. r \in VNode
  BY <1>1, <1>2, NextIsFree
<1>5. Fresh(rec, rec.name, "dir")
  <2>1. "/" \in Name
    BY DEF Name
  <2>. QED
    BY <1>3, <1>4, <2>1, BlankIs DEF Fresh, NodeRec
<1>6. PICK t : t = TakeNode(v, rec)
  OBVIOUS
<1>7. /\ TreeOK(t, {r}) /\ ~Used(v, r) /\ t.mounts = v.mounts
      /\ t.node[r] = rec /\ \A x \in VNode \ {r} : t.node[x] = v.node[x]
  <2>1. r = NextNode(v) /\ r # Nil
    BY <1>1, <1>2
  <2>2. AsNewRoot(v, t, r, rec)
    BY <1>5, <1>6, <2>1, NewRoot
  <2>. QED
    BY <2>2 DEF AsNewRoot
<1>8. PICK pm : pm = [x \in VNode |-> <<>>]
  OBVIOUS
<1>9. Parsing(t, v, r, {r}, pm)
  <2>1. pm \in [VNode -> Seq(Name)] /\ pm[r] = <<>>
    BY <1>4, <1>8
  <2>2. t.node[r].kind = "dir" /\ ~t.node[r].readonly /\ Kids(t, r) = {} /\ Used(t, r)
    BY <1>5, <1>7 DEF Fresh, Kids, Range, Used
  <2>. QED
    BY <1>4, <1>7, <2>1, <2>2 DEF Parsing
<1>10. PICK full : full = Parsed(t, r)
  OBVIOUS
<1>11. PICK In, pm2 : Parsing(full, v, r, In, pm2)
  BY <1>9, <1>10, ParsedKeeps
<1>12. /\ TreeOK(full, {r}) /\ full.mounts = v.mounts /\ r \in In /\ full.node[r].kind = "dir"
       /\ \A x \in VNode : Used(v, x) => full.node[x] = v.node[x]
  BY <1>11 DEF Parsing
<1>13. full \in Tree /\ full.node \in [VNode -> NodeRec]
  BY <1>12 DEF TreeOK, Tree
<1>14. mp # r
  BY <1>2, <1>7 DEF Used
<1>15. PICK y : y = [full EXCEPT !.node[r].readonly = TRUE, !.node[r].fs = "initrd"]
  OBVIOUS
<1>16. PICK s : s = [full.node[r] EXCEPT !.readonly = TRUE, !.fs = "initrd"]
  OBVIOUS
<1>17. /\ s \in NodeRec
       /\ \A f \in {"name", "kind", "parent", "kids", "root"} : s[f] = full.node[r][f]
  <2>1. full.node[r] \in NodeRec
    BY <1>4, <1>13
  <2>. QED
    BY <1>16, <2>1 DEF NodeRec
<1>18. /\ y = [full EXCEPT !.node = [full.node EXCEPT ![r] = s]] /\ y.node[r] = s
       /\ \A x \in VNode \ {r} : y.node[x] = full.node[x]
  <2>1. y = [full EXCEPT !.node = [full.node EXCEPT ![r] = s]]
    BY <1>4, <1>13, <1>15, <1>16 DEF Tree
  <2>. QED
    BY <1>4, <1>13, <2>1 DEF Tree
<1>19. Rewritten(full, y, r)
  BY <1>17, <1>18 DEF Rewritten
<1>20. TreeOK(y, {r})
  <2>1. Used(full, r)
    BY <1>12 DEF Used
  <2>. QED
    BY <1>4, <1>12, <1>19, <2>1, RewriteKeeps
<1>21. Mounted(y, w, mp, r, path)
  <2>1. y \in Tree
    BY <1>20 DEF TreeOK
  <2>2. w = [[full EXCEPT !.node[r].readonly = TRUE, !.node[r].fs = "initrd", !.node[mp].root = r]
                EXCEPT !.mounts = Append(@, [path |-> path, at |-> mp])]
    BY <1>1, <1>3, <1>6, <1>10 DEF DoMount, InitrdMount
  <2>. QED
    BY <1>15, <2>1, <2>2 DEF Mounted, Tree
<1>22. TreeOK(w, {r} \ {r}) /\ AsMounted(y, w, mp, r)
  <2>1. r \in {r} /\ y.node[r].kind = "dir" /\ y.node[mp].kind = "dir" /\ y.node[mp].root = Nil
    <3>1. full.node[mp] = v.node[mp]
      BY <1>2, <1>12 DEF Used
    <3>2. y.node[mp] = full.node[mp]
      BY <1>2, <1>14, <1>18
    <3>3. y.node[r].kind = "dir"
      <4>1. full.node[r] \in NodeRec
        BY <1>4, <1>13
      <4>. QED
        BY <1>12, <1>16, <1>18, <4>1 DEF NodeRec
    <3>. QED
      BY <1>2, <3>1, <3>2, <3>3
  <2>. QED
    BY <1>2, <1>14, <1>20, <1>21, <2>1, MountKeeps
<1>23. {r} \ {r} = {}
  OBVIOUS
<1>24. EntriesKept(v, w)
  <2>. SUFFICES ASSUME NEW x \in VNode, v.node[x].readonly PROVE w.node[x].kids = v.node[x].kids
    BY DEF EntriesKept
  <2>1. Used(v, x) /\ x # r
    BY <1>7, ReadOnlyIsUsed
  <2>. QED
    BY <1>12, <1>18, <1>22, <2>1 DEF AsMounted
<1>. QED
  BY <1>22, <1>23, <1>24

\* and the tree stays sound, with the entries of read-only directories.
LEMMA DoMountKeeps ==
    ASSUME NEW v, TreeOK(v, {}), NEW path \in Seq(Name), MayMount(v, path), NEW type \in {"tmpfs", "initrd"}
    PROVE  TreeOK(DoMount(v, path, type), {}) /\ EntriesKept(v, DoMount(v, path, type))
BY TmpfsKeeps, InitrdKeeps

---------------------------------------------------------------------------
(* Boot *)

\* The tree before the first mount,
LEMMA BareTreeIs == TreeOK(BareTree, {})
<1>1. PICK b : b = [DirNode EXCEPT !.name = "/", !.parent = BareRoot]
  OBVIOUS
<1>2. /\ b \in NodeRec /\ b.kind = "dir" /\ b.parent = BareRoot /\ b.kids = <<>> /\ b.root = Nil
  <2>1. "/" \in Name
    BY DEF Name
  <2>. QED
    BY <1>1, <2>1, BlankIs, NodeNumbers DEF NodeRec
<1>3. PICK v : v = BareTree
  OBVIOUS
<1>4. /\ v.node = [n \in VNode |-> IF n = BareRoot THEN b ELSE Blank]
      /\ v.free = <<>> /\ v.used = 1 /\ v.mounts = <<>>
      /\ v = [node |-> v.node, free |-> <<>>, used |-> 1, mounts |-> <<>>]
  BY <1>1, <1>3 DEF BareTree
<1>5. v.node[BareRoot] = b /\ \A n \in VNode : n # BareRoot => v.node[n] = Blank
  BY <1>4, NodeNumbers
<1>6. v \in Tree
  <2>1. v.node \in [VNode -> NodeRec]
    BY <1>2, <1>4, BlankIs
  <2>2. <<>> \in Seq(VNode) /\ <<>> \in Seq(MountRec) /\ 1 \in 0..PoolSize
    BY NodeNumbers
  <2>. QED
    BY <1>4, <2>1, <2>2 DEF Tree
<1>7. \A n \in VNode : v.node[n].kids = <<>> /\ v.node[n].root = Nil /\ Kids(v, n) = {}
                       /\ (Used(v, n) <=> n = BareRoot)
  BY <1>2, <1>5, BlankIs DEF Kids, Range, Used
<1>8. PoolOK(v)
  <2>1. DOMAIN v.free = {} /\ IsInjective(v.free)
    BY <1>4 DEF IsInjective
  <2>2. \A n \in VNode : v.used < n => n # BareRoot
    BY <1>4 DEF BareRoot
  <2>. QED
    BY <1>5, <1>7, <2>1, <2>2 DEF PoolOK
<1>9. KidsOK(v) /\ RootsOK(v)
  BY <1>2, <1>5, <1>7 DEF KidsOK, RootsOK
<1>10. LinksOK(v, {}) /\ MountsOK(v)
  BY <1>4, <1>7 DEF LinksOK, MountsOK
<1>. QED
  BY <1>3, <1>6, <1>8, <1>9, <1>10 DEF TreeOK

\* with the archive on it,
LEMMA RootFsIs ==
    ASSUME Boots
    PROVE  TreeOK(RootFs, {})
<1>1. <<>> \in Seq(Name) /\ MayMount(BareTree, <<>>) /\ "initrd" \in {"tmpfs", "initrd"}
  BY DEF Boots
<1>. QED
  BY <1>1, BareTreeIs, DoMountKeeps DEF RootFs

\* with /tmp,
LEMMA WithTmpIs ==
    ASSUME Boots
    PROVE  TreeOK(WithTmp, {})
<1>1. PICK v : v = RootFs
  OBVIOUS
<1>2. PICK path : path = <<TmpDir>>
  OBVIOUS
<1>3. TmpDir \in Name
  BY VfsAssumption, StringsAreNames
<1>4. path \in Seq(Name) /\ path # <<>> /\ Last(path) = TmpDir /\ Front(path) = <<>>
  <2>1. path \in Seq(Name) /\ Len(path) = 1 /\ path[1] = TmpDir
    BY <1>2, <1>3
  <2>2. Front(path) \in Seq(Name) /\ Len(Front(path)) = 0
    BY <2>1, FrontIs
  <2>. QED
    BY <2>1, <2>2 DEF Last
<1>5. TreeOK(v, {})
  BY <1>1, RootFsIs
<1>6. CASE Lookup(v, path) # Nil
  BY <1>1, <1>2, <1>5, <1>6 DEF WithTmp
<1>7. CASE Lookup(v, path) = Nil
  <2>1. PICK d : d = Lookup(v, <<>>)
    OBVIOUS
  <2>2. d \in VNode /\ v.node[d].kind = "dir" /\ d = EntryDir(v, path)
    BY <1>4, <1>5, <2>1, RootLookup DEF EntryDir
  <2>3. IsDir(v, d)
    BY <2>2, NodeNumbers DEF IsDir
  <2>4. DirChild(v, d, TmpDir) = Nil
    BY <1>4, <1>5, <1>7, <2>2, <2>3, NameIsFree
  <2>5. \A k \in Kids(v, d) : v.node[k].name # TmpDir
    BY <1>5, <2>2, <2>4, DirChildIs DEF TreeOK
  <2>6. NextNode(v) # Nil
    BY <1>1, <1>2, <1>7 DEF Boots
  <2>7. PICK rec : rec = DirRec(TmpDir)
    OBVIOUS
  <2>8. rec \in NodeRec /\ rec.kind # "none" /\ rec.kids = <<>> /\ rec.root = Nil /\ rec.name = TmpDir
    BY <1>3, <2>7, DirRecIs DEF Fresh
  <2>9. TreeOK(NewChild(v, d, rec), {})
    BY <1>5, <2>2, <2>5, <2>6, <2>8, NewChildKeeps
  <2>10. WithTmp = NewChild(v, d, rec)
    BY <1>1, <1>2, <1>7, <2>1, <2>7 DEF WithTmp, DirRec
  <2>. QED
    BY <2>9, <2>10
<1>. QED
  BY <1>6, <1>7

\* and with both mounts.
LEMMA WithMountsIs ==
    ASSUME Boots
    PROVE  TreeOK(WithMounts, {})
<1>1. PICK path \in Seq(Name) : path = <<TmpDir>>
  <2>1. PICK name \in Name : name = TmpDir
    BY VfsAssumption, StringsAreNames
  <2>2. <<name>> \in Seq(Name)
    OBVIOUS
  <2>. QED
    BY <2>1, <2>2
<1>2. MayMount(WithTmp, path) /\ "tmpfs" \in {"tmpfs", "initrd"}
  BY <1>1 DEF Boots
<1>3. TreeOK(DoMount(WithTmp, path, "tmpfs"), {})
  BY <1>2, WithTmpIs, DoMountKeeps
<1>. QED
  BY <1>1, <1>3 DEF WithMounts

\* A lookup on the way to the directory of a new entry goes on as before.
LEMMA SameStep ==
    ASSUME NEW v, TreeOK(v, {}), NEW d \in VNode, NEW rec \in NodeRec, rec.root = Nil, NEW w \in Tree, NewIn(v, w, d, rec),
           NEW n, n = NextNode(v), n # Nil,
           NEW x \in VNode, x # d, Used(v, x), NEW name
    PROVE  WalkStep(w, x, name) = WalkStep(v, x, name)
<1>1. n \in VNode /\ ~Used(v, n) /\ v.node[n] = Blank
  BY NextIsFree
<1>2. x # n /\ v \in Tree
  BY <1>1 DEF TreeOK
<1>3. w.node[x] = v.node[x]
  BY <1>2 DEF NewIn
<1>4. \A k \in VNode : k # n => w.node[k].name = v.node[k].name /\ w.node[k].root = v.node[k].root
  <2>. SUFFICES ASSUME NEW k \in VNode, k # n
                PROVE  w.node[k].name = v.node[k].name /\ w.node[k].root = v.node[k].root
    OBVIOUS
  <2>1. CASE k = d
    <3>1. w.node[k] = [v.node[k] EXCEPT !.kids = w.node[d].kids] /\ v.node[k] \in NodeRec
      BY <1>2, <2>1, KidsAre DEF NewIn
    <3>. QED
      BY <3>1 DEF NodeRec
  <2>2. CASE k # d
    BY <2>2 DEF NewIn
  <2>. QED
    BY <2>1, <2>2
<1>5. \A i \in DOMAIN v.node[x].kids : v.node[x].kids[i] \in VNode /\ v.node[x].kids[i] # n
  <2>1. \A k \in Kids(v, x) : Used(v, k) /\ k \in VNode
    BY <1>2, KidsAre DEF TreeOK, KidsOK
  <2>. QED
    BY <1>1, <2>1 DEF Kids, Range
<1>6. DirChild(w, x, name) = DirChild(v, x, name)
  <2>1. {i \in DOMAIN w.node[x].kids : w.node[w.node[x].kids[i]].name = name}
            = {i \in DOMAIN v.node[x].kids : v.node[v.node[x].kids[i]].name = name}
    BY <1>3, <1>4, <1>5
  <2>. QED
    BY <1>3, <2>1 DEF DirChild
<1>7. PICK c : c = DirChild(v, x, name)
  OBVIOUS
<1>8. c # Nil => c \in VNode /\ c # n
  <2>1. c # Nil => c \in Kids(v, x)
    BY <1>2, <1>7, DirChildIs
  <2>. QED
    BY <1>5, <2>1 DEF Kids, Range
<1>9. Follow(w, c) = Follow(v, c)
  BY <1>4, <1>8 DEF Follow
<1>. QED
  BY <1>3, <1>6, <1>7, <1>9 DEF WalkStep, IsDir

\* A new entry in the directory that a path leads to does not change where it
\* leads.
LEMMA LookupStays ==
    ASSUME NEW v, TreeOK(v, {}), NEW path \in Seq(Name), NEW d, d = Lookup(v, path), d # Nil,
           NEW rec \in NodeRec, rec.root = Nil, NEW w \in Tree, NewIn(v, w, d, rec), NextNode(v) # Nil
    PROVE  Lookup(w, path) = d
<1>. DEFINE n == Len(path)
            S == {i \in 0..n : Walk(w, path)[i] = Walk(v, path)[i]}
<1>1. n \in Nat /\ d = Walk(v, path)[n] /\ d \in VNode /\ v \in Tree
  BY LookupIs DEF Lookup, TreeOK
<1>2. 0 \in S
  <2>1. Follow(w, BareRoot) = Follow(v, BareRoot)
    <3>1. BareRoot \in VNode /\ v.node[BareRoot] \in NodeRec /\ NextNode(v) # BareRoot
      BY <1>1, NodeNumbers, KidsAre, NextIsFree
    <3>2. \/ w.node[BareRoot] = v.node[BareRoot]
          \/ w.node[BareRoot] = [v.node[BareRoot] EXCEPT !.kids = w.node[d].kids]
      BY <3>1 DEF NewIn
    <3>3. w.node[BareRoot].root = v.node[BareRoot].root
      BY <3>1, <3>2 DEF NodeRec
    <3>. QED
      BY <3>3 DEF Follow
  <2>. QED
    BY <1>1, <2>1, WalkIs
<1>3. ASSUME NEW i \in 1..n, i - 1 \in S PROVE i \in S
  <2>1. PICK j \in 0..n : j = i - 1 /\ j # n /\ j \in S
    BY <1>1, <1>3
  <2>2. PICK x : x = Walk(v, path)[j]
    OBVIOUS
  <2>3. Walk(v, path)[i] = WalkStep(v, x, path[i]) /\ Walk(w, path)[i] = WalkStep(w, x, path[i])
    BY <1>1, <2>1, <2>2, WalkIs
  <2>4. CASE x = Nil
    BY <1>1, <2>3, <2>4 DEF WalkStep, IsDir
  <2>5. CASE x # Nil
    <3>1. x \in VNode /\ Used(v, x)
      BY <1>1, <2>1, <2>2, <2>5, WalkFound
    <3>2. x # d
      BY <1>1, <2>1, <2>2, <2>5, WalksApart
    <3>3. WalkStep(w, x, path[i]) = WalkStep(v, x, path[i])
      BY <1>1, <3>1, <3>2, SameStep
    <3>. QED
      BY <1>1, <2>3, <3>3
  <2>. QED
    BY <2>4, <2>5
<1>4. n \in S
  <2>. HIDE DEF S
  <2>1. 0..n \subseteq S
    BY <1>1, <1>2, <1>3, CountingUp
  <2>. QED
    BY <1>1, <2>1
<1>. QED
  BY <1>1, <1>4 DEF Lookup

DevRec(name) == [Blank EXCEPT !.name = name, !.kind = "dev"]

LEMMA DevicesAre ==
    /\ Len(Devices) \in Nat /\ DOMAIN Devices = 1..Len(Devices) /\ DevDir \in Seq(Name)
    /\ \A i \in DOMAIN Devices : Devices[i] \in Name
    /\ \A i \in DOMAIN Devices : DevRec(Devices[i]) \in NodeRec /\ Fresh(DevRec(Devices[i]), Devices[i], "dev")
<1>1. Devices \in Seq(STRING) /\ DevDir \in Seq(STRING)
  BY VfsAssumption
<1>2. ASSUME NEW i \in DOMAIN Devices PROVE Devices[i] \in Name
  <2>1. Devices[i] \in STRING
    BY <1>1
  <2>. QED
    BY <2>1, StringsAreNames
<1>3. DevDir \in Seq(Name)
  BY <1>1, StringsAreNames, WiderSeq
<1>4. \A name \in Name : DevRec(name) \in NodeRec /\ Fresh(DevRec(name), name, "dev")
  BY FreshNodes DEF Fresh, DevRec
<1>. QED
  BY <1>1, <1>2, <1>3, <1>4

\* A device gives a tree again.
LEMMA AddDevType ==
    ASSUME NEW v \in Tree, NEW i \in DOMAIN Devices
    PROVE  AddDev(v, Devices[i]) \in Tree
<1>1. PICK d, n : d = Lookup(v, DevDir) /\ n = NextNode(v)
  OBVIOUS
<1>2. PICK rec : rec = DevRec(Devices[i])
  OBVIOUS
<1>3. AddDev(v, Devices[i]) = IF d = Nil \/ n = Nil THEN v ELSE Attach(TakeNode(v, rec), d, n)
  BY <1>1, <1>2 DEF AddDev, NewChild, DevRec
<1>4. CASE d = Nil \/ n = Nil
  BY <1>3, <1>4
<1>5. CASE d # Nil /\ n # Nil
  <2>1. d \in VNode
    <3>1. Len(DevDir) \in 0..Len(DevDir)
      BY DevicesAre
    <3>. QED
      BY <1>1, <1>5, <3>1, DevicesAre, WalkIs DEF Lookup
  <2>2. PICK t \in Tree : t = TakeNode(v, rec)
    BY <1>1, <1>2, <1>5, DevicesAre, TakeType
  <2>3. n \in VNode
    BY <1>1, <1>2, <1>5, DevicesAre, TakeType
  <2>4. PICK ks \in Seq(VNode) : ks = Append(t.node[d].kids, n)
    <3>1. PICK q \in Seq(VNode) : q = t.node[d].kids
      BY <2>1, KidsAre
    <3>2. Append(q, n) \in Seq(VNode)
      BY <2>3
    <3>. QED
      BY <3>1, <3>2
  <2>5. PICK a : a = [t EXCEPT !.node[d].kids = ks]
    OBVIOUS
  <2>6. a \in Tree /\ a.node \in [VNode -> NodeRec]
    <3>1. a \in Tree
      BY <2>1, <2>5, KidsType
    <3>. QED
      BY <3>1 DEF Tree
  <2>7. Attach(t, d, n) = [a EXCEPT !.node[n].parent = d]
    BY <2>1, <2>4, <2>5 DEF Attach, Tree
  <2>8. [a.node EXCEPT ![n].parent = d] \in [VNode -> NodeRec]
    <3>1. a.node[n] \in NodeRec
      BY <2>3, <2>6
    <3>2. [a.node[n] EXCEPT !.parent = d] \in NodeRec
      BY <2>1, <3>1 DEF NodeRec
    <3>. QED
      BY <2>3, <2>6, <3>2
  <2>9. [a EXCEPT !.node[n].parent = d] \in Tree
    BY <2>6, <2>8 DEF Tree
  <2>. QED
    BY <1>3, <1>5, <2>2, <2>7, <2>9
<1>. QED
  BY <1>4, <1>5

\* The devices from the i-th on are still to be entered in d.
DevicesLeft(v, d, i) ==
    /\ TreeOK(v, {}) /\ Lookup(v, DevDir) = d
    /\ d # Nil => /\ d \in VNode /\ v.node[d].kind = "dir"
                  /\ \A k \in Kids(v, d) : \A j \in DOMAIN Devices : i <= j => v.node[k].name # Devices[j]

\* A device is entered under its own name.
LEMMA AddDevKeeps ==
    ASSUME NEW v, NEW d, NEW i \in DOMAIN Devices, DevicesLeft(v, d, i)
    PROVE  DevicesLeft(AddDev(v, Devices[i]), d, i + 1)
<1>1. i \in Nat /\ \A j \in DOMAIN Devices : j \in Nat
  BY DevicesAre
<1>2. PICK rec : rec = DevRec(Devices[i])
  OBVIOUS
<1>3. rec \in NodeRec /\ rec.kind # "none" /\ rec.kids = <<>> /\ rec.root = Nil /\ rec.name = Devices[i]
  BY <1>2, DevicesAre DEF Fresh
<1>4. TreeOK(v, {}) /\ Lookup(v, DevDir) = d
  BY DEF DevicesLeft
<1>5. AddDev(v, Devices[i]) = IF d = Nil \/ NextNode(v) = Nil THEN v ELSE NewChild(v, d, rec)
  BY <1>2, <1>4 DEF AddDev, DevRec
<1>6. CASE d = Nil \/ NextNode(v) = Nil
  <2>1. \A j \in DOMAIN Devices : i + 1 <= j => i <= j
    BY <1>1
  <2>. QED
    BY <1>5, <1>6, <2>1 DEF DevicesLeft
<1>7. CASE d # Nil /\ NextNode(v) # Nil
  <2>1. PICK n, w : n = NextNode(v) /\ w = NewChild(v, d, rec)
    OBVIOUS
  <2>2. /\ d \in VNode /\ v.node[d].kind = "dir"
        /\ \A k \in Kids(v, d) : \A j \in DOMAIN Devices : i <= j => v.node[k].name # Devices[j]
    BY <1>7 DEF DevicesLeft
  <2>3. \A k \in Kids(v, d) : v.node[k].name # rec.name
    BY <1>1, <1>3, <2>2
  <2>4. TreeOK(w, {}) /\ NewIn(v, w, d, rec)
    BY <1>3, <1>4, <1>7, <2>1, <2>2, <2>3, NewChildKeeps
  <2>5. n \in VNode /\ ~Used(v, n) /\ n # d
    BY <1>4, <1>7, <2>1, <2>2, NextIsFree DEF Used
  <2>6. Lookup(w, DevDir) = d
    <3>1. w \in Tree
      BY <2>4 DEF TreeOK
    <3>. QED
      BY <1>3, <1>4, <1>7, <2>4, <3>1, DevicesAre, LookupStays
  <2>7. w.node[d].kind = "dir"
    <3>1. w.node[d] = [v.node[d] EXCEPT !.kids = w.node[d].kids] /\ v.node[d] \in NodeRec
      BY <1>4, <2>2, <2>4, KidsAre DEF NewIn, TreeOK
    <3>. QED
      BY <2>2, <3>1 DEF NodeRec
  <2>8. ASSUME NEW k \in Kids(w, d), NEW j \in DOMAIN Devices, i + 1 <= j
        PROVE  w.node[k].name # Devices[j]
    <3>1. i # j /\ i <= j
      BY <1>1, <2>8
    <3>2. CASE k = n
      <4>1. w.node[n] = [rec EXCEPT !.parent = d]
        BY <2>1, <2>4, <2>5 DEF NewIn
      <4>2. w.node[n].name = Devices[i]
        BY <1>3, <4>1 DEF NodeRec
      <4>3. Devices[i] # Devices[j]
        BY <3>1, DeviceAssumption DEF IsInjective
      <4>. QED
        BY <3>2, <4>2, <4>3
    <3>3. CASE k # n
      <4>1. k \in Kids(v, d) /\ k \in VNode
        <5>1. k \in Kids(v, d)
          BY <2>1, <2>4, <3>3 DEF NewIn
        <5>. QED
          BY <1>4, <2>2, <5>1, KidsAre DEF TreeOK
      <4>2. w.node[k].name = v.node[k].name
        <5>1. \/ w.node[k] = v.node[k]
              \/ w.node[k] = [v.node[k] EXCEPT !.kids = w.node[d].kids]
          BY <2>1, <2>4, <3>3, <4>1 DEF NewIn
        <5>2. v.node[k] \in NodeRec
          BY <1>4, <4>1, KidsAre DEF TreeOK
        <5>. QED
          BY <5>1, <5>2 DEF NodeRec
      <4>. QED
        BY <2>2, <3>1, <4>1, <4>2
    <3>. QED
      BY <3>2, <3>3
  <2>. QED
    BY <1>5, <1>7, <2>1, <2>2, <2>4, <2>6, <2>7, <2>8 DEF DevicesLeft
<1>. QED
  BY <1>6, <1>7

\* The kernel boots with a sound tree.
LEMMA BootTreeIs ==
    ASSUME Boots
    PROVE  TreeOK(BootTree, {})
<1>. DEFINE n == Len(Devices)
            step == [i \in 1..n |-> [t \in Tree |-> AddDev(t, Devices[i])]]
            Runs(h) == h = [i \in 0..n |-> IF i = 0 THEN WithMounts ELSE AddDev(h[i - 1], Devices[i])]
<1>1. n \in Nat /\ DOMAIN Devices = 1..n
  BY DevicesAre
<1>2. TreeOK(WithMounts, {}) /\ WithMounts \in Tree
  BY WithMountsIs DEF TreeOK
<1>3. step \in [1..n -> [Tree -> Tree]]
  BY <1>1, AddDevType
<1>. HIDE DEF n
<1>4. \A i \in 1..n : i - 1 \in 0..n
  BY <1>1
<1>5. PICK h \in [0..n -> Tree] : h = [i \in 0..n |-> IF i = 0 THEN WithMounts ELSE step[i][h[i - 1]]]
  <2>. HIDE DEF step
  <2>1. \E h \in [0..n -> Tree] : IsLoop(h, n, WithMounts, step)
    BY <1>1, <1>2, <1>3, LoopRuns
  <2>. QED
    BY <2>1 DEF IsLoop
<1>6. Runs(h)
  <2>1. \A i \in 0..n : i # 0 => /\ i \in 1..n /\ i - 1 \in 0..n
    BY <1>1
  <2>2. \A i \in 1..n : step[i][h[i - 1]] = AddDev(h[i - 1], Devices[i])
    BY <1>4, <1>5
  <2>. QED
    BY <1>5, <2>1, <2>2
<1>7. BootTree = (CHOOSE g : Runs(g))[n]
  BY DEF BootTree, n
<1>8. PICK g : BootTree = g[n] /\ Runs(g)
  <2>. HIDE DEF Runs
  <2>. QED
    BY <1>6, <1>7
<1>9. g[0] = WithMounts /\ \A i \in 1..n : g[i] = AddDev(g[i - 1], Devices[i])
  <2>1. 0 \in 0..n /\ \A i \in 1..n : i \in 0..n /\ i # 0
    BY <1>1
  <2>. QED
    BY <1>8, <2>1
<1>10. PICK d : d = Lookup(WithMounts, DevDir)
  OBVIOUS
<1>. DEFINE S == {i \in 0..n : DevicesLeft(g[i], d, i + 1)}
<1>11. 0 \in S
  <2>1. DevDir \in Seq(Name)
    BY DevicesAre
  <2>2. ASSUME d # Nil
        PROVE  /\ d \in VNode /\ WithMounts.node[d].kind = "dir"
               /\ \A k \in Kids(WithMounts, d) : \A j \in DOMAIN Devices : WithMounts.node[k].name # Devices[j]
    <3>1. d \in VNode
      BY <1>2, <1>10, <2>1, <2>2, LookupIs
    <3>2. IsDir(WithMounts, d) /\ \A j \in DOMAIN Devices : DirChild(WithMounts, d, Devices[j]) = Nil
      BY <1>10, <2>2, DeviceAssumption
    <3>3. \A j \in DOMAIN Devices : \A k \in Kids(WithMounts, d) : WithMounts.node[k].name # Devices[j]
      BY <1>2, <3>1, <3>2, DirChildIs
    <3>. QED
      BY <3>1, <3>2, <3>3 DEF IsDir
  <2>3. DevicesLeft(g[0], d, 0 + 1)
    BY <1>2, <1>9, <1>10, <2>2 DEF DevicesLeft
  <2>. QED
    BY <1>1, <2>3
<1>12. ASSUME NEW i \in 1..n, i - 1 \in S PROVE i \in S
  <2>1. DevicesLeft(g[i - 1], d, i)
    <3>1. (i - 1) + 1 = i
      BY <1>1
    <3>. QED
      BY <1>12, <3>1
  <2>2. PICK t : t = g[i - 1]
    OBVIOUS
  <2>3. i \in DOMAIN Devices
    BY <1>1
  <2>4. DevicesLeft(AddDev(t, Devices[i]), d, i + 1)
    BY <2>1, <2>2, <2>3, AddDevKeeps
  <2>5. g[i] = AddDev(t, Devices[i]) /\ i \in 0..n
    BY <1>1, <1>9, <2>2
  <2>. QED
    BY <2>4, <2>5
<1>13. n \in S
  <2>. HIDE DEF S, Runs
  <2>1. 0..n \subseteq S
    BY <1>1, <1>11, <1>12, CountingUp
  <2>. QED
    BY <1>1, <2>1
<1>. QED
  BY <1>8, <1>13 DEF DevicesLeft

---------------------------------------------------------------------------
(* The tree of files stays sound *)

\* The inductive invariant, up to the first operation that spoils the tree.
VfsInv ==
    /\ ~spoilt => TreeOK(vfs, {})
    /\ FdsOK
    /\ cwd \in Seq(Name) /\ spoilt \in BOOLEAN

\* The first state.
LEMMA VfsInitIs == VfsInit => VfsInv
<1>. SUFFICES ASSUME VfsInit PROVE VfsInv
  OBVIOUS
<1>1. TreeOK(vfs, {}) /\ cwd \in Seq(Name) /\ spoilt \in BOOLEAN
  <2>1. <<>> \in Seq(Name)
    OBVIOUS
  <2>. QED
    BY <2>1, BootTreeIs DEF VfsInit
<1>2. FdsOK
  <2>1. NoFd \in FdRec /\ ~NoFd.open
    BY DEF NoFd, FdRec
  <2>. QED
    BY <2>1 DEF VfsInit, FdsOK
<1>. QED
  BY <1>1, <1>2 DEF VfsInv

\* An umount that spares the mount points of others.
LEMMA UmountStep ==
    ASSUME TreeOK(vfs, {}), NEW path \in Seq(Name), Umount(path), ~spoilt'
    PROVE  TreeOK(vfs', {}) /\ EntriesKept(vfs, vfs')
<1>1. PICK i \in DOMAIN vfs.mounts :
         LET m == vfs.mounts[i]
             root == vfs.node[m.at].root IN
         /\ vfs' = [FreeTree(vfs, root) EXCEPT !.node[m.at].root = Nil, !.mounts = RemoveAt(@, i)]
         /\ spoilt' = (\E j \in DOMAIN vfs.mounts \ {i} :
                         vfs.mounts[j].at \in Range(PostOrder(vfs, root)))
  BY DEF Umount
<1>2. PICK at : at = vfs.mounts[i].at
  OBVIOUS
<1>3. PICK root : root = vfs.node[at].root
  OBVIOUS
<1>4. vfs' = [FreeTree(vfs, root) EXCEPT !.node[at].root = Nil, !.mounts = RemoveAt(@, i)]
  BY <1>1, <1>2, <1>3
<1>5. \A j \in DOMAIN vfs.mounts \ {i} : vfs.mounts[j].at \notin Range(PostOrder(vfs, root))
  BY <1>1, <1>2, <1>3
<1>6. PICK u : u = vfs'
  OBVIOUS
<1>7. Unmounts(vfs, u, i, at, root)
  BY <1>2, <1>3, <1>4, <1>5, <1>6 DEF Unmounts
<1>8. TreeOK(u, {}) /\ EntriesKept(vfs, u)
  BY <1>7, UmountKeeps
<1>. QED
  BY <1>6, <1>8

\* Each step keeps the invariant, and the entries of read-only directories
\* unless it spoils the tree.
LEMMA VfsStepIs ==
    ASSUME VfsInv, VfsNext
    PROVE  VfsInv' /\ (~spoilt' => EntriesKept(vfs, vfs'))
<1>1. TreeOK(vfs, {}) /\ FdsOK /\ cwd \in Seq(Name) /\ spoilt = FALSE
  BY DEF VfsInv, VfsNext
<1>. DEFINE Fine == /\ ~spoilt' => TreeOK(vfs', {}) /\ EntriesKept(vfs, vfs')
                    /\ FdsOK' /\ cwd' \in Seq(Name) /\ spoilt' \in BOOLEAN
<1>2. EntriesKept(vfs, vfs)
  BY DEF EntriesKept
<1>3. ASSUME NEW path \in Seq(Name), NEW type \in {"tmpfs", "initrd"}, Mount(path, type) PROVE Fine
  <2>1. MayMount(vfs, path) /\ vfs' = DoMount(vfs, path, type) /\ UNCHANGED <<fds, cwd, spoilt>>
    BY <1>3 DEF Mount
  <2>2. TreeOK(vfs', {}) /\ EntriesKept(vfs, vfs')
    BY <1>1, <2>1, DoMountKeeps
  <2>. QED
    BY <1>1, <2>1, <2>2 DEF FdsOK
<1>4. ASSUME NEW path \in Seq(Name), Umount(path) PROVE Fine
  <2>1. UNCHANGED <<fds, cwd>> /\ spoilt' \in BOOLEAN
    BY <1>4 DEF Umount
  <2>2. ~spoilt' => TreeOK(vfs', {}) /\ EntriesKept(vfs, vfs')
    BY <1>1, <1>4, UmountStep
  <2>. QED
    BY <1>1, <2>1, <2>2 DEF FdsOK
<1>5. ASSUME NEW path \in Seq(Name), OpenTruncate(path) PROVE Fine
  <2>1. UNCHANGED <<cwd, spoilt>>
    BY <1>5 DEF OpenTruncate, OpenOn
  <2>. QED
    BY <1>1, <1>5, <2>1, OpenTruncateKeeps
<1>6. ASSUME NEW path \in Seq(Name), NEW append \in BOOLEAN, NEW trunc \in BOOLEAN, OpenNew(path, append, trunc)
      PROVE  Fine
  <2>1. UNCHANGED <<cwd, spoilt>>
    BY <1>6 DEF OpenNew, OpenOn
  <2>. QED
    BY <1>1, <1>6, <2>1, OpenNewKeeps
<1>7. ASSUME NEW path \in Seq(Name), NEW append \in BOOLEAN, NEW writes \in BOOLEAN,
             OpenExisting(path, append, writes)
      PROVE  Fine
  <2>1. UNCHANGED <<cwd, spoilt>>
    BY <1>7 DEF OpenExisting, OpenOn
  <2>2. vfs' = vfs /\ FdsOK'
    BY <1>1, <1>7, OpenExistingKeeps
  <2>. QED
    BY <1>1, <1>2, <2>1, <2>2
<1>8. ASSUME NEW path \in Seq(Name), Mkdir(path) PROVE Fine
  <2>1. UNCHANGED <<fds, cwd, spoilt>>
    BY <1>8 DEF Mkdir
  <2>. QED
    BY <1>1, <1>8, <2>1, MkdirKeeps DEF FdsOK
<1>9. ASSUME NEW path \in Seq(Name), Unlink(path) PROVE Fine
  <2>1. UNCHANGED <<fds, cwd, spoilt>>
    BY <1>9 DEF Unlink
  <2>. QED
    BY <1>1, <1>9, <2>1, UnlinkKeeps DEF FdsOK
<1>10. ASSUME NEW old \in Seq(Name), NEW new \in Seq(Name), Rename(old, new) PROVE Fine
  <2>1. UNCHANGED <<fds, cwd>> /\ spoilt' \in BOOLEAN
    BY <1>10 DEF Rename, RenameFrom
  <2>2. ~spoilt' => TreeOK(vfs', {}) /\ EntriesKept(vfs, vfs')
    BY <1>1, <1>10, RenameKeeps
  <2>. QED
    BY <1>1, <2>1, <2>2 DEF FdsOK
<1>11. ASSUME NEW path \in Seq(Name), Chdir(path) PROVE Fine
  BY <1>1, <1>2, <1>11 DEF Chdir, FdsOK
<1>12. ASSUME NEW i \in 1..FdMax, WriteFd(i) PROVE Fine
  <2>1. UNCHANGED <<cwd, spoilt>>
    BY <1>12 DEF WriteFd
  <2>. QED
    BY <1>1, <1>12, <2>1, WriteFdKeeps
<1>13. ASSUME NEW i \in 1..FdMax, NEW off \in 0..SizeMax, CloseFd(i) \/ ReadFd(i) \/ Readdir(i) \/ Lseek(i, off)
       PROVE  Fine
  <2>1. UNCHANGED <<cwd, spoilt>>
    BY <1>13 DEF CloseFd, ReadFd, Readdir, Lseek
  <2>2. vfs' = vfs /\ FdsOK'
    BY <1>1, <1>13, OtherFdsKeep
  <2>. QED
    BY <1>1, <1>2, <2>1, <2>2
<1>14. Fine
  <2>. HIDE DEF Fine
  <2>1. ASSUME NEW p \in Inputs, Resolve(cwd, p) \in Seq(Name),
               LET path == Resolve(cwd, p) IN
               \/ \E type \in {"tmpfs", "initrd"} : Mount(path, type)
               \/ Umount(path)
               \/ OpenTruncate(path)
               \/ \E append \in BOOLEAN :
                     \/ \E trunc \in BOOLEAN : OpenNew(path, append, trunc)
                     \/ \E writes \in BOOLEAN : OpenExisting(path, append, writes)
               \/ Mkdir(path)
               \/ Unlink(path)
               \/ \E q \in Inputs : Rename(path, Resolve(cwd, q))
               \/ Chdir(path)
        PROVE  Fine
    <3>1. PICK path \in Seq(Name) : path = Resolve(cwd, p)
      BY <2>1
    <3>2. \A q \in Inputs : Resolve(cwd, q) \in Seq(Name)
      BY <1>1, ResolveIs
    <3>. QED
      BY <1>3, <1>4, <1>5, <1>6, <1>7, <1>8, <1>9, <1>10, <1>11, <2>1, <3>1, <3>2
  <2>2. ASSUME NEW i \in 1..FdMax,
               \/ CloseFd(i) \/ WriteFd(i) \/ ReadFd(i) \/ Readdir(i)
               \/ \E off \in 0..SizeMax : Lseek(i, off)
        PROVE  Fine
    <3>1. 0 \in 0..SizeMax
      BY VfsAssumption
    <3>. QED
      BY <1>12, <1>13, <2>2, <3>1
  <2>3. \A p \in Inputs : Resolve(cwd, p) \in Seq(Name)
    BY <1>1, ResolveIs
  <2>. QED
    BY <2>1, <2>2, <2>3 DEF VfsNext
<1>. QED
  BY <1>14 DEF VfsInv

\* The tree of files keeps its inductive invariant through all calls.
THEOREM VfsStaysWellFormed == VfsSpec => []VfsInv
<1>1. VfsInv /\ [VfsNext]_vfsVars => VfsInv'
  <2>1. ASSUME VfsInv, UNCHANGED vfsVars PROVE VfsInv'
    <3>1. vfs' = vfs /\ fds' = fds /\ cwd' = cwd /\ spoilt' = spoilt
      BY <2>1 DEF vfsVars
    <3>. QED
      BY <2>1, <3>1 DEF VfsInv, FdsOK
  <2>. QED
    BY <2>1, VfsStepIs
<1>. QED
  BY <1>1, VfsInitIs, PTL DEF VfsSpec

\* One of a set of nodes, or none.
LEMMA LinksCounted ==
    ASSUME TreeOK(vfs, {}), NEW n \in VNode
    PROVE  Cardinality(Links(n)) + Cardinality(RootLinks(n)) =
              IF n # BareRoot /\ vfs.node[n].kind # "none" THEN 1 ELSE 0
<1>1. Links(n) = {d \in VNode : n \in Kids(vfs, d)}
  BY DEF Links, Kids
<1>2. ASSUME n # BareRoot, Used(vfs, n), NEW d \in VNode, n \in Kids(vfs, d)
      PROVE  Links(n) = {d} /\ RootLinks(n) = {}
  <2>1. \A e \in VNode : n \in Kids(vfs, e) => e = d
    BY <1>2 DEF TreeOK, KidsOK
  <2>2. ASSUME NEW e \in VNode, n = vfs.node[e].root PROVE FALSE
    BY <1>2, <2>2, NodeNumbers DEF TreeOK, RootsOK
  <2>. QED
    BY <1>1, <1>2, <2>1, <2>2 DEF RootLinks
<1>3. ASSUME n # BareRoot, Used(vfs, n), NEW d \in VNode, n = vfs.node[d].root
      PROVE  Links(n) = {} /\ RootLinks(n) = {d}
  <2>1. vfs.node[d].root # Nil
    BY <1>3, NodeNumbers
  <2>2. \A e \in VNode : n \notin Kids(vfs, e)
    BY <1>3, <2>1 DEF TreeOK, RootsOK
  <2>3. \A e \in VNode : vfs.node[e].root = n => e = d
    BY <1>3, <2>1 DEF TreeOK, RootsOK
  <2>. QED
    BY <1>1, <1>3, <2>2, <2>3 DEF RootLinks
<1>4. ASSUME n = BareRoot \/ ~Used(vfs, n) PROVE Links(n) = {} /\ RootLinks(n) = {}
  <2>1. \A e \in VNode : n \notin Kids(vfs, e)
    BY <1>4 DEF TreeOK, KidsOK
  <2>2. ASSUME NEW e \in VNode, n = vfs.node[e].root PROVE FALSE
    <3>1. vfs.node[e].root # Nil
      BY <2>2, NodeNumbers
    <3>. QED
      BY <1>4, <2>2, <3>1 DEF TreeOK, RootsOK, Used
  <2>. QED
    BY <1>1, <2>1, <2>2 DEF RootLinks
<1>5. Cardinality({}) = 0 /\ \A d \in VNode : Cardinality({d}) = 1
  BY FS_EmptySet, FS_Singleton
<1>6. CASE n # BareRoot /\ Used(vfs, n)
  <2>1. PICK d \in VNode : n \in Kids(vfs, d) \/ n = vfs.node[d].root
    BY <1>6 DEF TreeOK, LinksOK, Linked
  <2>2. \/ Links(n) = {d} /\ RootLinks(n) = {}
        \/ Links(n) = {} /\ RootLinks(n) = {d}
    BY <1>2, <1>3, <1>6, <2>1
  <2>3. Cardinality(Links(n)) + Cardinality(RootLinks(n)) = 1
    BY <1>5, <2>2
  <2>. QED
    BY <1>6, <2>3 DEF Used
<1>7. CASE ~(n # BareRoot /\ Used(vfs, n))
  <2>1. Cardinality(Links(n)) + Cardinality(RootLinks(n)) = 0
    BY <1>4, <1>5, <1>7
  <2>. QED
    BY <1>7, <2>1 DEF Used
<1>. QED
  BY <1>6, <1>7

\* Each file has one name, and no link leads to a freed node: up to the rename
\* or the umount that spoils the tree, whatever programs call.
THEOREM TreeStaysSound == VfsSpec => []TreeSound
<1>1. VfsInv => TreeSound
  <2>. SUFFICES ASSUME VfsInv, ~spoilt
                PROVE  /\ \A n \in VNode : Cardinality(Links(n)) + Cardinality(RootLinks(n)) =
                             IF n # BareRoot /\ vfs.node[n].kind # "none" THEN 1 ELSE 0
                       /\ \A d \in VNode : LET kids == vfs.node[d].kids IN
                             /\ \A i \in DOMAIN kids : vfs.node[kids[i]].parent = d
                             /\ \A i, j \in DOMAIN kids : i # j => vfs.node[kids[i]].name # vfs.node[kids[j]].name
                       /\ \A n \in Range(vfs.free) : vfs.node[n].kind = "none"
                       /\ IsInjective(vfs.free)
                       /\ \A i \in DOMAIN vfs.mounts : vfs.node[vfs.mounts[i].at].root # Nil
    BY DEF TreeSound
  <2>1. TreeOK(vfs, {})
    BY DEF VfsInv
  <2>2. \A d \in VNode : /\ \A i \in DOMAIN vfs.node[d].kids : vfs.node[vfs.node[d].kids[i]].parent = d
                         /\ \A i, j \in DOMAIN vfs.node[d].kids :
                               i # j => vfs.node[vfs.node[d].kids[i]].name # vfs.node[vfs.node[d].kids[j]].name
    BY <2>1 DEF TreeOK, KidsOK, Kids, Range
  <2>3. (\A n \in Range(vfs.free) : vfs.node[n].kind = "none") /\ IsInjective(vfs.free)
    BY <2>1 DEF TreeOK, PoolOK, Range, Used
  <2>4. \A i \in DOMAIN vfs.mounts : vfs.node[vfs.mounts[i].at].root # Nil
    BY <2>1 DEF TreeOK, MountsOK
  <2>. QED
    BY <2>1, <2>2, <2>3, <2>4, LinksCounted
<1>. QED
  BY <1>1, VfsStaysWellFormed, PTL

\* No call changes the entries of a directory of the initrd while it is mounted.
THEOREM ReadOnlyStays == VfsSpec => ReadOnlyKept
<1>. DEFINE Kept == \A n \in VNode : vfs.node[n].readonly /\ vfs'.node[n].readonly /\ ~spoilt'
                       => vfs'.node[n].kids = vfs.node[n].kids
<1>1. VfsInv /\ [VfsNext]_vfsVars => [Kept]_vfsVars
  BY VfsStepIs DEF EntriesKept
<1>. QED
  BY <1>1, VfsStaysWellFormed, PTL DEF VfsSpec, ReadOnlyKept
=============================================================================
